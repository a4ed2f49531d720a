----------------------------- MODULE UartDriver -----------------------------
(***************************************************************************)
(* The interrupt-driven UART driver (uart/uart.c, as built without         *)
(* _UART_NO_INTERRUPTS_): two ring buffers between the program and         *)
(* uart_isr, which runs between any two steps of a call unless the         *)
(* controller masks it.  intrAvail = FALSE is the polled driver, which is  *)
(* all that is left of uart.c with _UART_NO_INTERRUPTS_, and is            *)
(* local_uart.c.                                                           *)
(*                                                                         *)
(* A counter that program and handler share is updated in two steps, load  *)
(* and store.                                                              *)
(***************************************************************************)
EXTENDS LocalUart

CONSTANT SIZE   \* UART_BUFFER_SIZE

ASSUME BufferAssumption == SIZE \in Nat /\ SIZE >= 1

VARIABLES
  intrAvail, fifoenable,
  rxBuffer, rxReadLoc, rxWriteLoc, rxDataBytes,
  txBuffer, txReadLoc, txWriteLoc, txDataBytes,
  ier,       \* this_uart->ier
  dev_ier,   \* the device's register
  masked,    \* pic_int_disable
  acc        \* the counter as loaded

rxVars == <<rxBuffer, rxReadLoc, rxWriteLoc, rxDataBytes>>
txVars == <<txBuffer, txReadLoc, txWriteLoc, txDataBytes>>
irqVars == <<ier, dev_ier, masked>>
fixedVars == <<intrAvail, fifoenable>>
vars == <<fifoVars, lineVars, callVars, fixedVars, rxVars, txVars, irqVars, acc>>

(* Both locations wrap by comparison.  Mutant: one character too late.     *)
WrapLate(loc) == IF loc + 1 > SIZE THEN 0 ELSE loc + 1
Wrap(loc) == IF loc + 1 >= SIZE THEN 0 ELSE loc + 1

----------------------------------------------------------------------------
(* uart_isr.  The device asks for the highest of its enabled causes.       *)

RxCause == "rx" \in dev_ier /\ RxRdy
TxCause == "tx" \in dev_ier /\ TxRdy
Irq == intrAvail /\ ~masked /\ (RxCause \/ TxCause)

(* A buffer that gets full stops the receive interrupt.  Mutant: never.    *)
IerFullIgnored(bytes) == ier
IerAfterRx(bytes) == IF bytes = SIZE THEN ier \ {"rx"} ELSE ier

(* A character with an error is taken from the device and dropped: it      *)
(* overwrites a free place.                                                *)
IsrRx ==
  /\ Irq /\ RxCause
  /\ rxfifo' = Tail(rxfifo) /\ UNCHANGED txfifo
  /\ rxBuffer' = [rxBuffer EXCEPT ![rxWriteLoc] = Head(rxfifo).byte]
  /\ IF Head(rxfifo).err
     THEN UNCHANGED <<rxWriteLoc, rxDataBytes, ier, dev_ier>>
     ELSE /\ rxWriteLoc' = Wrap(rxWriteLoc)
          /\ rxDataBytes' = rxDataBytes + 1
          /\ ier' = IerAfterRx(rxDataBytes + 1) /\ dev_ier' = ier'
  /\ UNCHANGED <<rxReadLoc, txVars, masked, lineVars, callVars, fixedVars, acc>>

(* How many characters one interrupt sends: the device's FIFO is empty.    *)
Burst ==
  IF ~fifoenable THEN (IF txDataBytes = 0 THEN 0 ELSE 1)
  ELSE IF txDataBytes > DEPTH THEN DEPTH ELSE txDataBytes

(* Mutant: the interrupt stays on, or goes off with characters left.       *)
IerTxKept(left) == ier
IerTxCut(left) == ier \ {"tx"}
IerAfterTx(left) == IF left = 0 THEN ier \ {"tx"} ELSE ier

(* The place i characters after loc.                                       *)
At(loc, i) == IF loc + i >= SIZE THEN loc + i - SIZE ELSE loc + i

IsrTx ==
  /\ Irq /\ ~RxCause /\ TxCause
  /\ txfifo' = txfifo \o [i \in 1..Burst |-> txBuffer[At(txReadLoc, i - 1)]]
  /\ txReadLoc' = At(txReadLoc, Burst)
  /\ txDataBytes' = txDataBytes - Burst
  /\ ier' = IerAfterTx(txDataBytes - Burst) /\ dev_ier' = ier'
  /\ UNCHANGED <<rxfifo, txBuffer, txWriteLoc, rxVars, masked, lineVars, callVars, fixedVars, acc>>

----------------------------------------------------------------------------
(* uart_getc and uart_putc with interrupts.  Until they disable them they  *)
(* touch only what the handler leaves alone.                               *)

Getc ==
  /\ Calling("getc", "check")
  /\ IF rxDataBytes > 0 THEN rxReadLoc' = Wrap(rxReadLoc) /\ Goto("load")
     ELSE /\ UNCHANGED rxReadLoc
          /\ IF call.blocking THEN UNCHANGED callVars ELSE Return
  /\ UNCHANGED <<rxBuffer, rxWriteLoc, rxDataBytes, txVars, irqVars, acc>>

(* Mutant: a full buffer is overwritten.                                   *)
PutcOverwrites ==
  /\ Calling("putc", "check")
  /\ txBuffer' = [txBuffer EXCEPT ![txWriteLoc] = call.byte]
  /\ txWriteLoc' = Wrap(txWriteLoc) /\ Goto("load")
  /\ UNCHANGED <<txReadLoc, txDataBytes, rxVars, irqVars, acc>>
Putc ==
  /\ Calling("putc", "check")
  /\ IF txDataBytes # SIZE
     THEN /\ txBuffer' = [txBuffer EXCEPT ![txWriteLoc] = call.byte]
          /\ txWriteLoc' = Wrap(txWriteLoc) /\ Goto("load")
     ELSE /\ UNCHANGED <<txBuffer, txWriteLoc>>
          /\ IF call.blocking THEN UNCHANGED callVars ELSE Return
  /\ UNCHANGED <<txReadLoc, txDataBytes, rxVars, irqVars, acc>>

(* pic_int_disable, and the counter is loaded.  Mutant: not disabled.      *)
Counter == IF call.fn = "getc" THEN rxDataBytes ELSE txDataBytes

LoadUnmasked ==
  /\ pc = "load" /\ Goto("store")
  /\ acc' = Counter
  /\ UNCHANGED <<irqVars, rxVars, txVars>>
Load ==
  /\ pc = "load" /\ Goto("store")
  /\ masked' = TRUE /\ acc' = Counter
  /\ UNCHANGED <<ier, dev_ier, rxVars, txVars>>

(* The counter is stored, the interrupt enabled, pic_int_enable.           *)
(* Mutant: the interrupt is not enabled.                                   *)
EnabledNot(fn) == ier
Enabled(fn) == ier \cup {IF fn = "getc" THEN "rx" ELSE "tx"}

Store ==
  /\ pc = "store" /\ Return
  /\ acc' = 0 /\ masked' = FALSE
  /\ ier' = Enabled(call.fn) /\ dev_ier' = ier'
  /\ \/ /\ call.fn = "getc" /\ rxDataBytes' = acc - 1
        /\ UNCHANGED <<rxBuffer, rxReadLoc, rxWriteLoc, txVars>>
     \/ /\ call.fn = "putc" /\ txDataBytes' = acc + 1
        /\ UNCHANGED <<txBuffer, txReadLoc, txWriteLoc, rxVars>>

Buffered ==
  /\ intrAvail
  /\ Getc \/ Putc \/ Load \/ Store
  /\ UNCHANGED <<fifoVars, lineVars>>

Polled ==
  /\ ~intrAvail
  /\ PolledGetc \/ PolledPutc
  /\ UNCHANGED <<lineVars, rxVars, txVars, irqVars, acc>>

(* uart_config and uart_set_rate, the interrupt off between the divisor's  *)
(* two halves.                                                             *)
Line ==
  /\ \/ Config /\ UNCHANGED masked
     \/ Calling("set_rate", "check") /\ SetRate /\ masked' = (intrAvail /\ pc' = "msb")
     \/ Calling("set_rate", "msb") /\ RateMsb /\ masked' = FALSE
  /\ UNCHANGED <<fifoVars, rxVars, txVars, ier, dev_ier, acc>>

Calls ==
  [fn : {"getc"}, blocking : BOOLEAN] \cup [fn : {"putc"}, byte : Byte, blocking : BOOLEAN]
  \cup [fn : {"config"}, frame : Frames] \cup [fn : {"set_rate"}, rate : Rates]

Call ==
  /\ call = None /\ call' \in Calls /\ pc' = "check"
  /\ UNCHANGED <<fifoVars, lineVars, rxVars, txVars, irqVars, acc>>

Isr == IsrRx \/ IsrTx

Device ==
  /\ Arrive \/ Shift
  /\ UNCHANGED <<lineVars, callVars, rxVars, txVars, irqVars, acc>>

(* The next step of the call under way.                                    *)
Proceed == (Buffered \/ Polled \/ Line) /\ UNCHANGED fixedVars

(* What the buffers hold before the first character.                       *)
Erased == CHOOSE b \in Byte : TRUE

(* uart_init enables the receive interrupt: an empty transmit buffer has   *)
(* nothing to be enabled for.                                              *)
Init ==
  /\ intrAvail \in BOOLEAN /\ fifoenable \in BOOLEAN
  /\ UartInit \/ (~intrAvail /\ LocalUartInit)
  /\ rxfifo = <<>> /\ txfifo = <<>>
  /\ call = None /\ pc = "idle" /\ acc = 0 /\ masked = FALSE
  /\ ier = (IF intrAvail THEN {"rx"} ELSE {}) /\ dev_ier = ier
  /\ rxReadLoc = 0 /\ rxWriteLoc = 0 /\ rxDataBytes = 0
  /\ txReadLoc = 0 /\ txWriteLoc = 0 /\ txDataBytes = 0
  /\ rxBuffer = [i \in 0..(SIZE - 1) |-> Erased] /\ txBuffer = rxBuffer

Fixed == UNCHANGED fixedVars

Next ==
  \/ Call /\ Fixed
  \/ Device /\ Fixed
  \/ Proceed
  \/ Isr

Spec == Init /\ [][Next]_vars

(* Handler and processor are fast against the line: characters that keep   *)
(* coming keep neither the transmit interrupt nor the call from its turn.  *)
FairSpec ==
  /\ Spec
  /\ WF_vars(IsrRx) /\ SF_vars(IsrTx) /\ SF_vars(Proceed /\ ~Irq)
  /\ WF_vars(Shift /\ Device /\ Fixed)

----------------------------------------------------------------------------
Indices == 0..(SIZE - 1)

(* A call between moving its location and updating its counter.            *)
Pending(fn) == call.fn = fn /\ pc \in {"load", "store"}

RingTypeOK ==
  /\ {rxReadLoc, rxWriteLoc, txReadLoc, txWriteLoc} \subseteq Indices
  /\ {rxDataBytes, txDataBytes} \subseteq 0..SIZE
  /\ rxBuffer \in [Indices -> Byte] /\ txBuffer \in [Indices -> Byte]

FifosTypeOK ==
  /\ txfifo \in Seq(Byte) /\ rxfifo \in Seq([byte : Byte, err : BOOLEAN])
  /\ Len(rxfifo) <= WAITING /\ Len(txfifo) <= DEPTH

CallTypeOK ==
  /\ call \in Calls \cup {None} /\ (call = None <=> pc = "idle")
  /\ pc \in {"idle", "check", "load", "store", "msb"}
  /\ acc \in 0..SIZE /\ dev_ier = ier /\ ier \subseteq {"rx", "tx"}
  /\ intrAvail \in BOOLEAN /\ fifoenable \in BOOLEAN /\ masked \in BOOLEAN

LineTypeOK ==
  /\ baudrate \in Rates \ {0} /\ databits \in 5..8 /\ stopbits \in 1..2
  /\ lcr \in 0..255 /\ dlr \in [lsb : 0..255, msb : 0..255]

UartTypeOK == RingTypeOK /\ FifosTypeOK /\ CallTypeOK /\ LineTypeOK

(* The buffers are rings: the write location is as far ahead of the read   *)
(* location as there are characters, those of a call under way included,   *)
(* and the counter that a call has loaded is not changed under it          *)
(* (uart.c 88-100, 135-142, 246-260, 307-320).                             *)
RingInv ==
  /\ txWriteLoc = At(txReadLoc, txDataBytes + (IF Pending("putc") THEN 1 ELSE 0))
  /\ rxWriteLoc = At(rxReadLoc, rxDataBytes - (IF Pending("getc") THEN 1 ELSE 0))
  /\ Pending("getc") => rxDataBytes > 0
  /\ Pending("putc") => txDataBytes < SIZE
  /\ masked <=> intrAvail /\ pc \in {"store", "msb"}
  /\ pc = "store" => acc = Counter
  /\ ~intrAvail => rxDataBytes = 0 /\ txDataBytes = 0 /\ pc \notin {"load", "store"}

(* No interrupt is forgotten: the device may ask for room as long as there *)
(* is some, and for characters as long as there are any                    *)
(* (uart.c 101-107, 129-134, 256-258, 316-319).                            *)
IerAgrees ==
  intrAvail =>
    /\ "rx" \in ier <=> rxDataBytes < SIZE
    /\ "tx" \in ier <=> txDataBytes > 0

(* All of it: an inductive invariant.                                      *)
UartInv == UartTypeOK /\ RingInv /\ IerAgrees

(* The device's line settings are those that the instance keeps, but       *)
(* between the two halves of the divisor, when the handler cannot run      *)
(* (uart.c 360-466).                                                       *)
Divisor(rate) == SYS_CLK \div rate
LineAgrees ==
  /\ lcr % 8 = (databits - 5) + 4 * (stopbits - 1)
  /\ pc = "msb" => ~Irq /\ dlr.lsb = Lsb(baudrate)
  /\ pc # "msb" /\ Divisor(baudrate) < 65536 => dlr.msb * 256 + dlr.lsb = Divisor(baudrate)

(* The characters between the line and the program, in either direction.   *)
Ring(buffer, loc, n) == [i \in 1..n |-> buffer[At(loc, i - 1)]]
Good(w) == ~intrAvail \/ ~w.err
RxContents ==
  Ring(rxBuffer, rxReadLoc, rxDataBytes - (IF Pending("getc") THEN 1 ELSE 0))
    \o LET good == SelectSeq(rxfifo, Good) IN [i \in 1..Len(good) |-> good[i].byte]
TxContents ==
  txfifo \o Ring(txBuffer, txReadLoc, txDataBytes + (IF Pending("putc") THEN 1 ELSE 0))

(* Every character received without an error is handed out once and in     *)
(* order, and only uart_getc takes one; every character accepted is sent   *)
(* once and in order, and only the line takes one, whatever the            *)
(* interleaving of handler and calls (uart.c 64-165, 229-344).             *)
Continues(s, t) == Len(t) >= Len(s) /\ SubSeq(t, 1, Len(s)) = s

Rx == INSTANCE WordQueue WITH Data <- Byte, CAP <- SIZE + WAITING, queue <- RxContents
RxIsQueue ==
  /\ Rx!QueueSpec
  /\ [][Calling("getc", "check") \/ Continues(RxContents, RxContents')]_vars

Tx == INSTANCE WordQueue WITH Data <- Byte, CAP <- SIZE + DEPTH, queue <- TxContents
TxIsQueue ==
  /\ Tx!QueueSpec
  /\ [][Shift \/ Continues(TxContents, TxContents')]_vars

(* A call of uart_putc returns; if there are no more, everything that was  *)
(* accepted is sent (uart.c 112-150, 289-344).                             *)
PutcReturns == []<>(call.fn # "putc")
TxDrains == []<>(call # None \/ TxContents = <<>>)
=============================================================================
