------------------------- MODULE UartDriver_proofs -------------------------
(* Proofs about UartDriver, for every buffer, FIFO, character set, clock   *)
(* and rate.                                                               *)
EXTENDS UartDriver, SequenceTheorems, TLAPS

USE UartAssumption, BufferAssumption

(* What a call carries.                                                    *)
LEMMA CallFields ==
  ASSUME call \in Calls \cup {None}
  PROVE  /\ call.fn \in {"none", "getc", "putc", "config", "set_rate"}
         /\ call.fn = "none" <=> call = None
         /\ call.fn = "putc" => call.byte \in Byte
         /\ call.fn = "config" => call.frame \in Frames
         /\ call.fn = "set_rate" => call.rate \in Rates
  BY DEF Calls, None

(* Places of a ring.                                                       *)
LEMMA AtIndex ==
  ASSUME NEW loc \in Indices, NEW i \in 0..SIZE
  PROVE  At(loc, i) \in Indices
  BY DEF At, Indices

LEMMA WrapIsAt ==
  ASSUME NEW loc \in Indices
  PROVE  Wrap(loc) = At(loc, 1) /\ Wrap(loc) \in Indices
  BY DEF At, Wrap, Indices

LEMMA AtAt ==
  ASSUME NEW loc \in Indices, NEW i \in 0..SIZE, NEW j \in 0..SIZE, i + j <= SIZE
  PROVE  At(At(loc, i), j) = At(loc, i + j)
  BY DEF At, Indices

(* What uart_isr takes and sends fits.                                     *)
LEMMA BurstFits ==
  ASSUME UartInv
  PROVE  Burst \in 0..DEPTH /\ Burst <= txDataBytes /\ (txDataBytes > 0 => Burst > 0)
  BY DEF Burst, UartInv, UartTypeOK, RingTypeOK

----------------------------------------------------------------------------
(* uart_init.                                                              *)
LEMMA LineBytes ==
  ASSUME NEW rate \in Rates \ {0}
  PROVE  Lsb(rate) \in 0..255 /\ Msb(rate) \in 0..255
<1>1. SYS_CLK \div rate \in Nat
  OBVIOUS
<1> QED BY <1>1 DEF Lsb, Msb

LEMMA LcrByte ==
  ASSUME NEW f \in Frames, ValidFrame(f)
  PROVE  Lcr(f) \in 0..31 /\ Lcr(f) % 8 = (f.dwidth - 5) + 4 * (f.stopbits - 1)
  BY DEF Lcr, Width, ValidFrame

LEMMA InitUartInv == Init => UartInv
<1> SUFFICES ASSUME Init PROVE UartInv
  OBVIOUS
<1>1. LineTypeOK
  <2>1. CASE UartInit
    <3>1. PICK f \in Frames, rate \in Rates \ {0} : ValidFrame(f) /\ LineIs(f, rate)
      BY <2>1 DEF UartInit
    <3> QED BY <3>1, LineBytes, LcrByte DEF LineIs, ValidFrame, LineTypeOK
  <2>2. CASE LocalUartInit
    <3>1. PICK rate \in Rates \ {0} :
            /\ databits = 8 /\ stopbits = 1 /\ baudrate = rate
            /\ lcr = 3 /\ dlr = [lsb |-> Lsb(rate), msb |-> Msb(rate)]
      BY <2>2 DEF LocalUartInit, LineIs, Lcr, Width
    <3>2. Lsb(rate) \in 0..255 /\ Msb(rate) \in 0..255
      BY LineBytes
    <3>3. dlr \in [lsb : 0..255, msb : 0..255]
      BY <3>1, <3>2
    <3> QED BY <3>1, <3>3 DEF LineTypeOK
  <2> QED BY <2>1, <2>2 DEF Init
<1>2. RingTypeOK
  <2>1. Erased \in Byte
    BY DEF Erased
  <2> QED BY <2>1 DEF Init, RingTypeOK, Indices
<1>3. FifosTypeOK
  BY DEF Init, FifosTypeOK
<1>4. CallTypeOK
  <2>1. call = None /\ pc = "idle" /\ call \in Calls \cup {None}
    BY DEF Init
  <2>2. call = None <=> pc = "idle"
    BY <2>1
  <2>3. acc \in 0..SIZE /\ dev_ier = ier /\ ier \subseteq {"rx", "tx"}
    BY DEF Init
  <2>4. intrAvail \in BOOLEAN /\ fifoenable \in BOOLEAN /\ masked \in BOOLEAN
    BY DEF Init
  <2> QED BY <2>1, <2>2, <2>3, <2>4 DEF CallTypeOK
<1>5. RingInv
  <2>1. call.fn = "none" /\ pc = "idle"
    BY DEF Init, None
  <2>2. At(0, 0) = 0
    BY DEF At
  <2> QED BY <2>1, <2>2 DEF Init, RingInv, Pending
<1>6. IerAgrees
  BY DEF Init, IerAgrees
<1> QED BY <1>1, <1>2, <1>3, <1>4, <1>5, <1>6 DEF UartInv, UartTypeOK

----------------------------------------------------------------------------
(* The steps of a call.                                                    *)

LEMMA CallStep ==
  ASSUME UartInv, Call, Fixed
  PROVE  UartInv'
<1> USE DEF UartInv, UartTypeOK, Call, Fixed, fifoVars, lineVars, rxVars, txVars, irqVars, fixedVars
<1>1. RingTypeOK' /\ FifosTypeOK' /\ LineTypeOK' /\ IerAgrees'
  BY DEF RingTypeOK, FifosTypeOK, LineTypeOK, IerAgrees, Indices
<1>2. call' # None
  BY DEF Calls, None
<1>3. CallTypeOK'
  BY <1>2 DEF CallTypeOK
<1>4. RingInv'
  BY <1>2 DEF RingInv, Pending, At, CallTypeOK, Counter
<1> QED BY <1>1, <1>3, <1>4

LEMMA DeviceStep ==
  ASSUME UartInv, Device, Fixed
  PROVE  UartInv'
<1> USE DEF UartInv, UartTypeOK, Device, Fixed, lineVars, callVars, rxVars, txVars, irqVars, fixedVars
<1>1. RingTypeOK' /\ CallTypeOK' /\ LineTypeOK' /\ IerAgrees'
  BY DEF RingTypeOK, CallTypeOK, LineTypeOK, IerAgrees, Indices
<1>2. RingInv'
  BY DEF RingInv, Pending, At, Counter
<1>3. FifosTypeOK'
  <2>1. CASE Arrive
    <3>1. PICK b \in Byte, err \in BOOLEAN : rxfifo' = Append(rxfifo, [byte |-> b, err |-> err])
      BY <2>1 DEF Arrive
    <3>2. [byte |-> b, err |-> err] \in [byte : Byte, err : BOOLEAN]
      OBVIOUS
    <3> QED BY <2>1, <3>1, <3>2, AppendProperties DEF Arrive, FifosTypeOK
  <2>2. CASE Shift
    BY <2>2, HeadTailProperties DEF Shift, FifosTypeOK
  <2> QED BY <2>1, <2>2
<1> QED BY <1>1, <1>2, <1>3

LEMMA GetcStep ==
  ASSUME UartInv, intrAvail, Getc, UNCHANGED <<fifoVars, lineVars, fixedVars>>
  PROVE  UartInv'
<1> USE DEF UartInv, UartTypeOK, fifoVars, lineVars, txVars, irqVars, fixedVars
<1>1. FifosTypeOK' /\ LineTypeOK' /\ IerAgrees'
  BY DEF Getc, FifosTypeOK, LineTypeOK, IerAgrees
<1>2. call.fn = "getc" /\ pc = "check" /\ call # None
  BY DEF Getc, Calling, CallTypeOK
<1>3. CASE rxDataBytes > 0
  <2>1. rxReadLoc' = At(rxReadLoc, 1) /\ rxReadLoc' \in Indices /\ call' = call /\ pc' = "load"
    BY <1>3, WrapIsAt DEF Getc, Goto, RingTypeOK
  <2>2. RingTypeOK' /\ CallTypeOK'
    BY <1>2, <2>1 DEF Getc, RingTypeOK, CallTypeOK, Indices
  <2>3. rxWriteLoc = At(rxReadLoc', rxDataBytes - 1)
    <3>1. rxWriteLoc = At(rxReadLoc, 1 + (rxDataBytes - 1))
      BY <1>2 DEF RingInv, Pending, RingTypeOK
    <3> QED BY <1>3, <2>1, <3>1, AtAt DEF RingTypeOK
  <2>4. RingInv'
    BY <1>2, <1>3, <2>1, <2>3 DEF Getc, RingInv, Pending, At
  <2> QED BY <1>1, <2>2, <2>4
<1>4. CASE ~(rxDataBytes > 0)
  <2>1. rxReadLoc' = rxReadLoc /\ (UNCHANGED callVars \/ Return)
    BY <1>4 DEF Getc
  <2>2. RingTypeOK'
    BY <2>1 DEF Getc, RingTypeOK, Indices
  <2>3. CallTypeOK' /\ pc' \in {"check", "idle"} /\ call'.fn \in {"getc", "none"}
    BY <1>2, <2>1 DEF Getc, CallTypeOK, Return, callVars, None
  <2>4. RingInv'
    BY <1>2, <2>1, <2>3 DEF Getc, RingInv, Pending, At
  <2> QED BY <1>1, <2>2, <2>3, <2>4
<1> QED BY <1>3, <1>4

LEMMA PutcStep ==
  ASSUME UartInv, intrAvail, Putc, UNCHANGED <<fifoVars, lineVars, fixedVars>>
  PROVE  UartInv'
<1> USE DEF UartInv, UartTypeOK, fifoVars, lineVars, rxVars, irqVars, fixedVars
<1>1. FifosTypeOK' /\ LineTypeOK' /\ IerAgrees'
  BY DEF Putc, FifosTypeOK, LineTypeOK, IerAgrees
<1>2. call.fn = "putc" /\ pc = "check" /\ call # None /\ call.byte \in Byte
  BY CallFields DEF Putc, Calling, CallTypeOK
<1>3. CASE txDataBytes # SIZE
  <2>1. txWriteLoc' = At(txWriteLoc, 1) /\ txWriteLoc' \in Indices /\ call' = call /\ pc' = "load"
    BY <1>3, WrapIsAt DEF Putc, Goto, RingTypeOK
  <2>2. RingTypeOK' /\ CallTypeOK'
    BY <1>2, <1>3, <2>1 DEF Putc, RingTypeOK, CallTypeOK, Indices
  <2>3. txWriteLoc' = At(txReadLoc, txDataBytes + 1)
    <3>1. txWriteLoc = At(txReadLoc, txDataBytes)
      BY <1>2 DEF RingInv, Pending, RingTypeOK
    <3> QED BY <1>3, <2>1, <3>1, AtAt DEF RingTypeOK
  <2>4. RingInv'
    BY <1>2, <1>3, <2>1, <2>3 DEF Putc, RingInv, Pending, At, RingTypeOK
  <2> QED BY <1>1, <2>2, <2>4
<1>4. CASE ~(txDataBytes # SIZE)
  <2>1. txWriteLoc' = txWriteLoc /\ txBuffer' = txBuffer /\ (UNCHANGED callVars \/ Return)
    BY <1>4 DEF Putc
  <2>2. RingTypeOK'
    BY <2>1 DEF Putc, RingTypeOK, Indices
  <2>3. CallTypeOK' /\ pc' \in {"check", "idle"} /\ call'.fn \in {"putc", "none"}
    BY <1>2, <2>1 DEF Putc, CallTypeOK, Return, callVars, None
  <2>4. RingInv'
    BY <1>2, <2>1, <2>3 DEF Putc, RingInv, Pending, At
  <2> QED BY <1>1, <2>2, <2>3, <2>4
<1> QED BY <1>3, <1>4

LEMMA LoadStep ==
  ASSUME UartInv, intrAvail, Load, UNCHANGED <<fifoVars, lineVars, fixedVars>>
  PROVE  UartInv'
<1> USE DEF UartInv, UartTypeOK, fifoVars, lineVars, rxVars, txVars, fixedVars
<1>1. FifosTypeOK' /\ LineTypeOK' /\ IerAgrees' /\ RingTypeOK'
  BY DEF Load, FifosTypeOK, LineTypeOK, IerAgrees, RingTypeOK, Indices
<1>2. pc = "load" /\ pc' = "store" /\ call' = call /\ masked' = TRUE /\ acc' = Counter
  BY DEF Load, Goto
<1>3. Counter \in 0..SIZE
  BY DEF Counter, RingTypeOK
<1>4. CallTypeOK'
  BY <1>2, <1>3 DEF Load, CallTypeOK
<1>5. RingInv'
  BY <1>2 DEF Load, RingInv, Pending, At, Counter
<1> QED BY <1>1, <1>4, <1>5

LEMMA StoreStep ==
  ASSUME UartInv, intrAvail, Store, UNCHANGED <<fifoVars, lineVars, fixedVars>>
  PROVE  UartInv'
<1> USE DEF UartInv, UartTypeOK, fifoVars, lineVars, rxVars, txVars, fixedVars
<1>1. FifosTypeOK' /\ LineTypeOK'
  BY DEF FifosTypeOK, LineTypeOK
<1>2. pc = "store" /\ pc' = "idle" /\ call' = None /\ call'.fn = "none" /\ masked' = FALSE /\ acc' = 0
  BY DEF Store, Return, None
<1>3. ier' = Enabled(call.fn) /\ dev_ier' = ier'
  BY DEF Store
<1>4. CallTypeOK'
  <2>1. ier' \subseteq {"rx", "tx"}
    BY <1>3 DEF CallTypeOK, Enabled
  <2>2. call' \in Calls \cup {None}
    BY <1>2
  <2>3. masked' \in BOOLEAN /\ intrAvail' \in BOOLEAN /\ fifoenable' \in BOOLEAN
    BY <1>2 DEF CallTypeOK
  <2>4. call' = None <=> pc' = "idle"
    BY <1>2
  <2>5. acc' \in 0..SIZE /\ pc' \in {"idle", "check", "load", "store", "msb"}
    BY <1>2
  <2> QED BY <1>3, <2>1, <2>2, <2>3, <2>4, <2>5 DEF CallTypeOK
<1>5. CASE call.fn = "getc"
  <2>1. rxDataBytes' = rxDataBytes - 1 /\ rxDataBytes > 0 /\ ier' = ier \cup {"rx"}
    BY <1>2, <1>3, <1>5 DEF Store, RingInv, Counter, Pending, Enabled
  <2>2. UNCHANGED <<rxBuffer, rxReadLoc, rxWriteLoc, txBuffer, txReadLoc, txWriteLoc, txDataBytes>>
    BY <1>5 DEF Store
  <2>3. RingTypeOK'
    BY <2>1, <2>2 DEF RingTypeOK, Indices
  <2>4. RingInv'
    BY <1>2, <1>5, <2>1, <2>2 DEF RingInv, Pending, At, RingTypeOK
  <2>5. IerAgrees'
    BY <2>1, <2>2 DEF IerAgrees, RingTypeOK
  <2> QED BY <1>1, <1>4, <2>3, <2>4, <2>5
<1>6. CASE call.fn = "putc"
  <2>1. txDataBytes' = txDataBytes + 1 /\ txDataBytes < SIZE /\ ier' = ier \cup {"tx"}
    BY <1>2, <1>3, <1>6 DEF Store, RingInv, Counter, Pending, Enabled
  <2>2. UNCHANGED <<txBuffer, txReadLoc, txWriteLoc, rxBuffer, rxReadLoc, rxWriteLoc, rxDataBytes>>
    BY <1>6 DEF Store
  <2>3. RingTypeOK'
    BY <2>1, <2>2 DEF RingTypeOK, Indices
  <2>4. RingInv'
    BY <1>2, <1>6, <2>1, <2>2 DEF RingInv, Pending, At, RingTypeOK
  <2>5. IerAgrees'
    BY <2>1, <2>2 DEF IerAgrees, RingTypeOK
  <2> QED BY <1>1, <1>4, <2>3, <2>4, <2>5
<1> QED BY <1>5, <1>6 DEF Store

LEMMA PolledStep ==
  ASSUME UartInv, Polled, Fixed
  PROVE  UartInv'
<1> USE DEF UartInv, UartTypeOK, Polled, Fixed, lineVars, rxVars, txVars, irqVars, fixedVars
<1>1. RingTypeOK' /\ LineTypeOK' /\ IerAgrees'
  BY DEF RingTypeOK, LineTypeOK, IerAgrees, Indices
<1>2. pc = "check" /\ call.fn \in {"getc", "putc"} /\ (UNCHANGED callVars \/ Return)
  BY DEF PolledGetc, PolledPutc, Calling
<1>3. CallTypeOK' /\ pc' \in {"check", "idle"}
  BY <1>2 DEF CallTypeOK, callVars, Return
<1>4. RingInv'
  BY <1>2, <1>3 DEF RingInv, Pending, At
<1>5. FifosTypeOK'
  <2>1. CASE PolledGetc
    <3>1. UNCHANGED txfifo /\ (UNCHANGED rxfifo \/ (rxfifo # <<>> /\ rxfifo' = Tail(rxfifo)))
      BY <2>1 DEF PolledGetc, RxRdy
    <3> QED BY <3>1, HeadTailProperties DEF FifosTypeOK
  <2>2. CASE PolledPutc
    <3>1. call.byte \in Byte
      BY <2>2, CallFields DEF PolledPutc, Calling, CallTypeOK
    <3>2. <<call.byte>> \in Seq(Byte) /\ Len(<<call.byte>>) = 1
      BY <3>1
    <3>3. UNCHANGED rxfifo /\ (UNCHANGED txfifo \/ txfifo' = <<call.byte>>)
      BY <2>2 DEF PolledPutc
    <3>4. txfifo' \in Seq(Byte) /\ Len(txfifo') <= DEPTH
      <4> DEFINE written == <<call.byte>>
      <4>1. written \in Seq(Byte) /\ Len(written) <= DEPTH
        BY <3>2
      <4>2. txfifo' = txfifo \/ txfifo' = written
        BY <3>3
      <4> HIDE DEF written
      <4> QED BY <4>1, <4>2 DEF FifosTypeOK
    <3> QED BY <3>3, <3>4 DEF FifosTypeOK
  <2> QED BY <2>1, <2>2
<1> QED BY <1>1, <1>3, <1>4, <1>5

LEMMA LineStep ==
  ASSUME UartInv, Line, Fixed
  PROVE  UartInv'
<1> USE DEF UartInv, UartTypeOK, Line, Fixed, fifoVars, rxVars, txVars, fixedVars
<1>1. RingTypeOK' /\ FifosTypeOK' /\ IerAgrees'
  BY DEF RingTypeOK, FifosTypeOK, IerAgrees, Indices
<1>2. CASE Config /\ UNCHANGED masked
  <2>1. call.fn = "config" /\ pc = "check" /\ call' = None /\ pc' = "idle" /\ call.frame \in Frames
    BY <1>2, CallFields DEF Config, Calling, Return, CallTypeOK
  <2>2. LineTypeOK'
    BY <1>2, <2>1, LcrByte DEF Config, LineTypeOK, ValidFrame
  <2>3. CallTypeOK'
    BY <1>2, <2>1 DEF CallTypeOK
  <2>4. RingInv'
    BY <1>2, <2>1 DEF RingInv, Pending, At
  <2> QED BY <1>1, <2>2, <2>3, <2>4
<1>3. CASE Calling("set_rate", "check") /\ SetRate /\ masked' = (intrAvail /\ pc' = "msb")
  <2>1. call.fn = "set_rate" /\ pc = "check" /\ call.rate \in Rates /\ call # None
    BY <1>3, CallFields DEF Calling, CallTypeOK
  <2>2. (call' = None /\ pc' = "idle") \/ (call' = call /\ pc' = "msb")
    <3>1. SetRate
      BY <1>3
    <3> QED BY <3>1 DEF SetRate, Return, Goto
  <2>3. LineTypeOK'
    BY <1>3, <2>1, LineBytes DEF SetRate, LineTypeOK, lineVars
  <2>4. CallTypeOK'
    BY <1>3, <2>1, <2>2 DEF CallTypeOK
  <2>5. RingInv'
    BY <1>3, <2>1, <2>2 DEF RingInv, Pending, At
  <2> QED BY <1>1, <2>3, <2>4, <2>5
<1>4. CASE Calling("set_rate", "msb") /\ RateMsb /\ masked' = FALSE
  <2>1. call.fn = "set_rate" /\ pc = "msb" /\ call' = None /\ pc' = "idle"
    BY <1>4 DEF Calling, RateMsb, Return
  <2>2. LineTypeOK'
    BY <1>4, LineBytes DEF RateMsb, LineTypeOK
  <2>3. CallTypeOK'
    BY <1>4, <2>1 DEF CallTypeOK
  <2>4. RingInv'
    BY <1>4, <2>1 DEF RingInv, Pending, At
  <2> QED BY <1>1, <2>2, <2>3, <2>4
<1> QED BY <1>2, <1>3, <1>4

----------------------------------------------------------------------------
(* The handler.                                                            *)

LEMMA IsrRxStep ==
  ASSUME UartInv, IsrRx
  PROVE  UartInv'
<1> USE DEF UartInv, UartTypeOK, lineVars, callVars, txVars, fixedVars
<1>1. LineTypeOK' /\ UNCHANGED <<call, pc, acc, masked, intrAvail, fifoenable>>
  BY DEF IsrRx, LineTypeOK
<1>2. intrAvail /\ ~masked /\ pc # "store" /\ rxDataBytes < SIZE /\ rxfifo # <<>>
  BY DEF IsrRx, Irq, RxCause, RxRdy, RingInv, IerAgrees, CallTypeOK
<1>3. FifosTypeOK' /\ Head(rxfifo).byte \in Byte
  <2>1. Head(rxfifo) \in [byte : Byte, err : BOOLEAN]
    BY <1>2, HeadTailProperties DEF FifosTypeOK
  <2>2. rxfifo' = Tail(rxfifo) /\ UNCHANGED txfifo
    BY DEF IsrRx
  <2> QED BY <1>2, <2>1, <2>2, HeadTailProperties DEF FifosTypeOK
<1>4. rxBuffer' \in [Indices -> Byte]
  BY <1>3 DEF IsrRx, RingTypeOK
<1>5. UNCHANGED <<rxReadLoc, txBuffer, txReadLoc, txWriteLoc, txDataBytes>>
  BY DEF IsrRx
<1>6. CASE Head(rxfifo).err
  <2>1. UNCHANGED <<rxWriteLoc, rxDataBytes, ier, dev_ier>>
    BY <1>6 DEF IsrRx
  <2>2. RingTypeOK' /\ CallTypeOK' /\ RingInv' /\ IerAgrees'
    BY <1>1, <1>2, <1>4, <1>5, <2>1 DEF RingTypeOK, CallTypeOK, RingInv, IerAgrees, Pending, At, Indices
  <2> QED BY <1>1, <1>3, <2>2
<1>7. CASE ~Head(rxfifo).err
  <2>1. /\ rxWriteLoc' = At(rxWriteLoc, 1) /\ rxWriteLoc' \in Indices
        /\ rxDataBytes' = rxDataBytes + 1
        /\ ier' = IerAfterRx(rxDataBytes + 1) /\ dev_ier' = ier'
    BY <1>7, WrapIsAt DEF IsrRx, RingTypeOK
  <2>2. RingTypeOK'
    BY <1>2, <1>4, <1>5, <2>1 DEF RingTypeOK, Indices
  <2>3. CallTypeOK'
    BY <1>1, <2>1 DEF CallTypeOK, IerAfterRx
  <2>4. IerAgrees'
    BY <1>1, <1>2, <1>5, <2>1 DEF IerAgrees, IerAfterRx, RingTypeOK
  <2>5. RingInv'
    <3> DEFINE p == IF Pending("getc") THEN 1 ELSE 0
    <3>1. rxDataBytes - p \in 0..SIZE /\ rxWriteLoc = At(rxReadLoc, rxDataBytes - p)
      BY DEF RingInv, RingTypeOK
    <3>2. rxWriteLoc' = At(rxReadLoc, (rxDataBytes - p) + 1)
      BY <1>2, <2>1, <3>1, AtAt DEF RingTypeOK
    <3>3. rxWriteLoc' = At(rxReadLoc', rxDataBytes' - (IF Pending("getc")' THEN 1 ELSE 0))
      BY <1>1, <1>5, <2>1, <3>1, <3>2 DEF Pending, RingTypeOK
    <3> QED BY <1>1, <1>2, <1>5, <2>1, <3>3 DEF RingInv, Pending, RingTypeOK, At
  <2> QED BY <1>1, <1>3, <2>2, <2>3, <2>4, <2>5
<1> QED BY <1>6, <1>7

LEMMA IsrTxStep ==
  ASSUME UartInv, IsrTx
  PROVE  UartInv'
<1> USE DEF UartInv, UartTypeOK, lineVars, callVars, rxVars, fixedVars
<1>1. LineTypeOK' /\ UNCHANGED <<call, pc, acc, masked, intrAvail, fifoenable>>
  BY DEF IsrTx, LineTypeOK
<1>2. intrAvail /\ ~masked /\ pc # "store" /\ txDataBytes > 0 /\ txfifo = <<>>
  BY DEF IsrTx, Irq, TxCause, TxRdy, RingInv, IerAgrees, CallTypeOK
<1>3. Burst \in 1..SIZE /\ Burst <= DEPTH /\ Burst <= txDataBytes
  BY <1>2, BurstFits DEF RingTypeOK
<1>4. FifosTypeOK'
  <2> DEFINE sent == [i \in 1..Burst |-> txBuffer[At(txReadLoc, i - 1)]]
  <2>1. sent \in Seq(Byte) /\ Len(sent) = Burst
    <3>1. \A i \in 1..Burst : txBuffer[At(txReadLoc, i - 1)] \in Byte
      BY <1>3, AtIndex DEF RingTypeOK
    <3> QED BY <1>3, <3>1
  <2>2. txfifo' = <<>> \o sent
    BY <1>2 DEF IsrTx
  <2>3. txfifo' = sent
    BY <2>1, <2>2, ConcatEmptySeq
  <2> QED BY <1>3, <2>1, <2>3 DEF IsrTx, FifosTypeOK
<1>5. /\ txReadLoc' = At(txReadLoc, Burst) /\ txReadLoc' \in Indices
      /\ txDataBytes' = txDataBytes - Burst
      /\ ier' = IerAfterTx(txDataBytes - Burst) /\ dev_ier' = ier'
      /\ UNCHANGED <<txBuffer, txWriteLoc, rxBuffer, rxReadLoc, rxWriteLoc, rxDataBytes>>
  BY <1>3, AtIndex DEF IsrTx, RingTypeOK
<1>6. RingTypeOK'
  BY <1>3, <1>5 DEF RingTypeOK, Indices
<1>7. CallTypeOK'
  BY <1>1, <1>5 DEF CallTypeOK, IerAfterTx
<1>8. IerAgrees'
  BY <1>1, <1>2, <1>3, <1>5 DEF IerAgrees, IerAfterTx, RingTypeOK
<1>9. RingInv'
  <2> DEFINE p == IF Pending("putc") THEN 1 ELSE 0
  <2>1. txDataBytes + p \in 0..SIZE /\ txWriteLoc = At(txReadLoc, txDataBytes + p)
    BY DEF RingInv, RingTypeOK
  <2>2. At(At(txReadLoc, Burst), (txDataBytes + p) - Burst) = At(txReadLoc, Burst + ((txDataBytes + p) - Burst))
    BY <1>3, <2>1, AtAt DEF RingTypeOK
  <2>3. txWriteLoc = At(txReadLoc', txDataBytes' + p)
    BY <1>3, <1>5, <2>1, <2>2 DEF RingTypeOK
  <2> QED BY <1>1, <1>2, <1>3, <1>5, <2>3 DEF RingInv, Pending, RingTypeOK, At
<1> QED BY <1>1, <1>4, <1>6, <1>7, <1>8, <1>9

----------------------------------------------------------------------------
(* Whatever the interleaving of handler and calls, the buffers are rings   *)
(* and no interrupt is forgotten (uart.c 64-344).                          *)
THEOREM UartInvariant == Spec => []UartInv
<1>1. ASSUME UartInv, Next
      PROVE  UartInv'
  <2>1. CASE Call /\ Fixed
    BY <1>1, <2>1, CallStep
  <2>2. CASE Device /\ Fixed
    BY <1>1, <2>2, DeviceStep
  <2>3. CASE Proceed
    <3>1. CASE Buffered
      BY <1>1, <2>3, <3>1, GetcStep, PutcStep, LoadStep, StoreStep DEF Proceed, Buffered, fifoVars, lineVars
    <3>2. CASE Polled
      BY <1>1, <2>3, <3>2, PolledStep DEF Proceed, Fixed
    <3>3. CASE Line
      BY <1>1, <2>3, <3>3, LineStep DEF Proceed, Fixed
    <3> QED BY <2>3, <3>1, <3>2, <3>3 DEF Proceed
  <2>4. CASE Isr
    BY <1>1, <2>4, IsrRxStep, IsrTxStep DEF Isr
  <2> QED BY <1>1, <2>1, <2>2, <2>3, <2>4 DEF Next
<1>2. ASSUME UartInv, UNCHANGED vars
      PROVE  UartInv'
  <2> USE <1>2 DEF UartInv, UartTypeOK, vars, fifoVars, lineVars, callVars, fixedVars, rxVars, txVars, irqVars
  <2>1. RingTypeOK' /\ FifosTypeOK' /\ CallTypeOK' /\ LineTypeOK'
    BY DEF RingTypeOK, FifosTypeOK, CallTypeOK, LineTypeOK, Indices
  <2>2. RingInv' /\ IerAgrees'
    BY DEF RingInv, IerAgrees, Pending, At, Counter
  <2> QED BY <2>1, <2>2
<1> QED BY <1>1, <1>2, InitUartInv, PTL DEF Spec

----------------------------------------------------------------------------
(* The transmit direction as a queue.                                      *)

LEMMA RingSeq ==
  ASSUME NEW buffer \in [Indices -> Byte], NEW loc \in Indices, NEW n \in 0..SIZE
  PROVE  /\ Ring(buffer, loc, n) \in Seq(Byte) /\ Len(Ring(buffer, loc, n)) = n
         /\ \A i \in 1..n : Ring(buffer, loc, n)[i] = buffer[At(loc, i - 1)]
<1>1. \A i \in 1..n : buffer[At(loc, i - 1)] \in Byte
  BY AtIndex
<1> QED BY <1>1 DEF Ring

(* A character written behind the last one is the last of the ring.        *)
LEMMA RingPut ==
  ASSUME NEW buffer \in [Indices -> Byte], NEW loc \in Indices, NEW n \in 0..(SIZE - 1), NEW b \in Byte
  PROVE  Ring([buffer EXCEPT ![At(loc, n)] = b], loc, n + 1) = Append(Ring(buffer, loc, n), b)
<1> DEFINE buffer2 == [buffer EXCEPT ![At(loc, n)] = b]
           r == Ring(buffer, loc, n)
           r2 == Ring(buffer2, loc, n + 1)
<1>0. n \in 0..SIZE /\ n + 1 \in 0..SIZE
  OBVIOUS
<1>1. At(loc, n) \in Indices /\ buffer2 \in [Indices -> Byte]
  BY <1>0, AtIndex
<1>2. /\ r \in Seq(Byte) /\ Len(r) = n
      /\ \A i \in 1..n : r[i] = buffer[At(loc, i - 1)]
  BY <1>0, RingSeq
<1>3. /\ r2 \in Seq(Byte) /\ Len(r2) = n + 1
      /\ \A i \in 1..(n + 1) : r2[i] = buffer2[At(loc, i - 1)]
  BY <1>0, <1>1, RingSeq
<1>4. \A i \in 1..n : At(loc, i - 1) # At(loc, n) /\ At(loc, i - 1) \in Indices
  BY DEF At, Indices
<1> HIDE DEF r, r2
<1>5. \A i \in 1..n : r2[i] = r[i]
  <2> SUFFICES ASSUME NEW i \in 1..n PROVE r2[i] = r[i]
    OBVIOUS
  <2>1. r2[i] = buffer2[At(loc, i - 1)] /\ r[i] = buffer[At(loc, i - 1)]
    BY <1>2, <1>3
  <2>2. At(loc, i - 1) # At(loc, n) /\ At(loc, i - 1) \in Indices
    BY <1>4
  <2> QED BY <2>1, <2>2
<1>6. r2[n + 1] = b
  <2>1. r2[n + 1] = buffer2[At(loc, (n + 1) - 1)]
    BY <1>3
  <2>2. (n + 1) - 1 = n
    OBVIOUS
  <2> QED BY <1>1, <2>1, <2>2
<1>7. /\ Append(r, b) \in Seq(Byte) /\ Len(Append(r, b)) = n + 1
      /\ \A i \in 1..n : Append(r, b)[i] = r[i]
      /\ Append(r, b)[n + 1] = b
  BY <1>2, AppendProperties
<1>8. \A i \in 1..Len(r2) : r2[i] = Append(r, b)[i]
  BY <1>3, <1>5, <1>6, <1>7
<1>9. r2 = Append(r, b)
  BY <1>3, <1>7, <1>8, SeqEqual
<1> QED BY <1>9 DEF r, r2

(* The first m characters of a ring and those after them.                  *)
LEMMA RingSplit ==
  ASSUME NEW buffer \in [Indices -> Byte], NEW loc \in Indices, NEW n \in 0..SIZE, NEW m \in 0..n
  PROVE  Ring(buffer, loc, m) \o Ring(buffer, At(loc, m), n - m) = Ring(buffer, loc, n)
<1> DEFINE r == Ring(buffer, loc, n)
           r1 == Ring(buffer, loc, m)
           r2 == Ring(buffer, At(loc, m), n - m)
<1>1. At(loc, m) \in Indices /\ n - m \in 0..SIZE
  BY AtIndex
<1>2. r \in Seq(Byte) /\ Len(r) = n /\ \A i \in 1..n : r[i] = buffer[At(loc, i - 1)]
  BY RingSeq
<1>3. r1 \in Seq(Byte) /\ Len(r1) = m /\ \A i \in 1..m : r1[i] = buffer[At(loc, i - 1)]
  BY RingSeq
<1>4. r2 \in Seq(Byte) /\ Len(r2) = n - m /\ \A i \in 1..(n - m) : r2[i] = buffer[At(At(loc, m), i - 1)]
  BY <1>1, RingSeq
<1> HIDE DEF r, r1, r2
<1>5. \A i \in 1..(n - m) : At(At(loc, m), i - 1) = At(loc, m + i - 1)
  BY AtAt
<1>6. /\ r1 \o r2 \in Seq(Byte) /\ Len(r1 \o r2) = n
      /\ \A i \in 1..n : (r1 \o r2)[i] = IF i <= m THEN r1[i] ELSE r2[i - m]
  <2>1. /\ r1 \o r2 \in Seq(Byte) /\ Len(r1 \o r2) = Len(r1) + Len(r2)
        /\ \A i \in 1..(Len(r1) + Len(r2)) :
             (r1 \o r2)[i] = IF i <= Len(r1) THEN r1[i] ELSE r2[i - Len(r1)]
    BY <1>3, <1>4, ConcatProperties
  <2>2. Len(r1) = m /\ Len(r1) + Len(r2) = n
    BY <1>3, <1>4
  <2> QED BY <2>1, <2>2
<1>7. \A i \in 1..n : (r1 \o r2)[i] = r[i]
  <2> SUFFICES ASSUME NEW i \in 1..n PROVE (r1 \o r2)[i] = r[i]
    OBVIOUS
  <2>1. CASE i <= m
    BY <1>2, <1>3, <1>6, <2>1
  <2>2. CASE ~(i <= m)
    <3>1. i - m \in 1..(n - m) /\ m + (i - m) - 1 = i - 1
      BY <2>2
    <3>2. (r1 \o r2)[i] = buffer[At(At(loc, m), (i - m) - 1)]
      BY <1>4, <1>6, <2>2, <3>1
    <3> QED BY <1>2, <1>5, <3>1, <3>2
  <2> QED BY <2>1, <2>2
<1>8. r1 \o r2 = r
  BY <1>2, <1>6, <1>7, SeqEqual
<1> QED BY <1>8 DEF r, r1, r2

(* What a step does to the characters on their way.                        *)
Held == txDataBytes + (IF Pending("putc") THEN 1 ELSE 0)

LEMMA TxShape ==
  ASSUME UartInv
  PROVE  /\ Held \in 0..SIZE /\ Held <= SIZE
         /\ TxContents = txfifo \o Ring(txBuffer, txReadLoc, Held)
         /\ Ring(txBuffer, txReadLoc, Held) \in Seq(Byte)
         /\ txfifo \in Seq(Byte) /\ Len(txfifo) \in 0..DEPTH
         /\ TxContents \in Seq(Byte) /\ Len(TxContents) = Len(txfifo) + Held
<1>1. Held \in 0..SIZE
  BY DEF Held, UartInv, UartTypeOK, RingTypeOK, RingInv
<1>2. TxContents = txfifo \o Ring(txBuffer, txReadLoc, Held)
  BY DEF TxContents, Held
<1>3. txfifo \in Seq(Byte) /\ Len(txfifo) \in 0..DEPTH
  BY LenProperties DEF UartInv, UartTypeOK, FifosTypeOK
<1>4. Ring(txBuffer, txReadLoc, Held) \in Seq(Byte) /\ Len(Ring(txBuffer, txReadLoc, Held)) = Held
  BY <1>1, RingSeq DEF UartInv, UartTypeOK, RingTypeOK
<1>5. /\ txfifo \o Ring(txBuffer, txReadLoc, Held) \in Seq(Byte)
      /\ Len(txfifo \o Ring(txBuffer, txReadLoc, Held)) = Len(txfifo) + Len(Ring(txBuffer, txReadLoc, Held))
  BY <1>3, <1>4, ConcatProperties
<1> QED BY <1>1, <1>2, <1>3, <1>4, <1>5

(* Only uart_putc adds to them, and only the line takes one.               *)
LEMMA TxSteps ==
  ASSUME UartInv, [Next]_vars
  PROVE  \/ TxContents' = TxContents
         \/ \E b \in Byte : TxContents' = Append(TxContents, b) /\ Len(TxContents) < SIZE + DEPTH
         \/ Shift /\ TxContents # <<>> /\ TxContents' = Tail(TxContents)
<1> DEFINE r == Ring(txBuffer, txReadLoc, Held)
<1>0. Held \in 0..SIZE /\ TxContents = txfifo \o r /\ r \in Seq(Byte) /\ txfifo \in Seq(Byte)
      /\ Len(txfifo) \in 0..DEPTH /\ TxContents \in Seq(Byte) /\ Len(TxContents) = Len(txfifo) + Held
  BY TxShape
<1>k. ASSUME UNCHANGED <<txfifo, txBuffer, txReadLoc>>, Held' = Held
      PROVE  TxContents' = TxContents
  BY <1>k DEF TxContents, Held
<1>1. CASE Call /\ Fixed
  <2>1. Held' = Held
    BY <1>1, CallFields DEF Call, Held, Pending, txVars, UartInv, UartTypeOK, CallTypeOK
  <2> QED BY <1>1, <1>k, <2>1 DEF Call, txVars, fifoVars
<1>2. CASE Device /\ Fixed
  <2>1. Held' = Held /\ UNCHANGED <<txBuffer, txReadLoc>>
    BY <1>2 DEF Device, Held, Pending, txVars, callVars
  <2>2. CASE Arrive
    BY <1>k, <2>1, <2>2 DEF Arrive
  <2>3. CASE Shift
    <3>1. TxContents' = Tail(txfifo) \o r /\ txfifo # <<>>
      BY <2>1, <2>3 DEF Shift, TxContents, Held
    <3>2. TxContents # <<>> /\ Tail(txfifo \o r) = Tail(txfifo) \o r
      <4> HIDE DEF r
      <4>1. Tail(txfifo) \in Seq(Byte) /\ Len(Tail(txfifo)) = Len(txfifo) - 1
            /\ \A i \in 1..Len(Tail(txfifo)) : Tail(txfifo)[i] = txfifo[i + 1]
        BY <1>0, <3>1, HeadTailProperties
      <4>2. Len(r) \in Nat /\ Len(txfifo) > 0 /\ Len(txfifo) \in Nat
        BY <1>0, <3>1, LenProperties, EmptySeq
      <4>3. /\ txfifo \o r \in Seq(Byte) /\ Len(txfifo \o r) = Len(txfifo) + Len(r)
            /\ \A i \in 1..(Len(txfifo) + Len(r)) :
                 (txfifo \o r)[i] = IF i <= Len(txfifo) THEN txfifo[i] ELSE r[i - Len(txfifo)]
        BY <1>0, ConcatProperties
      <4>4. txfifo \o r # <<>>
        BY <4>2, <4>3
      <4>5. /\ Tail(txfifo \o r) \in Seq(Byte) /\ Len(Tail(txfifo \o r)) = Len(txfifo) + Len(r) - 1
            /\ \A i \in 1..(Len(txfifo) + Len(r) - 1) : Tail(txfifo \o r)[i] = (txfifo \o r)[i + 1]
        BY <4>3, <4>4, HeadTailProperties
      <4>6. /\ Tail(txfifo) \o r \in Seq(Byte) /\ Len(Tail(txfifo) \o r) = Len(txfifo) - 1 + Len(r)
            /\ \A i \in 1..(Len(txfifo) - 1 + Len(r)) :
                 (Tail(txfifo) \o r)[i] = IF i <= Len(txfifo) - 1 THEN Tail(txfifo)[i] ELSE r[i - (Len(txfifo) - 1)]
        BY <1>0, <4>1, ConcatProperties
      <4>7. \A i \in 1..(Len(txfifo) + Len(r) - 1) : Tail(txfifo \o r)[i] = (Tail(txfifo) \o r)[i]
        BY <4>1, <4>2, <4>3, <4>5, <4>6
      <4>8. Tail(txfifo \o r) = Tail(txfifo) \o r
        BY <4>2, <4>5, <4>6, <4>7, SeqEqual
      <4> QED BY <1>0, <4>4, <4>8
    <3> QED BY <1>0, <2>3, <3>1, <3>2
  <2> QED BY <1>2, <2>2, <2>3 DEF Device
<1>3. CASE Buffered /\ UNCHANGED fixedVars
  <2>1. UNCHANGED txfifo
    BY <1>3 DEF Buffered, fifoVars
  <2>2. CASE Getc
    <3>1. Held' = Held /\ UNCHANGED <<txBuffer, txReadLoc>>
      BY <2>2 DEF Getc, Held, Pending, Calling, Goto, Return, callVars, txVars, None
    <3> QED BY <1>k, <2>1, <3>1
  <2>3. CASE Putc
    <3>1. call.fn = "putc" /\ pc = "check" /\ call.byte \in Byte /\ Held = txDataBytes
          /\ UNCHANGED <<txReadLoc, txDataBytes>>
      BY <2>3, CallFields DEF Putc, Calling, Held, Pending, UartInv, UartTypeOK, CallTypeOK, RingTypeOK
    <3>2. CASE txDataBytes # SIZE
      <4>1. Held' = Held + 1 /\ Held < SIZE
        BY <1>0, <2>3, <3>1, <3>2 DEF Putc, Held, Pending, Goto
      <4>2. txBuffer' = [txBuffer EXCEPT ![At(txReadLoc, Held)] = call.byte]
        BY <2>3, <3>1, <3>2 DEF Putc, UartInv, RingInv, Held
      <4>3. Ring(txBuffer', txReadLoc, Held + 1) = Append(r, call.byte)
        <5>1. Held \in 0..(SIZE - 1) /\ txBuffer \in [Indices -> Byte] /\ txReadLoc \in Indices
          BY <1>0, <4>1 DEF UartInv, UartTypeOK, RingTypeOK
        <5>2. Ring([txBuffer EXCEPT ![At(txReadLoc, Held)] = call.byte], txReadLoc, Held + 1) = Append(r, call.byte)
          BY <3>1, <5>1, RingPut
        <5> QED BY <4>2, <5>2
      <4>4. TxContents' = txfifo \o Append(r, call.byte)
        BY <2>1, <3>1, <4>1, <4>3 DEF TxContents, Held
      <4>5. txfifo \o Append(r, call.byte) = Append(txfifo \o r, call.byte)
        <5> HIDE DEF r
        <5>1. <<call.byte>> \in Seq(Byte)
          BY <3>1
        <5>2. Append(r, call.byte) = r \o <<call.byte>>
          BY <1>0, <3>1, AppendIsConcat
        <5>3. Append(txfifo \o r, call.byte) = (txfifo \o r) \o <<call.byte>>
          BY <1>0, <3>1, AppendIsConcat
        <5> QED BY <1>0, <5>1, <5>2, <5>3, ConcatAssociative
      <4> QED BY <1>0, <3>1, <4>1, <4>4, <4>5
    <3>3. CASE ~(txDataBytes # SIZE)
      <4>1. Held' = Held /\ UNCHANGED <<txBuffer, txReadLoc>>
        BY <2>3, <3>1, <3>3 DEF Putc, Held, Pending, Return, callVars, None
      <4> QED BY <1>k, <2>1, <4>1
    <3> QED BY <3>2, <3>3
  <2>4. CASE Load
    <3>1. Held' = Held /\ UNCHANGED <<txBuffer, txReadLoc>>
      BY <2>4 DEF Load, Held, Pending, Goto, txVars
    <3> QED BY <1>k, <2>1, <3>1
  <2>5. CASE Store
    <3>1. pc = "store" /\ pc' = "idle" /\ UNCHANGED <<txBuffer, txReadLoc>>
      BY <2>5 DEF Store, Return, txVars
    <3>2. CASE call.fn = "getc"
      <4>1. txDataBytes' = txDataBytes
        BY <2>5, <3>2 DEF Store, txVars
      <4>2. Held' = Held
        BY <3>1, <3>2, <4>1 DEF Held, Pending
      <4> QED BY <1>k, <2>1, <3>1, <4>2
    <3>3. CASE call.fn = "putc"
      <4>1. txDataBytes' = txDataBytes + 1 /\ txDataBytes \in Nat
        BY <2>5, <3>1, <3>3 DEF Store, UartInv, UartTypeOK, RingTypeOK, RingInv, Counter
      <4>2. Held' = Held
        BY <3>1, <3>3, <4>1 DEF Held, Pending
      <4> QED BY <1>k, <2>1, <3>1, <4>2
    <3> QED BY <2>5, <3>2, <3>3 DEF Store
  <2> QED BY <1>3, <2>2, <2>3, <2>4, <2>5 DEF Buffered
<1>4. CASE Polled /\ UNCHANGED fixedVars
  <2>1. Held = 0 /\ Held' = 0 /\ UNCHANGED <<txBuffer, txReadLoc>>
    BY <1>4 DEF Polled, PolledGetc, PolledPutc, Calling, Return, callVars, None, Held, Pending, UartInv, RingInv, txVars
  <2>2. CASE UNCHANGED txfifo
    BY <1>k, <2>1, <2>2
  <2>3. CASE ~UNCHANGED txfifo
    <3>1. txfifo = <<>> /\ txfifo' = <<call.byte>> /\ call.byte \in Byte
      BY <1>4, <2>3, CallFields DEF Polled, PolledGetc, PolledPutc, Calling, TxRdy, UartInv, UartTypeOK, CallTypeOK
    <3>2. r = <<>> /\ Ring(txBuffer', txReadLoc', Held') = <<>>
      BY <2>1 DEF Ring
    <3>3. TxContents = <<>>
      BY <1>0, <3>1, <3>2
    <3>4. TxContents' = txfifo' \o <<>>
      BY <3>2 DEF TxContents, Held
    <3>5. TxContents' = Append(TxContents, call.byte)
      BY <3>1, <3>3, <3>4
    <3> QED BY <1>0, <3>1, <3>3, <3>5
  <2> QED BY <2>2, <2>3
<1>5. CASE Line /\ UNCHANGED fixedVars
  <2>1. Held' = Held /\ UNCHANGED <<txfifo, txBuffer, txReadLoc>>
    BY <1>5 DEF Line, Config, SetRate, RateMsb, Calling, Return, Goto, None, Held, Pending, fifoVars, txVars
  <2> QED BY <1>k, <2>1
<1>6. CASE IsrRx
  <2>1. Held' = Held /\ UNCHANGED <<txfifo, txBuffer, txReadLoc>>
    BY <1>6 DEF IsrRx, Held, Pending, callVars, txVars
  <2> QED BY <1>k, <2>1
<1>7. CASE IsrTx
  <2>1. txfifo = <<>> /\ Burst \in 0..Held
    BY <1>0, <1>7, BurstFits DEF IsrTx, TxCause, TxRdy, Held, UartInv, UartTypeOK, RingTypeOK
  <2>2. /\ txfifo' = txfifo \o Ring(txBuffer, txReadLoc, Burst)
        /\ txReadLoc' = At(txReadLoc, Burst) /\ txBuffer' = txBuffer /\ Held' = Held - Burst
    BY <1>7, <2>1, BurstFits DEF IsrTx, Ring, Held, Pending, callVars, UartInv, UartTypeOK, RingTypeOK
  <2>3. txfifo' = Ring(txBuffer, txReadLoc, Burst)
    <3>1. Ring(txBuffer, txReadLoc, Burst) \in Seq(Byte)
      BY <1>0, <2>1, RingSeq DEF UartInv, UartTypeOK, RingTypeOK
    <3> QED BY <2>1, <2>2, <3>1, ConcatEmptySeq
  <2>4. TxContents' = Ring(txBuffer, txReadLoc, Burst) \o Ring(txBuffer, At(txReadLoc, Burst), Held - Burst)
    BY <2>2, <2>3 DEF TxContents, Held
  <2>5. TxContents' = r
    BY <1>0, <2>1, <2>4, RingSplit DEF UartInv, UartTypeOK, RingTypeOK
  <2> QED BY <1>0, <2>1, <2>5, ConcatEmptySeq
<1>8. CASE UNCHANGED vars
  BY <1>8, <1>k DEF vars, fifoVars, txVars, callVars, Held, Pending
<1> QED BY <1>1, <1>2, <1>3, <1>4, <1>5, <1>6, <1>7, <1>8 DEF Next, Proceed, Isr, Fixed

(* The transmit direction is a queue between uart_putc and the line: every *)
(* character accepted is sent once and in order (uart.c 112-150, 289-344). *)
THEOREM TxImplementsQueue == Spec => TxIsQueue
<1>1. Init => Tx!QueueInit
  <2> SUFFICES ASSUME Init PROVE TxContents = <<>>
    BY DEF Tx!QueueInit
  <2>1. txfifo = <<>> /\ txDataBytes = 0 /\ call.fn = "none"
    BY DEF Init, None
  <2>2. Ring(txBuffer, txReadLoc, 0) = <<>>
    BY DEF Ring
  <2> QED BY <2>1, <2>2 DEF TxContents, Pending
<1>2. UartInv /\ [Next]_vars => [Tx!QueueNext]_TxContents
  BY TxSteps DEF Tx!QueueNext, Tx!Put, Tx!Get
<1>3. UartInv /\ [Next]_vars => [Shift \/ Continues(TxContents, TxContents')]_vars
  <2> SUFFICES ASSUME UartInv, [Next]_vars, ~Shift
               PROVE  Continues(TxContents, TxContents')
    OBVIOUS
  <2>1. TxContents \in Seq(Byte) /\ Len(TxContents) \in Nat
    BY TxShape, LenProperties
  <2>2. CASE TxContents' = TxContents
    BY <2>1, <2>2, SubSeqFull DEF Continues
  <2>3. CASE \E b \in Byte : TxContents' = Append(TxContents, b)
    <3>1. PICK b \in Byte : TxContents' = Append(TxContents, b)
      BY <2>3
    <3>2. SubSeq(Append(TxContents, b), 1, Len(TxContents)) = TxContents
      BY <2>1, AppendProperties, HeadTailAppend
    <3> QED BY <2>1, <3>1, <3>2, AppendProperties DEF Continues
  <2> QED BY <2>2, <2>3, TxSteps
<1> QED BY <1>1, <1>2, <1>3, UartInvariant, PTL DEF Spec, TxIsQueue, Tx!QueueSpec

----------------------------------------------------------------------------
(* The line settings.                                                      *)

LEMMA DivMod256 ==
  ASSUME NEW d \in Nat
  PROVE  /\ d = 256 * (d \div 256) + (d % 256)
         /\ d < 65536 => d \div 256 \in 0..255
<1>1. d = 256 * (d \div 256) + (d % 256)
  BY SMT
<1>2. d \div 256 \in Int /\ d % 256 \in 0..255
  BY SMT
<1>3. d < 65536 => d \div 256 \in 0..255
  BY <1>1, <1>2, SMT
<1> QED BY <1>1, <1>3

LEMMA ModSmall ==
  ASSUME NEW q \in 0..255
  PROVE  q % 256 = q
OBVIOUS

LEMMA DivisorBytes ==
  ASSUME NEW rate \in Rates \ {0}
  PROVE  Divisor(rate) < 65536 => Msb(rate) * 256 + Lsb(rate) = Divisor(rate)
<1> DEFINE d == SYS_CLK \div rate
<1>1. d \in Nat
  OBVIOUS
<1>2. ASSUME d < 65536
      PROVE  ((d \div 256) % 256) * 256 + (d % 256) = d
  <2> HIDE DEF d
  <2>1. d = 256 * (d \div 256) + (d % 256) /\ d \div 256 \in 0..255
    BY <1>1, <1>2, DivMod256
  <2>2. (d \div 256) % 256 = d \div 256
    BY <2>1, ModSmall
  <2>3. d \div 256 \in Int /\ d % 256 \in Int
    BY <1>1, <2>1
  <2> QED BY <2>1, <2>2, <2>3
<1> QED BY <1>2 DEF Divisor, Msb, Lsb

(* The device keeps the settings of the instance, whoever interrupts       *)
(* (uart.c 360-466).                                                       *)
THEOREM LineSettings == Spec => []LineAgrees
<1>1. Init => LineAgrees
  <2> SUFFICES ASSUME Init PROVE LineAgrees
    OBVIOUS
  <2>1. pc = "idle"
    BY DEF Init
  <2>2. CASE UartInit
    <3>1. PICK f \in Frames, rate \in Rates \ {0} : ValidFrame(f) /\ LineIs(f, rate)
      BY <2>2 DEF UartInit
    <3> QED BY <2>1, <3>1, LcrByte, DivisorBytes DEF LineIs, LineAgrees
  <2>3. CASE LocalUartInit
    <3>1. PICK rate \in Rates \ {0} :
            /\ databits = 8 /\ stopbits = 1 /\ baudrate = rate
            /\ lcr = 3 /\ dlr = [lsb |-> Lsb(rate), msb |-> Msb(rate)]
      BY <2>3 DEF LocalUartInit, LineIs, Lcr, Width
    <3> QED BY <2>1, <3>1, DivisorBytes DEF LineAgrees
  <2> QED BY <2>2, <2>3 DEF Init
<1>2. ASSUME UartInv, UartInv', LineAgrees, [Next]_vars
      PROVE  LineAgrees'
  <2>0. pc' = "msb" => ~Irq'
    BY <1>2 DEF UartInv, RingInv, Irq
  <2>k. ASSUME UNCHANGED lineVars, pc = pc' \/ (pc # "msb" /\ pc' # "msb")
        PROVE  LineAgrees'
    BY <1>2, <2>0, <2>k DEF LineAgrees, lineVars
  <2>1. CASE Call /\ Fixed
    BY <2>1, <2>k, <1>2 DEF Call, UartInv, UartTypeOK, CallTypeOK
  <2>2. CASE Device /\ Fixed
    BY <2>2, <2>k DEF Device, callVars
  <2>3. CASE Buffered
    BY <2>3, <2>k DEF Buffered, Getc, Putc, Load, Store, Calling, Goto, Return, callVars
  <2>4. CASE Polled
    BY <2>4, <2>k DEF Polled, PolledGetc, PolledPutc, Calling, Return, callVars
  <2>5. CASE Line
    <3>1. CASE Config
      <4>1. call.frame \in Frames /\ pc = "check" /\ pc' = "idle" /\ UNCHANGED <<dlr, baudrate>>
        BY <1>2, <3>1, CallFields DEF Config, Calling, Return, UartInv, UartTypeOK, CallTypeOK
      <4>2. lcr' % 8 = (databits' - 5) + 4 * (stopbits' - 1)
        BY <1>2, <3>1, <4>1, LcrByte DEF Config, LineAgrees
      <4> QED BY <1>2, <4>1, <4>2 DEF LineAgrees
    <3>2. CASE Calling("set_rate", "check") /\ SetRate
      <4>1. call.rate \in Rates /\ pc = "check"
        BY <1>2, <3>2, CallFields DEF Calling, UartInv, UartTypeOK, CallTypeOK
      <4>2. CASE call.rate = 0
        BY <2>k, <3>2, <4>1, <4>2 DEF SetRate, Return
      <4>3. CASE call.rate # 0
        BY <1>2, <2>0, <3>2, <4>1, <4>3
           DEF SetRate, Goto, LineAgrees, UartInv, UartTypeOK, LineTypeOK
      <4> QED BY <4>2, <4>3
    <3>3. CASE Calling("set_rate", "msb") /\ RateMsb
      <4>1. pc' = "idle" /\ pc = "msb" /\ dlr.lsb = Lsb(baudrate) /\ baudrate \in Rates \ {0}
        BY <1>2, <3>3 DEF Calling, RateMsb, Return, LineAgrees, UartInv, UartTypeOK, LineTypeOK
      <4>2. dlr'.lsb = Lsb(baudrate) /\ dlr'.msb = Msb(baudrate) /\ UNCHANGED <<lcr, baudrate, databits, stopbits>>
        BY <1>2, <3>3, <4>1 DEF RateMsb, UartInv, UartTypeOK, LineTypeOK
      <4> QED BY <1>2, <4>1, <4>2, DivisorBytes DEF LineAgrees
    <3> QED BY <2>5, <3>1, <3>2, <3>3 DEF Line
  <2>6. CASE Isr
    BY <2>6, <2>k DEF Isr, IsrRx, IsrTx, callVars
  <2>7. CASE UNCHANGED vars
    BY <2>7, <2>k DEF vars, callVars
  <2> QED BY <1>2, <2>1, <2>2, <2>3, <2>4, <2>5, <2>6, <2>7 DEF Next, Proceed
<1> QED BY <1>1, <1>2, UartInvariant, PTL DEF Spec
=============================================================================
