----------------------------- MODULE LocalUart -----------------------------
(***************************************************************************)
(* A UART of the example design and its polled driver                      *)
(* (riscv_rtos/local_uart.c; uart/uart.c has the same polled branches).    *)
(*                                                                         *)
(* The device is what the driver sees of it: a FIFO in each direction, the *)
(* line control register and the two divisor registers.  A call of the     *)
(* driver is under way while call # None; pc is its next register access.  *)
(***************************************************************************)
EXTENDS Naturals, Sequences

CONSTANTS
  Byte,      \* the characters
  DEPTH,     \* words of the device's transmit FIFO (16)
  WAITING,   \* bound: characters that wait in its receive FIFO (16)
  SYS_CLK,   \* this_uart->sys_clk
  Rates,     \* the baud rates asked for, 0 among them
  Frames     \* the line settings asked for

ASSUME UartAssumption ==
  /\ Byte # {} /\ DEPTH \in Nat \ {0} /\ WAITING \in Nat \ {0}
  /\ SYS_CLK \in Nat /\ Rates \subseteq Nat
  /\ Frames \subseteq [dwidth : Nat, parity_en : Nat, even_odd : Nat, stopbits : Nat]

VARIABLES
  rxfifo, txfifo,                 \* device: received and unsent characters
  lcr, dlr,                       \* device: line control, divisor
  baudrate, databits, stopbits,   \* this_uart
  call, pc                        \* the call under way; call.blocking is
                                  \* this_uart->blockingTx or blockingRx

fifoVars == <<rxfifo, txfifo>>
lineVars == <<lcr, dlr, baudrate, databits, stopbits>>
callVars == <<call, pc>>

None == [fn |-> "none"]

(* The call returns.                                                       *)
Return == call' = None /\ pc' = "idle"
Goto(to) == pc' = to /\ UNCHANGED call
Calling(fn, at) == call.fn = fn /\ pc = at

----------------------------------------------------------------------------
(* The device.                                                             *)

RxRdy == rxfifo # <<>>     \* LSR bit 0
TxRdy == txfifo = <<>>     \* LSR bit 5: the holding register is empty

(* A character comes, perhaps with a parity or framing error.  One that    *)
(* finds the FIFO full is lost on the line and never seen by the driver.   *)
Arrive ==
  /\ Len(rxfifo) < WAITING
  /\ \E b \in Byte, err \in BOOLEAN :
       rxfifo' = Append(rxfifo, [byte |-> b, err |-> err])
  /\ UNCHANGED txfifo

Shift == txfifo # <<>> /\ txfifo' = Tail(txfifo) /\ UNCHANGED rxfifo

----------------------------------------------------------------------------
(* local_uart_getc and local_uart_putc: the loop around a look at LSR.     *)

PolledGetc ==
  /\ Calling("getc", "check")
  /\ IF RxRdy THEN rxfifo' = Tail(rxfifo) /\ Return
     ELSE /\ UNCHANGED rxfifo
          /\ IF call.blocking THEN UNCHANGED callVars ELSE Return
  /\ UNCHANGED txfifo

(* Mutant: the character is written whether or not there is room.          *)
PolledPutcBlind ==
  /\ Calling("putc", "check")
  /\ txfifo' = <<call.byte>> /\ Return
  /\ UNCHANGED rxfifo
PolledPutc ==
  /\ Calling("putc", "check")
  /\ IF TxRdy THEN txfifo' = <<call.byte>> /\ Return
     ELSE /\ UNCHANGED txfifo
          /\ IF call.blocking THEN UNCHANGED callVars ELSE Return
  /\ UNCHANGED rxfifo

----------------------------------------------------------------------------
(* local_uart_config and local_uart_set_rate.                              *)

ValidFrame(f) == f.dwidth \in 5..8 /\ f.stopbits \in 1..2

(* LCR: width, stop bits, and the parity only if it is enabled by a 1.     *)
(* Mutant: the width codes of a UART that counts from six bits.            *)
WidthFromSix(dwidth) == IF dwidth <= 6 THEN 0 ELSE dwidth - 6
Width(dwidth) == dwidth - 5

Lcr(f) ==
  Width(f.dwidth) + (IF f.stopbits = 2 THEN 4 ELSE 0)
    + (IF f.parity_en # 1 THEN 0 ELSE IF f.even_odd = 1 THEN 24 ELSE 8)

Config ==
  /\ Calling("config", "check")
  /\ IF ValidFrame(call.frame)
     THEN /\ databits' = call.frame.dwidth /\ stopbits' = call.frame.stopbits
          /\ lcr' = Lcr(call.frame)
     ELSE UNCHANGED <<databits, stopbits, lcr>>
  /\ Return
  /\ UNCHANGED <<dlr, baudrate>>

(* The divisor's two bytes; what does not fit in them is cut off.          *)
Lsb(rate) == (SYS_CLK \div rate) % 256
Msb(rate) == ((SYS_CLK \div rate) \div 256) % 256

(* A rate of zero is refused before anything is touched.                   *)
SetRate ==
  IF call.rate = 0 THEN Return /\ UNCHANGED lineVars
  ELSE /\ baudrate' = call.rate /\ dlr' = [dlr EXCEPT !.lsb = Lsb(call.rate)]
       /\ Goto("msb")
       /\ UNCHANGED <<lcr, databits, stopbits>>

RateMsb ==
  /\ dlr' = [dlr EXCEPT !.msb = Msb(baudrate)] /\ Return
  /\ UNCHANGED <<lcr, baudrate, databits, stopbits>>

(* The device with the line settings of the instance.                      *)
LineIs(f, rate) ==
  /\ databits = f.dwidth /\ stopbits = f.stopbits /\ baudrate = rate
  /\ lcr = Lcr(f) /\ dlr = [lsb |-> Lsb(rate), msb |-> Msb(rate)]

(* uart_init keeps the settings that it is called with and leaves the      *)
(* device alone, which is taken to come out of reset with them.            *)
UartInit == \E f \in {f \in Frames : ValidFrame(f)}, rate \in Rates \ {0} : LineIs(f, rate)

(* local_uart_init sets the rate, and eight bits, no parity and one stop   *)
(* bit whatever it was called with.                                        *)
LocalUartInit ==
  \E rate \in Rates \ {0} :
    LineIs([dwidth |-> 8, parity_en |-> 0, even_odd |-> 0, stopbits |-> 1], rate)
=============================================================================
