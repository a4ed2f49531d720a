------------------------------- MODULE MCUart -------------------------------
(* Line settings for UartDriver: one the driver takes, one it refuses.     *)
EXTENDS UartDriver

Frame(d, s) == [dwidth |-> d, parity_en |-> 1, even_odd |-> 1, stopbits |-> s]
MCFrames == {Frame(7, 2), Frame(9, 1)}
=============================================================================
