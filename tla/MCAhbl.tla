------------------------------ MODULE MCAhbl -------------------------------
(* Model values for AhblManager: the words of a transfer are their indices. *)
EXTENDS AhblManager

MCData == 0..23
=============================================================================
