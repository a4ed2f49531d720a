------------------------------- MODULE MCAxi -------------------------------
(* Model values for Axi4Manager: the words of a transfer are their indices. *)
EXTENDS Axi4Manager

MCData == 0..23
=============================================================================
