-------------------------------- MODULE Plic --------------------------------
(***************************************************************************)
(* The interrupt sources of the example design's hart and the drivers that *)
(* register, enable and acknowledge them (riscv_rtos/plic.c, clint.c).     *)
(* The controllers are what the drivers see of them: lines, enables, the   *)
(* claim register, the timer's and the software interrupt's pending bits.  *)
(*                                                                         *)
(* A registration is under way while call # NoCall: interrupts may come    *)
(* between its writes.                                                     *)
(***************************************************************************)
EXTENDS Integers

CONSTANTS
  Srcs,    \* interrupt sources, of 1..31
  MODES    \* bound: the modes that sources are registered for

ASSUME PlicAssumption == Srcs \subseteq 1..31 /\ MODES \subseteq SUBSET {"M", "S"}

VARIABLES
  lines,      \* sources that ask for an interrupt
  en,         \* PLIC_ENABLE_M, PLIC_ENABLE_S
  claimed,    \* sources claimed and not completed
  table,      \* plic_int_table: what has been set of an entry
  msip, mtip, \* CLINT_MSIP, mtime >= mtimecmp
  mie_csr,    \* enabled causes
  call        \* the registration under way

plicVars == <<lines, en, claimed, table, msip, mtip, mie_csr, call>>

Modes == {"M", "S"}
NoCall == [src |-> 0]
Enables == en["M"] \cup en["S"]

Ready(mode) == (lines \cap en[mode]) \ claimed

(* The causes that ask for a trap (mip & mie).                             *)
Causes ==
  {c \in mie_csr : \/ c = "MEIP" /\ Ready("M") # {}
                   \/ c = "SEIP" /\ Ready("S") # {}
                   \/ c = "MSIP" /\ msip
                   \/ c = "MTIP" /\ mtip}

----------------------------------------------------------------------------
(* Devices and the timer; lines may drop without having been served.       *)

Raise ==
  /\ \/ /\ \E s \in Srcs \ lines : lines' = lines \cup {s}
        /\ UNCHANGED <<msip, mtip>>
     \/ ~msip /\ msip' = TRUE /\ UNCHANGED <<lines, mtip>>
     \/ ~mtip /\ mtip' = TRUE /\ UNCHANGED <<lines, msip>>
  /\ UNCHANGED <<en, claimed, table, mie_csr, call>>

Withdraw ==
  /\ \E s \in lines \ claimed : lines' = lines \ {s}
  /\ UNCHANGED <<en, claimed, table, msip, mtip, mie_csr, call>>

----------------------------------------------------------------------------
(* plic_int_register, once for a source (a bound): the handler, its        *)
(* context, then the enables.  Mutant: the enables before the context.     *)

Register ==
  /\ call = NoCall
  /\ \E s \in Srcs, modes \in MODES :
       /\ ~table[s].isr
       /\ table' = [table EXCEPT ![s].isr = TRUE]
       /\ call' = [src |-> s, modes |-> modes, at |-> "context"]
  /\ UNCHANGED <<lines, en, claimed, msip, mtip, mie_csr>>

Enable(s, modes) == [m \in Modes |-> IF m \in modes THEN en[m] \cup {s} ELSE en[m]]

RegisterEnablesFirst ==
  /\ call # NoCall
  /\ \/ /\ call.at = "context" /\ call' = [call EXCEPT !.at = "enable"]
        /\ en' = Enable(call.src, call.modes) /\ UNCHANGED table
     \/ /\ call.at = "enable" /\ call' = NoCall
        /\ table' = [table EXCEPT ![call.src].context = TRUE] /\ UNCHANGED en
  /\ UNCHANGED <<lines, claimed, msip, mtip, mie_csr>>
RegisterGoesOn ==
  /\ call # NoCall
  /\ \/ /\ call.at = "context" /\ call' = [call EXCEPT !.at = "enable"]
        /\ table' = [table EXCEPT ![call.src].context = TRUE] /\ UNCHANGED en
     \/ /\ call.at = "enable" /\ call' = NoCall
        /\ en' = Enable(call.src, call.modes) /\ UNCHANGED table
  /\ UNCHANGED <<lines, claimed, msip, mtip, mie_csr>>

(* plic_disable: "&= 0 << src" clears the enables of all sources.          *)
Disable ==
  /\ call = NoCall
  /\ \E modes \in MODES :
       en' = [m \in Modes |-> IF m \in modes THEN {} ELSE en[m]]
  /\ UNCHANGED <<lines, claimed, table, msip, mtip, mie_csr, call>>

(* plic_enable, of a source that is registered.                            *)
EnableAgain ==
  /\ call = NoCall
  /\ \E s \in Srcs, modes \in MODES : table[s].context /\ en' = Enable(s, modes)
  /\ UNCHANGED <<lines, claimed, table, msip, mtip, mie_csr, call>>

(* clint_start_timer moves the time of the next interrupt, then enables    *)
(* it; clint_stop_timer disables it.                                       *)
StartTimer == mtip' = FALSE /\ mie_csr' = mie_csr \cup {"MTIP"}
StopTimer == mie_csr' = mie_csr \ {"MTIP"} /\ UNCHANGED mtip
Timer ==
  /\ StartTimer \/ StopTimer
  /\ UNCHANGED <<lines, en, claimed, table, msip, call>>

----------------------------------------------------------------------------
(* plic_claim gives 0 if nothing is left to be served.                     *)
Claims(mode, s) == IF Ready(mode) = {} THEN s = 0 ELSE s \in Ready(mode)

(* plic_complete, after the handler.  Mutant: the claim is left open.      *)
CompleteNot(s) == claimed' = claimed
Complete(s) == claimed' = claimed \ {s}

(* clint_init leaves the time of the next timer interrupt at zero;         *)
(* plic_init enables both external causes.                                 *)
PlicInit ==
  /\ lines = {} /\ en = [m \in Modes |-> {}] /\ claimed = {}
  /\ table = [s \in Srcs |-> [isr |-> FALSE, context |-> FALSE]]
  /\ msip = FALSE /\ mtip = TRUE
  /\ mie_csr = {"MSIP", "MEIP", "SEIP"}
  /\ call = NoCall

----------------------------------------------------------------------------
PlicTypeOK ==
  /\ lines \subseteq Srcs /\ en \in [Modes -> SUBSET Srcs] /\ claimed \subseteq Srcs
  /\ table \in [Srcs -> [isr : BOOLEAN, context : BOOLEAN]]
  /\ msip \in BOOLEAN /\ mtip \in BOOLEAN
  /\ mie_csr \subseteq {"MEIP", "SEIP", "MSIP", "MTIP"}
  /\ call \in {NoCall} \cup [src : Srcs, modes : MODES, at : {"context", "enable"}]

(* An enabled source has its handler and the handler's context: the        *)
(* context follows the handler, the enables follow both (plic.c 88-116).   *)
EnabledInv ==
  /\ \A s \in Srcs : table[s].context => table[s].isr
  /\ \A s \in Enables : table[s].context
  /\ call # NoCall =>
       table[call.src].isr /\ (call.at = "enable" => table[call.src].context)
=============================================================================
