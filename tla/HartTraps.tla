----------------------------- MODULE HartTraps -----------------------------
(***************************************************************************)
(* Traps and task switches of the example design's hart                    *)
(* (riscv_rtos/entry.S, trap.c, interrupt.c, exception.c).                 *)
(*                                                                         *)
(* A task is known by its context, to which mscratch points while it runs. *)
(* Its registers and its program counter are members of small sets.        *)
(* Between trap_entry and mret interrupts are off (mie), but a handler may *)
(* cause an exception of its own; frames are the C frames of trap_handler. *)
(***************************************************************************)
EXTENDS Plic, Sequences

CONSTANTS
  Tasks, Main,   \* contexts, and g_ctx among them
  Regs,          \* what the registers can hold
  PCS,           \* program counters are 0..PCS-1; pc + 4 is the next one
  MAX_NEST       \* bound: traps within traps (HartAssumption)

(* No more than two traps: trap_entry does not save mstatus, so the second *)
(* mret of three would leave M mode and put interrupts on in a handler.    *)
ASSUME HartAssumption ==
  /\ Main \in Tasks /\ "handler" \notin Regs
  /\ PCS \in Nat \ {0} /\ MAX_NEST \in 1..2

VARIABLES
  at,                     \* "run" (a task), "dispatch", "isr", "exit"
  regs, pc,               \* the hart's, as a task or handler starts with them
  mie, mpie, mpp, priv,   \* mstatus and the privilege
  mscratch, ctx,          \* contexts: registers and pc
  depth,                  \* g_trap_depth
  frames,                 \* trap_handler's calls, the innermost first
  task,                   \* history: whose turn it is
  kept,                   \* history: how each task was left
  clobbered,              \* history: tasks with an exception in their handler
  launched,               \* history: a task was entered from no trap
  orphans                 \* history: claims of handlers that did not return

statusVars == <<mie, mpie, mpp, priv>>
ctxVars == <<mscratch, ctx>>
hartVars == <<at, regs, pc, statusVars, ctxVars, depth, frames, task, kept,
              clobbered, launched, orphans>>
vars == <<hartVars, plicVars>>

Pc == 0..(PCS - 1)
Next4(p) == (p + 1) % PCS
Async == {"MEIP", "SEIP", "MSIP", "MTIP"}
Top == Head(frames)

----------------------------------------------------------------------------
(* trap_entry up to the call of trap_handler.                              *)

(* Mutant: the registers are saved, the pc is not.                         *)
SaveRegs(r, epc) == [ctx EXCEPT ![mscratch].regs = r]
Save(r, epc) == [ctx EXCEPT ![mscratch] = [regs |-> r, pc |-> epc]]

Trap(cause, r, epc) ==
  /\ mpie' = mie /\ mie' = FALSE /\ mpp' = priv /\ priv' = "M"
  /\ ctx' = Save(r, epc)
  /\ depth' = depth + 1
  /\ frames' = <<[cause |-> cause, ret |-> epc, irq |-> 0, from |-> at]>> \o frames
  /\ at' = "dispatch" /\ regs' = "handler" /\ pc' = 0
  /\ UNCHANGED <<mscratch, task, launched, orphans, plicVars>>

(* A task is interrupted wherever it has got to by then.                   *)
TaskTraps(cause) ==
  \E r \in Regs, p \in Pc :
    /\ Trap(cause, r, p)
    /\ kept' = [kept EXCEPT ![task] = [regs |-> r, pc |-> p]]
    /\ clobbered' = clobbered \ {task}

Interrupt ==
  /\ at = "run" /\ (mie \/ priv # "M")
  /\ \E c \in Causes : TaskTraps(c)

Exception == at = "run" /\ TaskTraps("exc")

(* A handler's own exception is saved in the context of the task.          *)
NestedException ==
  /\ at = "isr" /\ Len(frames) < MAX_NEST /\ Trap("exc", regs, 0)
  /\ clobbered' = clobbered \cup {task}
  /\ UNCHANGED kept

----------------------------------------------------------------------------
(* trap_handler.                                                           *)

Stay == UNCHANGED <<statusVars, mscratch, depth, task, clobbered, launched,
                    orphans, regs, pc>>

Serve(irq, there) ==
  /\ frames' = [frames EXCEPT ![1].irq = irq]
  /\ at' = IF there THEN "isr" ELSE "exit"

(* A source without a handler is completed at once.                        *)
HasIsr(s) == s # 0 /\ table[s].isr

External(mode) ==
  /\ UNCHANGED msip
  /\ \E s \in Srcs \cup {0} :
       /\ Claims(mode, s)
       /\ Serve(IF HasIsr(s) THEN s ELSE 0, HasIsr(s))
       /\ claimed' = claimed \cup (IF HasIsr(s) THEN {s} ELSE {})

(* isr_callback.  The software interrupt is cleared before its handler is  *)
(* called; MTIP is enabled only where its handler is registered.           *)
Dispatch ==
  /\ at = "dispatch"
  /\ \/ Top.cause = "MEIP" /\ External("M")
     \/ Top.cause = "SEIP" /\ External("S")
     \/ Top.cause = "MSIP" /\ msip' = FALSE /\ Serve(0, TRUE) /\ UNCHANGED claimed
     \/ Top.cause = "MTIP" /\ Serve(0, TRUE) /\ UNCHANGED <<msip, claimed>>
  /\ UNCHANGED <<lines, en, table, mtip, mie_csr, call, kept, ctx>> /\ Stay

(* esr_callback: the entry of exc_table gives the pc to go on with, the    *)
(* default one the next instruction; without an entry it is the same one.  *)
(* A handler of the program's own is given the context and sets its pc.    *)
DispatchException ==
  /\ at = "dispatch" /\ Top.cause = "exc"
  /\ \E entry \in {"default", "own", "none"}, p \in Pc :
       /\ entry = "none" => p = Top.ret
       /\ entry = "default" => p = Next4(Top.ret)
       /\ frames' = [frames EXCEPT ![1].ret = p, ![1].cause = entry]
       /\ kept' = IF Len(frames) > 1 THEN kept ELSE [kept EXCEPT ![task].pc = p]
       /\ ctx' = IF entry = "own" THEN [ctx EXCEPT ![mscratch].pc = p] ELSE ctx
       /\ at' = IF entry = "none" THEN "exit" ELSE "isr"
  /\ UNCHANGED plicVars /\ Stay

(* A handler silences its device, or sets the timer's next time.           *)
Silence ==
  /\ lines' = lines \ {Top.irq}
  /\ IF Top.cause = "MTIP" THEN StartTimer \/ StopTimer ELSE UNCHANGED <<mtip, mie_csr>>
  /\ UNCHANGED <<en, table, msip, call>>

IsrReturns ==
  /\ at = "isr" /\ at' = "exit"
  /\ Silence /\ Complete(Top.irq)
  /\ UNCHANGED <<frames, kept, ctx>> /\ Stay

----------------------------------------------------------------------------
(* Back to a task.                                                         *)

(* While a task runs nothing is kept of it but what its context holds.     *)
Resume(t) == kept' = [kept EXCEPT ![t] = ctx[t]]

Mret(ie, mode) == mie' = ie /\ mpie' = TRUE /\ priv' = mode /\ mpp' = "U"

(* trap_entry after trap_handler.  Mutant: the pc is taken as it was.      *)
ResumeAtOld == ctx[mscratch].pc
ResumeAt == Top.ret

Exit ==
  /\ at = "exit"
  /\ depth' = depth - 1 /\ frames' = Tail(frames)
  /\ regs' = ctx[mscratch].regs
  /\ IF Len(frames) > 1 THEN at' = Top.from /\ UNCHANGED <<pc, kept>>
     ELSE at' = "run" /\ pc' = ResumeAt /\ Resume(task)
  /\ Mret(mpie, mpp)
  /\ UNCHANGED <<ctxVars, task, clobbered, launched, orphans, plicVars>>

(* What prepare_mmode, prepare_umode and prepare_smode, or the enter       *)
(* functions, leave in mstatus.  For S mode the bits that make U mode S    *)
(* are computed and then overwritten.                                      *)
Mpie(mode) == mode # "M"
Mpp(mode) == IF mode # "S" THEN mode ELSE IF mpp = "M" THEN "S" ELSE mpp

(* A call from a handler abandons it; one from a task at no depth at all   *)
(* takes one off g_trap_depth nevertheless, and saves nothing.             *)
Abandon ==
  /\ \/ at = "run" /\ priv = "M" /\ ~launched /\ launched' = TRUE
        /\ UNCHANGED <<orphans, plicVars>>
     \/ /\ at = "isr" /\ Len(frames) = 1
        /\ Silence /\ UNCHANGED <<claimed, launched>>
        /\ orphans' = orphans \cup ({Top.irq} \ {0})
  /\ depth' = depth - 1 /\ frames' = <<>> /\ at' = "run" /\ Resume(task)
  /\ UNCHANGED <<ctx>>

(* switch_to, with one of the prepare functions before it or with none.    *)
(* Handlers that return a pc of their own do not switch.                   *)
(* Mutant: mscratch is left.                                               *)
ToContextOnly(t) == UNCHANGED mscratch
ToContext(t) == mscratch' = t

SwitchTo ==
  /\ Abandon
  /\ at = "isr" => Top.cause \in Async \cup {"own"}
  /\ \E t \in Tasks :
       /\ ToContext(t) /\ task' = t
       /\ regs' = ctx[t].regs /\ pc' = ctx[t].pc
  /\ Mret(mpie, mpp) \/ \E mode \in {"M", "U", "S"} : Mret(Mpie(mode), Mpp(mode))
  /\ UNCHANGED clobbered

(* enter_mmode, enter_umode, enter_smode: at an entry point, with the      *)
(* caller's registers.                                                     *)
Enter(mode) ==
  /\ Abandon
  /\ pc' \in Pc
  /\ UNCHANGED regs
  /\ Mret(TRUE, Mpp(mode))
  /\ UNCHANGED <<mscratch, task, clobbered>>

----------------------------------------------------------------------------
(* A task calls a driver; sources are registered by main (a bound).        *)
Drivers ==
  /\ at = "run"
  /\ (task = Main /\ (Register \/ RegisterGoesOn)) \/ EnableAgain \/ Disable \/ Timer
  /\ UNCHANGED hartVars

Outside == (Raise \/ Withdraw) /\ UNCHANGED hartVars

(* main runs as g_ctx, in M mode and with interrupts off until the first   *)
(* mret; the other contexts have been filled in.                           *)
Init ==
  /\ PlicInit
  /\ at = "run" /\ task = Main /\ mscratch = Main
  /\ regs \in Regs /\ pc = 0
  /\ mie = FALSE /\ mpie = TRUE /\ priv = "M" /\ mpp \in {"M", "U"}
  /\ ctx \in [Tasks -> [regs : Regs, pc : {0}]]
  /\ kept = ctx
  /\ depth = 0 /\ frames = <<>>
  /\ clobbered = {} /\ launched = FALSE /\ orphans = {}

Traps == Interrupt \/ Exception \/ NestedException
Handle == Dispatch \/ DispatchException \/ IsrReturns \/ Exit

Next ==
  \/ Traps \/ Handle
  \/ SwitchTo \/ Enter("M") \/ Enter("U") \/ Enter("S")
  \/ Drivers \/ Outside

Spec == Init /\ [][Next]_vars

(* The hart takes its interrupts and its handlers return.                  *)
FairSpec == Spec /\ WF_vars(Interrupt) /\ WF_vars(Handle)

----------------------------------------------------------------------------
InHandler == frames # <<>>

Frame ==
  [cause : Async \cup {"exc", "default", "own", "none"}, ret : Pc,
   irq : Srcs \cup {0}, from : {"run", "isr"}]

HartTypeOK ==
  /\ at \in {"run", "dispatch", "isr", "exit"}
  /\ regs \in Regs \cup {"handler"} /\ pc \in Pc
  /\ mie \in BOOLEAN /\ mpie \in BOOLEAN
  /\ priv \in {"M", "S", "U"} /\ mpp \in {"M", "S", "U"}
  /\ task \in Tasks /\ mscratch \in Tasks
  /\ ctx \in [Tasks -> [regs : Regs \cup {"handler"}, pc : Pc]]
  /\ kept \in [Tasks -> [regs : Regs \cup {"handler"}, pc : Pc]]
  /\ frames \in Seq(Frame)
  /\ launched \in BOOLEAN /\ clobbered \subseteq Tasks /\ orphans \subseteq Srcs
  /\ PlicTypeOK

(* trap_depth counts the handlers under way, less the one that never was;  *)
(* mscratch points to the running task; no handler can be interrupted, and *)
(* the mret of a second trap returns to the first (entry.S 158-195,        *)
(* 270-289, 357-422).                                                      *)
DepthInv ==
  /\ depth = Len(frames) - (IF launched THEN 1 ELSE 0)
  /\ mscratch = task
  /\ at = "run" <=> ~InHandler
  /\ InHandler => priv = "M" /\ ~mie
  /\ Len(frames) <= 2
  /\ \A i \in 1..Len(frames) : frames[i].from = "run" <=> i = Len(frames)
  /\ Len(frames) = 2 => mpp = "M" /\ ~mpie

(* The contexts hold what the tasks were left with, if no handler of       *)
(* theirs caused an exception itself.                                      *)
ContextInv ==
  \A t \in Tasks \ clobbered :
    /\ t # task => ctx[t] = kept[t]
    /\ t = task /\ InHandler =>
         /\ Len(frames) = 1
         /\ ctx[t].regs = kept[t].regs /\ Top.ret = kept[t].pc
         /\ Top.cause \notin {"default", "none"} => ctx[t].pc = kept[t].pc

(* What was claimed and not completed is in the hands of a handler that    *)
(* has not returned, or of one that a task switch abandoned (interrupt.c   *)
(* 66-76).                                                                 *)
Held == {frames[i].irq : i \in 1..Len(frames)}
ClaimInv ==
  /\ claimed \subseteq orphans \cup Held
  /\ at = "dispatch" => Top.irq = 0
  /\ at = "exit" => Top.irq \notin claimed

HartInv == HartTypeOK /\ DepthInv /\ ContextInv /\ ClaimInv /\ EnabledInv

(* A task that gets the hart back, from its own handler or by a switch     *)
(* from another's, finds its registers and continues where it was or where *)
(* the handler of its exception sends it (entry.S 158-195, 270-289).       *)
TaskKept ==
  [][at # "run" /\ at' = "run" /\ task' \notin clobbered
       => \/ /\ regs' = kept[task'].regs
             /\ pc' = kept[task'].pc
          \/ Enter("M") \/ Enter("U") \/ Enter("S")]_vars

(* When no more interrupts and exceptions come, the task goes on, and no   *)
(* enabled source is left waiting but those that an abandoned handler did  *)
(* not complete (interrupt.c 66-135).                                      *)
Calm ==
  at = "run" /\ ((priv = "M" /\ ~mie) \/ (Causes = {} /\ lines \cap Enables \subseteq orphans))
Settles ==
  <>[][~(Raise \/ Exception \/ NestedException)]_vars => []<>Calm
=============================================================================
