-------------------------- MODULE HartTraps_proofs --------------------------
(* Proofs about HartTraps, for every set of tasks, registers and sources.  *)
EXTENDS HartTraps, SequenceTheorems, TLAPS

USE HartAssumption, PlicAssumption

(* The frames of trap_handler: one more, the innermost one changed, one    *)
(* less.                                                                   *)
LEMMA Pushed ==
  ASSUME NEW S, NEW s \in Seq(S), NEW f \in S
  PROVE  /\ <<f>> \o s \in Seq(S) /\ Len(<<f>> \o s) = Len(s) + 1
         /\ (<<f>> \o s)[1] = f
         /\ \A i \in 2..(Len(s) + 1) : (<<f>> \o s)[i] = s[i - 1]
OBVIOUS

LEMMA Changed ==
  ASSUME NEW S, NEW s \in Seq(S), s # <<>>, NEW f \in S
  PROVE  /\ [s EXCEPT ![1] = f] \in Seq(S)
         /\ Len([s EXCEPT ![1] = f]) = Len(s)
         /\ [s EXCEPT ![1] = f][1] = f
         /\ \A i \in 2..Len(s) : [s EXCEPT ![1] = f][i] = s[i]
OBVIOUS

LEMMA Popped ==
  ASSUME NEW S, NEW s \in Seq(S), s # <<>>
  PROVE  /\ Tail(s) \in Seq(S) /\ Len(Tail(s)) = Len(s) - 1
         /\ \A i \in 1..Len(Tail(s)) : Tail(s)[i] = s[i + 1]
OBVIOUS

LEMMA TopFrame ==
  ASSUME frames \in Seq(Frame), InHandler
  PROVE  Top = frames[1] /\ Top \in Frame /\ Len(frames) >= 1
BY DEF InHandler, Top

----------------------------------------------------------------------------
(* The drivers, and what devices and handlers do to the sources.           *)

LEMMA RaiseStep ==
  ASSUME PlicTypeOK, EnabledInv, Raise \/ Withdraw
  PROVE  PlicTypeOK' /\ EnabledInv' /\ claimed' = claimed
<1>1. /\ lines' \subseteq Srcs /\ msip' \in BOOLEAN /\ mtip' \in BOOLEAN
      /\ UNCHANGED <<en, claimed, table, mie_csr, call>>
  BY DEF Raise, Withdraw, PlicTypeOK
<1> QED BY <1>1 DEF PlicTypeOK, EnabledInv, Enables

LEMMA EnableStep ==
  ASSUME PlicTypeOK, NEW s \in Srcs, NEW modes \in MODES
  PROVE  /\ Enable(s, modes) \in [Modes -> SUBSET Srcs]
         /\ Enable(s, modes)["M"] \cup Enable(s, modes)["S"] \subseteq Enables \cup {s}
  BY DEF PlicTypeOK, Enable, Enables, Modes

Entry == [isr : BOOLEAN, context : BOOLEAN]

LEMMA EntrySet ==
  ASSUME NEW e \in Entry
  PROVE  /\ [e EXCEPT !.isr = TRUE] \in Entry
         /\ [e EXCEPT !.context = TRUE] \in Entry
         /\ [e EXCEPT !.isr = TRUE].isr
         /\ [e EXCEPT !.context = TRUE].context
         /\ [e EXCEPT !.isr = TRUE].context = e.context
         /\ [e EXCEPT !.context = TRUE].isr = e.isr
  BY Zenon DEF Entry

(* An entry of the table gets its handler or its context.                  *)
LEMMA TableSet ==
  ASSUME NEW tab \in [Srcs -> Entry], NEW s \in Srcs, NEW e \in Entry
  PROVE  /\ [tab EXCEPT ![s] = e] \in [Srcs -> Entry]
         /\ \A u \in Srcs : [tab EXCEPT ![s] = e][u] = IF u = s THEN e ELSE tab[u]
  BY Zenon

LEMMA TableType ==
  ASSUME PlicTypeOK
  PROVE  table \in [Srcs -> Entry] /\ \A u \in Srcs : table[u] \in Entry
  BY Zenon DEF PlicTypeOK, Entry

LEMMA RegisterStep ==
  ASSUME PlicTypeOK, EnabledInv, Register
  PROVE  PlicTypeOK' /\ EnabledInv' /\ claimed' = claimed
<1>1. PICK s \in Srcs, modes \in MODES :
        /\ ~table[s].isr
        /\ table' = [table EXCEPT ![s].isr = TRUE]
        /\ call' = [src |-> s, modes |-> modes, at |-> "context"]
  BY DEF Register
<1>2. UNCHANGED <<lines, en, claimed, msip, mtip, mie_csr>>
  BY DEF Register
<1> DEFINE e == [table[s] EXCEPT !.isr = TRUE]
<1>3. table[s] \in Entry /\ table' = [table EXCEPT ![s] = e]
  BY <1>1, TableType, Zenon
<1>4. e \in Entry /\ e.isr /\ e.context = table[s].context
  BY <1>3, EntrySet
<1>5. /\ table' \in [Srcs -> Entry]
      /\ \A u \in Srcs : table'[u] = IF u = s THEN e ELSE table[u]
  <2> HIDE DEF e
  <2> QED BY <1>3, <1>4, TableType, TableSet
<1>6. call' \in [src : Srcs, modes : MODES, at : {"context", "enable"}]
  BY <1>1
<1>7. PlicTypeOK'
  BY <1>2, <1>5, <1>6 DEF PlicTypeOK, Entry
<1>8. Enables' \subseteq Srcs /\ Enables' = Enables
  BY <1>2 DEF PlicTypeOK, Enables, Modes
<1>9. EnabledInv'
  <2> HIDE DEF e
  <2>1. call'.src = s /\ call'.at = "context"
    BY <1>1
  <2>2. \A u \in Srcs : table'[u].context = table[u].context /\ (table[u].isr => table'[u].isr)
    BY <1>4, <1>5, Zenon
  <2>3. table'[s].isr
    BY <1>4, <1>5
  <2> QED BY <1>1, <1>8, <2>1, <2>2, <2>3 DEF EnabledInv
<1> QED BY <1>2, <1>7, <1>9

LEMMA RegisterGoesOnStep ==
  ASSUME PlicTypeOK, EnabledInv, RegisterGoesOn
  PROVE  PlicTypeOK' /\ EnabledInv' /\ claimed' = claimed
<1>1. PICK s \in Srcs, modes \in MODES : s = call.src /\ modes = call.modes
  BY DEF RegisterGoesOn, PlicTypeOK
<1>2. /\ call \in [src : Srcs, modes : MODES, at : {"context", "enable"}]
      /\ table[s].isr /\ (call.at = "enable" => table[s].context)
      /\ UNCHANGED <<lines, claimed, msip, mtip, mie_csr>>
  BY <1>1 DEF RegisterGoesOn, PlicTypeOK, EnabledInv
<1>3. CASE /\ call.at = "context" /\ call' = [call EXCEPT !.at = "enable"]
           /\ table' = [table EXCEPT ![call.src].context = TRUE] /\ UNCHANGED en
  <2> DEFINE e == [table[s] EXCEPT !.context = TRUE]
  <2>1. table[s] \in Entry /\ table' = [table EXCEPT ![s] = e]
    BY <1>1, <1>3, TableType, Zenon
  <2>2. e \in Entry /\ e.context /\ e.isr = table[s].isr
    BY <2>1, EntrySet
  <2>3. /\ table' \in [Srcs -> Entry]
        /\ \A u \in Srcs : table'[u] = IF u = s THEN e ELSE table[u]
    <3> HIDE DEF e
    <3> QED BY <2>1, <2>2, TableType, TableSet
  <2>4. call' \in [src : Srcs, modes : MODES, at : {"context", "enable"}] /\ call'.src = s
    BY <1>1, <1>2, <1>3
  <2>5. PlicTypeOK'
    BY <1>2, <1>3, <2>3, <2>4 DEF PlicTypeOK, Entry
  <2>6. Enables' \subseteq Srcs /\ Enables' = Enables
    BY <1>3 DEF PlicTypeOK, Enables, Modes
  <2>7. EnabledInv'
    <3> HIDE DEF e
    <3>1. \A u \in Srcs : table'[u].isr = table[u].isr /\ (table[u].context => table'[u].context)
      BY <2>2, <2>3, Zenon
    <3>2. \A u \in Srcs : table'[u].context => table[u].context \/ u = s
      BY <2>2, <2>3, Zenon
    <3>3. table'[s].context
      BY <2>2, <2>3
    <3> QED BY <1>2, <2>4, <2>6, <3>1, <3>2, <3>3 DEF EnabledInv
  <2> QED BY <1>2, <2>5, <2>7
<1>4. CASE /\ call.at = "enable" /\ call' = NoCall
           /\ en' = Enable(call.src, call.modes) /\ UNCHANGED table
  <2>1. en' \in [Modes -> SUBSET Srcs] /\ Enables' \subseteq Enables \cup {s}
    BY <1>1, <1>4, EnableStep DEF Enables
  <2>2. PlicTypeOK'
    BY <1>2, <1>4, <2>1 DEF PlicTypeOK
  <2> QED BY <1>2, <1>4, <2>1, <2>2 DEF EnabledInv
<1> QED BY <1>3, <1>4 DEF RegisterGoesOn

LEMMA SwitchStep ==
  ASSUME PlicTypeOK, EnabledInv, EnableAgain \/ Disable
  PROVE  PlicTypeOK' /\ EnabledInv' /\ claimed' = claimed
<1>1. UNCHANGED <<lines, claimed, table, msip, mtip, mie_csr, call>>
  BY DEF EnableAgain, Disable
<1>2. en' \in [Modes -> SUBSET Srcs] /\ \A u \in Enables' : u \in Enables \/ table[u].context
  <2>1. CASE EnableAgain
    <3>1. PICK s \in Srcs, modes \in MODES : table[s].context /\ en' = Enable(s, modes)
      BY <2>1 DEF EnableAgain
    <3> QED BY <3>1, EnableStep DEF Enables
  <2>2. CASE Disable
    BY <2>2 DEF Disable, PlicTypeOK, Enables, Modes
  <2> QED BY <2>1, <2>2
<1> QED BY <1>1, <1>2 DEF PlicTypeOK, EnabledInv

LEMMA TimerStep ==
  ASSUME PlicTypeOK, EnabledInv, Timer
  PROVE  PlicTypeOK' /\ EnabledInv' /\ claimed' = claimed
<1>1. /\ mtip' \in BOOLEAN /\ mie_csr' \subseteq {"MEIP", "SEIP", "MSIP", "MTIP"}
      /\ UNCHANGED <<lines, en, claimed, table, msip, call>>
  BY DEF Timer, StartTimer, StopTimer, PlicTypeOK
<1> QED BY <1>1 DEF PlicTypeOK, EnabledInv, Enables

LEMMA SilenceStep ==
  ASSUME PlicTypeOK, EnabledInv, Silence, claimed' \subseteq claimed
  PROVE  PlicTypeOK' /\ EnabledInv'
<1>1. /\ lines' \subseteq Srcs /\ mtip' \in BOOLEAN
      /\ mie_csr' \subseteq {"MEIP", "SEIP", "MSIP", "MTIP"}
      /\ UNCHANGED <<en, table, msip, call>>
  BY DEF Silence, StartTimer, StopTimer, PlicTypeOK
<1> QED BY <1>1 DEF PlicTypeOK, EnabledInv, Enables

----------------------------------------------------------------------------
(* Traps.                                                                  *)

Saved == [regs : Regs \cup {"handler"}, pc : Pc]

LEMMA CausesAsync == PlicTypeOK => Causes \subseteq Async
  BY DEF PlicTypeOK, Causes, Async

LEMMA SaveContext ==
  ASSUME HartInv, NEW r \in Regs \cup {"handler"}, NEW p \in Pc
  PROVE  /\ Save(r, p) \in [Tasks -> Saved]
         /\ Save(r, p)[task] = [regs |-> r, pc |-> p]
         /\ \A t \in Tasks \ {task} : Save(r, p)[t] = ctx[t]
<1>1. [regs |-> r, pc |-> p] \in Saved
  BY DEF Saved
<1>2. ctx \in [Tasks -> Saved] /\ task \in Tasks /\ mscratch = task
  BY DEF HartInv, HartTypeOK, DepthInv, Saved
<1> QED BY <1>1, <1>2 DEF Save

(* trap_entry, from a task or from the handler of one.                     *)
LEMMA TrapStep ==
  ASSUME HartInv, NEW cause \in Async \cup {"exc"},
         NEW r \in Regs \cup {"handler"}, NEW p \in Pc, Trap(cause, r, p),
         at = "run" \/ (at = "isr" /\ Len(frames) = 1)
  PROVE  /\ ctx' = Save(r, p) /\ ctx' \in [Tasks -> Saved]
         /\ frames' \in Seq(Frame) /\ Len(frames') = Len(frames) + 1
         /\ frames'[1] = [cause |-> cause, ret |-> p, irq |-> 0, from |-> at]
         /\ PlicTypeOK' /\ EnabledInv' /\ DepthInv' /\ ClaimInv'
<1> DEFINE f == [cause |-> cause, ret |-> p, irq |-> 0, from |-> at]
<1>1. f \in Frame /\ f.irq = 0 /\ f.from = at
  BY DEF Frame
<1>2. frames \in Seq(Frame) /\ frames' = <<f>> \o frames /\ ctx' = Save(r, p)
  BY DEF Trap, HartInv, HartTypeOK
<1>3. /\ frames' \in Seq(Frame) /\ Len(frames') = Len(frames) + 1
      /\ frames'[1] = f /\ \A i \in 2..Len(frames') : frames'[i] = frames[i - 1]
  <2> HIDE DEF f
  <2> QED BY <1>1, <1>2, Pushed
<1>4. PlicTypeOK' /\ EnabledInv' /\ claimed' = claimed
  BY DEF Trap, plicVars, HartInv, HartTypeOK, PlicTypeOK, EnabledInv, Enables, Modes
<1>5. Len(frames) \in Nat /\ (at = "run" => Len(frames) = 0)
  BY <1>2, LenProperties DEF HartInv, DepthInv, InHandler
<1>6. DepthInv'
  <2> HIDE DEF f
  <2>1. /\ depth' = depth + 1 /\ at' = "dispatch" /\ priv' = "M" /\ mie' = FALSE
        /\ mpie' = mie /\ mpp' = priv /\ launched' = launched
        /\ mscratch' = mscratch /\ task' = task
    BY DEF Trap
  <2>2. InHandler' /\ Len(frames') <= 2
    BY <1>3, <1>5 DEF InHandler
  <2>3. depth' = Len(frames') - (IF launched' THEN 1 ELSE 0) /\ mscratch' = task'
    BY <2>1, <1>3, <1>5 DEF HartInv, DepthInv
  <2>4. ASSUME NEW i \in 1..Len(frames')
        PROVE  frames'[i].from = "run" <=> i = Len(frames')
    <3>1. CASE i = 1
      BY <3>1, <1>1, <1>3, <1>5
    <3>2. CASE i # 1
      <4>1. frames'[i] = frames[i - 1] /\ i - 1 \in 1..Len(frames)
        BY <3>2, <1>3, <1>5
      <4> QED BY <4>1, <1>3, <1>5 DEF HartInv, DepthInv
    <3> QED BY <3>1, <3>2
  <2>5. Len(frames') = 2 => mpp' = "M" /\ ~mpie'
    <3>1. Len(frames') = 2 => InHandler
      BY <1>3, <1>5 DEF HartInv, DepthInv
    <3> QED BY <2>1, <3>1 DEF HartInv, DepthInv
  <2> QED BY <2>1, <2>2, <2>3, <2>4, <2>5 DEF DepthInv
<1>7. ClaimInv'
  <2> HIDE DEF f
  <2>1. at' = "dispatch" /\ orphans' = orphans
    BY DEF Trap
  <2>2. Held \subseteq Held'
    <3>1. ASSUME NEW i \in 1..Len(frames) PROVE frames[i].irq \in Held'
      <4>1. i + 1 \in 2..Len(frames') /\ frames'[i + 1] = frames[i]
        BY <1>3, <1>5
      <4> QED BY <4>1 DEF Held
    <3> QED BY <3>1 DEF Held
  <2>3. Top' = f
    BY <1>3 DEF Top
  <2> QED BY <1>1, <1>4, <2>1, <2>2, <2>3 DEF ClaimInv, HartInv
<1> QED BY <1>2, <1>3, <1>4, <1>6, <1>7, SaveContext

(* What trap_entry leaves in the hart.                                     *)
LEMMA TrapTypes ==
  ASSUME HartInv, NEW cause, NEW r, NEW p, Trap(cause, r, p)
  PROVE  /\ at' = "dispatch" /\ regs' = "handler" /\ pc' \in Pc
         /\ mie' \in BOOLEAN /\ mpie' \in BOOLEAN /\ priv' = "M" /\ mpp' \in {"M", "S", "U"}
         /\ mscratch' \in Tasks /\ task' \in Tasks
         /\ launched' \in BOOLEAN /\ orphans' \subseteq Srcs
<1>1. 0 \in Pc
  BY DEF Pc
<1> QED BY <1>1 DEF Trap, HartInv, HartTypeOK

LEMMA TaskTrapsStep ==
  ASSUME HartInv, at = "run", NEW cause \in Async \cup {"exc"}, TaskTraps(cause)
  PROVE  HartInv'
<1>1. PICK r \in Regs, p \in Pc :
        /\ Trap(cause, r, p)
        /\ kept' = [kept EXCEPT ![task] = [regs |-> r, pc |-> p]]
        /\ clobbered' = clobbered \ {task}
  BY DEF TaskTraps
<1>2. /\ ctx' = Save(r, p) /\ ctx' \in [Tasks -> Saved]
      /\ frames' \in Seq(Frame) /\ Len(frames') = Len(frames) + 1
      /\ frames'[1] = [cause |-> cause, ret |-> p, irq |-> 0, from |-> at]
      /\ PlicTypeOK' /\ EnabledInv' /\ DepthInv' /\ ClaimInv'
  BY <1>1, TrapStep
<1>3. task \in Tasks /\ kept \in [Tasks -> Saved] /\ [regs |-> r, pc |-> p] \in Saved
  BY DEF HartInv, HartTypeOK, Saved
<1>4. /\ kept' \in [Tasks -> Saved] /\ kept'[task] = [regs |-> r, pc |-> p]
      /\ \A t \in Tasks \ {task} : kept'[t] = kept[t]
  BY <1>1, <1>3
<1>5. HartTypeOK'
  <2>1. clobbered' \subseteq Tasks
    BY <1>1 DEF HartInv, HartTypeOK
  <2> QED BY <1>1, <1>2, <1>4, <2>1, TrapTypes DEF HartTypeOK, Saved
<1>6. ContextInv'
  <2>1. Len(frames') = 1 /\ Top' = frames'[1] /\ task' = task
    <3>1. Len(frames) = 0
      BY DEF HartInv, DepthInv, InHandler, HartTypeOK
    <3> QED BY <3>1, <1>1, <1>2 DEF Top, Trap
  <2>2. /\ ctx'[task].regs = kept'[task].regs /\ ctx'[task].pc = kept'[task].pc
        /\ Top'.ret = kept'[task].pc
    BY <1>2, <1>3, <1>4, <2>1, SaveContext
  <2>3. ASSUME NEW t \in Tasks \ clobbered', t # task PROVE ctx'[t] = kept'[t]
    BY <1>1, <1>2, <1>4, <2>3, SaveContext DEF HartInv, ContextInv
  <2> QED BY <2>1, <2>2, <2>3 DEF ContextInv
<1> QED BY <1>2, <1>5, <1>6 DEF HartInv

LEMMA NestedStep ==
  ASSUME HartInv, NestedException
  PROVE  HartInv'
<1>1. /\ at = "isr" /\ Len(frames) = 1 /\ Trap("exc", regs, 0)
      /\ clobbered' = clobbered \cup {task} /\ kept' = kept
  <2>1. frames \in Seq(Frame) /\ InHandler
    BY DEF NestedException, HartInv, DepthInv, HartTypeOK
  <2>2. Len(frames) \in Nat /\ Len(frames) >= 1
    BY <2>1, TopFrame
  <2>3. Len(frames) < 2
    BY <2>2 DEF NestedException
  <2>4. Len(frames) = 1
    <3> DEFINE n == Len(frames)
    <3>1. n \in Nat /\ n >= 1 /\ n < 2
      BY <2>2, <2>3
    <3> HIDE DEF n
    <3>2. n = 1
      BY <3>1
    <3> QED BY <3>2 DEF n
  <2>5. at = "isr" /\ Trap("exc", regs, 0) /\ clobbered' = clobbered \cup {task} /\ kept' = kept
    BY DEF NestedException
  <2> QED BY <2>4, <2>5
<1>2. regs \in Regs \cup {"handler"} /\ 0 \in Pc /\ task \in Tasks
  BY DEF HartInv, HartTypeOK, Pc
<1>3. /\ ctx' = Save(regs, 0) /\ ctx' \in [Tasks -> Saved] /\ frames' \in Seq(Frame)
      /\ PlicTypeOK' /\ EnabledInv' /\ DepthInv' /\ ClaimInv'
  BY <1>1, <1>2, TrapStep
<1>s. \A u \in Tasks \ {task} : Save(regs, 0)[u] = ctx[u]
  BY <1>2, SaveContext
<1>4. HartTypeOK'
  <2>1. clobbered' \subseteq Tasks /\ kept' \in [Tasks -> Saved]
    BY <1>1 DEF HartInv, HartTypeOK, Saved
  <2> QED BY <1>1, <1>3, <2>1, TrapTypes DEF HartTypeOK, Saved
<1>5. ContextInv'
  <2>1. task' = task
    BY <1>1 DEF Trap
  <2>2. ASSUME NEW t \in Tasks \ clobbered' PROVE t # task /\ ctx'[t] = kept'[t]
    <3>1. t # task /\ ctx[t] = kept[t]
      BY <1>1, <2>2 DEF HartInv, ContextInv
    <3>2. \A u \in Tasks \ {task} : ctx'[u] = ctx[u]
      BY <1>3, <1>s
    <3> QED BY <1>1, <3>1, <3>2
  <2> QED BY <2>1, <2>2 DEF ContextInv
<1> QED BY <1>3, <1>4, <1>5 DEF HartInv

----------------------------------------------------------------------------
(* trap_handler.                                                           *)

LEMMA IrqOfFrame ==
  ASSUME NEW f \in Frame, NEW irq \in Srcs \cup {0}
  PROVE  /\ [f EXCEPT !.irq = irq] \in Frame /\ [f EXCEPT !.irq = irq].irq = irq
         /\ [f EXCEPT !.irq = irq].from = f.from /\ [f EXCEPT !.irq = irq].ret = f.ret
         /\ [f EXCEPT !.irq = irq].cause = f.cause
  BY DEF Frame

(* The innermost call of trap_handler goes on.                             *)
LEMMA FrameStep ==
  ASSUME HartInv, InHandler, Stay, NEW f \in Frame, f.from = Top.from,
         frames' = [frames EXCEPT ![1] = f], at' \in {"isr", "exit"}
  PROVE  /\ frames' \in Seq(Frame) /\ Len(frames') = Len(frames) /\ InHandler'
         /\ Top' = f /\ f.irq \in Held' /\ Held \subseteq Held' \cup {Top.irq}
         /\ DepthInv'
<1>1. frames \in Seq(Frame) /\ frames # <<>>
  BY DEF HartInv, HartTypeOK, InHandler
<1>2. Len(frames) \in Nat /\ Len(frames) >= 1 /\ Top = frames[1]
  BY <1>1, TopFrame DEF InHandler
<1>3. /\ frames' \in Seq(Frame) /\ Len(frames') = Len(frames) /\ frames'[1] = f
      /\ \A i \in 2..Len(frames) : frames'[i] = frames[i]
  BY <1>1, Changed
<1>4. InHandler' /\ Top' = f
  BY <1>2, <1>3 DEF InHandler, Top
<1>5. f.irq \in Held'
  <2>1. 1 \in 1..Len(frames')
    BY <1>2, <1>3
  <2> QED BY <1>3, <2>1 DEF Held
<1>6. Held \subseteq Held' \cup {Top.irq}
  <2>1. ASSUME NEW i \in 1..Len(frames), i # 1 PROVE frames[i].irq \in Held'
    <3>1. i \in 2..Len(frames) /\ i \in 1..Len(frames')
      BY <1>2, <1>3, <2>1
    <3> QED BY <1>3, <3>1 DEF Held
  <2> QED BY <1>2, <2>1 DEF Held
<1>7. DepthInv'
  <2>1. UNCHANGED <<mie, mpie, mpp, priv, mscratch, depth, task, launched>>
    BY DEF Stay, statusVars
  <2>2. ASSUME NEW i \in 1..Len(frames')
        PROVE  frames'[i].from = frames[i].from
    BY <1>2, <1>3
  <2>3. \A i \in 1..Len(frames') : frames'[i].from = "run" <=> i = Len(frames')
    BY <1>3, <2>2 DEF HartInv, DepthInv
  <2> QED BY <1>3, <1>4, <2>1, <2>3 DEF HartInv, DepthInv
<1> QED BY <1>3, <1>4, <1>5, <1>6, <1>7

(* What stays as it was in a handler.                                      *)
LEMMA StayTypes ==
  ASSUME HartInv, Stay, at' \in {"run", "dispatch", "isr", "exit"},
         ctx' \in [Tasks -> Saved], kept' \in [Tasks -> Saved],
         frames' \in Seq(Frame), PlicTypeOK'
  PROVE  HartTypeOK'
  BY DEF HartInv, HartTypeOK, Stay, statusVars, Saved

LEMMA DispatchStep == ASSUME HartInv, Dispatch PROVE HartInv'
<1>1. /\ at = "dispatch" /\ InHandler /\ Top.irq = 0 /\ Stay
      /\ UNCHANGED <<lines, en, table, mtip, mie_csr, call, kept, ctx>>
  BY DEF HartInv, DepthInv, ClaimInv, Dispatch
<1>2. PICK irq \in Srcs \cup {0}, there \in BOOLEAN :
        /\ Serve(irq, there) /\ msip' \in BOOLEAN
        /\ claimed' \subseteq claimed \cup ({irq} \ {0}) /\ claimed' \subseteq Srcs
        /\ ~there => irq = 0
  <2>1. CASE \E mode \in {"M", "S"} : External(mode)
    <3>1. PICK mode \in {"M", "S"} : External(mode)
      BY <2>1
    <3>2. PICK s \in Srcs \cup {0} :
            /\ Serve(IF HasIsr(s) THEN s ELSE 0, HasIsr(s))
            /\ claimed' = claimed \cup (IF HasIsr(s) THEN {s} ELSE {})
      BY <3>1 DEF External
    <3>3. msip' \in BOOLEAN /\ claimed \subseteq Srcs
      BY <3>1 DEF External, HartInv, HartTypeOK, PlicTypeOK
    <3>4. CASE HasIsr(s)
      <4>1. s \in Srcs /\ s # 0
        BY <3>4 DEF HasIsr
      <4>2. Serve(s, TRUE) /\ claimed' = claimed \cup {s}
        BY <3>2, <3>4 DEF Serve
      <4> QED BY <3>3, <4>1, <4>2
    <3>5. CASE ~HasIsr(s)
      <4>1. Serve(0, FALSE) /\ claimed' = claimed
        BY <3>2, <3>5 DEF Serve
      <4> QED BY <3>3, <4>1
    <3> QED BY <3>4, <3>5
  <2>2. CASE Serve(0, TRUE) /\ msip' \in BOOLEAN /\ claimed' = claimed
    BY <2>2 DEF HartInv, HartTypeOK, PlicTypeOK
  <2>3. msip \in BOOLEAN
    BY DEF HartInv, HartTypeOK, PlicTypeOK
  <2> QED BY <2>1, <2>2, <2>3 DEF Dispatch
<1> DEFINE f == [Top EXCEPT !.irq = irq]
<1>3. Top \in Frame /\ Top = frames[1]
  BY <1>1, TopFrame DEF HartInv, HartTypeOK
<1>4. /\ f \in Frame /\ f.irq = irq /\ f.from = Top.from /\ f.ret = Top.ret
      /\ f.cause = Top.cause
  BY <1>3, IrqOfFrame
<1>5. frames' = [frames EXCEPT ![1] = f] /\ at' = IF there THEN "isr" ELSE "exit"
  BY <1>2, <1>3, Zenon DEF Serve
<1> HIDE DEF f
<1>6. /\ frames' \in Seq(Frame) /\ Len(frames') = Len(frames) /\ InHandler'
      /\ Top' = f /\ f.irq \in Held' /\ Held \subseteq Held' \cup {Top.irq} /\ DepthInv'
  BY <1>1, <1>4, <1>5, FrameStep
<1>7. PlicTypeOK' /\ EnabledInv'
  BY <1>1, <1>2 DEF HartInv, HartTypeOK, PlicTypeOK, EnabledInv, Enables
<1>8. ctx' \in [Tasks -> Saved] /\ kept' \in [Tasks -> Saved]
  BY <1>1 DEF HartInv, HartTypeOK, Saved
<1>9. HartTypeOK'
  BY <1>1, <1>5, <1>6, <1>7, <1>8, StayTypes
<1>10. ContextInv'
  BY <1>1, <1>4, <1>6 DEF HartInv, ContextInv, Stay
<1>11. ClaimInv'
  <2>1. claimed \subseteq orphans \cup Held' /\ 0 \notin claimed /\ orphans' = orphans
    BY <1>1, <1>6 DEF HartInv, ClaimInv, HartTypeOK, PlicTypeOK, Stay
  <2>2. claimed' \subseteq orphans' \cup Held'
    BY <1>2, <1>4, <1>6, <2>1
  <2>3. at' = "exit" => Top'.irq \notin claimed'
    BY <1>2, <1>4, <1>5, <1>6, <2>1
  <2> QED BY <1>5, <2>2, <2>3 DEF ClaimInv
<1> QED BY <1>6, <1>7, <1>9, <1>10, <1>11 DEF HartInv

(* The pc of a context or of how a task was left.                          *)
LEMMA PcOfSaved ==
  ASSUME NEW fcn \in [Tasks -> Saved], NEW t \in Tasks, NEW p \in Pc
  PROVE  LET g == [fcn EXCEPT ![t].pc = p]
         IN  /\ g \in [Tasks -> Saved] /\ g[t].regs = fcn[t].regs /\ g[t].pc = p
             /\ \A u \in Tasks \ {t} : g[u] = fcn[u]
  BY DEF Saved

LEMMA DispatchExceptionStep == ASSUME HartInv, DispatchException PROVE HartInv'
<1>1. /\ at = "dispatch" /\ Top.cause = "exc" /\ InHandler /\ Top.irq = 0 /\ Stay
      /\ UNCHANGED plicVars
  BY DEF HartInv, DepthInv, ClaimInv, DispatchException
<1>2. PICK entry \in {"default", "own", "none"}, p \in Pc :
        /\ entry = "none" => p = Top.ret
        /\ entry = "default" => p = Next4(Top.ret)
        /\ frames' = [frames EXCEPT ![1].ret = p, ![1].cause = entry]
        /\ kept' = IF Len(frames) > 1 THEN kept ELSE [kept EXCEPT ![task].pc = p]
        /\ ctx' = IF entry = "own" THEN [ctx EXCEPT ![mscratch].pc = p] ELSE ctx
        /\ at' = IF entry = "none" THEN "exit" ELSE "isr"
  BY DEF DispatchException
<1> DEFINE f == [Top EXCEPT !.ret = p, !.cause = entry]
<1>3. /\ Top \in Frame /\ Top = frames[1] /\ frames \in Seq(Frame)
      /\ Len(frames) \in Nat /\ Len(frames) >= 1
  BY <1>1, TopFrame DEF HartInv, HartTypeOK
<1>4. /\ f \in Frame /\ f.irq = 0 /\ f.from = Top.from /\ f.ret = p /\ f.cause = entry
  <2>1. PICK g \in Frame : g = Top
    BY <1>3
  <2>2. f = [g EXCEPT !.ret = p, !.cause = entry]
    BY <2>1
  <2> HIDE DEF f
  <2>3. f \in Frame /\ f.irq = g.irq /\ f.from = g.from /\ f.ret = p /\ f.cause = entry
    BY <2>2 DEF Frame
  <2> QED BY <1>1, <2>1, <2>3
<1>5. frames' = [frames EXCEPT ![1] = f]
  BY <1>2, <1>3
<1> HIDE DEF f
<1>6. /\ frames' \in Seq(Frame) /\ Len(frames') = Len(frames) /\ InHandler'
      /\ Top' = f /\ Held \subseteq Held' \cup {Top.irq} /\ DepthInv'
  BY <1>1, <1>2, <1>4, <1>5, FrameStep
<1>7. PlicTypeOK' /\ EnabledInv' /\ claimed' = claimed
  BY <1>1 DEF HartInv, HartTypeOK, PlicTypeOK, EnabledInv, Enables, plicVars, Modes
<1>8. /\ ctx \in [Tasks -> Saved] /\ kept \in [Tasks -> Saved]
      /\ task \in Tasks /\ mscratch = task
  BY DEF HartInv, HartTypeOK, DepthInv, Saved
<1>9. /\ ctx' \in [Tasks -> Saved] /\ ctx'[task].regs = ctx[task].regs
      /\ (entry = "own" => ctx'[task].pc = p)
      /\ \A u \in Tasks \ {task} : ctx'[u] = ctx[u]
  BY <1>2, <1>8, PcOfSaved
<1>10. /\ kept' \in [Tasks -> Saved] /\ kept'[task].regs = kept[task].regs
       /\ (Len(frames) = 1 => kept'[task].pc = p)
       /\ \A u \in Tasks \ {task} : kept'[u] = kept[u]
  <2>1. CASE Len(frames) > 1
    BY <1>2, <1>3, <1>8, <2>1
  <2>2. CASE ~(Len(frames) > 1)
    BY <1>2, <1>8, <2>2, PcOfSaved
  <2> QED BY <2>1, <2>2
<1>11. HartTypeOK'
  BY <1>1, <1>2, <1>6, <1>7, <1>9, <1>10, StayTypes
<1>12. ContextInv'
  <2>1. task' = task /\ clobbered' = clobbered
    BY <1>1 DEF Stay
  <2>2. ASSUME NEW t \in Tasks \ clobbered, t # task PROVE ctx'[t] = kept'[t]
    BY <1>9, <1>10, <2>2 DEF HartInv, ContextInv
  <2>3. ASSUME task \notin clobbered
        PROVE  /\ Len(frames') = 1 /\ ctx'[task].regs = kept'[task].regs
               /\ Top'.ret = kept'[task].pc
               /\ Top'.cause \notin {"default", "none"} => ctx'[task].pc = kept'[task].pc
    <3>1. Len(frames) = 1 /\ ctx[task].regs = kept[task].regs
      BY <1>1, <1>8, <2>3 DEF HartInv, ContextInv
    <3> QED BY <1>2, <1>4, <1>6, <1>9, <1>10, <3>1
  <2> QED BY <2>1, <2>2, <2>3 DEF ContextInv
<1>13. ClaimInv'
  <2>1. claimed \subseteq orphans \cup Held' /\ 0 \notin claimed /\ orphans' = orphans
    BY <1>1, <1>6 DEF HartInv, ClaimInv, HartTypeOK, PlicTypeOK, Stay
  <2> QED BY <1>2, <1>4, <1>6, <1>7, <2>1 DEF ClaimInv
<1> QED BY <1>6, <1>7, <1>11, <1>12, <1>13 DEF HartInv

LEMMA IsrReturnsStep == ASSUME HartInv, IsrReturns PROVE HartInv'
<1>1. /\ at = "isr" /\ at' = "exit" /\ Silence /\ claimed' = claimed \ {Top.irq} /\ Stay
      /\ UNCHANGED <<frames, kept, ctx>>
  BY DEF IsrReturns, Complete
<1>2. PlicTypeOK' /\ EnabledInv'
  BY <1>1, SilenceStep DEF HartInv, HartTypeOK
<1>3. HartTypeOK'
  <2>1. /\ ctx' \in [Tasks -> Saved] /\ kept' \in [Tasks -> Saved] /\ frames' \in Seq(Frame)
    BY <1>1 DEF HartInv, HartTypeOK, Saved
  <2> QED BY <1>1, <1>2, <2>1, StayTypes
<1>4. DepthInv'
  BY <1>1 DEF HartInv, DepthInv, Stay, statusVars, InHandler
<1>5. ContextInv'
  BY <1>1 DEF HartInv, ContextInv, Stay, InHandler, Top
<1>6. ClaimInv'
  <2>1. Held' = Held /\ Top' = Top /\ orphans' = orphans
    BY <1>1 DEF Held, Top, Stay
  <2> QED BY <1>1, <2>1 DEF HartInv, ClaimInv
<1> QED BY <1>2, <1>3, <1>4, <1>5, <1>6 DEF HartInv

----------------------------------------------------------------------------
(* Back to a task.                                                         *)

(* What of the sources a step leaves alone.                                *)
LEMMA PlicStays ==
  ASSUME HartInv, UNCHANGED plicVars
  PROVE  PlicTypeOK' /\ EnabledInv' /\ claimed' = claimed
  BY DEF HartInv, HartTypeOK, PlicTypeOK, EnabledInv, Enables, plicVars, Modes

LEMMA ExitStep == ASSUME HartInv, Exit PROVE HartInv'
<1>1. /\ at = "exit" /\ InHandler /\ mscratch = task
      /\ depth' = depth - 1 /\ frames' = Tail(frames) /\ regs' = ctx[mscratch].regs
      /\ mie' = mpie /\ mpie' = TRUE /\ priv' = mpp /\ mpp' = "U"
      /\ UNCHANGED <<mscratch, ctx, task, clobbered, launched, orphans>>
      /\ UNCHANGED plicVars
  BY DEF HartInv, DepthInv, Exit, Mret, ctxVars
<1>2. Top = frames[1] /\ Top \in Frame /\ frames \in Seq(Frame) /\ frames # <<>>
  BY <1>1, TopFrame DEF HartInv, HartTypeOK, InHandler
<1>3. Len(frames) \in 1..2
  <2> DEFINE n == Len(frames)
  <2>1. n \in Nat /\ n >= 1 /\ n <= 2
    BY <1>1, <1>2, TopFrame, LenProperties DEF HartInv, DepthInv
  <2> HIDE DEF n
  <2>2. n \in 1..2
    BY <2>1
  <2> QED BY <2>2 DEF n
<1>4. /\ frames' \in Seq(Frame) /\ Len(frames') = Len(frames) - 1
      /\ \A i \in 1..Len(frames') : frames'[i] = frames[i + 1]
  BY <1>1, <1>2, Popped
<1>5. PlicTypeOK' /\ EnabledInv' /\ claimed' = claimed
  BY <1>1, PlicStays
<1>6. /\ ctx \in [Tasks -> Saved] /\ kept \in [Tasks -> Saved] /\ task \in Tasks
      /\ ctx[task] \in Saved /\ pc \in Pc
  BY DEF HartInv, HartTypeOK, Saved
<1>7. ClaimInv' \/ at' \in {"dispatch", "exit"}
  <2>1. Held \subseteq Held' \cup {Top.irq}
    <3>1. ASSUME NEW i \in 1..Len(frames), i # 1 PROVE frames[i].irq \in Held'
      <4> DEFINE j == i - 1
      <4>1. j \in 1..Len(frames') /\ frames'[j] = frames[i]
        BY <1>3, <1>4, <3>1
      <4> QED BY <4>1 DEF Held
    <3> QED BY <1>2, <1>3, <3>1 DEF Held
  <2>2. claimed' \subseteq orphans' \cup Held'
    BY <1>1, <1>5, <2>1 DEF HartInv, ClaimInv
  <2> QED BY <2>2 DEF ClaimInv
<1>8. CASE Len(frames) = 2
  <2>1. at' = Top.from /\ UNCHANGED <<pc, kept>>
    BY <1>8 DEF Exit
  <2>2. Top.from = "isr" /\ mpp = "M" /\ ~mpie
    BY <1>2, <1>8 DEF HartInv, DepthInv, Frame
  <2>3. task \in clobbered
    BY <1>1, <1>6, <1>8 DEF HartInv, ContextInv
  <2>4. HartTypeOK'
    BY <1>1, <1>4, <1>5, <1>6, <2>1, <2>2 DEF HartInv, HartTypeOK, Saved
  <2>5. DepthInv'
    <3>1. Len(frames') = 1 /\ InHandler'
      <4>1. Len(frames') = 1
        BY <1>4, <1>8
      <4> QED BY <4>1 DEF InHandler
    <3>2. frames'[1].from = "run"
      BY <1>4, <1>8 DEF HartInv, DepthInv
    <3>3. depth' = Len(frames') - (IF launched' THEN 1 ELSE 0)
      BY <1>1, <1>8, <3>1 DEF HartInv, DepthInv
    <3>4. \A i \in 1..Len(frames') : frames'[i].from = "run" <=> i = Len(frames')
      BY <3>1, <3>2
    <3>5. Len(frames') <= 2 /\ Len(frames') # 2
      BY <3>1
    <3> QED BY <1>1, <2>1, <2>2, <3>1, <3>3, <3>4, <3>5 DEF DepthInv
  <2>6. ContextInv'
    BY <1>1, <2>1, <2>3 DEF HartInv, ContextInv
  <2>7. ClaimInv'
    BY <1>7, <2>1, <2>2
  <2> QED BY <1>5, <2>4, <2>5, <2>6, <2>7 DEF HartInv
<1>9. CASE Len(frames) = 1
  <2>1. at' = "run" /\ pc' = Top.ret /\ kept' = [kept EXCEPT ![task] = ctx[task]]
    BY <1>9 DEF Exit, ResumeAt, Resume
  <2>2. frames' = <<>> /\ ~InHandler' /\ Len(frames') = 0
    BY <1>4, <1>9, EmptySeq DEF InHandler
  <2>3. kept' \in [Tasks -> Saved] /\ \A u \in Tasks \ {task} : kept'[u] = kept[u]
    BY <1>6, <2>1
  <2>4. HartTypeOK'
    <3>1. pc' \in Pc /\ regs' \in Regs \cup {"handler"}
      BY <1>1, <1>2, <1>6, <2>1 DEF Frame, Saved
    <3> QED BY <1>1, <1>4, <1>5, <2>1, <2>3, <3>1 DEF HartInv, HartTypeOK, Saved
  <2>5. DepthInv'
    <3>1. depth' = Len(frames') - (IF launched' THEN 1 ELSE 0)
      BY <1>1, <1>9, <2>2 DEF HartInv, DepthInv
    <3>2. Len(frames') <= 2 /\ Len(frames') # 2 /\ 1..Len(frames') = {}
      BY <2>2
    <3> QED BY <1>1, <2>1, <2>2, <3>1, <3>2 DEF DepthInv
  <2>6. ContextInv'
    BY <1>1, <2>2, <2>3 DEF HartInv, ContextInv
  <2>7. ClaimInv'
    BY <1>7, <2>1
  <2> QED BY <1>5, <2>4, <2>5, <2>6, <2>7 DEF HartInv
<1> QED BY <1>3, <1>8, <1>9

(* A task switch, or the way into another mode, leaves the handler behind. *)
LEMMA AbandonStep ==
  ASSUME HartInv, Abandon, task' \in Tasks, mscratch' = task',
         UNCHANGED clobbered, regs' \in Regs \cup {"handler"}, pc' \in Pc,
         mie' \in BOOLEAN, mpie' \in BOOLEAN,
         priv' \in {"M", "S", "U"}, mpp' \in {"M", "S", "U"}
  PROVE  HartInv'
<1>1. depth' = depth - 1 /\ frames' = <<>> /\ at' = "run" /\ UNCHANGED ctx
  BY DEF Abandon
<1>2. /\ ctx \in [Tasks -> Saved] /\ kept \in [Tasks -> Saved] /\ task \in Tasks
      /\ ctx[task] \in Saved /\ frames \in Seq(Frame) /\ orphans \subseteq Srcs
      /\ launched \in BOOLEAN
  BY DEF HartInv, HartTypeOK, Saved
<1>3. kept' \in [Tasks -> Saved] /\ kept'[task] = ctx[task]
      /\ \A u \in Tasks \ {task} : kept'[u] = kept[u]
  BY <1>2 DEF Abandon, Resume
<1>4. ~InHandler' /\ Len(frames') = 0 /\ frames' \in Seq(Frame)
  BY <1>1 DEF InHandler
<1>5. /\ PlicTypeOK' /\ EnabledInv' /\ launched' \in BOOLEAN /\ orphans' \subseteq Srcs
      /\ claimed' \subseteq orphans'
      /\ depth' = 0 - (IF launched' THEN 1 ELSE 0)
  <2>1. CASE at = "run"
    <3>1. UNCHANGED plicVars /\ orphans' = orphans /\ launched' = TRUE /\ ~launched
      BY <2>1 DEF Abandon
    <3>2. PlicTypeOK' /\ EnabledInv' /\ claimed' = claimed
      BY <3>1, PlicStays
    <3>3. Len(frames) = 0 /\ Held = {}
      BY <2>1 DEF HartInv, DepthInv, InHandler, Held
    <3>4. depth = 0
      <4>1. depth = Len(frames)
        BY <3>1 DEF HartInv, DepthInv, HartTypeOK
      <4> QED BY <3>3, <4>1
    <3> QED BY <1>1, <1>2, <3>1, <3>2, <3>3, <3>4 DEF HartInv, ClaimInv
  <2>2. CASE at = "isr"
    <3>1. /\ Len(frames) = 1 /\ Silence /\ UNCHANGED <<claimed, launched>>
          /\ orphans' = orphans \cup ({Top.irq} \ {0})
      BY <2>2 DEF Abandon
    <3>2. PlicTypeOK' /\ EnabledInv' /\ 0 \notin claimed
      BY <3>1, SilenceStep DEF HartInv, HartTypeOK, PlicTypeOK
    <3>3. InHandler
      BY <2>2 DEF HartInv, DepthInv
    <3>4. Top = frames[1] /\ Top \in Frame /\ Held = {Top.irq}
      BY <1>2, <3>1, <3>3, TopFrame DEF Held
    <3>5. orphans' \subseteq Srcs
      BY <1>2, <3>1, <3>4 DEF Frame
    <3>6. claimed' \subseteq orphans'
      BY <3>1, <3>2, <3>4 DEF HartInv, ClaimInv
    <3>7. depth = 1 - (IF launched THEN 1 ELSE 0)
      BY <3>1 DEF HartInv, DepthInv
    <3> QED BY <1>1, <1>2, <3>1, <3>2, <3>5, <3>6, <3>7
  <2> QED BY <2>1, <2>2 DEF Abandon
<1>6. HartTypeOK'
  BY <1>1, <1>2, <1>3, <1>4, <1>5 DEF HartInv, HartTypeOK, Saved
<1>7. DepthInv'
  BY <1>1, <1>4, <1>5 DEF DepthInv
<1>8. ContextInv'
  <2>1. ASSUME NEW t \in Tasks \ clobbered, t # task' PROVE ctx'[t] = kept'[t]
    BY <1>1, <1>2, <1>3, <2>1 DEF HartInv, ContextInv
  <2> QED BY <1>4, <2>1 DEF ContextInv
<1>9. ClaimInv'
  BY <1>1, <1>5 DEF ClaimInv
<1> QED BY <1>5, <1>6, <1>7, <1>8, <1>9 DEF HartInv

(* mret after the functions of entry.S.                                    *)
LEMMA MretTypes ==
  ASSUME NEW ie \in BOOLEAN, NEW mode \in {"M", "S", "U"}, Mret(ie, mode)
  PROVE  /\ mie' \in BOOLEAN /\ mpie' \in BOOLEAN
         /\ priv' \in {"M", "S", "U"} /\ mpp' \in {"M", "S", "U"}
  BY DEF Mret

LEMMA MppTypes ==
  ASSUME HartInv, NEW mode \in {"M", "U", "S"}
  PROVE  Mpie(mode) \in BOOLEAN /\ Mpp(mode) \in {"M", "S", "U"}
  BY DEF HartInv, HartTypeOK, Mpie, Mpp

LEMMA SwitchToStep == ASSUME HartInv, SwitchTo PROVE HartInv'
<1>1. PICK t \in Tasks :
        mscratch' = t /\ task' = t /\ regs' = ctx[t].regs /\ pc' = ctx[t].pc
  BY DEF SwitchTo, ToContext
<1>2. ctx[t] \in Saved
  BY DEF HartInv, HartTypeOK, Saved
<1>3. /\ mie' \in BOOLEAN /\ mpie' \in BOOLEAN
      /\ priv' \in {"M", "S", "U"} /\ mpp' \in {"M", "S", "U"}
  <2>1. CASE Mret(mpie, mpp)
    BY <2>1, MretTypes DEF HartInv, HartTypeOK
  <2>2. CASE \E mode \in {"M", "U", "S"} : Mret(Mpie(mode), Mpp(mode))
    BY <2>2, MretTypes, MppTypes
  <2> QED BY <2>1, <2>2 DEF SwitchTo
<1>4. Abandon /\ UNCHANGED clobbered
  BY DEF SwitchTo
<1> QED BY <1>1, <1>2, <1>3, <1>4, AbandonStep DEF Saved

LEMMA EnterStep ==
  ASSUME HartInv, NEW mode \in {"M", "U", "S"}, Enter(mode)
  PROVE  HartInv'
<1>1. Abandon /\ pc' \in Pc /\ Mret(TRUE, Mpp(mode))
      /\ UNCHANGED <<regs, mscratch, task, clobbered>>
  BY DEF Enter
<1>2. /\ mie' \in BOOLEAN /\ mpie' \in BOOLEAN
      /\ priv' \in {"M", "S", "U"} /\ mpp' \in {"M", "S", "U"}
  BY <1>1, MretTypes, MppTypes
<1> QED BY <1>1, <1>2, AbandonStep DEF HartInv, HartTypeOK, DepthInv

----------------------------------------------------------------------------
(* The invariant.                                                          *)

LEMMA SourcesStep ==
  ASSUME HartInv, UNCHANGED hartVars, PlicTypeOK', EnabledInv', claimed' = claimed
  PROVE  HartInv'
<1>1. /\ UNCHANGED <<at, regs, pc, mie, mpie, mpp, priv, mscratch, ctx, depth, frames, task>>
      /\ UNCHANGED <<kept, clobbered, launched, orphans>>
  BY DEF hartVars, statusVars, ctxVars
<1>2. HartTypeOK'
  BY <1>1 DEF HartInv, HartTypeOK
<1>3. DepthInv' /\ ContextInv'
  BY <1>1 DEF HartInv, DepthInv, ContextInv, InHandler, Top
<1>4. ClaimInv'
  BY <1>1 DEF HartInv, ClaimInv, Held, Top
<1> QED BY <1>2, <1>3, <1>4 DEF HartInv

LEMMA InitHartInv == Init => HartInv
<1> SUFFICES ASSUME Init PROVE HartInv
  OBVIOUS
<1>1. PlicTypeOK /\ EnabledInv
  <2>1. Enables = {}
    BY DEF Init, PlicInit, Enables, Modes
  <2>2. \A s \in Srcs : ~table[s].context
    BY DEF Init, PlicInit
  <2>3. table \in [Srcs -> [isr : BOOLEAN, context : BOOLEAN]]
    BY DEF Init, PlicInit
  <2>4. call = NoCall /\ en \in [Modes -> SUBSET Srcs]
    BY DEF Init, PlicInit
  <2> QED BY <2>1, <2>2, <2>3, <2>4 DEF Init, PlicInit, PlicTypeOK, EnabledInv
<1>2. HartTypeOK
  <2>1. ctx \in [Tasks -> Saved] /\ kept = ctx
    BY DEF Init, Saved, Pc
  <2>2. frames \in Seq(Frame)
    BY DEF Init
  <2>3. pc \in Pc /\ regs \in Regs /\ mpp \in {"M", "U"}
    BY DEF Init, Pc
  <2> QED BY <1>1, <2>1, <2>2, <2>3 DEF Init, HartTypeOK, Saved
<1>3. ~InHandler /\ Len(frames) = 0 /\ 1..Len(frames) = {}
  BY DEF Init, InHandler
<1>4. DepthInv
  BY <1>3 DEF Init, DepthInv
<1>5. ContextInv
  BY <1>3 DEF Init, ContextInv
<1>6. ClaimInv
  BY DEF Init, PlicInit, ClaimInv
<1> QED BY <1>1, <1>2, <1>4, <1>5, <1>6 DEF HartInv

LEMMA NextHartInv ==
  ASSUME HartInv, [Next]_vars
  PROVE  HartInv'
<1>1. CASE Interrupt
  <2>1. PICK c \in Causes : at = "run" /\ TaskTraps(c)
    BY <1>1 DEF Interrupt
  <2>2. c \in Async
    BY CausesAsync DEF HartInv, HartTypeOK
  <2> QED BY <2>1, <2>2, TaskTrapsStep
<1>2. CASE Exception
  BY <1>2, TaskTrapsStep DEF Exception
<1>3. CASE NestedException
  BY <1>3, NestedStep
<1>4. CASE Dispatch
  BY <1>4, DispatchStep
<1>5. CASE DispatchException
  BY <1>5, DispatchExceptionStep
<1>6. CASE IsrReturns
  BY <1>6, IsrReturnsStep
<1>7. CASE Exit
  BY <1>7, ExitStep
<1>8. CASE SwitchTo
  BY <1>8, SwitchToStep
<1>9. CASE Enter("M") \/ Enter("U") \/ Enter("S")
  BY <1>9, EnterStep
<1>10. CASE Drivers
  <2>1. PlicTypeOK /\ EnabledInv
    BY DEF HartInv, HartTypeOK
  <2>2. PlicTypeOK' /\ EnabledInv' /\ claimed' = claimed
    BY <1>10, <2>1, RegisterStep, RegisterGoesOnStep, SwitchStep, TimerStep DEF Drivers
  <2> QED BY <1>10, <2>2, SourcesStep DEF Drivers
<1>11. CASE Outside
  <2>1. PlicTypeOK /\ EnabledInv
    BY DEF HartInv, HartTypeOK
  <2>2. PlicTypeOK' /\ EnabledInv' /\ claimed' = claimed
    BY <1>11, <2>1, RaiseStep DEF Outside
  <2> QED BY <1>11, <2>2, SourcesStep DEF Outside
<1>12. CASE UNCHANGED vars
  BY <1>12, PlicStays, SourcesStep DEF vars
<1> QED
  BY <1>1, <1>2, <1>3, <1>4, <1>5, <1>6, <1>7, <1>8, <1>9, <1>10, <1>11, <1>12
  DEF Next, Traps, Handle

(* Depth, contexts and claims are right in every state, and no source is   *)
(* enabled without its handler (entry.S 158-422, interrupt.c 66-135,       *)
(* plic.c 88-178).                                                         *)
THEOREM HartInvariant == Spec => []HartInv
<1>1. Init => HartInv
  BY InitHartInv
<1>2. HartInv /\ [Next]_vars => HartInv'
  BY NextHartInv
<1> QED BY <1>1, <1>2, PTL DEF Spec

----------------------------------------------------------------------------
(* A task finds what it was left with.                                     *)

Found ==
  at # "run" /\ at' = "run" /\ task' \notin clobbered
  => \/ regs' = kept[task'].regs /\ pc' = kept[task'].pc
     \/ Enter("M") \/ Enter("U") \/ Enter("S")

LEMMA ExitFound == ASSUME HartInv, Exit PROVE Found
<1> SUFFICES ASSUME at' = "run", task' \notin clobbered
             PROVE  regs' = kept[task'].regs /\ pc' = kept[task'].pc
  BY DEF Found
<1>1. /\ at = "exit" /\ regs' = ctx[mscratch].regs /\ task' = task /\ mscratch = task
      /\ task \in Tasks /\ InHandler
  BY DEF Exit, ctxVars, HartInv, DepthInv, HartTypeOK
<1>2. /\ Len(frames) = 1 /\ ctx[task].regs = kept[task].regs /\ Top.ret = kept[task].pc
  BY <1>1 DEF HartInv, ContextInv
<1>3. pc' = Top.ret
  BY <1>2 DEF Exit, ResumeAt
<1> QED BY <1>1, <1>2, <1>3

LEMMA SwitchFound == ASSUME HartInv, SwitchTo PROVE Found
<1> SUFFICES ASSUME at # "run", task' \notin clobbered
             PROVE  regs' = kept[task'].regs /\ pc' = kept[task'].pc
  BY DEF Found
<1>1. task' \in Tasks /\ regs' = ctx[task'].regs /\ pc' = ctx[task'].pc
  BY DEF SwitchTo, ToContext
<1>2. at = "isr" /\ Top.cause \notin {"default", "none"} /\ InHandler
  BY DEF SwitchTo, Abandon, Async, HartInv, DepthInv
<1>3. ctx[task'].regs = kept[task'].regs /\ ctx[task'].pc = kept[task'].pc
  BY <1>1, <1>2 DEF HartInv, ContextInv
<1> QED BY <1>1, <1>3

(* A task that gets the hart back, from its own handler or by a switch     *)
(* from another's, finds its registers and continues where it was or where *)
(* the handler of its exception sends it (entry.S 158-195, 270-289).       *)
THEOREM TasksKept == Spec => TaskKept
<1>1. ASSUME HartInv, [Next]_vars PROVE [Found]_vars
  <2>1. CASE Traps
    <3>1. at' = "dispatch"
      BY <2>1 DEF Traps, Interrupt, Exception, NestedException, TaskTraps, Trap
    <3> QED BY <3>1 DEF Found
  <2>2. CASE Dispatch \/ DispatchException \/ IsrReturns
    <3>1. at' \in {"isr", "exit"}
      BY <2>2 DEF Dispatch, DispatchException, IsrReturns, External, Serve
    <3> QED BY <3>1 DEF Found
  <2>3. CASE Exit
    BY <1>1, <2>3, ExitFound
  <2>4. CASE SwitchTo
    BY <1>1, <2>4, SwitchFound
  <2>5. CASE Enter("M") \/ Enter("U") \/ Enter("S")
    BY <2>5 DEF Found
  <2>6. CASE Drivers \/ Outside
    <3>1. at' = at
      BY <2>6 DEF Drivers, Outside, hartVars
    <3> QED BY <3>1 DEF Found
  <2> QED BY <1>1, <2>1, <2>2, <2>3, <2>4, <2>5, <2>6 DEF Next, Handle
<1>2. [][Found]_vars => TaskKept
  <2>1. Found => (at # "run" /\ at' = "run" /\ task' \notin clobbered
                  => \/ regs' = kept[task'].regs /\ pc' = kept[task'].pc
                     \/ Enter("M") \/ Enter("U") \/ Enter("S"))
    BY DEF Found
  <2> QED BY <2>1, PTL DEF TaskKept
<1> QED BY <1>1, <1>2, HartInvariant, PTL DEF Spec
=============================================================================
