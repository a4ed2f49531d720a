------------------------- MODULE EmmcDriver_proofs -------------------------
(* Proofs about EmmcDriver, for every set of functions and lengths and     *)
(* every timing of the accesses.                                           *)
EXTENDS EmmcDriver, SequenceTheorems, TLAPS

USE LengthAssumption, AccessAssumption, FnsAssumption

----------------------------------------------------------------------------
(* Where a call is: its next access and the one before it.                 *)

Prev == IF call = None \/ pc < 2 THEN "none" ELSE Program(call.fn)[pc - 1]
Place == <<Prev, Step>>

Placed ==
  /\ call = None => pc = 0
  /\ call # None => call.fn \in Fns /\ pc \in 1..(Len(Program(call.fn)) + 1)

(* The command has ended and its status is not cleared yet.                *)
Unread ==
  {<<"poll", "resp">>, <<"poll", "read">>, <<"poll", "discard">>, <<"resp", "read">>,
   <<"read", "clear">>, <<"read", "ocr">>, <<"read", "retry">>, <<"read", "discard">>,
   <<"ocr", "retry">>}

(* There is no status of the call's own.                                   *)
Clear ==
  {<<"none", "none">>, <<"none", "regs">>, <<"regs", "start">>, <<"none", "discard">>,
   <<"discard", "regs">>, <<"discard", "none">>, <<"discard", "resp">>,
   <<"clear", "none">>, <<"retry", "resp">>, <<"resp", "none">>,
   <<"none", "reset">>, <<"reset", "config">>, <<"config", "release">>,
   <<"release", "none">>}

Polling == <<"start", "poll">>

(* What an access can lead to.                                             *)
Moves ==
  {<<"none", "discard", "discard", "regs">>, <<"none", "regs", "regs", "start">>,
   <<"discard", "regs", "regs", "start">>, <<"regs", "start", "start", "poll">>,
   <<"start", "poll", "start", "poll">>, <<"start", "poll", "poll", "resp">>,
   <<"start", "poll", "poll", "read">>, <<"start", "poll", "poll", "discard">>,
   <<"poll", "resp", "resp", "read">>, <<"poll", "read", "read", "retry">>,
   <<"poll", "read", "read", "discard">>, <<"poll", "discard", "discard", "none">>,
   <<"resp", "read", "read", "clear">>, <<"resp", "read", "read", "ocr">>,
   <<"resp", "read", "ocr", "retry">>, <<"read", "clear", "clear", "none">>,
   <<"read", "ocr", "ocr", "retry">>,
   <<"ocr", "retry", "retry", "resp">>, <<"ocr", "retry", "regs", "start">>,
   <<"read", "retry", "retry", "resp">>, <<"read", "retry", "regs", "start">>,
   <<"read", "discard", "discard", "none">>, <<"read", "discard", "discard", "resp">>,
   <<"retry", "resp", "resp", "none">>, <<"discard", "resp", "resp", "none">>,
   <<"none", "reset", "reset", "config">>, <<"reset", "config", "config", "release">>,
   <<"config", "release", "release", "none">>}

LEMMA SdOpCondIs ==
  Len(SdOpCond) = 7 /\ SdOpCond[1] = "discard" /\ SdOpCond[2] = "regs"
  /\ SdOpCond[3] = "start" /\ SdOpCond[4] = "poll" /\ SdOpCond[5] = "read"
  /\ SdOpCond[6] = "discard" /\ SdOpCond[7] = "resp"
<1>1. SdSendCmd \in Seq({"discard", "regs", "start", "poll", "read"})
  BY DEF SdSendCmd
<1>2. Len(SdSendCmd) = 6
  BY DEF SdSendCmd
<1>3. SdOpCond = Append(SdSendCmd, "resp")
  BY DEF SdOpCond
<1>4. /\ Len(Append(SdSendCmd, "resp")) = Len(SdSendCmd) + 1
      /\ \A i \in 1..Len(SdSendCmd) : Append(SdSendCmd, "resp")[i] = SdSendCmd[i]
      /\ Append(SdSendCmd, "resp")[Len(SdSendCmd) + 1] = "resp"
  <2> DEFINE S == {"discard", "regs", "start", "poll", "read", "resp"}
  <2>1. SdSendCmd \in Seq(S) /\ "resp" \in S
    BY <1>1
  <2> HIDE DEF S
  <2> QED BY <2>1
<1>5. /\ Len(SdOpCond) = 7 /\ SdOpCond[7] = "resp"
      /\ \A i \in 1..6 : SdOpCond[i] = SdSendCmd[i]
  BY <1>2, <1>3, <1>4
<1>6. /\ SdSendCmd[1] = "discard" /\ SdSendCmd[2] = "regs" /\ SdSendCmd[3] = "start"
      /\ SdSendCmd[4] = "poll" /\ SdSendCmd[5] = "read" /\ SdSendCmd[6] = "discard"
  BY DEF SdSendCmd
<1> QED BY <1>5, <1>6

LEMMA FormOf ==
  ASSUME NEW fn
  PROVE  \/ /\ Program(fn) = Plain
            /\ fn \notin {"ctl_init", "go_idle", "send_op_cond", "all_send_cid",
                          "sd_app_cmd", "sd_send_op_cond"}
         \/ Program(fn) = CtlInit /\ fn = "ctl_init"
         \/ Program(fn) = GoIdle /\ fn = "go_idle"
         \/ Program(fn) = SendOpCond /\ fn = "send_op_cond"
         \/ Program(fn) = AllSendCid /\ fn = "all_send_cid"
         \/ Program(fn) = SdSendCmd /\ fn = "sd_app_cmd"
         \/ Program(fn) = SdOpCond /\ fn = "sd_send_op_cond"
BY DEF Program

LEMMA PlaceOf ==
  ASSUME Placed
  PROVE  Place \in Unread \cup Clear \cup {Polling}
<1> DEFINE P == Program(call.fn)
<1>0. CASE call = None
  BY <1>0 DEF Place, Prev, Step, Clear
<1>1. CASE call # None
  <2>1. /\ pc \in 1..(Len(P) + 1)
        /\ Step = IF pc > Len(P) THEN "none" ELSE P[pc]
        /\ Prev = IF pc < 2 THEN "none" ELSE P[pc - 1]
    BY <1>1 DEF Placed, Step, Prev
  <2>2. P \in {Plain, GoIdle, SendOpCond, AllSendCid, SdSendCmd, SdOpCond, CtlInit}
    BY FormOf
  <2> HIDE DEF P
  <2>3. CASE P = Plain
    <3>1. Len(P) = 6
      BY <2>3 DEF Plain
    <3>2. pc \in {1, 2, 3, 4, 5, 6, 7}
      BY <2>1, <3>1
    <3> QED BY <2>1, <2>3, <3>1, <3>2 DEF Plain, Place, Unread, Clear, Polling
  <2>4. CASE P = GoIdle
    <3>1. Len(P) = 4
      BY <2>4 DEF GoIdle
    <3>2. pc \in {1, 2, 3, 4, 5}
      BY <2>1, <3>1
    <3> QED BY <2>1, <2>4, <3>1, <3>2 DEF GoIdle, Place, Unread, Clear, Polling
  <2>5. CASE P = SendOpCond
    <3>1. Len(P) = 8
      BY <2>5 DEF SendOpCond
    <3>2. pc \in {1, 2, 3, 4, 5, 6, 7, 8, 9}
      BY <2>1, <3>1
    <3> QED BY <2>1, <2>5, <3>1, <3>2 DEF SendOpCond, Place, Unread, Clear, Polling
  <2>6. CASE P = AllSendCid
    <3>1. Len(P) = 7
      BY <2>6 DEF AllSendCid
    <3>2. pc \in {1, 2, 3, 4, 5, 6, 7, 8}
      BY <2>1, <3>1
    <3> QED BY <2>1, <2>6, <3>1, <3>2 DEF AllSendCid, Place, Unread, Clear, Polling
  <2>7. CASE P = SdSendCmd
    <3>1. Len(P) = 6
      BY <2>7 DEF SdSendCmd
    <3>2. pc \in {1, 2, 3, 4, 5, 6, 7}
      BY <2>1, <3>1
    <3> QED BY <2>1, <2>7, <3>1, <3>2 DEF SdSendCmd, Place, Unread, Clear, Polling
  <2>8. CASE P = SdOpCond
    <3>1. Len(P) = 7
      BY <2>8, SdOpCondIs
    <3>2. pc \in {1, 2, 3, 4, 5, 6, 7, 8}
      BY <2>1, <3>1
    <3> QED BY <2>1, <2>8, <3>1, <3>2, SdOpCondIs DEF Place, Unread, Clear, Polling
  <2>9. CASE P = CtlInit
    <3>1. Len(P) = 3
      BY <2>9 DEF CtlInit
    <3>2. pc \in {1, 2, 3, 4}
      BY <2>1, <3>1
    <3> QED BY <2>1, <2>9, <3>1, <3>2 DEF CtlInit, Place, Unread, Clear, Polling
  <2> QED BY <2>2, <2>3, <2>4, <2>5, <2>6, <2>7, <2>8, <2>9
<1> QED BY <1>0, <1>1

LEMMA MoveOf ==
  ASSUME Placed, NEW s, Land(s)
  PROVE  /\ Placed'
         /\ <<Prev, Step, Prev', Step'>> \in Moves
         /\ s = "poll" /\ busy => Place' = Polling
         /\ s = "poll" /\ ~busy => Prev' = "poll"
<1> DEFINE P == Program(call.fn)
           Here(n) == IF n > Len(P) THEN "none" ELSE P[n]
           Before(n) == IF n < 2 THEN "none" ELSE P[n - 1]
<1>1. call # None /\ s # "none" /\ s = Step /\ call' = call /\ pc' = NextPc(s)
  BY DEF Land, Step
<1>2. /\ pc \in 1..Len(P) /\ pc \in Nat /\ s = P[pc] /\ Step = Here(pc) /\ Prev = Before(pc)
      /\ Len(P) \in Nat
  <2>1. P \in {Plain, GoIdle, SendOpCond, AllSendCid, SdSendCmd, SdOpCond, CtlInit}
    BY FormOf
  <2>2. Len(P) \in {3, 4, 6, 7, 8}
    <3> HIDE DEF P
    <3> QED BY <2>1, SdOpCondIs DEF Plain, GoIdle, SendOpCond, AllSendCid, SdSendCmd, CtlInit
  <2> QED BY <1>1, <2>2 DEF Placed, Step, Prev
<1>3. Step' = Here(pc') /\ Prev' = Before(pc')
  BY <1>1 DEF Step, Prev
<1> DEFINE again_n == CHOOSE n \in 1..pc : P[n] = "start"
<1>4. pc' = CASE s = "poll" /\ busy -> pc
              [] s = "read" /\ call.fn = "send_op_cond" /\ "timeout" \in int_sts -> pc + 2
              [] s = "retry" /\ again -> again_n
              [] OTHER -> pc + 1
  BY <1>1 DEF NextPc
<1> SUFFICES /\ pc' \in 1..(Len(P) + 1)
             /\ <<Before(pc), Here(pc), Before(pc'), Here(pc')>> \in Moves
             /\ s = "poll" /\ busy => Before(pc') = "start" /\ Here(pc') = "poll"
             /\ s = "poll" /\ ~busy => Before(pc') = "poll"
  BY <1>1, <1>2, <1>3 DEF Placed, Place, Polling
<1>5. CASE P = Plain /\ call.fn # "send_op_cond"
  <2> HIDE DEF P
  <2>1. Len(P) = 6
    BY <1>5 DEF Plain
  <2>2. pc \in {1, 2, 3, 4, 5, 6}
    BY <1>2, <2>1
  <2> QED BY <1>2, <1>4, <1>5, <2>1, <2>2 DEF Moves, Plain
<1>6. CASE P = CtlInit /\ call.fn = "ctl_init"
  <2> HIDE DEF P
  <2>1. Len(P) = 3
    BY <1>6 DEF CtlInit
  <2>2. pc \in {1, 2, 3}
    BY <1>2, <2>1
  <2>3. P[1] = "reset" /\ P[2] = "config" /\ P[3] = "release"
    BY <1>6 DEF CtlInit
  <2>4. pc' = pc + 1 /\ s \notin {"poll"}
    BY <1>2, <1>4, <2>2, <2>3
  <2> QED BY <1>2, <2>1, <2>2, <2>3, <2>4 DEF Moves
<1>7. CASE P = GoIdle /\ call.fn = "go_idle"
  <2> HIDE DEF P
  <2>1. Len(P) = 4
    BY <1>7 DEF GoIdle
  <2>2. pc \in {1, 2, 3, 4}
    BY <1>2, <2>1
  <2> QED BY <1>2, <1>4, <1>7, <2>1, <2>2 DEF Moves, GoIdle
<1>8. CASE P = SendOpCond /\ call.fn = "send_op_cond"
  <2> HIDE DEF P
  <2>1. Len(P) = 8
    BY <1>8 DEF SendOpCond
  <2>2. pc \in {1, 2, 3, 4, 5, 6, 7, 8}
    BY <1>2, <2>1
  <2>3. pc = 7 => again_n = 2
    BY <1>8 DEF SendOpCond
  <2> HIDE DEF again_n
  <2> QED BY <1>2, <1>4, <1>8, <2>1, <2>2, <2>3 DEF Moves, SendOpCond
<1>9. CASE P = AllSendCid /\ call.fn = "all_send_cid"
  <2> HIDE DEF P
  <2>1. Len(P) = 7
    BY <1>9 DEF AllSendCid
  <2>2. pc \in {1, 2, 3, 4, 5, 6, 7}
    BY <1>2, <2>1
  <2>3. pc = 6 => again_n = 3
    BY <1>9 DEF AllSendCid
  <2> HIDE DEF again_n
  <2> QED BY <1>2, <1>4, <1>9, <2>1, <2>2, <2>3 DEF Moves, AllSendCid
<1>10. CASE P = SdSendCmd /\ call.fn = "sd_app_cmd"
  <2> HIDE DEF P
  <2>1. Len(P) = 6
    BY <1>10 DEF SdSendCmd
  <2>2. pc \in {1, 2, 3, 4, 5, 6}
    BY <1>2, <2>1
  <2> QED BY <1>2, <1>4, <1>10, <2>1, <2>2 DEF Moves, SdSendCmd
<1>11. CASE P = SdOpCond /\ call.fn = "sd_send_op_cond"
  <2> HIDE DEF P
  <2>1. Len(P) = 7
    BY <1>11, SdOpCondIs
  <2>2. pc \in {1, 2, 3, 4, 5, 6, 7}
    BY <1>2, <2>1
  <2> QED BY <1>2, <1>4, <1>11, <2>1, <2>2, SdOpCondIs DEF Moves
<1> QED BY FormOf, <1>5, <1>6, <1>7, <1>8, <1>9, <1>10, <1>11

----------------------------------------------------------------------------
(* The inductive invariant.                                                *)

(* A command starts, runs and ends at the poll; its done event outlasts    *)
(* the poll by less than an access takes.  A core reset is over before the *)
(* next access.                                                            *)
AtPlace ==
  /\ Placed /\ apb \in Nat
  /\ emmc_cmd_start => Place = Polling /\ apb >= 1 /\ ~busy /\ ~done
  /\ busy => Place = Polling
  /\ ended => ~busy /\ ~emmc_cmd_start
  /\ Place = Polling => emmc_cmd_start \/ busy \/ ended
  /\ Place \in Unread \cup {<<"clear", "none">>} => ended
  /\ Place = <<"none", "reset">> => ~ended
  /\ core_rst => Place = <<"reset", "config">> /\ apb >= 1
  /\ done /\ ~busy => Place = Polling \/ (Prev = "poll" /\ apb + settle > SETTLE)

(* The done bit is there until it is cleared.                              *)
DoneInv ==
  /\ Place = Polling /\ ended => done \/ "done" \in int_sts
  /\ Place \in Unread => "done" \in int_sts
  /\ Place = <<"read", "clear">> => "done" \in rdat

(* What is in INT_STS, or on its way there: the command's own errors, all  *)
(* of them, and late ones.                                                 *)
StatusInv ==
  /\ Place \in Clear \/ emmc_cmd_start => int_sts \cup det \subseteq stray
  /\ Place = Polling /\ ~emmc_cmd_start =>
       /\ errs \subseteq int_sts \cup det
       /\ int_sts \cup det \subseteq {"done"} \cup errs \cup stray
  /\ Place \in Unread =>
       /\ errs \subseteq int_sts
       /\ int_sts \subseteq {"done"} \cup errs \cup stray
       /\ det \subseteq stray
  /\ Place = <<"read", "clear">> => int_sts \subseteq rdat \cup stray
  /\ Place \in {<<"read", "clear">>, <<"clear", "none">>} => errs \subseteq rdat

AnswerInv ==
  call # None /\ ended /\ errs = {} => (answered <=> HasResponse(call.fn))

Asked == call.fn = "set_block_length" => call.len \in Lengths

(* The lengths of card and driver are in force, and those that the running *)
(* call may give them are once its command has started; what a             *)
(* SET_BLOCKLEN without an error leaves; the length in the CSR block.      *)
Unstarted == {<<"none", "regs">>, <<"regs", "start">>}
LengthInv ==
  /\ card_len \in in_force /\ emmc_block_size \in in_force
  /\ call.fn = "set_block_length" /\ Place \notin Unstarted => call.len \in in_force
  /\ call.fn = "go_idle" /\ Place \notin Unstarted => Default \in in_force
  /\ Place = <<"reset", "config">> => Default \in in_force
  /\ call.fn = "set_block_length" =>
       /\ ended /\ errs = {} => card_len = call.len
       /\ Place \in Unread \cup {<<"clear", "none">>} => emmc_block_size = call.len
  /\ call.fn \in MovesData \ OwnLength /\ (Prev = "regs" \/ Place = Polling) =>
       emmc_block_len = emmc_block_size

DriverInv ==
  TypeOK /\ AtPlace /\ DoneInv /\ StatusInv /\ AnswerInv /\ Asked /\ LengthInv

----------------------------------------------------------------------------
(* One edge.                                                               *)

TickWith(s) ==
  /\ s \in {"none", Step}
  /\ Driver(s) /\ Csr(s)
  /\ IF s = "reset" THEN EngineReset ELSE Engine
  /\ History(s)

LEMMA TickIs == Tick <=> \E s : TickWith(s)
BY DEF Tick, TickWith

LEMMA CallTypes ==
  ASSUME TypeOK, Placed, Asked, NEW s, TickWith(s)
  PROVE  /\ call' \in [fn : Fns \cup {"none"}, len : Lengths \cup {0}]
         /\ rdat' \subseteq Errors \cup {"done"} /\ again' \in BOOLEAN
         /\ Asked'
<1>1. rdat' \in {rdat, int_sts, {}} /\ again' \in BOOLEAN
  <2>1. Land(s) \/ Away(s) \/ Call(s) \/ Return(s)
    BY DEF TickWith, Driver
  <2>2. CASE Land(s)
    <3>1. rdat' = (IF s = "read" THEN int_sts ELSE rdat)
      BY <2>2 DEF Land
    <3>2. again' \in BOOLEAN
      <4>1. again \in BOOLEAN
        BY DEF TypeOK
      <4>2. CASE s = "read"
        BY <2>2, <4>2 DEF Land
      <4>3. CASE s = "ocr"
        BY <2>2, <4>3 DEF Land, NotReady
      <4>4. CASE s \notin {"read", "ocr"}
        BY <2>2, <4>1, <4>4 DEF Land
      <4> QED BY <4>2, <4>3, <4>4
    <3> QED BY <3>1, <3>2
  <2>3. CASE Away(s) \/ Call(s) \/ Return(s)
    BY <2>3 DEF TypeOK, Away, Call, Return
  <2> QED BY <2>1, <2>2, <2>3
<1>2. \/ call' = call \/ call' = None
      \/ \E fn \in Fns : \E len \in IF fn = "set_block_length" THEN Lengths ELSE {0} :
           call' = [fn |-> fn, len |-> len]
  BY DEF TickWith, Driver, Land, Away, Call, Return
<1> QED BY <1>1, <1>2 DEF TypeOK, Asked, None

LEMMA PcBound ==
  ASSUME NEW c, NEW p, c = None => p = 0, c # None => p \in 1..(Len(Program(c.fn)) + 1)
  PROVE  p \in 0..9
<1> DEFINE P == Program(c.fn)
<1>1. P \in {Plain, GoIdle, SendOpCond, AllSendCid, SdSendCmd, SdOpCond, CtlInit}
  BY FormOf
<1>2. c = None => p = 0
  OBVIOUS
<1>3. c # None => p \in 1..(Len(P) + 1)
  OBVIOUS
<1> HIDE DEF P
<1>4. \E m \in {3, 4, 6, 7, 8} : Len(P) = m
  BY <1>1, SdOpCondIs DEF Plain, GoIdle, SendOpCond, AllSendCid, SdSendCmd, CtlInit
<1> DEFINE n == Len(P)
<1>5. n \in Nat /\ n <= 8
  <2>1. PICK m \in {3, 4, 6, 7, 8} : n = m
    BY <1>4
  <2> HIDE DEF n
  <2> QED BY <2>1
<1>6. c # None => p \in 1..(n + 1)
  BY <1>3
<1> HIDE DEF n
<1> QED BY <1>2, <1>5, <1>6

(* What the driver does in a step: the next access lands, nothing, a call  *)
(* begins, a call returns.                                                 *)
Proceeds(s) ==
  /\ Land(s) /\ call # None /\ call' = call /\ s = Step /\ s # "none"
  /\ <<Prev, Step, Prev', Step'>> \in Moves
  /\ s = "poll" /\ busy => Place' = Polling
  /\ s = "poll" /\ ~busy => Prev' = "poll"

Stays(s) ==
  s = "none" /\ call' = call /\ pc' = pc /\ rdat' = rdat /\ Prev' = Prev /\ Step' = Step

Begins(s) ==
  /\ s = "none" /\ call = None /\ Place = <<"none", "none">>
  /\ call' # None /\ call'.fn # "none"
  /\ Place' \in {<<"none", "regs">>, <<"none", "discard">>, <<"none", "reset">>}
  /\ call'.fn \in {"set_block_length", "go_idle"} => Place' = <<"none", "regs">>

Closes(s) ==
  /\ s = "none" /\ call # None /\ Step = "none" /\ call' = None
  /\ Place' = <<"none", "none">>
  /\ call.fn = "set_block_length" => Place = <<"clear", "none">>

LEMMA NoFn == "none" \notin Fns /\ \A fn \in Fns : fn # "none"
BY DEF CmdIdx

LEMMA DriverMove ==
  ASSUME TypeOK, Placed, NEW s, TickWith(s)
  PROVE  Placed' /\ (Proceeds(s) \/ Stays(s) \/ Begins(s) \/ Closes(s))
<1>1. CASE Land(s)
  BY <1>1, MoveOf DEF Proceeds, Land, Step
<1>2. CASE Away(s)
  BY <1>2 DEF Away, Stays, Placed, Prev, Step
<1>3. CASE Call(s)
  <2>1. PICK fn \in Fns : \E len \in Lengths \cup {0} : call' = [fn |-> fn, len |-> len]
    BY <1>3 DEF Call
  <2>2. call' # None /\ call'.fn = fn /\ fn # "none"
    BY <2>1, NoFn DEF None
  <2>3. pc' = 1 /\ s = "none" /\ call = None
    BY <1>3 DEF Call
  <2> DEFINE P == Program(fn)
  <2>4. /\ Len(P) >= 1 /\ Len(P) \in Nat /\ P[1] \in {"regs", "discard", "reset"}
        /\ fn \in {"set_block_length", "go_idle"} => P[1] = "regs"
    <3>1. \/ P \in {Plain, GoIdle, SendOpCond}
          \/ /\ P \in {AllSendCid, SdSendCmd, SdOpCond, CtlInit}
             /\ fn \notin {"set_block_length", "go_idle"}
      BY FormOf
    <3> HIDE DEF P
    <3> QED BY <3>1, SdOpCondIs DEF Plain, GoIdle, SendOpCond, AllSendCid, SdSendCmd, CtlInit
  <2>5. Step' = P[1] /\ Prev' = "none"
    BY <2>2, <2>3, <2>4 DEF Step, Prev
  <2>6. Placed'
    BY <2>2, <2>3, <2>4 DEF Placed
  <2> QED BY <2>2, <2>3, <2>4, <2>5, <2>6 DEF Begins, Place, Step, Prev
<1>4. CASE Return(s)
  <2>1. call # None /\ call' = None /\ pc' = 0 /\ Step = "none" /\ s = "none"
    BY <1>4 DEF Return
  <2>2. Placed' /\ Place' = <<"none", "none">>
    BY <2>1 DEF Placed, Place, Step, Prev
  <2>3. ASSUME call.fn = "set_block_length" PROVE Place = <<"clear", "none">>
    <3>1. Program(call.fn) = Plain
      BY <2>3, FormOf
    <3>2. Len(Plain) = 6 /\ Plain[6] = "clear" /\ \A i \in 1..6 : Plain[i] # "none"
      BY DEF Plain
    <3>3. pc = 7
      BY <2>1, <3>1, <3>2 DEF Placed, Step
    <3> QED BY <2>1, <3>1, <3>2, <3>3 DEF Place, Prev
  <2> QED BY <2>1, <2>2, <2>3 DEF Closes
<1> QED BY <1>1, <1>2, <1>3, <1>4 DEF TickWith, Driver

LEMMA ApbStep ==
  ASSUME TypeOK, apb \in Nat, NEW s, TickWith(s)
  PROVE  /\ apb' \in Nat /\ apb' < IF READ > WRITE THEN READ ELSE WRITE
         /\ s # "none" => apb = 0
         /\ s = "none" => apb' = IF apb = 0 THEN 0 ELSE apb - 1
         /\ s = "poll" => apb' = READ - 1
         /\ s \in {"start", "reset"} => apb' = WRITE - 1
<1>1. /\ s # "none" => apb = 0
      /\ apb' = IF s # "none" THEN Access(s) ELSE IF apb = 0 THEN 0 ELSE apb - 1
  BY DEF TickWith, Driver, Apb
<1>2. /\ Access(s) = READ - 1 \/ Access(s) = WRITE - 1
      /\ s = "poll" => Access(s) = READ - 1
      /\ s \in {"start", "reset"} => Access(s) = WRITE - 1
  BY DEF Access
<1>3. apb < IF READ > WRITE THEN READ ELSE WRITE
  BY DEF TypeOK
<1> QED BY <1>1, <1>2, <1>3

LEMMA Lens ==
  ASSUME TypeOK, Asked, NEW s, TickWith(s)
  PROVE  /\ emmc_block_size' \in Blocklens
         /\ emmc_block_len' \in Blocklens \cup {0}
         /\ card_len' \in Blocklens
<1>1. \A len : Encoding(len) \in Blocklens
  BY DEF Encoding
<1>2. emmc_block_size' \in {Default, emmc_block_size}
      \/ (call.fn = "set_block_length" /\ emmc_block_size' = call.len)
  BY DEF TickWith, Driver, KeepLength
<1>3. emmc_block_len' \in {emmc_block_len, 0, Encoding(emmc_block_size)}
                          \cup {Encoding(n) : n \in Lengths}
  BY DEF TickWith, Csr
<1>4. card_len' \in {card_len, Default}
      \/ (call.fn = "set_block_length" /\ card_len' = call.len)
  BY DEF TickWith, EngineReset, Engine, Accept, Run, Retire, Rest, CardObeys
<1>5. call.fn = "set_block_length" => call.len \in Blocklens
  BY DEF Asked
<1> QED BY <1>1, <1>2, <1>3, <1>4, <1>5 DEF TypeOK

LEMMA EngineTypes ==
  ASSUME TypeOK, NEW s, TickWith(s)
  PROVE  /\ busy' \in BOOLEAN /\ done' \in BOOLEAN /\ settle' \in 0..SETTLE
         /\ det' \subseteq Errors /\ answered' \in BOOLEAN /\ late' \subseteq {"error"}
         /\ errs' \subseteq Errors /\ stray' \subseteq Errors
<1>1. EngineReset \/ Accept \/ Run \/ Retire \/ Rest
  BY DEF TickWith, Engine
<1>2. /\ busy \in BOOLEAN /\ done \in BOOLEAN /\ answered \in BOOLEAN
      /\ det \subseteq Errors /\ late \subseteq {"error"} /\ errs \subseteq Errors
      /\ stray \subseteq Errors /\ settle \in 0..SETTLE
  BY DEF TypeOK
<1>3. busy' \in BOOLEAN /\ done' \in BOOLEAN /\ answered' \in BOOLEAN
  <2>1. CASE EngineReset
    BY <2>1 DEF EngineReset
  <2>2. CASE Accept
    BY <1>2, <2>2 DEF Accept
  <2>3. CASE Run
    BY <1>2, <2>3 DEF Run
  <2>4. CASE Retire
    BY <2>4 DEF Retire, HasResponse
  <2>5. CASE Rest
    BY <1>2, <2>5 DEF Rest
  <2> QED BY <1>1, <2>1, <2>2, <2>3, <2>4, <2>5
<1>4. settle' \in 0..SETTLE
  <2>1. CASE Rest /\ done'
    <3>1. settle' = settle + 1 /\ settle < SETTLE
      BY <2>1 DEF Rest
    <3> QED BY <1>2, <3>1
  <2>2. CASE EngineReset \/ Accept \/ Run \/ Retire \/ (Rest /\ ~done')
    <3>1. settle' = 0
      BY <2>2 DEF EngineReset, Accept, Run, Retire, Rest
    <3> QED BY <3>1
  <2> QED BY <1>1, <2>1, <2>2
<1>5. \A own \in SUBSET Errors, strays \in SUBSET late :
        Raise(own, strays) => /\ det' \subseteq Errors
                              /\ errs' \subseteq Errors /\ stray' \subseteq Errors
  BY <1>2 DEF Raise, Errors
<1>6. det' \subseteq Errors /\ errs' \subseteq Errors /\ stray' \subseteq Errors
      /\ late' \subseteq {"error"}
  <2>1. CASE EngineReset
    BY <1>2, <2>1 DEF EngineReset
  <2>2. CASE Accept \/ Rest
    BY <1>2, <1>5, <2>2 DEF Accept, Rest
  <2>3. CASE Run
    <3>1. OwnErrors \subseteq Errors
      BY DEF OwnErrors
    <3>2. PICK own \in SUBSET OwnErrors, strays \in SUBSET late :
            Raise(own, strays) /\ late' = late \ strays
      BY <2>3 DEF Run
    <3> QED BY <1>2, <1>5, <3>1, <3>2
  <2>4. CASE Retire
    BY <1>2, <1>5, <2>4 DEF Retire
  <2> QED BY <1>1, <2>1, <2>2, <2>3, <2>4
<1> QED BY <1>3, <1>4, <1>6

LEMMA TypeStep ==
  ASSUME DriverInv, NEW s, TickWith(s)
  PROVE  TypeOK' /\ Asked' /\ Placed' /\ apb' \in Nat
<1>1. TypeOK /\ Asked /\ Placed /\ apb \in Nat
  BY DEF DriverInv, AtPlace
<1>2. Placed'
  BY <1>1, DriverMove
<1>3. pc' \in 0..9
  BY <1>2, PcBound DEF Placed
<1>4. /\ int_sts' \subseteq Errors \cup {"done"}
      /\ emmc_cmd_start' \in BOOLEAN /\ core_rst' \in BOOLEAN
  BY <1>1 DEF TypeOK, TickWith, Csr, IntSts, IntTrigger
<1>5. ended' \in BOOLEAN
  BY <1>1 DEF TypeOK, TickWith, History
<1>6. in_force' \subseteq Blocklens
  <2>1. call.fn = "set_block_length" => call.len \in Blocklens
    BY <1>1 DEF Asked
  <2>2. \/ in_force' \subseteq in_force \cup {Default}
        \/ call.fn = "set_block_length" /\ in_force' \subseteq in_force \cup {call.len}
    BY DEF TickWith, History
  <2> QED BY <1>1, <2>1, <2>2 DEF TypeOK
<1> QED BY <1>1, <1>2, <1>3, <1>4, <1>5, <1>6, CallTypes, ApbStep, Lens, EngineTypes DEF TypeOK

----------------------------------------------------------------------------
(* Commands begin, run and end at the poll.                                *)

LEMMA Accesses ==
  ASSUME NEW s, TickWith(s)
  PROVE  s # "none" => s = Step
BY DEF TickWith

LEMMA StartStep ==
  ASSUME NEW s, TickWith(s)
  PROVE  emmc_cmd_start' <=> (s = "start" /\ ~emmc_cmd_start)
BY DEF TickWith, Csr

(* While a command starts or runs the driver does not leave the poll.      *)
LEMMA AtPoll ==
  ASSUME DriverInv, NEW s, TickWith(s), emmc_cmd_start \/ busy
  PROVE  /\ Place = Polling /\ Place' = Polling /\ call # None /\ call' = call
         /\ s \in {"none", "poll"} /\ ~emmc_cmd_start'
         /\ emmc_cmd_start => s = "none"
         /\ Accept \/ Run \/ Retire
<1>1. Place = Polling /\ (emmc_cmd_start => apb >= 1 /\ ~busy)
  BY DEF DriverInv, AtPlace
<1>2. Prev = "start" /\ Step = "poll" /\ call # None
  BY <1>1 DEF Place, Polling, Step
<1>3. emmc_cmd_start => s = "none"
  BY <1>1, ApbStep DEF DriverInv, AtPlace
<1>4. Proceeds(s) \/ Stays(s)
  BY <1>1, <1>2, DriverMove DEF DriverInv, AtPlace, Begins, Closes, Place, Polling
<1>5. Place' = Polling /\ call' = call
  BY <1>2, <1>3, <1>4, Accesses DEF Proceeds, Stays, Place, Polling
<1>6. s \in {"none", "poll"}
  BY <1>2, Accesses
<1>7. Accept \/ Run \/ Retire
  BY <1>1, <1>6 DEF TickWith, Engine, Rest
<1> QED BY <1>1, <1>2, <1>3, <1>5, <1>6, <1>7, StartStep

(* Otherwise the engine is at rest, or is reset.                           *)
Still(s) ==
  /\ ~busy' /\ (done' => done /\ settle < SETTLE /\ settle' = settle + 1)
  /\ answered' = answered \/ (s = "reset" /\ errs' = {})
  /\ det' \subseteq stray'
  /\ stray' = (stray \cup det') \cap (int_sts' \cup det')
  /\ s # "reset" => /\ errs' = IF call = None THEN {} ELSE errs
                    /\ card_len' = card_len

LEMMA AtRest ==
  ASSUME DriverInv, NEW s, TickWith(s), ~emmc_cmd_start, ~busy
  PROVE  Still(s)
<1>1. CASE s = "reset"
  <2>1. EngineReset
    BY <1>1 DEF TickWith
  <2> QED BY <1>1, <2>1 DEF EngineReset, Still
<1>2. CASE s # "reset"
  <2>1. Rest
    BY <1>2 DEF TickWith, Engine, Accept, Run, Retire
  <2>2. PICK strays \in SUBSET late : Raise({}, strays)
    BY <2>1 DEF Rest
  <2>3. /\ det' = strays
        /\ stray' = (stray \cup strays) \cap (int_sts' \cup det')
        /\ errs' = IF call = None THEN {} ELSE errs
    BY <2>2 DEF Raise
  <2>4. /\ ~busy' /\ answered' = answered /\ card_len' = card_len
        /\ done' => done /\ settle < SETTLE /\ settle' = settle + 1
    BY <2>1 DEF Rest
  <2> QED BY <1>2, <2>3, <2>4 DEF Still
<1> QED BY <1>1, <1>2

LEMMA ResetStep ==
  ASSUME DriverInv, NEW s, TickWith(s)
  PROVE  /\ core_rst' <=> s = "reset" /\ ~core_rst
         /\ core_rst' => Place' = <<"reset", "config">> /\ apb' >= 1
         /\ core_rst => s = "none" /\ ~busy /\ ~emmc_cmd_start /\ ~done
<1>1. core_rst' <=> s = "reset" /\ ~core_rst
  BY DEF TickWith, Csr
<1>2. ASSUME s = "reset" PROVE Place' = <<"reset", "config">> /\ apb' >= 1
  <2>1. Proceeds(s)
    BY <1>2, DriverMove DEF DriverInv, AtPlace, Stays, Begins, Closes
  <2>2. apb' = WRITE - 1
    BY <1>2, ApbStep DEF DriverInv, AtPlace
  <2> QED BY <1>2, <2>1, <2>2 DEF Proceeds, Moves, Place
<1>3. ASSUME core_rst PROVE s = "none" /\ ~busy /\ ~emmc_cmd_start /\ ~done
  <2>1. Place = <<"reset", "config">> /\ apb >= 1
    BY <1>3 DEF DriverInv, AtPlace
  <2>2. s = "none"
    BY <2>1, ApbStep DEF DriverInv, AtPlace
  <2> QED BY <2>1, <2>2 DEF DriverInv, AtPlace, Place, Polling
<1> QED BY <1>1, <1>2, <1>3

LEMMA AtStep ==
  ASSUME DriverInv, NEW s, TickWith(s)
  PROVE  AtPlace'
<1>1. TypeOK /\ AtPlace /\ Placed /\ apb \in Nat /\ settle \in 0..SETTLE
  BY DEF DriverInv, AtPlace, TypeOK
<1>2. Placed' /\ apb' \in Nat
  BY TypeStep
<1>3. Proceeds(s) \/ Stays(s) \/ Begins(s) \/ Closes(s)
  BY <1>1, DriverMove
<1>4. ended' <=> (call # None /\ s # "start" /\ (ended \/ (busy /\ ~busy')))
  BY DEF TickWith, History
<1>5. CASE emmc_cmd_start \/ busy
  <2>1. /\ Place = Polling /\ Place' = Polling /\ call # None
        /\ s \in {"none", "poll"} /\ ~emmc_cmd_start' /\ (Accept \/ Run \/ Retire)
    BY <1>5, AtPoll
  <2>2. ~ended
    BY <1>1, <1>5 DEF AtPlace
  <2>3. busy' \/ ended'
    BY <1>4, <2>1 DEF Accept, Run, Retire
  <2>4. Place' \notin Unread \cup {<<"clear", "none">>, <<"none", "reset">>}
    BY <2>1 DEF Polling, Unread
  <2>5. ended' => ~busy'
    BY <1>4, <2>2
  <2> QED BY <1>2, <2>1, <2>3, <2>4, <2>5, ResetStep DEF AtPlace
<1>6. CASE ~emmc_cmd_start /\ ~busy
  <2>1. Still(s)
    BY <1>6, AtRest
  <2>2. emmc_cmd_start' <=> s = "start"
    BY <1>6, StartStep
  <2>3. ASSUME s = "start"
        PROVE  Place' = Polling /\ apb' >= 1 /\ ~done'
    <3>1. Step = "start" /\ Proceeds(s)
      BY <1>3, <2>3 DEF Proceeds, Stays, Begins, Closes
    <3>2. Prev = "regs" /\ Place' = Polling
      BY <3>1 DEF Proceeds, Moves, Place, Polling
    <3>3. ~done
      BY <1>1, <1>6, <3>1, <3>2 DEF AtPlace, Place, Polling
    <3> QED BY <1>1, <2>1, <2>3, <3>2, <3>3, ApbStep DEF Still
  <2>4. ended' => ~emmc_cmd_start'
    BY <1>4, <2>2
  <2>5. ASSUME Place' = Polling, s # "start" PROVE ended'
    <3>1. CASE Proceeds(s)
      <4>1. s = "poll" /\ Prev' = "poll"
        BY <1>6, <2>5, <3>1 DEF Proceeds, Moves, Place, Polling
      <4> QED BY <2>5, <4>1 DEF Place, Polling
    <3>2. CASE Stays(s)
      <4>1. Place = Polling
        BY <2>5, <3>2 DEF Stays, Place
      <4> QED BY <1>1, <1>4, <1>6, <2>5, <4>1 DEF AtPlace, Place, Polling, Step
    <3>3. CASE Begins(s) \/ Closes(s)
      BY <2>5, <3>3 DEF Begins, Closes, Polling
    <3> QED BY <1>3, <3>1, <3>2, <3>3
  <2>6. ASSUME Place' \in Unread \cup {<<"clear", "none">>} PROVE ended'
    <3>1. s # "start" /\ (Proceeds(s) \/ Stays(s))
      BY <1>3, <2>3, <2>6 DEF Begins, Closes, Unread, Polling
    <3>2. Place \in Unread \cup {Polling, <<"clear", "none">>}
      BY <2>6, <3>1 DEF Proceeds, Stays, Moves, Place, Polling, Unread
    <3>3. call # None
      BY <3>2 DEF Place, Step, Prev, Unread, Polling
    <3> QED BY <1>1, <1>4, <1>6, <3>1, <3>2, <3>3 DEF AtPlace
  <2>8. ASSUME Place' = <<"none", "reset">> PROVE ~ended'
    <3>1. CASE Stays(s)
      BY <1>1, <1>4, <1>6, <2>8, <3>1 DEF AtPlace, Stays, Place
    <3>2. CASE Begins(s)
      BY <1>4, <3>2 DEF Begins
    <3>3. CASE Proceeds(s) \/ Closes(s)
      BY <2>8, <3>3 DEF Proceeds, Closes, Moves, Place
    <3> QED BY <1>3, <3>1, <3>2, <3>3
  <2>7. ASSUME done'
        PROVE  Place' = Polling \/ (Prev' = "poll" /\ apb' + settle' > SETTLE)
    <3>1. done /\ settle < SETTLE /\ settle' = settle + 1
      BY <2>1, <2>7 DEF Still
    <3>2. CASE Place = Polling
      <4>1. CASE Proceeds(s)
        <5>1. s = "poll" /\ Prev' = "poll"
          BY <1>6, <3>2, <4>1 DEF Proceeds, Place, Polling
        <5>2. apb' = READ - 1
          BY <1>1, <5>1, ApbStep
        <5> QED BY <1>1, <3>1, <5>1, <5>2
      <4>2. CASE Stays(s)
        BY <3>2, <4>2 DEF Stays, Place
      <4> QED BY <1>3, <3>2, <4>1, <4>2 DEF Begins, Closes, Place, Polling
    <3>3. CASE Place # Polling
      <4>1. Prev = "poll" /\ apb + settle > SETTLE
        BY <1>1, <1>6, <3>1, <3>3 DEF AtPlace
      <4>2. apb >= 2
        BY <1>1, <3>1, <4>1
      <4>3. s = "none"
        BY <1>1, <4>2, ApbStep
      <4>4. Step # "none"
        BY <1>1, <4>1, PlaceOf DEF Place, Unread, Clear, Polling
      <4>5. Stays(s)
        BY <1>3, <4>1, <4>3, <4>4 DEF Proceeds, Begins, Closes, Place
      <4>6. apb' = apb - 1
        BY <1>1, <4>2, <4>3, ApbStep
      <4> QED BY <1>1, <3>1, <4>1, <4>2, <4>5, <4>6 DEF Stays
    <3> QED BY <3>2, <3>3
  <2> QED BY <1>2, <2>1, <2>2, <2>3, <2>4, <2>5, <2>6, <2>7, <2>8, ResetStep DEF AtPlace, Still
<1> QED BY <1>5, <1>6

----------------------------------------------------------------------------
(* What is in INT_STS.                                                     *)

LEMMA StatusStep ==
  ASSUME NEW s, TickWith(s)
  PROVE  /\ int_sts' = (int_sts \ Cleared(s)) \cup det \cup (IF done THEN {"done"} ELSE {})
         /\ s \notin {"clear", "discard", "retry"} => Cleared(s) = {}
         /\ s = "clear" => Cleared(s) = rdat
         /\ s \in {"discard", "retry"} => Cleared(s) = Errors \cup {"done"}
BY DEF TickWith, Csr, IntSts, IntTrigger, Cleared

LEMMA RdatStep ==
  ASSUME NEW s, Proceeds(s)
  PROVE  rdat' = IF s = "read" THEN int_sts ELSE rdat
BY DEF Proceeds, Land

(* Where the next access finds the call.                                   *)
LEMMA FromWhere ==
  ASSUME DriverInv, NEW s, TickWith(s), ~emmc_cmd_start, ~busy
  PROVE  /\ Place' \in Unread => /\ Stays(s) \/ Proceeds(s)
                                /\ Place \in Unread \cup {Polling}
                                /\ s \notin {"clear", "discard", "retry", "start", "reset"}
         /\ Place' \in Clear /\ Place \notin Clear =>
              Proceeds(s) /\ Place \in Unread /\ s \in {"clear", "discard", "retry"}
         /\ Place' = Polling =>
              (Stays(s) /\ Place = Polling) \/ (s = "start" /\ Proceeds(s) /\ Place \in Clear)
<1>1. Proceeds(s) \/ Stays(s) \/ Begins(s) \/ Closes(s)
  BY DriverMove DEF DriverInv, AtPlace
<1>2. Place \in Unread \cup Clear \cup {Polling}
  BY PlaceOf DEF DriverInv, AtPlace
<1>3. CASE Stays(s)
  BY <1>2, <1>3 DEF Stays, Place, Polling, Unread, Clear
<1>4. CASE Begins(s)
  BY <1>4 DEF Begins, Polling, Unread, Clear
<1>5. CASE Closes(s)
  <2>1. Place' = <<"none", "none">> /\ Step = "none"
    BY <1>5 DEF Closes
  <2>2. Place \in Clear
    BY <1>2, <2>1 DEF Place, Unread, Polling
  <2> QED BY <2>1, <2>2 DEF Unread, Polling
<1>6. CASE Proceeds(s)
  <2>1. <<Prev, Step, Prev', Step'>> \in Moves /\ s = Step /\ (s = "poll" => Prev' = "poll")
    BY <1>6 DEF Proceeds
  <2> QED BY <1>6, <2>1 DEF Moves, Place, Unread, Clear, Polling
<1> QED BY <1>1, <1>3, <1>4, <1>5, <1>6

LEMMA DoneStep ==
  ASSUME DriverInv, NEW s, TickWith(s)
  PROVE  DoneInv'
<1>1. AtPlace /\ DoneInv /\ TypeOK
  BY DEF DriverInv
<1>2. ended' <=> (call # None /\ s # "start" /\ (ended \/ (busy /\ ~busy')))
  BY DEF TickWith, History
<1>3. CASE emmc_cmd_start \/ busy
  <2>1. Place' = Polling /\ s \in {"none", "poll"} /\ (Accept \/ Run \/ Retire)
    BY <1>3, AtPoll
  <2>2. ASSUME ended' PROVE done' \/ "done" \in int_sts'
    <3>1. busy /\ ~busy'
      BY <1>1, <1>2, <1>3, <2>2 DEF AtPlace
    <3>2. done \/ done'
      BY <2>1, <3>1 DEF Accept, Run, Retire
    <3> QED BY <2>1, <3>2, StatusStep
  <2> QED BY <2>1, <2>2 DEF DoneInv, Polling, Unread
<1>4. CASE ~emmc_cmd_start /\ ~busy
  <2>1. ASSUME Place' = Polling, ended' PROVE "done" \in int_sts'
    <3>1. Stays(s) /\ Place = Polling
      BY <1>2, <1>4, <2>1, FromWhere
    <3>2. ended /\ s = "none"
      BY <1>2, <1>4, <2>1, <3>1 DEF Stays
    <3> QED BY <1>1, <3>1, <3>2, StatusStep DEF DoneInv
  <2>2. ASSUME Place' \in Unread PROVE "done" \in int_sts'
    <3>1. Place \in Unread \cup {Polling} /\ s \notin {"clear", "discard", "retry"}
      BY <1>4, <2>2, FromWhere
    <3>2. done \/ "done" \in int_sts
      BY <1>1, <1>4, <3>1 DEF DoneInv, AtPlace
    <3> QED BY <3>1, <3>2, StatusStep
  <2>3. ASSUME Place' = <<"read", "clear">> PROVE "done" \in rdat'
    <3>1. CASE Stays(s)
      BY <1>1, <2>3, <3>1 DEF Stays, DoneInv, Place
    <3>2. CASE Proceeds(s)
      <4>1. Place = <<"resp", "read">> /\ s = "read"
        BY <2>3, <3>2 DEF Proceeds, Moves, Place
      <4> QED BY <1>1, <3>2, <4>1, RdatStep DEF DoneInv, Unread
    <3> QED BY <1>4, <2>3, <3>1, <3>2, FromWhere DEF Unread
  <2> QED BY <2>1, <2>2, <2>3 DEF DoneInv
<1> QED BY <1>3, <1>4

(* An access finds no done event, but a poll.                              *)
LEMMA NotDone ==
  ASSUME DriverInv, NEW s, TickWith(s), ~busy, Place # Polling,
         Place \in Clear \/ s # "none"
  PROVE  ~done
<1>1. CASE Place \in Clear
  <2>1. Prev # "poll"
    BY <1>1 DEF Place, Clear
  <2> QED BY <2>1 DEF DriverInv, AtPlace
<1>2. CASE s # "none"
  <2>1. apb = 0 /\ settle \in 0..SETTLE
    BY <1>2, ApbStep DEF DriverInv, AtPlace, TypeOK
  <2>2. ~(apb + settle > SETTLE)
    BY <2>1
  <2> QED BY <2>2 DEF DriverInv, AtPlace
<1> QED BY <1>1, <1>2

(* The clear places.                                                       *)
LEMMA ClearStep ==
  ASSUME DriverInv, NEW s, TickWith(s), Place' \in Clear \/ emmc_cmd_start'
  PROVE  int_sts' \cup det' \subseteq stray'
<1>1. ~emmc_cmd_start /\ ~busy
  <2>1. Polling \notin Clear
    BY DEF Polling, Clear
  <2> QED BY <2>1, AtPoll
<1>2. /\ stray' = (stray \cup det') \cap (int_sts' \cup det')
      /\ Place \in Clear => int_sts \cup det \subseteq stray
      /\ Place \in Unread => det \subseteq stray
  BY <1>1, AtRest DEF Still, DriverInv, StatusInv
<1>3. Place \in Clear \/ (Place \in Unread /\ s \in {"clear", "discard", "retry"} /\ Proceeds(s))
  <2>1. CASE Place' \in Clear
    BY <1>1, <2>1, FromWhere
  <2>2. CASE emmc_cmd_start'
    <3>1. Step = "start"
      BY <2>2, StartStep, Accesses
    <3>2. Place \in Clear
      BY <3>1, PlaceOf DEF DriverInv, AtPlace, Place, Unread, Polling
    <3> QED BY <3>2
  <2> QED BY <2>1, <2>2
<1>4. ~done
  BY <1>1, <1>3, NotDone DEF Clear, Unread, Polling
<1>5. CASE Place \in Clear
  <2>1. int_sts' \subseteq stray
    BY <1>2, <1>4, <1>5, StatusStep
  <2> QED BY <1>2, <2>1
<1>6. CASE Place \in Unread /\ s \in {"discard", "retry"}
  <2>1. int_sts \subseteq Errors \cup {"done"}
    BY DEF DriverInv, TypeOK
  <2>2. int_sts' \subseteq stray
    BY <1>2, <1>4, <1>6, <2>1, StatusStep
  <2> QED BY <1>2, <2>2
<1>7. CASE Place \in Unread /\ s = "clear" /\ Proceeds(s)
  <2>1. Place = <<"read", "clear">>
    BY <1>7 DEF Unread, Proceeds, Place
  <2>2. int_sts \subseteq rdat \cup stray
    BY <2>1 DEF DriverInv, StatusInv
  <2>3. int_sts' \subseteq stray
    BY <1>2, <1>4, <1>7, <2>2, StatusStep
  <2> QED BY <1>2, <2>3
<1> QED BY <1>3, <1>5, <1>6, <1>7

(* The poll.                                                               *)
LEMMA PollStep ==
  ASSUME DriverInv, NEW s, TickWith(s), Place' = Polling, ~emmc_cmd_start'
  PROVE  /\ errs' \subseteq int_sts' \cup det'
         /\ int_sts' \cup det' \subseteq {"done"} \cup errs' \cup stray'
<1>1. CASE emmc_cmd_start \/ busy
  <2>1. /\ s \in {"none", "poll"} /\ call # None /\ Place = Polling
        /\ Accept \/ Run \/ Retire
    BY <1>1, AtPoll
  <2>2. int_sts' = int_sts \cup det \cup (IF done THEN {"done"} ELSE {})
    BY <2>1, StatusStep
  <2>3. CASE emmc_cmd_start
    <3>1. Accept
      BY <2>1, <2>3 DEF DriverInv, AtPlace, Run, Retire
    <3>2. PICK strays \in SUBSET late : Raise({}, strays)
      BY <3>1 DEF Accept
    <3>3. errs' = {} /\ det' = strays /\ stray' = (stray \cup strays) \cap (int_sts' \cup det')
      BY <2>3, <3>2 DEF Raise
    <3>4. int_sts \cup det \subseteq stray
      BY <2>3 DEF DriverInv, StatusInv
    <3> QED BY <2>2, <3>3, <3>4
  <2>4. CASE ~emmc_cmd_start
    <3>1. PICK own, strays : Raise(own, strays)
      BY <2>1, <2>4 DEF Accept, Run, Retire
    <3>2. /\ errs' = errs \cup own /\ det' = own \cup strays
          /\ stray' = (stray \cup strays) \cap (int_sts' \cup det')
      BY <2>1, <2>4, <3>1 DEF Raise
    <3>3. /\ errs \subseteq int_sts \cup det
          /\ int_sts \cup det \subseteq {"done"} \cup errs \cup stray
      BY <2>1, <2>4 DEF DriverInv, StatusInv
    <3>4. int_sts \cup det \subseteq int_sts' /\ int_sts' \subseteq int_sts \cup det \cup {"done"}
      BY <2>2
    <3> QED BY <3>2, <3>3, <3>4
  <2> QED BY <2>3, <2>4
<1>2. CASE ~emmc_cmd_start /\ ~busy
  <2>1. Stays(s) /\ Place = Polling
    BY <1>2, FromWhere, StartStep
  <2>2. s = "none" /\ call # None
    BY <2>1 DEF Stays, Place, Polling, Step
  <2>3. /\ stray' = (stray \cup det') \cap (int_sts' \cup det') /\ det' \subseteq stray'
        /\ errs' = errs
    BY <1>2, <2>2, AtRest DEF Still
  <2>4. /\ errs \subseteq int_sts \cup det
        /\ int_sts \cup det \subseteq {"done"} \cup errs \cup stray
    BY <1>2, <2>1 DEF DriverInv, StatusInv
  <2>5. int_sts \cup det \subseteq int_sts' /\ int_sts' \subseteq int_sts \cup det \cup {"done"}
    BY <2>2, StatusStep
  <2> QED BY <2>3, <2>4, <2>5
<1> QED BY <1>1, <1>2

(* The places where the status is unread.                                  *)
LEMMA UnreadStep ==
  ASSUME DriverInv, NEW s, TickWith(s), Place' \in Unread
  PROVE  /\ errs' \subseteq int_sts'
         /\ int_sts' \subseteq {"done"} \cup errs' \cup stray'
         /\ det' \subseteq stray'
<1>1. ~emmc_cmd_start /\ ~busy
  <2>1. Polling \notin Unread
    BY DEF Polling, Unread
  <2> QED BY <2>1, AtPoll
<1>2. /\ Place \in Unread \cup {Polling}
      /\ s \notin {"clear", "discard", "retry", "start", "reset"}
  BY <1>1, FromWhere
<1>3. call # None
  BY <1>2 DEF Place, Step, Prev, Unread, Polling
<1>4. /\ stray' = (stray \cup det') \cap (int_sts' \cup det') /\ det' \subseteq stray'
      /\ errs' = errs
  BY <1>1, <1>2, <1>3, AtRest DEF Still
<1>5. /\ errs \subseteq int_sts \cup det
      /\ int_sts \cup det \subseteq {"done"} \cup errs \cup stray
  BY <1>1, <1>2 DEF DriverInv, StatusInv
<1>6. int_sts \cup det \subseteq int_sts' /\ int_sts' \subseteq int_sts \cup det \cup {"done"}
  BY <1>2, StatusStep
<1> QED BY <1>4, <1>5, <1>6

LEMMA RdatInv ==
  ASSUME DriverInv, NEW s, TickWith(s)
  PROVE  /\ Place' = <<"read", "clear">> => int_sts' \subseteq rdat' \cup stray'
         /\ Place' \in {<<"read", "clear">>, <<"clear", "none">>} => errs' \subseteq rdat'
<1> SUFFICES ASSUME Place' \in {<<"read", "clear">>, <<"clear", "none">>}
             PROVE  /\ Place' = <<"read", "clear">> => int_sts' \subseteq rdat' \cup stray'
                    /\ errs' \subseteq rdat'
  OBVIOUS
<1>1. ~emmc_cmd_start /\ ~busy
  BY AtPoll DEF Polling
<1>2. Stays(s) \/ Proceeds(s)
  BY DriverMove DEF DriverInv, AtPlace, Begins, Closes
<1>3. \/ Stays(s) /\ Place = Place'
      \/ Proceeds(s) /\ s = "read" /\ Place = <<"resp", "read">> /\ Place' = <<"read", "clear">>
      \/ Proceeds(s) /\ s = "clear" /\ Place = <<"read", "clear">> /\ Place' = <<"clear", "none">>
  BY <1>2 DEF Stays, Proceeds, Moves, Place
<1>4. call # None /\ s # "reset"
  BY <1>3 DEF Place, Step, Prev, Stays
<1>5. /\ stray' = (stray \cup det') \cap (int_sts' \cup det') /\ errs' = errs
  BY <1>1, <1>4, AtRest DEF Still
<1>6. CASE Stays(s) /\ Place = Place'
  <2>1. rdat' = rdat /\ int_sts' \subseteq int_sts \cup det \cup {"done"}
    BY <1>6, StatusStep DEF Stays
  <2>2. errs \subseteq rdat
    BY <1>6 DEF DriverInv, StatusInv
  <2>3. Place = <<"read", "clear">> =>
          "done" \in rdat /\ int_sts \subseteq rdat \cup stray /\ det \subseteq stray
    BY DEF DriverInv, StatusInv, DoneInv, Unread
  <2> QED BY <1>5, <1>6, <2>1, <2>2, <2>3
<1>7. CASE Proceeds(s) /\ s = "read" /\ Place = <<"resp", "read">>
  <2>1. rdat' = int_sts /\ int_sts' \subseteq int_sts \cup det \cup {"done"}
    BY <1>7, RdatStep, StatusStep
  <2>2. errs \subseteq int_sts /\ det \subseteq stray /\ "done" \in int_sts
    BY <1>7 DEF DriverInv, StatusInv, DoneInv, Unread
  <2> QED BY <1>5, <2>1, <2>2
<1>8. CASE Proceeds(s) /\ s = "clear" /\ Place = <<"read", "clear">> /\ Place' = <<"clear", "none">>
  <2>1. rdat' = rdat
    BY <1>8, RdatStep
  <2>2. errs \subseteq rdat
    BY <1>8 DEF DriverInv, StatusInv
  <2> QED BY <1>5, <1>8, <2>1, <2>2
<1> QED BY <1>3, <1>6, <1>7, <1>8

LEMMA StatusKept ==
  ASSUME DriverInv, NEW s, TickWith(s)
  PROVE  StatusInv'
BY ClearStep, PollStep, UnreadStep, RdatInv DEF StatusInv

----------------------------------------------------------------------------
(* The answer and the lengths.                                             *)

(* What a step without a reset leaves, once the command has ended.         *)
LEMMA Ended ==
  ASSUME DriverInv, NEW s, TickWith(s), ended', errs' = {}
  PROVE  /\ call # None /\ (call' = call \/ call' = None) /\ ~emmc_cmd_start
         /\ \/ Retire /\ errs = {} /\ busy
            \/ ended /\ errs = {} /\ answered' = answered /\ card_len' = card_len
<1>1. call # None /\ s # "start" /\ (ended \/ (busy /\ ~busy'))
  BY DEF TickWith, History
<1>2. Proceeds(s) \/ Stays(s) \/ Begins(s) \/ Closes(s)
  BY DriverMove DEF DriverInv, AtPlace
<1>3. call' = call \/ call' = None
  BY <1>1, <1>2 DEF Proceeds, Stays, Begins, Closes
<1>4. CASE busy
  <2>1. ~busy'
    BY <1>1, <1>4 DEF DriverInv, AtPlace
  <2>2. Retire /\ ~emmc_cmd_start
    BY <1>4, <2>1, AtPoll DEF Accept, Run, DriverInv, AtPlace
  <2>3. PICK own, strays : Raise(own, strays)
    BY <2>2 DEF Retire
  <2>4. errs = {}
    BY <1>1, <2>2, <2>3 DEF Raise
  <2> QED BY <1>1, <1>3, <1>4, <2>2, <2>4
<1>5. CASE ~busy
  <2>1. ended /\ ~emmc_cmd_start
    BY <1>1, <1>5 DEF DriverInv, AtPlace
  <2>2. s # "reset"
    <3>1. SUFFICES ASSUME s = "reset" PROVE FALSE
      OBVIOUS
    <3>2. Place = <<"none", "reset">>
      BY <3>1, Accesses, PlaceOf DEF DriverInv, AtPlace, Place, Unread, Clear, Polling
    <3> QED BY <2>1, <3>2 DEF DriverInv, AtPlace
  <2>3. errs' = errs /\ answered' = answered /\ card_len' = card_len
    BY <1>1, <1>5, <2>1, <2>2, AtRest DEF Still
  <2> QED BY <1>1, <1>3, <2>1, <2>3
<1> QED BY <1>4, <1>5

LEMMA AnswerStep ==
  ASSUME DriverInv, NEW s, TickWith(s)
  PROVE  AnswerInv'
<1> SUFFICES ASSUME call' # None, ended', errs' = {}
             PROVE  answered' <=> HasResponse(call'.fn)
  BY DEF AnswerInv, HasResponse
<1>1. call' = call /\ call # None
  BY Ended
<1>2. CASE Retire /\ errs = {}
  <2>1. answered' = (HasResponse(call.fn) /\ "timeout" \notin errs)
    BY <1>2 DEF Retire
  <2> QED BY <1>1, <1>2, <2>1
<1>3. CASE ended /\ errs = {} /\ answered' = answered
  <2>1. answered <=> HasResponse(call.fn)
    BY <1>1, <1>3 DEF DriverInv, AnswerInv
  <2> QED BY <1>1, <1>3, <2>1
<1> QED BY <1>2, <1>3, Ended

LEMMA NoRetry ==
  ASSUME call.fn \in MovesData, Placed, call # None
  PROVE  Step # "retry"
<1>1. Program(call.fn) = Plain
  BY FormOf DEF MovesData
<1>2. Len(Plain) = 6 /\ \A i \in 1..6 : Plain[i] # "retry"
  BY DEF Plain
<1> QED BY <1>1, <1>2 DEF Placed, Step

(* What a step does to the lengths in force: a SET_BLOCKLEN that returns   *)
(* success leaves its own, every other step leaves them or adds one.       *)
LEMMA InForceMoves ==
  ASSUME DriverInv, NEW s, TickWith(s)
  PROVE  /\ call.fn = "set_block_length" /\ call' = None /\ Success =>
              s = "none" /\ in_force' = {call.len}
         /\ ~(call.fn = "set_block_length" /\ call' = None /\ Success) =>
              /\ in_force \subseteq in_force'
              /\ s = "reset" \/ (s = "start" /\ call.fn = "go_idle") => Default \in in_force'
              /\ s = "start" /\ call.fn = "set_block_length" => call.len \in in_force'
<1>1. s # "none" => call' # None
  BY DriverMove DEF DriverInv, AtPlace, Proceeds, Stays, Begins, Closes
<1>2. History(s)
  BY DEF TickWith
<1>3. CASE s = "reset" \/ (s = "start" /\ call.fn = "go_idle")
  <2>1. in_force' = in_force \cup {Default} /\ call' # None
    BY <1>1, <1>2, <1>3 DEF History
  <2> QED BY <1>3, <2>1
<1>4. CASE s = "start" /\ call.fn = "set_block_length"
  <2>1. in_force' = in_force \cup {call.len} /\ call' # None
    BY <1>1, <1>2, <1>4 DEF History
  <2> QED BY <1>4, <2>1
<1>5. CASE s \notin {"reset", "start"} \/ (s = "start" /\ call.fn \notin {"go_idle", "set_block_length"})
  <2>1. in_force' = IF call.fn = "set_block_length" /\ call' = None /\ Success
                    THEN {call.len} ELSE in_force
    BY <1>2, <1>5 DEF History
  <2> QED BY <1>1, <1>5, <2>1
<1> QED BY <1>3, <1>4, <1>5

(* Card and driver take no length that is not in force.                    *)
LEMMA InForceStep ==
  ASSUME DriverInv, NEW s, TickWith(s)
  PROVE  /\ card_len' \in in_force' /\ emmc_block_size' \in in_force'
         /\ call'.fn = "set_block_length" /\ Place' \notin Unstarted => call'.len \in in_force'
         /\ call'.fn = "go_idle" /\ Place' \notin Unstarted => Default \in in_force'
         /\ Place' = <<"reset", "config">> => Default \in in_force'
<1>1. Proceeds(s) \/ Stays(s) \/ Begins(s) \/ Closes(s)
  BY DriverMove DEF DriverInv, AtPlace
<1>2. CASE call.fn = "set_block_length" /\ call' = None /\ Success
  <2>1. s = "none" /\ in_force' = {call.len}
    BY <1>2, InForceMoves
  <2>2. Closes(s) /\ Place = <<"clear", "none">>
    BY <1>1, <1>2, <2>1 DEF Proceeds, Stays, Begins, Closes, None
  <2>3. ~busy /\ ~emmc_cmd_start /\ ended
    BY <2>2 DEF DriverInv, AtPlace, Polling
  <2>4. errs = {}
    <3>1. errs \subseteq rdat /\ errs \subseteq Errors
      BY <2>2 DEF DriverInv, StatusInv, TypeOK
    <3> QED BY <1>2, <3>1 DEF Success
  <2>5. card_len = call.len /\ emmc_block_size = call.len
    BY <1>2, <2>2, <2>3, <2>4 DEF DriverInv, LengthInv
  <2>6. card_len' = card_len
    BY <2>1, <2>3, AtRest DEF Still
  <2>7. emmc_block_size' = emmc_block_size
    BY <2>1 DEF TickWith, Driver, KeepLength
  <2>8. Place' # <<"reset", "config">>
    BY <2>2 DEF Closes, Place
  <2> QED BY <1>2, <2>1, <2>5, <2>6, <2>7, <2>8 DEF None
<1>3. CASE ~(call.fn = "set_block_length" /\ call' = None /\ Success)
  <2>1. /\ in_force \subseteq in_force'
        /\ s = "reset" \/ (s = "start" /\ call.fn = "go_idle") => Default \in in_force'
        /\ s = "start" /\ call.fn = "set_block_length" => call.len \in in_force'
    BY <1>3, InForceMoves
  <2>2. LengthInv
    BY DEF DriverInv
  <2>3. card_len' \in in_force'
    <3>1. CASE s = "reset"
      BY <2>1, <2>2, <3>1 DEF TickWith, EngineReset, LengthInv
    <3>2. CASE s # "reset" /\ ~Retire
      BY <2>1, <2>2, <3>2 DEF TickWith, Engine, Accept, Run, Rest, LengthInv
    <3>3. CASE Retire
      <4>1. Place \notin Unstarted
        BY <3>3 DEF Retire, DriverInv, AtPlace, Polling, Unstarted
      <4>2. \/ card_len' = card_len
            \/ call.fn = "go_idle" /\ card_len' = Default
            \/ call.fn = "set_block_length" /\ card_len' = call.len
        BY <3>3 DEF Retire, CardObeys
      <4> QED BY <2>1, <2>2, <4>1, <4>2 DEF LengthInv
    <3> QED BY <3>1, <3>2, <3>3
  <2>4. emmc_block_size' \in in_force'
    <3>1. s = "config" => Place = <<"reset", "config">>
      BY Accesses, PlaceOf DEF DriverInv, AtPlace, Place, Unread, Clear, Polling
    <3>2. s = "poll" => Place \notin Unstarted
      BY Accesses DEF Place, Unstarted
    <3>3. \/ emmc_block_size' = emmc_block_size
          \/ s = "config" /\ emmc_block_size' = Default
          \/ s = "poll" /\ call.fn = "set_block_length" /\ emmc_block_size' = call.len
      BY DEF TickWith, Driver, KeepLength
    <3> QED BY <2>1, <2>2, <3>1, <3>2, <3>3 DEF LengthInv
  <2>5. ASSUME call'.fn \in {"set_block_length", "go_idle"}, Place' \notin Unstarted
        PROVE  call' = call /\ (Place \notin Unstarted \/ s = "start")
    <3>1. CASE Begins(s)
      BY <2>5, <3>1 DEF Begins, Unstarted
    <3>2. CASE Stays(s)
      BY <2>5, <3>2 DEF Stays, Place
    <3>3. CASE Closes(s)
      BY <2>5, <3>3 DEF Closes, None
    <3>4. CASE Proceeds(s)
      <4>1. call' = call /\ s = Step /\ <<Prev, Step, Prev', Step'>> \in Moves
        BY <3>4 DEF Proceeds
      <4> QED BY <2>5, <4>1 DEF Moves, Place, Unstarted
    <3> QED BY <1>1, <3>1, <3>2, <3>3, <3>4
  <2>6. ASSUME Place' = <<"reset", "config">>
        PROVE  Default \in in_force'
    <3>1. CASE Stays(s)
      BY <2>1, <2>2, <2>6, <3>1 DEF Stays, Place, LengthInv
    <3>2. CASE Proceeds(s)
      BY <2>1, <2>6, <3>2 DEF Proceeds, Moves, Place
    <3>3. CASE Begins(s) \/ Closes(s)
      BY <2>6, <3>3 DEF Begins, Closes, Place
    <3> QED BY <1>1, <3>1, <3>2, <3>3
  <2> QED BY <2>1, <2>2, <2>3, <2>4, <2>5, <2>6 DEF LengthInv
<1> QED BY <1>2, <1>3

(* emmc_cmd_set_block_length.                                              *)
LEMMA SetLengthStep ==
  ASSUME DriverInv, NEW s, TickWith(s), call'.fn = "set_block_length"
  PROVE  /\ ended' /\ errs' = {} => card_len' = call'.len
         /\ Place' \in Unread \cup {<<"clear", "none">>} => emmc_block_size' = call'.len
<1>1. ASSUME ended', errs' = {} PROVE card_len' = call'.len
  <2>1. call' = call
    BY <1>1, Ended DEF None
  <2>2. CASE Retire /\ errs = {}
    BY <2>1, <2>2 DEF Retire, CardObeys
  <2>3. CASE ended /\ errs = {} /\ card_len' = card_len
    BY <2>1, <2>3 DEF DriverInv, LengthInv
  <2> QED BY <1>1, <2>2, <2>3, Ended
<1>2. ASSUME Place' \in Unread \cup {<<"clear", "none">>}
      PROVE  emmc_block_size' = call'.len
  <2>1. Proceeds(s) \/ Stays(s)
    BY <1>2, DriverMove DEF DriverInv, AtPlace, Begins, Closes, Unread
  <2>2. call' = call
    BY <2>1 DEF Proceeds, Stays
  <2>3. ~busy
    BY <1>2, AtPoll DEF Unread, Polling
  <2>4. Place \in Unread \cup {Polling, <<"clear", "none">>} /\ s # "config"
        /\ (s = "none" => Place = Place')
    BY <1>2, <2>1 DEF Proceeds, Stays, Moves, Place, Unread, Polling
  <2>5. CASE s = "poll"
    BY <2>2, <2>3, <2>5 DEF TickWith, Driver, KeepLength
  <2>6. CASE s # "poll"
    <3>1. Place # Polling
      BY <1>2, <2>1, <2>4, <2>6 DEF Proceeds, Stays, Place, Polling, Unread
    <3>2. emmc_block_size = call.len
      BY <2>2, <2>4, <3>1 DEF DriverInv, LengthInv
    <3>3. emmc_block_size' = emmc_block_size
      BY <2>4, <2>6 DEF TickWith, Driver, KeepLength
    <3> QED BY <2>2, <3>2, <3>3
  <2> QED BY <2>5, <2>6
<1> QED BY <1>1, <1>2

(* The length that a data command is programmed with.                      *)
LEMMA DataLengthStep ==
  ASSUME DriverInv, NEW s, TickWith(s), call'.fn \in MovesData \ OwnLength,
         Prev' = "regs" \/ Place' = Polling
  PROVE  emmc_block_len' = emmc_block_size'
<1>1. Proceeds(s) \/ Stays(s)
  BY DriverMove DEF DriverInv, AtPlace, Begins, Closes, Place, Polling
<1>2. call' = call /\ call # None
  BY <1>1 DEF Proceeds, Stays, Place, Polling, Prev, Step
<1>3. Step # "retry"
  BY <1>2, NoRetry DEF DriverInv, AtPlace
<1>4. s = "regs" \/ ((Prev = "regs" \/ Place = Polling) /\ s \in {"none", "start", "poll"})
  BY <1>1, <1>3 DEF Proceeds, Stays, Moves, Place, Polling
<1>5. call.fn # "set_block_length"
  BY <1>2 DEF MovesData
<1>6. emmc_block_size' = emmc_block_size
  BY <1>4, <1>5 DEF TickWith, Driver, KeepLength
<1>7. CASE s = "regs"
  <2>1. emmc_block_len' \in {Encoding(emmc_block_size)}
    BY <1>2, <1>7 DEF TickWith, Csr
  <2>2. emmc_block_size \in Blocklens
    BY DEF DriverInv, TypeOK
  <2> QED BY <1>6, <2>1, <2>2 DEF Encoding
<1>8. CASE s # "regs"
  <2>1. emmc_block_len' = emmc_block_len
    BY <1>8 DEF TickWith, Csr
  <2>2. emmc_block_len = emmc_block_size
    BY <1>2, <1>4, <1>8 DEF DriverInv, LengthInv
  <2> QED BY <1>6, <2>1, <2>2
<1> QED BY <1>7, <1>8

LEMMA LengthStep ==
  ASSUME DriverInv, NEW s, TickWith(s)
  PROVE  LengthInv'
BY InForceStep, SetLengthStep, DataLengthStep DEF LengthInv

----------------------------------------------------------------------------
(* The theorems.                                                           *)

LEMMA DriverInit == Init => DriverInv
<1> SUFFICES ASSUME Init PROVE DriverInv
  OBVIOUS
<1>1. Place = <<"none", "none">> /\ Placed /\ None.fn = "none"
  BY DEF Init, Place, Prev, Step, Placed, None
<1>2. TypeOK
  <2>1. call \in [fn : Fns \cup {"none"}, len : Lengths \cup {0}] /\ pc \in 0..9
    BY DEF Init, None
  <2>2. apb < (IF READ > WRITE THEN READ ELSE WRITE) /\ settle \in 0..SETTLE
    BY DEF Init
  <2>3. /\ again \in BOOLEAN /\ emmc_cmd_start \in BOOLEAN /\ core_rst \in BOOLEAN
        /\ busy \in BOOLEAN /\ done \in BOOLEAN /\ answered \in BOOLEAN
        /\ ended \in BOOLEAN
    BY DEF Init
  <2>4. /\ rdat \subseteq Errors \cup {"done"} /\ int_sts \subseteq Errors \cup {"done"}
        /\ det \subseteq Errors /\ errs \subseteq Errors /\ stray \subseteq Errors
        /\ late \subseteq {"error"}
    BY DEF Init
  <2>5. /\ emmc_block_size \in Blocklens /\ emmc_block_len \in Blocklens \cup {0}
        /\ card_len \in Blocklens /\ in_force \subseteq Blocklens
    BY DEF Init
  <2> QED BY <2>1, <2>2, <2>3, <2>4, <2>5 DEF TypeOK
<1>3. AtPlace /\ DoneInv /\ StatusInv
  BY <1>1 DEF Init, AtPlace, DoneInv, StatusInv, Polling, Unread, Clear
<1>4. AnswerInv /\ Asked /\ LengthInv
  BY <1>1 DEF Init, AnswerInv, Asked, LengthInv, MovesData
<1> QED BY <1>2, <1>3, <1>4 DEF DriverInv

LEMMA DriverStutters == DriverInv /\ UNCHANGED vars => DriverInv'
<1> SUFFICES ASSUME DriverInv, UNCHANGED vars PROVE DriverInv'
  OBVIOUS
<1>1. Step' = Step /\ Prev' = Prev /\ Place' = Place
  BY DEF vars, drvVars, Step, Prev, Place
<1> QED
  BY <1>1 DEF DriverInv, TypeOK, AtPlace, Placed, DoneInv, StatusInv, AnswerInv, Asked,
     LengthInv, vars, drvVars, csrVars, engVars, histVars

THEOREM DriverInvariant == Spec => []DriverInv
<1>1. DriverInv /\ [Tick]_vars => DriverInv'
  <2>1. DriverInv /\ Tick => DriverInv'
    BY TickIs, TypeStep, AtStep, DoneStep, StatusKept, AnswerStep, LengthStep
       DEF DriverInv
  <2> QED BY <2>1, DriverStutters
<1> QED BY <1>1, DriverInit, PTL DEF Spec

(* The registers keep their types.                                         *)
THEOREM DriverTypes == Spec => []TypeOK
<1>1. DriverInv => TypeOK
  BY DEF DriverInv
<1> QED BY <1>1, DriverInvariant, PTL

(* No command starts with the done bit of an earlier one set.              *)
THEOREM StartsFresh == Spec => []DoneFresh
<1>1. DriverInv => DoneFresh
  BY DEF DriverInv, StatusInv, TypeOK, DoneFresh, Errors
<1> QED BY <1>1, DriverInvariant, PTL

(* A data command starts with a block length that is in force, with a card *)
(* whose length is: they agree after a SET_BLOCKLEN that succeeded, and    *)
(* differ only over lengths that failed ones (whose lengths the handle     *)
(* keeps all the same), GO_IDLE_STATE or a reset have brought in since     *)
(* (emmc_controller.c, emmc_cmd_set_block_length, emmc_cmd_go_idle).       *)
THEOREM LengthsInForce == Spec => []BlockLenInForce
<1>1. DriverInv => BlockLenInForce
  BY DEF DriverInv, AtPlace, LengthInv, BlockLenInForce
<1> QED BY <1>1, DriverInvariant, PTL

LEMMA Landing ==
  ASSUME DriverInv, NEW s, TickWith(s), NEW a, Lands(a), a # "none"
  PROVE  s = a /\ Proceeds(s)
<1>1. Step = a /\ pc' # pc
  BY DEF Lands
<1>2. Proceeds(s) \/ Stays(s) \/ Begins(s) \/ Closes(s)
  BY DriverMove DEF DriverInv, AtPlace
<1> QED BY <1>1, <1>2 DEF Proceeds, Stays, Begins, Closes, Place

LEMMA AtRead ==
  ASSUME DriverInv, NEW s, TickWith(s), Lands("read")
  PROVE  Place \in Unread
<1>1. Step = "read"
  BY DEF Lands
<1> QED BY <1>1, PlaceOf DEF DriverInv, AtPlace, Place, Unread, Clear, Polling

(* INT_STS is read after the command of the call has ended, with its done  *)
(* event, and all of its errors in it, and no other errors but late ones.  *)
THEOREM ReadsOwnDone == Spec => OwnDone
<1>1. DriverInv /\ [Tick]_vars => [Lands("read") => ended /\ "done" \in int_sts]_vars
  BY TickIs, AtRead DEF DriverInv, AtPlace, DoneInv
<1> QED BY <1>1, DriverInvariant, PTL DEF Spec, OwnDone

THEOREM ReadsAllErrors == Spec => NoErrorMissed
<1>1. DriverInv /\ [Tick]_vars => [Lands("read") => errs \subseteq int_sts]_vars
  BY TickIs, AtRead DEF DriverInv, StatusInv
<1> QED BY <1>1, DriverInvariant, PTL DEF Spec, NoErrorMissed

THEOREM ReadsOwnErrors == Spec => NoErrorInherited
<1>1. DriverInv /\ [Tick]_vars =>
        [Lands("read") => int_sts \subseteq {"done"} \cup errs \cup stray]_vars
  BY TickIs, AtRead DEF DriverInv, StatusInv
<1> QED BY <1>1, DriverInvariant, PTL DEF Spec, NoErrorInherited

(* The driver keeps to CmdEngine: it starts a command only when the last   *)
(* one has ended and its done event is over.                               *)
THEOREM UsesEngine == Spec => EngineUsed
<1>1. Init => Cmd!EngineInit
  BY DEF Init, Cmd!EngineInit
<1>2. ASSUME DriverInv, NEW s, TickWith(s)
      PROVE  [Cmd!EngineNext]_<<emmc_cmd_start, busy, done, core_rst>>
  <2>1. /\ emmc_cmd_start' <=> (s = "start" /\ ~emmc_cmd_start)
        /\ core_rst' <=> s = "reset" /\ ~core_rst
    BY <1>2, StartStep, ResetStep
  <2>2. /\ {emmc_cmd_start, busy, done, core_rst} \subseteq BOOLEAN
        /\ {emmc_cmd_start', busy', done', core_rst'} \subseteq BOOLEAN
    BY <1>2, TypeStep DEF DriverInv, TypeOK
  <2>3. CASE emmc_cmd_start \/ busy
    <3>1. /\ s \in {"none", "poll"} /\ (Accept \/ Run \/ Retire)
          /\ ~core_rst /\ (emmc_cmd_start => ~busy)
      BY <1>2, <2>3, AtPoll, ResetStep DEF DriverInv, AtPlace
    <3>2. emmc_cmd_start' = FALSE /\ core_rst' = FALSE /\ core_rst = FALSE
      BY <2>1, <2>2, <3>1
    <3>3. CASE Accept
      <4>1. emmc_cmd_start /\ busy' = TRUE /\ done' = done
        BY <3>3 DEF Accept
      <4> QED BY <3>2, <4>1 DEF Cmd!EngineNext, Cmd!Accept
    <3>4. CASE Run
      <4>1. busy /\ busy' = TRUE /\ done' \in {done, TRUE} /\ emmc_cmd_start = FALSE
        BY <2>2, <3>1, <3>4 DEF Run
      <4>2. CASE done' = done
        BY <2>2, <3>2, <4>1, <4>2
      <4>3. CASE done' # done
        BY <2>2, <3>2, <4>1, <4>3 DEF Cmd!EngineNext, Cmd!Report
      <4> QED BY <4>2, <4>3
    <3>5. CASE Retire
      <4>1. /\ busy /\ busy' = FALSE /\ done' \in BOOLEAN /\ (done \/ done')
            /\ emmc_cmd_start = FALSE
        BY <2>2, <3>1, <3>5 DEF Retire
      <4> QED BY <3>2, <4>1 DEF Cmd!EngineNext, Cmd!Retire
    <3> QED BY <3>1, <3>3, <3>4, <3>5
  <2>4. CASE ~emmc_cmd_start /\ ~busy
    <3>1. Still(s)
      BY <1>2, <2>4, AtRest
    <3>2. busy' = FALSE /\ busy = FALSE /\ emmc_cmd_start = FALSE /\ (done' => done)
      BY <2>2, <2>4, <3>1 DEF Still
    <3>3. CASE s = "start"
      <4>1. ~done
        <5>1. Place # Polling
          BY <1>2, <3>3, Accesses DEF Place, Polling
        <5> QED BY <1>2, <2>4, <3>3, <5>1, NotDone
      <4> QED BY <2>1, <2>2, <3>2, <3>3, <4>1 DEF Cmd!EngineNext, Cmd!Request
    <3>4. CASE s = "reset"
      <4>1. done' = FALSE
        BY <1>2, <3>4 DEF TickWith, EngineReset
      <4>2. ~core_rst
        BY <1>2, <3>4, ResetStep
      <4> QED BY <2>1, <2>2, <3>2, <3>4, <4>1, <4>2 DEF Cmd!EngineNext, Cmd!Abort
    <3>5. CASE s \notin {"start", "reset"}
      <4>1. emmc_cmd_start' = FALSE /\ core_rst' = FALSE
        BY <2>1, <2>2, <3>5
      <4>2. CASE done /\ ~done'
        BY <2>2, <3>2, <4>1, <4>2 DEF Cmd!EngineNext, Cmd!Settle
      <4>3. CASE ~(done /\ ~done')
        BY <2>2, <3>2, <4>1, <4>3 DEF Cmd!EngineNext, Cmd!Release
      <4> QED BY <4>2, <4>3
    <3> QED BY <3>3, <3>4, <3>5
  <2> QED BY <2>3, <2>4
<1>3. DriverInv /\ [Tick]_vars => [Cmd!EngineNext]_<<emmc_cmd_start, busy, done, core_rst>>
  BY <1>2, TickIs DEF vars, csrVars, engVars
<1> QED BY <1>1, <1>3, DriverInvariant, PTL DEF Spec, EngineUsed, Cmd!EngineSafe, Cmd!engineVars

(* A write that clears INT_STS moves the call on.                          *)
LEMMA ClearsLand ==
  ASSUME DriverInv, NEW s, TickWith(s), s \in {"clear", "discard", "retry"}
  PROVE  Lands(s)
<1>1. Proceeds(s)
  BY DriverMove DEF DriverInv, AtPlace, Stays, Begins, Closes
<1>2. Step = s /\ Step' # s
  BY <1>1 DEF Proceeds, Moves
<1>3. call' = call
  BY <1>1 DEF Proceeds
<1>4. pc' # pc
  BY <1>2, <1>3 DEF Step
<1> QED BY <1>2, <1>4 DEF Lands

(* An error leaves INT_STS only in the hands of a call that read it, or in *)
(* one of the calls that clear it unseen.                                  *)
THEOREM KeepsErrors == Spec => ErrorsKept
<1> DEFINE Kept ==
      \A e \in (int_sts \cup det) \cap Errors :
        e \notin int_sts' => /\ e \notin det
                            /\ \/ Lands("clear") /\ e \in rdat
                               \/ Lands("discard") \/ Lands("retry")
<1>1. ASSUME DriverInv, NEW s, TickWith(s) PROVE Kept
  <2>1. TAKE e \in (int_sts \cup det) \cap Errors
  <2>2. HAVE e \notin int_sts'
  <2>3. e \notin det /\ e \in Cleared(s)
    BY <1>1, <2>2, StatusStep
  <2>4. s \in {"clear", "discard", "retry"}
    BY <1>1, <2>3, StatusStep
  <2>5. s = "clear" => e \in rdat
    BY <1>1, <2>3, StatusStep
  <2> QED BY <1>1, <2>3, <2>4, <2>5, ClearsLand
<1>2. DriverInv /\ [Tick]_vars => [Kept]_vars
  BY <1>1, TickIs
<1> QED BY <1>2, DriverInvariant, PTL DEF Spec, ErrorsKept

(* Every function that hands on response registers sends a command with a  *)
(* response, but for the one that sends command 41.                        *)
LEMMA Responds ==
  ASSUME Placed, Step = "resp", call.fn # "sd_send_op_cond"
  PROVE  HasResponse(call.fn)
<1>1. call # None /\ call.fn \in Fns /\ pc \in 1..Len(Program(call.fn))
      /\ Program(call.fn)[pc] = "resp"
  BY DEF Placed, Step
<1>2. /\ \A i \in 1..Len(CtlInit) : CtlInit[i] # "resp"
      /\ \A i \in 1..Len(GoIdle) : GoIdle[i] # "resp"
      /\ \A i \in 1..Len(SdSendCmd) : SdSendCmd[i] # "resp"
  BY DEF CtlInit, GoIdle, SdSendCmd
<1>3. call.fn \notin {"ctl_init", "go_idle", "sd_app_cmd"}
  BY <1>1, <1>2, FormOf
<1>4. call.fn \in DOMAIN CmdIdx \ {"go_idle", "sd_app_cmd", "sd_send_op_cond"}
  BY <1>1, <1>3
<1>5. CmdIdx[call.fn] \in {1, 2, 3, 6, 7, 8, 9, 10, 12, 13, 14, 16, 17, 19, 23, 24}
  BY <1>4 DEF CmdIdx
<1>6. \A i \in {1, 2, 3, 6, 7, 8, 9, 10, 12, 13, 14, 16, 17, 19, 23, 24} : RspTyp(i) # "R0"
  BY DEF RspTyp
<1> QED BY <1>4, <1>5, <1>6 DEF HasResponse

(* The response registers that a call hands on are filled by its command's *)
(* answer (emmc_get_resp_data; emmc_csr.v, the response decoder).          *)
THEOREM ResponsesOwn ==
  ASSUME "sd_send_op_cond" \notin Fns
  PROVE  Spec => ResponseOwn
<1>1. DriverInv /\ [Tick]_vars => [Lands("resp") /\ ended /\ errs = {} => answered]_vars
  <2> SUFFICES ASSUME DriverInv, Lands("resp"), ended, errs = {} PROVE answered
    OBVIOUS
  <2>1. Placed /\ Step = "resp" /\ call # None
    BY DEF Lands, DriverInv, AtPlace, Step
  <2>2. call.fn # "sd_send_op_cond"
    BY <2>1 DEF Placed
  <2> QED BY <2>1, <2>2, Responds DEF DriverInv, AnswerInv
<1> QED BY <1>1, DriverInvariant, PTL DEF Spec, ResponseOwn
=============================================================================
