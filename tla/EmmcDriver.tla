----------------------------- MODULE EmmcDriver -----------------------------
(***************************************************************************)
(* The driver (driver/emmc_controller.c, and sd_send_cmd of                *)
(* driver/sd_init.c) and the status, control and reset bits of the CSR     *)
(* block (rtl/emmc_csr.v) that it shares with the controller.              *)
(*                                                                         *)
(* One step (Tick) is one rising edge of clk_i.  A driver function is a    *)
(* program: the sequence of its register accesses, each of which lands on  *)
(* an edge of its own, any time after the one before it has crossed the    *)
(* APB slave.  Accesses that only prepare a command (CONFIG1, SRC_DST,     *)
(* CTRL0, CTRL1) land as one.  The caller is a choice: it calls any        *)
(* function at any time, whatever the last one returned.                   *)
(*                                                                         *)
(* The engine is what CmdEngine promises (EmmcCmdProc implements it), and  *)
(* raises the error pulses that EmmcCmdProc and Axi4Manager were found to  *)
(* raise: its own while it is busy, and a late one, a bus error whose      *)
(* answer comes after the command's end, or the CRC error of a block that  *)
(* a response timeout left behind.  Of the six error bits the driver tells *)
(* the two timeouts from the rest.                                         *)
(***************************************************************************)
EXTENDS Naturals, Sequences

CONSTANTS
  Fns,       \* the driver functions the caller uses
  Lengths,   \* the block lengths it asks emmc_cmd_set_block_length for
  Blocklens, \* the lengths get_block_size_encoding knows
  Default,   \* 512 bytes
  WRITE,     \* clk_i edges of a write access (3 in emmc_apb_s)
  READ,      \* clk_i edges of a read access (4 in emmc_apb_s)
  SETTLE     \* edges that det_emmc_done may outlast det_emmc_start

ASSUME LengthAssumption ==
  Lengths \subseteq Blocklens /\ Default \in Blocklens /\ Blocklens \subseteq Nat
(* The done event is over before the access after a poll.                  *)
ASSUME AccessAssumption ==
  /\ WRITE \in Nat /\ WRITE >= 3 /\ READ \in Nat /\ READ >= 3
  /\ SETTLE \in 1..(READ - 1)

VARIABLES
  \* driver: the running call, its next access, and what it keeps
  call, pc, rdat, again, emmc_block_size,
  apb,        \* edges until the APB slave can take another access
  \* CSR block
  int_sts, emmc_block_len, emmc_cmd_start, core_rst,
  \* engine
  busy, done, settle, det, answered,
  late,       \* error pulses that may still come after their command
  card_len,   \* the block length the card works with
  \* history: the errors of the command started last, the late ones not
  \* cleared yet, whether the command ended, the block lengths that card
  \* and driver may be working with
  errs, stray, ended, in_force

drvVars  == <<call, pc, rdat, again, emmc_block_size, apb>>
csrVars  == <<int_sts, emmc_block_len, emmc_cmd_start, core_rst>>
engVars  == <<busy, done, settle, det, answered, late>>
histVars == <<errs, stray, ended, in_force>>
vars == <<drvVars, csrVars, engVars, card_len, histVars>>

(* "error": a CRC or bus error.                                            *)
Errors == {"timeout", "error"}
None == [fn |-> "none", len |-> 0]

----------------------------------------------------------------------------
(* The driver functions.                                                   *)

(* Mutants: errors are read before the command ends, or are not cleared.   *)
PlainEarly == <<"regs", "start", "read", "poll", "resp", "clear">>
PlainNoClear == <<"regs", "start", "poll", "resp", "read">>
Plain == <<"regs", "start", "poll", "resp", "read", "clear">>

(* Mutants: the next call does not find the engine idle, or its status     *)
(* clean.                                                                  *)
GoIdleNoPoll == <<"regs", "start", "discard">>
GoIdleNoClear == <<"regs", "start", "poll">>
GoIdle == <<"regs", "start", "poll", "discard">>

SendOpCond ==
  <<"regs", "start", "poll", "resp", "read", "ocr", "retry", "resp">>

AllSendCid == <<"discard", "regs", "start", "poll", "read", "retry", "resp">>

SdSendCmd == <<"discard", "regs", "start", "poll", "read", "discard">>

SdOpCond == Append(SdSendCmd, "resp")   \* as sd_card_init goes on after it

CtlInit == <<"reset", "config", "release">>

Program(fn) ==
  CASE fn = "ctl_init" -> CtlInit
    [] fn = "go_idle" -> GoIdle
    [] fn = "send_op_cond" -> SendOpCond
    [] fn = "all_send_cid" -> AllSendCid
    [] fn = "sd_app_cmd" -> SdSendCmd
    [] fn = "sd_send_op_cond" -> SdOpCond
    [] OTHER -> Plain

(* The command that each function sends.                                   *)
CmdIdx ==
  [go_idle |-> 0, send_op_cond |-> 1, all_send_cid |-> 2, set_relative_addr |-> 3,
   switch |-> 6, select_card |-> 7, deselect_card |-> 7, send_ext_csd |-> 8,
   send_csd |-> 9, send_cid |-> 10, stop_transmission |-> 12, send_status |-> 13,
   bustest_r |-> 14, set_block_length |-> 16, read_block |-> 17, bustest_w |-> 19,
   set_block_count |-> 23, write_block |-> 24,
   sd_send_op_cond |-> 41, sd_app_cmd |-> 55]

ASSUME FnsAssumption == Fns \subseteq DOMAIN CmdIdx \cup {"ctl_init"}

MovesData == {"send_ext_csd", "read_block", "write_block", "bustest_r", "bustest_w"}
OwnLength == {"bustest_r", "bustest_w"}   \* the caller's num_bytes, not the handle's

(* get_block_size_encoding: an unknown length is sent as 512 bytes.        *)
Encoding(len) == IF len \in Blocklens THEN len ELSE Default

(* The response type the CSR block decodes from the command index.         *)
(* Mutant: READ_SINGLE_BLOCK is left out of the table.                     *)
RspTypNoRead(idx) == CASE idx \in {0, 17} -> "R0" [] OTHER -> "R1"
RspTyp(idx) ==
  CASE idx = 1 -> "R3"
    [] idx \in {2, 9, 10} -> "R2"
    [] idx = 40 -> "R5"
    [] idx \in {3, 5, 6, 7, 8, 12, 13, 14, 19, 16, 17, 18, 21, 23, 24, 25, 26,
                27, 49, 28, 29, 30, 31, 35, 36, 38, 39, 42, 44, 45, 46, 47, 48,
                53, 54, 55, 56} -> "R1"
    [] OTHER -> "R0"

HasResponse(fn) == fn \in DOMAIN CmdIdx /\ RspTyp(CmdIdx[fn]) # "R0"

----------------------------------------------------------------------------
(* The driver.  s is the register access that lands on this edge, "none"   *)
(* when the processor does something else or the last access is under way. *)

Step == IF call = None \/ pc > Len(Program(call.fn)) THEN "none"
        ELSE Program(call.fn)[pc]

(* Mutants: the slave takes accesses back to back, or one edge late.       *)
AccessFast(s) == 0
AccessLate(s) == READ
Access(s) == (IF s \in {"poll", "resp", "read", "ocr"} THEN READ ELSE WRITE) - 1

Apb(s) ==
  /\ s # "none" => apb = 0
  /\ apb' = IF s # "none" THEN Access(s) ELSE IF apb = 0 THEN 0 ELSE apb - 1

(* Only the two calls that retry look at the timeout bit; after a timeout  *)
(* emmc_cmd_send_op_cond does not look at the OCR.                         *)
NextPc(s) ==
  CASE s = "poll" /\ busy -> pc
    [] s = "read" /\ call.fn = "send_op_cond" /\ "timeout" \in int_sts -> pc + 2
    [] s = "retry" /\ again -> CHOOSE n \in 1..pc : Program(call.fn)[n] = "start"
    [] OTHER -> pc + 1

(* RESP_D1 as emmc_cmd_send_op_cond reads it: bit 31 is the card's choice; *)
(* the registers are all ones while there is no response.                  *)
NotReady == IF answered THEN BOOLEAN ELSE {FALSE}

(* Mutant: a failed command puts the handle back to the default length.    *)
KeepLengthFallback(s) ==
  emmc_block_size' = CASE s = "config" -> Default
                       [] s = "poll" /\ ~busy /\ call.fn = "set_block_length" ->
                            IF int_sts \cap Errors = {} THEN call.len ELSE Default
                       [] OTHER -> emmc_block_size

(* The handle's block length is set whatever the status of the command.    *)
KeepLength(s) ==
  emmc_block_size' = CASE s = "config" -> Default
                       [] s = "poll" /\ ~busy /\ call.fn = "set_block_length" -> call.len
                       [] OTHER -> emmc_block_size

Land(s) ==
  /\ s # "none" /\ s = Step
  /\ pc' = NextPc(s)
  /\ rdat' = IF s = "read" THEN int_sts ELSE rdat
  /\ again' \in CASE s = "read" -> {"timeout" \in int_sts}
                  [] s = "ocr" -> NotReady
                  [] OTHER -> {again}
  /\ UNCHANGED call

Away(s) == s = "none" /\ UNCHANGED <<call, pc, rdat, again>>

Call(s) ==
  /\ s = "none" /\ call = None
  /\ \E fn \in Fns :
       \E len \in IF fn = "set_block_length" THEN Lengths ELSE {0} :
         call' = [fn |-> fn, len |-> len]
  /\ pc' = 1
  /\ UNCHANGED <<rdat, again>>

(* Whatever is no error bit of the last INT_STS read is success.           *)
Success == rdat \cap Errors = {}

Return(s) ==
  /\ s = "none" /\ call # None /\ Step = "none"
  /\ call' = None /\ pc' = 0 /\ rdat' = {} /\ again' = FALSE

Driver(s) ==
  /\ Apb(s) /\ KeepLength(s)
  /\ Land(s) \/ Away(s) \/ Call(s) \/ Return(s)

----------------------------------------------------------------------------
(* The CSR block.  A write of 1 clears a bit of INT_STS, but an event on   *)
(* the same edge wins.                                                     *)

(* Mutant: a retry leaves the timeout of the last try.                     *)
ClearedNoRetry(s) == CASE s = "clear" -> rdat
                       [] s = "discard" -> Errors \cup {"done"}
                       [] OTHER -> {}
Cleared(s) == CASE s = "clear" -> rdat
                [] s \in {"discard", "retry"} -> Errors \cup {"done"}
                [] OTHER -> {}

IntTrigger == det \cup (IF done THEN {"done"} ELSE {})

(* Mutant: the write wins.                                                 *)
IntStsWriteWins(s) == int_sts' = (int_sts \cup IntTrigger) \ Cleared(s)
IntSts(s) == int_sts' = (int_sts \ Cleared(s)) \cup IntTrigger

Csr(s) ==
  /\ IntSts(s)
  /\ emmc_cmd_start' = (s = "start" /\ ~emmc_cmd_start)
  /\ core_rst' = (s = "reset" /\ ~core_rst)
  /\ emmc_block_len' \in
       CASE s # "regs" -> {emmc_block_len}
         [] s = "regs" /\ call.fn \notin MovesData -> {0}
         [] s = "regs" /\ call.fn \in OwnLength -> {Encoding(n) : n \in Lengths}
         [] OTHER -> {Encoding(emmc_block_size)}

----------------------------------------------------------------------------
(* The engine and the card.                                                *)

OwnErrors == IF HasResponse(call.fn) THEN Errors ELSE {}

(* The error pulses of an edge: those of the command, which come while it  *)
(* is busy (a timeout's may last one edge longer), and late ones.          *)
Raise(own, strays) ==
  /\ det' = own \cup strays
  /\ errs' = (IF emmc_cmd_start \/ call = None THEN {} ELSE errs) \cup own
  /\ stray' = (stray \cup strays) \cap (int_sts' \cup det')

Accept ==
  /\ emmc_cmd_start /\ ~busy
  /\ busy' = TRUE /\ UNCHANGED done /\ settle' = 0 /\ answered' = FALSE
  /\ \E strays \in SUBSET late : Raise({}, strays) /\ late' = late \ strays
  /\ UNCHANGED card_len

Run ==
  /\ busy /\ busy' = TRUE
  /\ done' \in {done, TRUE} /\ settle' = 0
  /\ \E own \in SUBSET OwnErrors, strays \in SUBSET late :
       Raise(own, strays) /\ late' = late \ strays
  /\ UNCHANGED <<answered, card_len>>

(* What the card makes of a command that reached it, or did not.           *)
CardObeys ==
  card_len' \in
    CASE call.fn = "set_block_length" ->
           IF errs = {} THEN {call.len} ELSE {call.len, card_len}
      [] call.fn = "go_idle" -> {Default, card_len}
      [] OTHER -> {card_len}

Retire ==
  /\ busy /\ busy' = FALSE
  /\ done' \in BOOLEAN /\ (done \/ done') /\ settle' = 0
  /\ answered' = (HasResponse(call.fn) /\ "timeout" \notin errs)
  /\ \E own \in SUBSET (det \cap {"timeout"}), strays \in SUBSET late :
       /\ Raise(own, strays)
       /\ late' = (late \ strays) \cup (IF call.fn \in MovesData THEN {"error"} ELSE {})
  /\ CardObeys

Rest ==
  /\ ~busy /\ ~emmc_cmd_start
  /\ busy' = FALSE /\ UNCHANGED answered
  /\ done' \in {FALSE, done /\ settle < SETTLE}
  /\ settle' = IF done' THEN settle + 1 ELSE 0
  /\ \E strays \in SUBSET late : Raise({}, strays) /\ late' = late \ strays
  /\ UNCHANGED card_len

Engine == Accept \/ Run \/ Retire \/ Rest

(* ip_core_rst resets the engine and the bus manager, here on the edge of  *)
(* the write (in the source one later, still before the next access);      *)
(* emmc_tgt_rst resets a card whose RST_n function is enabled.             *)
EngineReset ==
  /\ busy' = FALSE /\ done' = FALSE /\ settle' = 0 /\ det' = {}
  /\ answered' = FALSE /\ late' = {} /\ errs' = {}
  /\ stray' = stray \cap int_sts'
  /\ card_len' \in {card_len, Default}

(* History: an emmc_cmd_set_block_length that succeeds leaves one length   *)
(* in force; one that fails, GO_IDLE_STATE and a reset add theirs to it.   *)
History(s) ==
  /\ in_force' =
       CASE s = "reset" \/ (s = "start" /\ call.fn = "go_idle") -> in_force \cup {Default}
         [] s = "start" /\ call.fn = "set_block_length" -> in_force \cup {call.len}
         [] call.fn = "set_block_length" /\ call' = None /\ Success -> {call.len}
         [] OTHER -> in_force
  /\ ended' = (call # None /\ s # "start" /\ (ended \/ (busy /\ ~busy')))

----------------------------------------------------------------------------
Init ==
  /\ call = None /\ pc = 0 /\ rdat = {} /\ again = FALSE
  /\ emmc_block_size = Default /\ apb = 0
  /\ int_sts = {} /\ emmc_block_len = Default /\ emmc_cmd_start = FALSE
  /\ core_rst = FALSE
  /\ busy = FALSE /\ done = FALSE /\ settle = 0 /\ det = {} /\ answered = FALSE
  /\ late = {} /\ card_len = Default
  /\ errs = {} /\ stray = {} /\ ended = FALSE
  /\ in_force = {Default}

Tick ==
  \E s \in {"none", Step} :
    /\ Driver(s)
    /\ Csr(s)
    /\ IF s = "reset" THEN EngineReset ELSE Engine
    /\ History(s)

Spec == Init /\ [][Tick]_vars

(* The clock runs, the processor gets on with its program, the engine ends *)
(* its commands, and a card that is asked again and again for its OCR or   *)
(* its CID answers, and in the end as ready.                               *)
Advance == Tick /\ (pc' # pc \/ call' # call)
Ends == Tick /\ busy /\ ~busy'
Answers == Ends /\ errs = {} /\ det' = {}
IsReady == Tick /\ Step = "ocr" /\ pc' # pc /\ ~again'

FairSpec ==
  /\ Spec /\ WF_vars(Tick) /\ WF_vars(Advance) /\ WF_vars(Ends)
  /\ SF_vars(Answers) /\ SF_vars(IsReady)

----------------------------------------------------------------------------
(* The types; among them, an access takes at most as many edges as the     *)
(* slave gives it.                                                         *)
TypeOK ==
  /\ call \in [fn : Fns \cup {"none"}, len : Lengths \cup {0}] /\ pc \in 0..9
  /\ rdat \subseteq Errors \cup {"done"} /\ again \in BOOLEAN
  /\ emmc_block_size \in Blocklens
  /\ apb < IF READ > WRITE THEN READ ELSE WRITE
  /\ int_sts \subseteq Errors \cup {"done"} /\ emmc_block_len \in Blocklens \cup {0}
  /\ emmc_cmd_start \in BOOLEAN /\ core_rst \in BOOLEAN
  /\ busy \in BOOLEAN /\ done \in BOOLEAN /\ settle \in 0..SETTLE
  /\ det \subseteq Errors /\ answered \in BOOLEAN /\ late \subseteq {"error"}
  /\ card_len \in Blocklens
  /\ errs \subseteq Errors /\ stray \subseteq Errors /\ ended \in BOOLEAN
  /\ in_force \subseteq Blocklens

Cmd == INSTANCE CmdEngine WITH start <- emmc_cmd_start, reset <- core_rst

(* The driver keeps its side of the engine's bargain: it never starts a    *)
(* command while one runs or has its done event up, whatever calls follow  *)
(* one another.                                                            *)
EngineUsed == Cmd!EngineSafe

(* The access s lands on this edge.                                        *)
Lands(s) == Step = s /\ pc' # pc

(* INT_STS is read once the call's own command has ended, and shows its    *)
(* done event: the poll of INFO_STS neither outruns the start pulse nor    *)
(* mistakes an earlier command's end for this one's.                       *)
OwnDone == [][Lands("read") => ended /\ "done" \in int_sts]_vars

(* A call that returns SUCCESS had no error: every error its command       *)
(* raised is in the INT_STS it read.                                       *)
NoErrorMissed == [][Lands("read") => errs \subseteq int_sts]_vars

(* A call that returns FAILURE had one: the errors it reads are its own    *)
(* command's, or late ones that nothing could have cleared before.         *)
NoErrorInherited ==
  [][Lands("read") => int_sts \subseteq {"done"} \cup errs \cup stray]_vars

(* An error leaves INT_STS only in the hands of a call that read it, or in *)
(* one of the calls that clear it unseen; one that arrives with the write  *)
(* that clears it stays.                                                   *)
ErrorsKept ==
  [][\A e \in (int_sts \cup det) \cap Errors :
       e \notin int_sts' => /\ e \notin det
                           /\ \/ Lands("clear") /\ e \in rdat
                              \/ Lands("discard") \/ Lands("retry")]_vars

(* A command starts with the done bit of the last one cleared, so that a   *)
(* host that waits for INT_STS[0] is not woken by it.                      *)
DoneFresh == emmc_cmd_start => "done" \notin int_sts

(* The response registers that a call hands on are filled by the answer to *)
(* its own command, unless it returns FAILURE.                             *)
ResponseOwn == [][Lands("resp") /\ ended /\ errs = {} => answered]_vars

(* A data command starts with a block length in force, and so does the     *)
(* card: that of the last SET_BLOCKLEN that succeeded or, since then, one  *)
(* that failed (the handle keeps it, the card may not), the default after  *)
(* GO_IDLE_STATE or a reset.  If all of these are the same, however many   *)
(* calls failed, the two agree; otherwise they may differ, but not beyond  *)
(* these lengths, and the next SET_BLOCKLEN that succeeds mends it.        *)
BlockLenInForce ==
  emmc_cmd_start /\ call.fn \in MovesData \ OwnLength => {emmc_block_len, card_len} \subseteq in_force

(* Every call returns, those that retry included.                          *)
CallsReturn == call # None ~> call = None
=============================================================================
