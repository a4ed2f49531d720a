---------------------- MODULE EmmcCmdProc_lane_proofs ----------------------
(* Proofs about what the FSMs of EmmcCmdProc share with its two lanes and  *)
(* its timer: which word each lane shifts in which state of the FSM that   *)
(* feeds it; when the two lanes are free; what the one timer has counted   *)
(* when it blames the response, the status token or a block; how many      *)
(* words have gone over the data lane and through the FIFO.                *)
EXTENDS EmmcCmdProc_proofs

----------------------------------------------------------------------------
(* The command lane and the response.                                      *)

(* Response words handed to the command lane since RSP was entered, and    *)
(* response words the response FSM has taken from it.                      *)
Loaded == IF cmd_kind = "rd" THEN RspWords - cmd_cntr ELSE RspWords + 1
Received == CASE rsp_cs = "ARG" -> RspWords - rsp_cntr
              [] rsp_cs = "CRC" -> RspWords
              [] rsp_cs = "WAIT" -> RspWords + 1
              [] OTHER -> 0

(* What the command FSM offers the lane, and what the lane does, in each   *)
(* state of the FSM.                                                       *)
CmdSendInv ==
  /\ cmd_cs = "IDLE" => cl.kind = "none" /\ (cmd_valid => cmd_en_restart)
  /\ cmd_cs = "BOOT" => cl.kind \in {"none", "wr"} /\ (cmd_valid => cmd_kind = "wr")
  /\ cmd_cs = "START" => cl.kind = "none" /\ (cmd_valid => cmd_kind = "wr")
  /\ cmd_cs \in {"ARG", "CRC"} => cmd_valid /\ cmd_kind = "wr" /\ cl.kind = "wr"
  /\ cmd_cs = "DUMMY" =>
       cmd_valid /\ cmd_kind = "dc" /\ cl.kind = "wr" /\ cmd_cntr = RspWords

CmdRspInv ==
  cmd_cs = "RSP" =>
    /\ cmd_valid /\ op.rsp # "R0" /\ cmd_kind \in {"rd", "dc"}
    /\ cmd_kind = "dc" => cmd_cntr = 0
    /\ cmd_cntr <= RspWords
    /\ cl.kind = IF Loaded = 0 THEN "dc" ELSE "rd"
    /\ cl.kind = "rd" /\ ~cl.stb => Loaded = 1 /\ cl.busy

CmdWaitInv ==
  cmd_cs = "WAIT" =>
    /\ cmd_kind = "dc" /\ cl.kind \in {"dc", "none"}
    /\ cl.kind = "none" => ~cmd_valid
    /\ ~cmd_valid => rsp_cs = "IDLE"
    /\ det_emmc_done /\ ~cmd_en_restart => cl.kind = "none"

(* Where the response FSM is while the command FSM is in RSP or WAIT, and  *)
(* that every word the lane has read is taken before the next one ends.    *)
RspStateInv ==
  /\ rsp_cs # "IDLE" => op.rsp # "R0"
  /\ rsp_cs = "IDLE" => ~rx_cmd_valid \/ cmd_en_restart
  /\ rsp_cs = "ARG" => rsp_cntr >= 1 /\ rsp_cntr < RspWords
  /\ rsp_cs = "CRC" => \/ cmd_cs = "RSP"
                       \/ cmd_cs = "WAIT" /\ rx_cmd_valid /\ cl.busy /\ cmd_valid
  /\ rsp_cs = "WAIT" => /\ cmd_cs = "WAIT" /\ cl.kind = "dc" /\ cmd_valid
                        /\ ~cmd_clk_vld_i /\ ~rx_cmd_valid

RspWordInv ==
  cmd_cs = "RSP" =>
    /\ cl.kind = "dc" => rsp_cs \in {"IDLE", "START"} /\ ~rx_cmd_valid
    /\ cl.kind = "rd" => Loaded = 1 + Received + (IF rx_cmd_valid THEN 1 ELSE 0)
    /\ rx_cmd_valid => cl.busy /\ cmd_clk_vld_q
    /\ cl.kind = "rd" /\ cl.stb =>
         cmd_clk_vld_i /\ rsp_cs # "IDLE" /\ (~cl.busy => cmd_clk_vld_q)
    /\ rsp_cs = "IDLE" => det_cmd_done \/ cmd_clk_vld_i \/ cmd_clk_vld_q
    /\ rsp_cs = "IDLE" /\ ~det_cmd_done =>
         cl.kind = "dc" /\ (cmd_clk_vld_i => cl.busy)

(* The response registers that are filled are the words that were taken.   *)
SavedInv ==
  /\ rsp_cs # "IDLE" => rsp_ptr = Received /\ saved_rsp = {i \in 0..5 : i < Received}
  /\ cmd_cs = "RSP" /\ rsp_cs = "IDLE" => saved_rsp = {}
  /\ cmd_cs = "WAIT" /\ rsp_cs = "IDLE" => saved_rsp = ResponseRegs

CmdLaneInv == CmdSendInv /\ CmdRspInv /\ CmdWaitInv /\ RspStateInv /\ RspWordInv

(* One edge, as each FSM and the lane see it: hs is the handshake of the   *)
(* lane, ready that the word it shifts has ended.  No restart overrides it.*)
CmdEdge(hs) ==
  /\ cmd_cs = "IDLE" => /\ cmd_cs' \in {"IDLE", "BOOT", "START"} /\ ~cmd_valid'
                        /\ ~det_emmc_start => cmd_cs' = "IDLE"
  /\ cmd_cs = "BOOT" => cmd_cs' = "BOOT" /\ cmd_valid' /\ cmd_kind' = "wr"
  /\ cmd_cs = "START" => /\ cmd_cs' = IF hs THEN "ARG" ELSE "START"
                         /\ cmd_valid' /\ cmd_kind' = "wr"
  /\ cmd_cs = "ARG" => /\ cmd_cs' = IF hs THEN "CRC" ELSE "ARG"
                       /\ cmd_valid' /\ cmd_kind' = cmd_kind
  /\ cmd_cs = "CRC" => /\ cmd_cs' = IF hs THEN "DUMMY" ELSE "CRC"
                       /\ cmd_kind' = IF hs THEN "dc" ELSE cmd_kind
                       /\ cmd_valid' /\ cmd_cntr' = RspWords
  /\ cmd_cs = "DUMMY" => /\ cmd_cs' = IF ~hs THEN "DUMMY"
                                      ELSE IF cmd_cntr # 0 THEN "RSP" ELSE "WAIT"
                         /\ cmd_kind' = IF hs /\ cmd_cntr # 0 THEN "rd" ELSE cmd_kind
                         /\ cmd_valid' /\ cmd_cntr' = cmd_cntr
  /\ cmd_cs = "RSP" => /\ cmd_cs' = IF hs /\ rsp_cs = "CRC" THEN "WAIT" ELSE "RSP"
                       /\ cmd_kind' = IF ~hs THEN cmd_kind
                                      ELSE IF cmd_cntr = 0 THEN "dc" ELSE "rd"
                       /\ cmd_cntr' = IF hs /\ cmd_cntr # 0 THEN cmd_cntr - 1
                                      ELSE cmd_cntr
                       /\ cmd_valid'
  /\ cmd_cs = "WAIT" => /\ cmd_cs' = IF det_emmc_done THEN "IDLE" ELSE "WAIT"
                        /\ cmd_kind' = cmd_kind
                        /\ cmd_valid' <=> IF hs THEN wait_wr_data \/ wait_rd_data
                                          ELSE cmd_valid
  /\ det_emmc_done' => cmd_cs = "WAIT" /\ LinesFree

RspEdge ==
  /\ rsp_cs = "IDLE" =>
       rsp_cs' = IF det_cmd_done /\ op.rsp # "R0" THEN "START" ELSE "IDLE"
  /\ rsp_cs = "START" =>
       /\ rsp_cs' = IF rx_cmd_valid /\ cmd_clk_vld_q THEN "ARG" ELSE "START"
       /\ op.rsp # "R0" => rsp_cntr' = RspWords - 1
  /\ rsp_cs = "ARG" =>
       /\ rsp_cs' = IF rx_cmd_valid /\ rsp_cntr <= 1 THEN "CRC" ELSE "ARG"
       /\ rsp_cntr' = IF rx_cmd_valid /\ rsp_cntr # 0 THEN rsp_cntr - 1 ELSE rsp_cntr
  /\ rsp_cs = "CRC" => rsp_cs' = IF rx_cmd_valid THEN "WAIT" ELSE "CRC"
  /\ rsp_cs = "WAIT" => rsp_cs' = IF cmd_clk_vld_i THEN "WAIT" ELSE "IDLE"
  /\ cmd_clk_vld_q' <=> cmd_clk_vld_i
  /\ det_cmd_done' <=> /\ cmd_cs = "RSP"
                       /\ det_cmd_done \/ (~cmd_clk_vld_i /\ cmd_clk_vld_q)

CmdLaneEdge(hs, ready) ==
  /\ hs <=> cmd_valid /\ ready
  /\ hs => /\ cl'.kind = cmd_kind /\ cl'.busy
           /\ cl'.stb <=> cmd_kind = "rd" /\ cl.kind = "rd" /\ cl.stb
  /\ ~cmd_valid /\ ready => cl'.kind = "none"
  /\ ~ready => /\ cl'.kind = cl.kind
               /\ cl.stb => cl'.stb
               /\ cl.kind = "rd" /\ ~cl.stb => (cl'.busy <=> cl.busy)
  /\ ready => ~cl.busy /\ (cl.kind = "rd" => cl.stb)

(* What the command FSM does on one edge that does not restart it.         *)
LEMMA CmdArms ==
  ASSUME TypeOK, EngineInv, NEW ckp \in BOOLEAN, CmdFsm(ckp), ~cmd_en_restart
  PROVE  CmdEdge(CmdHs(ckp))
<1> USE DEF CmdGoto, CmdStay, CmdOffer, EngineInv, DoneInv, CmdEdge
<1>0. CmdType /\ RecType /\ BlkType
  BY DEF TypeOK
<1>1. CASE CmdIdle BY <1>0, <1>1 DEF CmdIdle
<1>2. CASE CmdBoot BY <1>0, <1>2 DEF CmdBoot
<1>3. CASE CmdSendStart(ckp) BY <1>0, <1>3 DEF CmdSendStart
<1>4. CASE CmdSendArg(ckp) BY <1>0, <1>4 DEF CmdSendArg
<1>5. CASE CmdSendCrc(ckp) BY <1>0, <1>5 DEF CmdSendCrc
<1>6. CASE CmdDummy(ckp) BY <1>0, <1>6 DEF CmdDummy
<1>7. CASE CmdRsp(ckp) BY <1>0, <1>7 DEF CmdRsp
<1>8. CASE CmdWait(ckp) BY <1>0, <1>8 DEF CmdWait
<1> QED BY <1>1, <1>2, <1>3, <1>4, <1>5, <1>6, <1>7, <1>8 DEF CmdFsm

(* What the response FSM does on such an edge.                             *)
LEMMA RspArms == ASSUME TypeOK, RspFsm, ~cmd_en_restart PROVE RspEdge
<1> USE DEF RspGoto, RspEdge
<1>0. RspType /\ RecType /\ LanesType /\ HostType
  BY DEF TypeOK
<1>1. /\ cmd_clk_vld_q' <=> cmd_clk_vld_i
      /\ det_cmd_done' <=> /\ cmd_cs = "RSP"
                           /\ det_cmd_done \/ (~cmd_clk_vld_i /\ cmd_clk_vld_q)
  BY DEF RspFsm
<1>2. CASE RspIdle BY <1>1, <1>2 DEF RspIdle
<1>3. CASE RspStart BY <1>1, <1>3 DEF RspStart, RspWords
<1>4. CASE RspArg BY <1>1, <1>4 DEF RspArg
<1>5. CASE RspCrc BY <1>1, <1>5 DEF RspCrc
<1>6. CASE RspWait BY <1>1, <1>6 DEF RspWait
<1> QED BY <1>2, <1>3, <1>4, <1>5, <1>6 DEF RspFsm

(* What the command lane does on any edge, given what it is offered.       *)
LEMMA CmdLaneArms ==
  ASSUME TypeOK, NEW ckp \in BOOLEAN, NEW ends \in BOOLEAN, NEW start \in BOOLEAN,
         CmdLane(ckp, ends, start)
  PROVE  /\ cmd_en_restart => cl' = Quiet
         /\ ~cmd_en_restart => CmdLaneEdge(CmdHs(ckp), Ready(cl, ckp))
         /\ rx_cmd_valid' <=> Ready(cl, ckp) /\ cl.kind = "rd"
         /\ cmd_clk_vld_i' <=> cl.kind \in {"wr", "rd"}
<1>1. cl \in LaneType /\ cmd_kind \in Kinds /\ cmd_valid \in BOOLEAN
  BY DEF TypeOK, LanesType, CmdType
<1> QED
  BY <1>1 DEF CmdLane, LaneNext, Word, Quiet, LaneType, Kinds, Sampled, CmdHs, Ready, Shifting,
     CmdLaneEdge

(* The host programs a command only while the processor is idle and stays  *)
(* idle for one more edge.                                                 *)
LEMMA OpStable ==
  ASSUME TypeOK, EngineInv, Host
  PROVE  op' = op \/ (cmd_cs = "IDLE" /\ ~det_emmc_start)
BY DEF Host, HostIdle, HostStart, EngineInv, BusyInv

(* A restart brings the command FSM, the response FSM and the lane to rest. *)
LEMMA CmdLaneRestart ==
  ASSUME TypeOK, EngineInv, CmdLaneInv, cmd_en_restart, Tick PROVE CmdLaneInv'
<1>1. PICK ckp, cends, dends, cstart, dstart, free, avail, dat0, busy, finish, bad :
           BooleanStep(ckp, cends, dends, cstart, dstart, free, avail, dat0, busy,
                       finish, bad)
  BY TickIsStep
<1>2. /\ CmdFsm(ckp) /\ RspFsm /\ Recovery /\ CmdLane(ckp, cends, cstart)
      /\ ckp \in BOOLEAN /\ cends \in BOOLEAN /\ cstart \in BOOLEAN
  BY <1>1 DEF BooleanStep, Step
<1>3. cmd_cs' = "IDLE" /\ rsp_cs' = "IDLE" /\ cl'.kind = "none"
  <2>1. cmd_cs' = "IDLE"
    BY <1>2, CmdMoves
  <2>2. rsp_cs' = "IDLE"
    BY <1>2 DEF RspFsm, RspIdle, RspStart, RspArg, RspCrc, RspWait, RspGoto
  <2> QED BY <1>2, <2>1, <2>2, CmdLaneArms DEF Quiet
<1>4. ~cmd_en_restart' => cmd_cs = "IDLE"
  BY <1>2, TickTyped DEF Recovery, RecIdle, RecCount, RecEnd, EngineInv, RestartInv, TypeOK, RecType
<1>5. cmd_valid' => cmd_en_restart'
  BY <1>2, <1>4 DEF CmdFsm, CmdIdle, CmdBoot, CmdSendStart, CmdSendArg, CmdSendCrc,
     CmdDummy, CmdRsp, CmdWait, CmdOffer
<1>6. ~rx_cmd_valid' \/ cmd_en_restart'
  BY <1>2, <1>4, CmdLaneArms DEF CmdLaneInv, CmdSendInv
<1> QED
  BY <1>3, <1>5, <1>6 DEF CmdLaneInv, CmdSendInv, CmdRspInv, CmdWaitInv, RspStateInv, RspWordInv

(* An edge with no restart, as the command path sees it.                   *)
CmdPath(hs, ready) ==
  /\ ~cmd_en_restart
  /\ CmdEdge(hs) /\ RspEdge /\ CmdLaneEdge(hs, ready)
  /\ rx_cmd_valid' <=> ready /\ cl.kind = "rd"
  /\ cmd_clk_vld_i' <=> cl.kind \in {"wr", "rd"}
  /\ cmd_cs # "IDLE" \/ cmd_cs' # "IDLE" => op' = op
  /\ CmdType /\ RspType /\ LanesType /\ CmdType' /\ RspType' /\ LanesType'
  /\ RspWords \in {0, 2, 5} /\ RspWords' \in {0, 2, 5} /\ (RspWords = 0 <=> op.rsp = "R0")
  /\ op' = op => RspWords' = RspWords
  /\ cmd_cs \notin {"RSP", "WAIT"} => rsp_cs = "IDLE"
  /\ cmd_cs \notin {"RSP", "WAIT"} => rsp_cs' = "IDLE"
  /\ RspInv

(* The three together, with the types their proofs need: the edge of the   *)
(* command path.                                                           *)
LEMMA CmdPathStep ==
  ASSUME TypeOK, EngineInv, CmdLaneInv, ~cmd_en_restart, Tick, NEW ckp \in BOOLEAN,
         NEW cends \in BOOLEAN, NEW cstart \in BOOLEAN,
         CmdFsm(ckp), RspFsm, Host, CmdLane(ckp, cends, cstart)
  PROVE  CmdPath(CmdHs(ckp), Ready(cl, ckp))
<1>1. CmdEdge(CmdHs(ckp)) /\ RspEdge /\ CmdLaneEdge(CmdHs(ckp), Ready(cl, ckp))
  BY CmdArms, RspArms, CmdLaneArms
<1>2. /\ rx_cmd_valid' <=> Ready(cl, ckp) /\ cl.kind = "rd"
      /\ cmd_clk_vld_i' <=> cl.kind \in {"wr", "rd"}
  BY CmdLaneArms
<1>3. op' = op \/ (cmd_cs = "IDLE" /\ ~det_emmc_start)
  BY OpStable
<1>4. cmd_cs # "IDLE" \/ cmd_cs' # "IDLE" => op' = op
  BY <1>1, <1>3 DEF CmdEdge
<1>5. /\ CmdType /\ RspType /\ LanesType /\ CmdType' /\ RspType' /\ LanesType'
      /\ HostType /\ HostType'
  BY TickTyped DEF TypeOK
<1>6. /\ RspWords \in {0, 2, 5} /\ RspWords' \in {0, 2, 5} /\ (RspWords = 0 <=> op.rsp = "R0")
      /\ op' = op => RspWords' = RspWords
  BY <1>5 DEF RspWords
<1>7. RspInv
  BY DEF EngineInv
<1>8. cmd_cs \notin {"RSP", "WAIT"} => rsp_cs = "IDLE" /\ rsp_cs' = "IDLE"
  BY <1>1, <1>5, <1>7 DEF CmdLaneInv, RspStateInv, RspInv, RspEdge, RspType, RspStates
<1> QED BY <1>1, <1>2, <1>4, <1>5, <1>6, <1>7, <1>8 DEF CmdPath

(* Every edge that does not restart the engine is an edge of the command   *)
(* path.                                                                   *)
LEMMA CmdPathTick ==
  ASSUME TypeOK, EngineInv, CmdLaneInv, ~cmd_en_restart, Tick
  PROVE  \E hs \in BOOLEAN, ready \in BOOLEAN : CmdPath(hs, ready)
<1>1. PICK ckp, cends, dends, cstart, dstart, free, avail, dat0, busy, finish, bad :
           BooleanStep(ckp, cends, dends, cstart, dstart, free, avail, dat0, busy,
                       finish, bad)
  BY TickIsStep
<1>2. /\ CmdFsm(ckp) /\ RspFsm /\ Host /\ CmdLane(ckp, cends, cstart)
      /\ ckp \in BOOLEAN /\ cends \in BOOLEAN /\ cstart \in BOOLEAN
  BY <1>1 DEF BooleanStep, Step
<1>3. CmdPath(CmdHs(ckp), Ready(cl, ckp))
  BY <1>2, CmdPathStep
<1>4. CmdHs(ckp) \in BOOLEAN /\ Ready(cl, ckp) \in BOOLEAN
  BY DEF CmdHs, Ready
<1> QED BY <1>3, <1>4

(* While the command is sent the lane shifts a word out, or has none.      *)
LEMMA CmdSendKept ==
  ASSUME CmdLaneInv, NEW hs \in BOOLEAN, NEW ready \in BOOLEAN, CmdPath(hs, ready) PROVE CmdSendInv'
<1> USE DEF CmdPath, CmdLaneInv, CmdSendInv, CmdType, CmdStates, CmdEdge, CmdLaneEdge
<1>2. CASE cmd_cs = "IDLE" BY <1>2
<1>3. CASE cmd_cs = "BOOT" BY <1>3
<1>4. CASE cmd_cs = "START" BY <1>4
<1>5. CASE cmd_cs = "ARG" BY <1>5
<1>6. CASE cmd_cs = "CRC" BY <1>6
<1>7. CASE cmd_cs = "DUMMY" BY <1>7
<1>8. CASE cmd_cs = "RSP" BY <1>8
<1>9. CASE cmd_cs = "WAIT" BY <1>9 DEF CmdWaitInv
<1> QED BY <1>2, <1>3, <1>4, <1>5, <1>6, <1>7, <1>8, <1>9

(* While the response is read, a handshake hands the lane one more word.   *)
LEMMA RspHandshake ==
  ASSUME CmdLaneInv, NEW hs \in BOOLEAN, NEW ready \in BOOLEAN, CmdPath(hs, ready),
         cmd_cs = "RSP", cmd_cs' = "RSP"
  PROVE  /\ hs <=> ready
         /\ hs => /\ Loaded' = Loaded + 1 /\ Loaded' # 0 /\ Loaded \in Nat
                  /\ cl'.kind = "rd" /\ cl'.busy /\ (cl'.stb <=> cl.kind = "rd")
         /\ ~hs => Loaded' = Loaded /\ cl'.kind = cl.kind
<1> USE DEF CmdPath, CmdLaneInv
<1>1. /\ RspWords' = RspWords /\ RspWords \in Nat /\ RspWords # 0 /\ cmd_cntr \in Nat
      /\ cmd_kind \in {"dc", "rd"} /\ (cmd_kind = "dc" => cmd_cntr = 0)
      /\ cmd_cntr <= RspWords /\ cmd_valid
  BY DEF CmdRspInv, CmdType
<1>2. hs <=> ready
  BY <1>1 DEF CmdLaneEdge
<1>3. ASSUME hs
      PROVE  /\ Loaded' = Loaded + 1 /\ Loaded' # 0 /\ Loaded \in Nat
             /\ cl'.kind = "rd" /\ cl'.busy /\ (cl'.stb <=> cl.kind = "rd")
  <2>1. /\ cl'.kind = cmd_kind /\ cl'.busy /\ (cl.kind = "rd" => cl.stb) /\ ~cl.busy
        /\ cl'.stb <=> cmd_kind = "rd" /\ cl.kind = "rd" /\ cl.stb
    BY <1>2, <1>3 DEF CmdLaneEdge
  <2>2. /\ cmd_cntr' = IF cmd_cntr # 0 THEN cmd_cntr - 1 ELSE cmd_cntr
        /\ cmd_kind' = IF cmd_cntr = 0 THEN "dc" ELSE "rd"
        /\ rsp_cs # "CRC"
    BY <1>3 DEF CmdEdge
  <2>3. cmd_kind = "rd"
    <3> SUFFICES ASSUME cmd_kind = "dc" PROVE FALSE
      BY <1>1
    <3>1. Loaded = RspWords + 1 /\ cl.kind = "rd"
      BY <1>1 DEF Loaded, CmdRspInv
    <3>2. Received = RspWords
      BY <2>1, <1>1, <3>1 DEF RspWordInv, Received, RspType, RspStates
    <3> QED BY <1>1, <2>2, <3>2 DEF RspStateInv, Received, RspType, RspStates, RspInv
  <2>4. Loaded' = Loaded + 1 /\ Loaded' # 0 /\ Loaded \in Nat
    BY <1>1, <2>2, <2>3 DEF Loaded
  <2> QED BY <2>1, <2>3, <2>4
<1>4. ASSUME ~hs PROVE Loaded' = Loaded /\ cl'.kind = cl.kind
  BY <1>1, <1>2, <1>4 DEF CmdLaneEdge, CmdEdge, Loaded
<1> QED BY <1>2, <1>3, <1>4

(* While the response is awaited the lane has been handed one word more    *)
(* than the response FSM has taken.                                        *)
LEMMA CmdRspKept ==
  ASSUME CmdLaneInv, NEW hs \in BOOLEAN, NEW ready \in BOOLEAN, CmdPath(hs, ready)
  PROVE  CmdRspInv'
<1> SUFFICES ASSUME cmd_cs' = "RSP" PROVE CmdRspInv'
  BY DEF CmdRspInv
<1> USE DEF CmdPath, CmdLaneInv, CmdType, CmdEdge, CmdRspInv
<1>1. CASE cmd_cs = "DUMMY"
  BY <1>1 DEF Loaded, CmdSendInv, CmdLaneEdge
<1>2. CASE cmd_cs = "RSP"
  <2>1. cmd_valid' /\ op'.rsp # "R0" /\ cmd_kind' \in {"rd", "dc"}
    BY <1>2
  <2>2. cmd_kind' = "dc" => cmd_cntr' = 0
    BY <1>2
  <2>3. cmd_cntr' <= RspWords'
    BY <1>2
  <2>4. cl'.kind = IF Loaded' = 0 THEN "dc" ELSE "rd"
    BY <1>2, RspHandshake
  <2>5. cl'.kind = "rd" /\ ~cl'.stb => Loaded' = 1 /\ cl'.busy
    BY <1>2, RspHandshake DEF CmdLaneEdge
  <2> QED BY <2>1, <2>2, <2>3, <2>4, <2>5
<1> QED BY <1>1, <1>2 DEF CmdStates

(* When the command FSM waits for the end of the command, the lane         *)
(* empties.                                                                *)
LEMMA CmdWaitKept ==
  ASSUME CmdLaneInv, NEW hs \in BOOLEAN, NEW ready \in BOOLEAN, CmdPath(hs, ready) PROVE CmdWaitInv'
<1> SUFFICES ASSUME cmd_cs' = "WAIT" PROVE CmdWaitInv'
  BY DEF CmdWaitInv
<1> USE DEF CmdPath, CmdLaneInv, CmdSendInv, CmdType, CmdStates, CmdEdge, CmdLaneEdge, CmdWaitInv, Loaded, Kinds
<1>1. CASE cmd_cs = "DUMMY"
   BY <1>1
<1>2. CASE cmd_cs = "RSP"
   BY <1>2 DEF RspEdge, CmdRspInv, RspWordInv, Received
<1>3. CASE cmd_cs = "WAIT"
  <2> USE <1>3 DEF RspEdge, RspStateInv
  <2>1. cmd_kind' = "dc" /\ cl'.kind \in {"dc", "none"} /\ (cl'.kind = "none" => ~cmd_valid')
    OBVIOUS
  <2>2. ~cmd_valid' => rsp_cs' = "IDLE"
    BY DEF RspInv, RspType, RspStates
  <2>3. det_emmc_done' => cl'.kind = "none"
    BY DEF LinesFree
  <2> QED BY <2>1, <2>2, <2>3
<1> QED BY <1>1, <1>2, <1>3
(* A response word leaves the lane only when the response FSM expects one. *)
LEMMA RspStateKept ==
  ASSUME CmdLaneInv, NEW hs \in BOOLEAN, NEW ready \in BOOLEAN, CmdPath(hs, ready)
  PROVE  RspStateInv'
<1> USE DEF CmdPath, CmdLaneInv, RspType, RspStates, RspEdge, RspStateInv
<1>1. rsp_cs' # "IDLE" => op'.rsp # "R0"
  BY DEF CmdEdge
<1>2. rx_cmd_valid' => cmd_cs = "RSP" /\ rsp_cs \notin {"IDLE", "WAIT"}
  BY DEF CmdLaneEdge, CmdSendInv, CmdWaitInv, RspWordInv, CmdType, CmdStates
<1>3. rsp_cs' = "IDLE" => ~rx_cmd_valid'
  BY <1>2
<1>4. rsp_cs' = "ARG" => rsp_cntr' >= 1 /\ rsp_cntr' < RspWords'
  <2>1. CASE rsp_cs = "START" BY <2>1 DEF RspInv, CmdEdge
  <2>2. CASE rsp_cs = "ARG" BY <2>2 DEF RspInv, CmdEdge
  <2> QED BY <2>1, <2>2
<1>5. rsp_cs' = "CRC" => \/ cmd_cs' = "RSP"
                         \/ cmd_cs' = "WAIT" /\ rx_cmd_valid' /\ cl'.busy /\ cmd_valid'
  <2>1. CASE rsp_cs = "ARG" BY <2>1 DEF RspInv, CmdEdge
  <2>2. CASE rsp_cs = "CRC" 
    <3> SUFFICES ASSUME rsp_cs' = "CRC", cmd_cs' # "RSP"
                 PROVE  cmd_cs' = "WAIT" /\ rx_cmd_valid' /\ cl'.busy /\ cmd_valid'
      OBVIOUS
    <3>1. cmd_cs = "RSP" /\ hs /\ cmd_cs' = "WAIT" /\ cmd_valid'
      BY <2>2 DEF CmdEdge
    <3>2. cl.kind = "rd"
      BY <2>2, <3>1 DEF RspWordInv, CmdRspInv
    <3> QED BY <3>1, <3>2 DEF CmdLaneEdge
  <2> QED BY <2>1, <2>2
<1>6. rsp_cs' = "WAIT" => /\ cmd_cs' = "WAIT" /\ cl'.kind = "dc" /\ cmd_valid'
                          /\ ~cmd_clk_vld_i' /\ ~rx_cmd_valid'
  <2> SUFFICES ASSUME rsp_cs' = "WAIT"
               PROVE  /\ cmd_cs' = "WAIT" /\ cl'.kind = "dc" /\ cmd_valid'
                      /\ ~cmd_clk_vld_i' /\ ~rx_cmd_valid'
    OBVIOUS
  <2>1. rsp_cs = "CRC" /\ rx_cmd_valid
    OBVIOUS
  <2>2. cmd_cs # "RSP"
    BY <2>1 DEF RspWordInv, Received, CmdRspInv, Loaded, CmdType
  <2>3. cmd_cs = "WAIT" /\ cl.busy /\ cmd_valid /\ cl.kind = "dc" /\ ~det_emmc_done
    BY <2>1, <2>2 DEF CmdWaitInv
  <2> QED BY <2>3 DEF CmdEdge, CmdLaneEdge
<1> QED BY <1>1, <1>3, <1>4, <1>5, <1>6

(* A word that comes out of the lane is taken by the response FSM.         *)
LEMMA ReceivedStep ==
  ASSUME CmdLaneInv, NEW hs \in BOOLEAN, NEW ready \in BOOLEAN, CmdPath(hs, ready),
         rsp_cs # "IDLE", rsp_cs' # "IDLE"
  PROVE  Received' = IF rx_cmd_valid THEN Received + 1 ELSE Received
<1> USE DEF CmdPath, CmdLaneInv
<1>1. /\ RspWords' = RspWords /\ RspWords \in Nat /\ rsp_cntr \in Nat
      /\ op.rsp # "R0" /\ RspWords >= 2
  BY DEF RspType, RspStateInv
<1>2. CASE rsp_cs = "START"
  BY <1>1, <1>2 DEF RspEdge, Received, RspWordInv, RspInv
<1>3. CASE rsp_cs = "ARG"
  BY <1>1, <1>3 DEF RspEdge, Received, RspStateInv
<1>4. CASE rsp_cs = "CRC"
  BY <1>1, <1>4 DEF RspEdge, Received
<1>5. CASE rsp_cs = "WAIT"
  BY <1>1, <1>5 DEF RspEdge, Received, RspStateInv
<1> QED BY <1>2, <1>3, <1>4, <1>5 DEF RspType, RspStates

(* The words that the command FSM asked for are those the response FSM     *)
(* counts.                                                                 *)
LEMMA RspWordKept ==
  ASSUME CmdLaneInv, NEW hs \in BOOLEAN, NEW ready \in BOOLEAN, CmdPath(hs, ready)
  PROVE  RspWordInv'
<1> SUFFICES ASSUME cmd_cs' = "RSP" PROVE RspWordInv'
  BY DEF RspWordInv
<1> USE DEF CmdPath, CmdLaneInv, RspWordInv
<1>1. CASE cmd_cs = "DUMMY"
  <2>1. hs /\ ready /\ cl.kind = "wr" /\ cmd_kind = "dc" /\ rsp_cs' = "IDLE" /\ cmd_kind' = "rd" /\ cmd_cntr' = RspWords'
    BY <1>1 DEF CmdEdge, CmdSendInv, CmdLaneEdge
  <2>2. cl'.kind = "dc" /\ cl'.busy /\ ~rx_cmd_valid' /\ cmd_clk_vld_i'
    BY <2>1 DEF CmdLaneEdge
  <2> QED BY <2>1, <2>2
<1>2. CASE cmd_cs = "RSP"
  <2> USE <1>2
  <2>1. /\ hs <=> ready
        /\ hs => /\ Loaded' = Loaded + 1 /\ Loaded' # 0 /\ Loaded \in Nat
                 /\ cl'.kind = "rd" /\ cl'.busy /\ (cl'.stb <=> cl.kind = "rd")
        /\ ~hs => Loaded' = Loaded /\ cl'.kind = cl.kind
    BY RspHandshake
  <2>2. /\ ready => ~cl.busy /\ ~rx_cmd_valid /\ (cl.kind = "rd" => cl.stb)
        /\ rx_cmd_valid' <=> ready /\ cl.kind = "rd"
        /\ cmd_clk_vld_i' <=> cl.kind \in {"wr", "rd"}
        /\ rsp_cs # "WAIT" /\ cl.kind \in {"dc", "rd"} /\ op.rsp # "R0"
        /\ rsp_cs = "IDLE" => ~rx_cmd_valid
    BY DEF CmdLaneEdge, CmdRspInv, RspStateInv
  <2>3. Received' = IF rx_cmd_valid THEN Received + 1 ELSE Received
    <3>1. CASE rsp_cs = "IDLE"
      BY <3>1, <2>2 DEF RspEdge, Received
    <3>2. CASE rsp_cs # "IDLE"
      <4>1. rsp_cs' # "IDLE"
        BY <3>2, <2>2 DEF RspEdge, RspType, RspStates
      <4> QED BY <3>2, <4>1, ReceivedStep
    <3> QED BY <3>1, <3>2
  <2>4. cl'.kind = "dc" => rsp_cs' \in {"IDLE", "START"} /\ ~rx_cmd_valid'
    BY <2>1, <2>2 DEF RspEdge
  <2>5. Received \in Nat
    BY DEF Received, RspStateInv, RspType
  <2>6. cl'.kind = "rd" => Loaded' = 1 + Received' + (IF rx_cmd_valid' THEN 1 ELSE 0)
    <3>1. CASE hs /\ cl.kind = "rd"
      BY <2>1, <2>2, <2>3, <2>5, <3>1
    <3>2. CASE hs /\ cl.kind = "dc"
      <4>1. Loaded = 0 /\ Received = 0
        BY <3>2 DEF CmdRspInv, Received
      <4> QED BY <2>1, <2>2, <2>3, <3>2, <4>1
    <3>3. CASE ~hs
      BY <2>1, <2>2, <2>3, <2>5, <3>3
    <3> QED BY <3>1, <3>2, <3>3, <2>2
  <2>7. rx_cmd_valid' => cl'.busy /\ cmd_clk_vld_q'
    BY <2>1, <2>2 DEF RspEdge
  <2>8. cl'.kind = "rd" /\ cl'.stb =>
          cmd_clk_vld_i' /\ rsp_cs' # "IDLE" /\ (~cl'.busy => cmd_clk_vld_q')
    <3> SUFFICES ASSUME cl'.kind = "rd", cl'.stb
                 PROVE  cmd_clk_vld_i' /\ rsp_cs' # "IDLE" /\ (~cl'.busy => cmd_clk_vld_q')
      OBVIOUS
    <3>1. cl.kind = "rd"
      BY <2>1, <2>2
    <3>2. CASE cl.stb
      BY <2>1, <2>2, <3>1, <3>2 DEF RspEdge, RspType, RspStates
    <3>3. CASE ~cl.stb
      <4>1. ~hs /\ cl'.busy
        BY <2>1, <2>2, <3>1, <3>3 DEF CmdLaneEdge, CmdRspInv
      <4>2. rsp_cs' # "IDLE"
        BY <2>2, <3>1 DEF RspEdge, RspType, RspStates
      <4> QED BY <2>2, <3>1, <4>1, <4>2
    <3> QED BY <3>2, <3>3
  <2>9. rsp_cs' = "IDLE" => rsp_cs = "IDLE" /\ ~det_cmd_done /\ cl.kind = "dc"
    BY <2>2 DEF RspEdge, RspType, RspStates
  <2>10. rsp_cs' = "IDLE" => det_cmd_done' \/ cmd_clk_vld_i' \/ cmd_clk_vld_q'
    BY <2>9 DEF RspEdge
  <2>11. rsp_cs' = "IDLE" /\ ~det_cmd_done' =>
           cl'.kind = "dc" /\ (cmd_clk_vld_i' => cl'.busy)
    BY <2>1, <2>2, <2>9 DEF RspEdge
  <2> QED BY <2>4, <2>6, <2>7, <2>8, <2>10, <2>11
<1> QED BY <1>1, <1>2 DEF CmdEdge, CmdType, CmdStates

(* The lane and the two FSMs keep the words in step, whatever the device   *)
(* and the divided clock do.                                               *)
LEMMA CmdLaneTick ==
  ASSUME TypeOK, EngineInv, CmdLaneInv, Tick PROVE CmdLaneInv'
<1>1. CASE cmd_en_restart
  BY <1>1, CmdLaneRestart
<1>2. CASE ~cmd_en_restart
  <2>1. PICK hs \in BOOLEAN, ready \in BOOLEAN : CmdPath(hs, ready)
    BY <1>2, CmdPathTick
  <2> QED
    BY <2>1, CmdSendKept, CmdRspKept, CmdWaitKept, RspStateKept, RspWordKept DEF CmdLaneInv
<1> QED BY <1>1, <1>2

(* The response registers that are filled follow the words taken.          *)
LEMMA SavedTick ==
  ASSUME TypeOK, EngineInv, CmdLaneInv, SavedInv, Tick PROVE SavedInv'
<1>1. CASE cmd_en_restart
  <2>1. PICK ckp, cends, dends, cstart, dstart, free, avail, dat0, busy, finish, bad :
             BooleanStep(ckp, cends, dends, cstart, dstart, free, avail, dat0, busy,
                         finish, bad)
    BY TickIsStep
  <2>2. CmdFsm(ckp) /\ RspFsm /\ ckp \in BOOLEAN
    BY <2>1 DEF BooleanStep, Step
  <2>3. cmd_cs' = "IDLE"
    BY <1>1, <2>2, CmdMoves
  <2>4. rsp_cs' = "IDLE"
    BY <1>1, <2>2 DEF RspFsm, RspIdle, RspStart, RspArg, RspCrc, RspWait, RspGoto
  <2> QED BY <2>3, <2>4 DEF SavedInv
<1>2. CASE ~cmd_en_restart
  <2>1. PICK hs \in BOOLEAN, ready \in BOOLEAN : CmdPath(hs, ready)
    BY <1>2, CmdPathTick
  <2>2. SaveResponse
    BY DEF Tick, Step, RspFsm
  <2> USE <2>1 DEF CmdPath, CmdLaneInv
  <2>3. CASE rsp_cs = "IDLE"
    <3>1. rsp_ptr' = 0 /\ saved_rsp' = IF cmd_cs = "DUMMY" THEN {} ELSE saved_rsp
      BY <2>2, <2>3 DEF SaveResponse
    <3>2. rsp_cs' # "IDLE" => /\ rsp_ptr' = Received'
                              /\ saved_rsp' = {i \in 0..5 : i < Received'}
      <4> SUFFICES ASSUME rsp_cs' # "IDLE"
                   PROVE  /\ rsp_ptr' = Received'
                          /\ saved_rsp' = {i \in 0..5 : i < Received'}
        OBVIOUS
      <4>1. cmd_cs = "RSP" /\ rsp_cs' = "START"
        BY <2>3 DEF RspEdge, RspInv
      <4>2. Received' = 0 /\ saved_rsp' = {}
        BY <3>1, <4>1, <2>3 DEF Received, SavedInv
      <4> QED BY <3>1, <4>2
    <3>3. cmd_cs' = "RSP" /\ rsp_cs' = "IDLE" => saved_rsp' = {}
      BY <2>3, <3>1 DEF SavedInv, CmdEdge, CmdType, CmdStates
    <3>4. cmd_cs' = "WAIT" /\ rsp_cs' = "IDLE" => saved_rsp' = ResponseRegs'
      BY <2>3, <3>1 DEF SavedInv, CmdEdge, CmdType, CmdStates, ResponseRegs, CmdSendInv
    <3> QED BY <3>2, <3>3, <3>4 DEF SavedInv
  <2>4. CASE rsp_cs # "IDLE"
    <3>1. rsp_ptr = Received /\ saved_rsp = {i \in 0..5 : i < Received}
      BY <2>4 DEF SavedInv
    <3>2. op' = op /\ RspWords' = RspWords /\ RspWords \in {2, 5} /\ cmd_cs # "DUMMY"
      BY <2>4 DEF RspStateInv
    <3>3. CASE rsp_cs' # "IDLE"
      <4>1. Received' = IF rx_cmd_valid THEN Received + 1 ELSE Received
        BY <2>4, <3>3, ReceivedStep
      <4>2. Received \in 0..6 /\ (rx_cmd_valid => Received \in 0..5)
        BY <3>2 DEF Received, RspStateInv, RspType
      <4>3. rsp_ptr' = Received'
        BY <2>2, <2>4, <3>1, <4>1, <4>2 DEF SaveResponse
      <4>4. saved_rsp' = {i \in 0..5 : i < Received'}
        <5> DEFINE r == Received
                   s == Received'
        <5>1. r \in 0..6 /\ s = (IF rx_cmd_valid THEN r + 1 ELSE r) /\ rsp_ptr = r
          BY <3>1, <4>1, <4>2
        <5>2. saved_rsp' = saved_rsp \cup (IF rx_cmd_valid THEN {rsp_ptr} \cap (0..5) ELSE {})
          BY <2>2, <2>4, <3>2 DEF SaveResponse
        <5>3. saved_rsp = {i \in 0..5 : i < r}
          BY <3>1
        <5> HIDE DEF r, s
        <5>4. saved_rsp' = {i \in 0..5 : i < s}
          <6>1. CASE rx_cmd_valid
            <7>1. saved_rsp' = {i \in 0..5 : i < r} \cup ({r} \cap (0..5)) /\ s = r + 1
              BY <5>1, <5>2, <5>3, <6>1
            <7>2. \A i \in 0..5 : i < r + 1 <=> i < r \/ i = r
              BY <5>1
            <7> QED BY <7>1, <7>2
          <6>2. CASE ~rx_cmd_valid
            BY <5>1, <5>2, <5>3, <6>2
          <6> QED BY <6>1, <6>2
        <5> QED BY <5>4 DEF s
      <4> QED BY <3>3, <4>3, <4>4 DEF SavedInv
    <3>4. CASE rsp_cs' = "IDLE"
      <4>1. rsp_cs = "WAIT" /\ ~rx_cmd_valid /\ cmd_cs = "WAIT"
        BY <2>4, <3>4 DEF RspEdge, RspType, RspStates, RspStateInv
      <4>2. saved_rsp' = saved_rsp
        BY <2>2, <4>1 DEF SaveResponse
      <4>3. saved_rsp = ResponseRegs
        <5>1. Received = RspWords + 1
          BY <4>1 DEF Received
        <5> QED BY <5>1, <3>1, <3>2 DEF ResponseRegs, RspWords
      <4>4. cmd_cs' # "RSP"
        BY <4>1 DEF CmdEdge
      <4> QED BY <3>2, <3>4, <4>2, <4>3, <4>4 DEF SavedInv, ResponseRegs
    <3> QED BY <3>3, <3>4
  <2> QED BY <2>3, <2>4
<1> QED BY <1>1, <1>2

(* Power-on reset and the core reset leave nothing in the lane.            *)
LEMMA CmdLaneInit == Init => CmdLaneInv /\ SavedInv
BY DEF Init, CtlInit, Quiet, CmdLaneInv, CmdSendInv, CmdRspInv, CmdWaitInv, RspStateInv,
   RspWordInv, SavedInv

(* The software reset leaves nothing on the command lane.                  *)
LEMMA CmdLaneReset == ASSUME SoftReset PROVE CmdLaneInv' /\ SavedInv'
BY DEF SoftReset, Quiet, CmdLaneInv, CmdSendInv, CmdRspInv, CmdWaitInv, RspStateInv,
   RspWordInv, SavedInv

(* Every step of the specification keeps both.                             *)
LEMMA CmdLaneNext ==
  ASSUME TypeOK, EngineInv, CmdLaneInv, SavedInv, [Next]_vars
  PROVE  CmdLaneInv' /\ SavedInv'
<1>1. CASE Tick BY <1>1, CmdLaneTick, SavedTick
<1>2. CASE SoftReset BY <1>2, CmdLaneReset
<1>3. CASE UNCHANGED vars
  BY <1>3 DEF vars, hostVars, cmdVars, rspVars, recVars, laneVars, CmdLaneInv, CmdSendInv,
     CmdRspInv, CmdWaitInv, RspStateInv, RspWordInv, SavedInv, Loaded, Received, RspWords,
     ResponseRegs
<1> QED BY <1>1, <1>2, <1>3 DEF Next

(* The command lane shifts the word its FSM expects, in every state of the *)
(* command and response FSMs, for every device and divided clock.          *)
THEOREM CmdLaneInvariant == Spec => [](CmdLaneInv /\ SavedInv)
<1>1. Init => TypeOK /\ EngineInv /\ CmdLaneInv /\ SavedInv
  BY InitTyped, EngineInvInit, CmdLaneInit
<1>2. TypeOK /\ EngineInv /\ CmdLaneInv /\ SavedInv /\ [Next]_vars
        => TypeOK' /\ EngineInv' /\ CmdLaneInv' /\ SavedInv'
  BY NextTyped, EngineInvNext, CmdLaneNext
<1> QED BY <1>1, <1>2, PTL DEF Spec

(* A command that completes has refreshed exactly the response registers   *)
(* its response type fills: done comes only once the lane is empty, and    *)
(* then the response FSM has taken every word.                             *)
THEOREM ResponseIsSaved == Spec => ResponseSaved
<1>1. ASSUME TypeOK, EngineInv, CmdLaneInv, SavedInv, Tick, Completes
      PROVE  saved_rsp = ResponseRegs
  <2>1. PICK ckp, cends, dends, cstart, dstart, free, avail, dat0, busy, finish, bad :
             BooleanStep(ckp, cends, dends, cstart, dstart, free, avail, dat0, busy,
                         finish, bad)
    BY <1>1, TickIsStep
  <2>2. CmdFsm(ckp) /\ ckp \in BOOLEAN
    BY <2>1 DEF BooleanStep, Step
  <2>3. cmd_cs = "WAIT" /\ det_emmc_done /\ ~cmd_en_restart
    BY <1>1, <2>2, CmdMoves DEF Completes
  <2>4. cl.kind = "none" /\ ~cmd_valid
    BY <1>1, <2>3 DEF CmdLaneInv, CmdWaitInv
  <2> QED BY <1>1, <2>3, <2>4 DEF CmdLaneInv, CmdWaitInv, SavedInv
<1>2. ASSUME TypeOK, EngineInv, CmdLaneInv, SavedInv, [Next]_vars
      PROVE  [Completes => saved_rsp = ResponseRegs]_vars
  <2>1. CASE Tick BY <2>1, <1>1, <1>2
  <2>2. CASE SoftReset BY <2>2 DEF SoftReset, Completes
  <2> QED BY <1>2, <2>1, <2>2 DEF Next
<1>3. TypeOK /\ EngineInv /\ CmdLaneInv /\ SavedInv /\ [Next]_vars
        => [Completes => saved_rsp = ResponseRegs]_vars
  BY <1>2
<1> QED BY <1>3, TypeCorrect, EngineInvariant, CmdLaneInvariant, PTL DEF Spec, ResponseSaved

----------------------------------------------------------------------------
(* The data lane.  The facts of this part hold for a host that resets the  *)
(* core after a response timeout, for commands with at least one block and *)
(* no BUSTEST_W, and for blocks that outlast the response.                 *)
DataHost ==
  /\ HostReinits /\ ~ShortBlocks
  /\ \A o \in Ops : ~o.bustest /\ (o.dir \in {"rd", "wr"} => o.blocks >= 1)

(* A response timeout stops the host until it resets the core, so that the *)
(* words it left on the data lane meet no later command.                   *)
TimedOutInv ==
  /\ dat_en_restart => cmd_en_restart
  /\ cmd_en_restart => rsp_timed_out \/ dat_en_restart
  /\ rsp_timed_out => \/ cmd_en_restart
                      \/ cmd_cs = "IDLE" /\ ~det_emmc_start /\ ~cmd_start /\ wdt_cs = "IDLE"
  /\ rsp_tmr1_gt_timeout => cmd_cs = "RSP" \/ recovery_cs = "WAIT1"

OpInv == op \in Ops

(* The data FSM leaves IDLE only for a data command in RSP or WAIT: a      *)
(* write after its response, a read not past its block before it.          *)
DirInv ==
  /\ wait_wr_data => op.dir = "wr" /\ op.rsp # "R0"
  /\ wait_rd_data => op.dir = "rd" /\ op.rsp # "R0"
  /\ wdt_cs # "IDLE" => cmd_cs \in {"RSP", "WAIT"}
  /\ wdt_cs # "IDLE" => op.dir \in {"rd", "wr"} /\ op.rsp # "R0"
  /\ wdt_cs \notin {"IDLE", "WAIT"} => IF op.dir = "wr" THEN wait_wr_data ELSE wait_rd_data
  /\ wdt_cs = "RSP" => op.dir = "wr"
  /\ op.dir = "wr" /\ cmd_cs = "RSP" => wdt_cs = "IDLE" /\ ~pld_valid
  /\ op.dir = "rd" /\ cmd_cs = "RSP" => wdt_cs \notin {"RSP", "WAIT"}
  /\ op.dir = "rd" /\ cmd_cs = "RSP" /\ wdt_cs = "DUMMY" => pld_dc_num = 0 /\ dl.busy /\ dl.crc

(* What the data FSM leaves on offer between two blocks and two commands.  *)
OfferInv ==
  /\ cmd_cs \notin {"IDLE", "RSP", "WAIT"} => ~pld_valid
  /\ wdt_cs # "DUMMY" /\ ~cmd_en_restart => pld_dc_num = 0
  /\ wdt_cs = "CRC" => pld_crc_en

(* A block that ends while the command lane runs out: the command is not   *)
(* done before the data FSM has seen the last block.                       *)
TailInv ==
  /\ cmd_cs = "WAIT" /\ ~cmd_valid => ~wait_rd_data /\ ~wait_wr_data
  /\ wdt_cs = "WAIT" => ~dat_clk_vld_i /\ cl.kind = "dc"
  /\ wdt_cs = "WAIT" /\ ~cmd_valid => blk_cntr = 0 /\ (~cl.busy => ~all_blocks_done)

(* What the data FSM offers the lane, and what the lane does, in each      *)
(* state of the FSM.                                                       *)
DatKind == IF op.dir = "wr" THEN "wr" ELSE "rd"
DatWordInv ==
  ~rsp_timed_out =>
    /\ wdt_cs = "IDLE" => /\ dl.kind \in {"none", "dc"}
                          /\ pld_valid => pld_kind = "dc" \/ dat_en_restart
    /\ wdt_cs = "START" => dl.kind \in {"none", "dc"} /\ pld_valid /\ pld_kind = "dc"
    /\ wdt_cs = "PAYLOAD" => /\ pld_valid /\ pld_kind = DatKind /\ dl.kind \in {"dc", DatKind}
                             /\ wdt_last => dl.kind = DatKind
    /\ wdt_cs = "CRC" => pld_valid /\ pld_kind = DatKind /\ dl.kind = DatKind
    /\ wdt_cs = "DUMMY" => /\ pld_valid /\ pld_kind = "dc"
                           /\ dl.kind = (IF pld_dc_num = 0 THEN DatKind ELSE "dc")
                           /\ pld_dc_num = 1 => ~dl.busy
    /\ wdt_cs = "RSP" => /\ pld_valid /\ pld_kind \in {"rd", "dc"} /\ dl.kind \in {"dc", "rd"}
                         /\ pld_kind = "rd" => dl.kind = "dc"
                         /\ check_busy => dl.kind = "dc" /\ pld_kind = "dc"
    /\ wdt_cs = "WAIT" => IF op.dir = "wr" THEN pld_valid /\ pld_kind = "dc" /\ dl.kind = "dc"
                          ELSE ~pld_valid /\ dl.kind \in {"dc", "none"}

(* Which word of a block can raise xfer_done and check_busy.               *)
XferInv ==
  /\ wdt_last => wdt_cs = "PAYLOAD" \/ cmd_en_restart
  /\ wdt_cs = "START" => ~xfer_done /\ ~check_busy /\ ~pld_crc_en /\ ~rx_pld_valid
  /\ wdt_cs = "PAYLOAD" => ~xfer_done /\ ~check_busy /\ ~pld_crc_en /\ ~dl.crc /\ ~rx_pld_end
  /\ wdt_cs = "CRC" => ~xfer_done /\ ~check_busy /\ ~dl.crc /\ ~rx_pld_end
  /\ wdt_cs = "DUMMY" /\ pld_dc_num = 0 => ~xfer_done /\ ~check_busy /\ ~rx_pld_end
  /\ wdt_cs = "DUMMY" /\ pld_dc_num = 1 =>
       (rx_pld_valid => ~xfer_done) /\ (op.dir = "wr" => ~check_busy)
  /\ wdt_cs = "RSP" /\ (pld_kind = "rd" \/ dl.kind = "rd") => ~rx_pld_valid /\ ~check_busy

DatLaneInv ==
  OpInv /\ TimedOutInv /\ DirInv /\ OfferInv /\ TailInv /\ DatWordInv /\ XferInv

(* An edge is a Step whose choices obey the guards of Tick.                *)
ChosenStep(ckp, cends, dends, cstart, dstart, free, avail, dat0, busy, finish, bad) ==
  /\ BooleanStep(ckp, cends, dends, cstart, dstart, free, avail, dat0, busy, finish, bad)
  /\ dends => dl.busy /\ DatEndOk
  /\ dstart => Waiting(dl) /\ DatStartOk
  /\ busy => wdt_cs = "RSP"
  /\ free => wait_rd_data
  /\ avail => wait_wr_data

(* An edge, with the ranges of the choices that the device and the bus     *)
(* manager make.                                                           *)
LEMMA TickIsChosen ==
  ASSUME Tick
  PROVE  \E ckp, cends, dends, cstart, dstart, free, avail, dat0, busy, finish, bad :
           ChosenStep(ckp, cends, dends, cstart, dstart, free, avail, dat0, busy,
                      finish, bad)
<1>1. PICK ckp \in BOOLEAN, cends \in OneOf(cl.busy),
     dends \in OneOf(dl.busy /\ DatEndOk), cstart \in OneOf(Waiting(cl)),
     dstart \in OneOf(Waiting(dl) /\ DatStartOk),
     free \in OneOf(wait_rd_data /\ wdt_cs = "IDLE"),
     avail \in OneOf(wait_wr_data /\ wdt_cs = "IDLE"),
     dat0 \in OneOf(dl.kind \in {"wr", "rd"}), busy \in OneOf(wdt_cs = "RSP"),
     finish \in OneOf(wait_wr_data \/ wait_rd_data),
     bad \in OneOf(rx_cmd_valid \/ rx_pld_valid) :
     Step(ckp, cends, dends, cstart, dstart, free, avail, dat0, busy, finish, bad)
  BY Zenon DEF Tick
<1>2. BooleanStep(ckp, cends, dends, cstart, dstart, free, avail, dat0, busy, finish, bad)
  BY <1>1 DEF OneOf, BooleanStep
<1>3. ChosenStep(ckp, cends, dends, cstart, dstart, free, avail, dat0, busy, finish, bad)
  BY <1>1, <1>2, Zenon DEF OneOf, ChosenStep
<1> WITNESS ckp, cends, dends, cstart, dstart, free, avail, dat0, busy, finish, bad
<1> QED BY <1>3

(* One edge of the data path: the arms of its FSM, the lane, the flags.    *)
WdtIdleEdge(chs, hs) ==
  /\ wdt_cs' \in {"IDLE", "START"} /\ pld_kind' = "dc"
  /\ wdt_cs' = "START" => /\ cmd_cs # "IDLE" /\ pld_valid'
                          /\ wait_rd_data \/ (wait_wr_data /\ hs)
  /\ pld_valid' => /\ cmd_cs # "IDLE"
                   /\ \/ pld_valid \/ wait_rd_data
                      \/ wait_wr_data /\ rsp_cs \in {"CRC", "WAIT"} /\ chs
  /\ ~wdt_last' /\ ~xfer_done' /\ ~check_busy' /\ ~pld_crc_en' /\ ~rd_not_started'
  /\ pld_dc_num' = 0 /\ wdt_cntr' = WdtCntrInit

WdtArms(ckp) ==
  /\ wdt_cs = "IDLE" => WdtIdleEdge(CmdHs(ckp), PldHs(ckp))
  /\ wdt_cs = "START" => WdtStart(ckp)
  /\ wdt_cs = "PAYLOAD" => WdtPayload(ckp)
  /\ wdt_cs = "CRC" => WdtCrc(ckp)
  /\ wdt_cs = "DUMMY" => WdtDummy(ckp)
  /\ wdt_cs = "RSP" => WdtRsp(ckp)
  /\ wdt_cs = "WAIT" => WdtWait

DatLaneEdge(hs, ready) ==
  /\ hs <=> pld_valid /\ ready
  /\ hs => /\ dl'.kind = pld_kind /\ (dl'.crc <=> pld_crc_en)
           /\ dl'.busy <=> pld_kind # "dc" \/ pld_dc_num = 1
           /\ dl'.stb <=> pld_kind = "rd" /\ dl.kind = "rd" /\ dl.stb
  /\ ~pld_valid /\ ready => dl' = Quiet
  /\ ~ready => /\ dl'.kind = dl.kind /\ (dl'.crc <=> dl.crc) /\ (dl.stb => dl'.stb)
               /\ dl.kind = "rd" /\ ~dl.stb => (dl'.busy <=> dl.busy)
               /\ dl'.busy => dl.busy
               /\ dl.busy /\ ~dl'.busy => DatEndOk
               /\ ~dl.stb /\ dl'.stb => dl.kind = "rd" /\ DatStartOk
  /\ ready => ~dl.busy /\ (dl.kind = "rd" => dl.stb)
  /\ rx_pld_valid' <=> ready /\ dl.kind \in {"wr", "rd"}
  /\ rx_pld_end' <=> ready /\ dl.kind \in {"wr", "rd"} /\ dl.crc
  /\ dat_clk_vld_i' <=> dl.kind \in {"wr", "rd"}

BlocksEdge(ready) ==
  /\ all_blocks_done' <=> blk_cntr = op.blocks
  /\ blk_cntr' = IF ~(wait_wr_data \/ wait_rd_data) THEN 0
                 ELSE IF wdt_last /\ ready THEN (blk_cntr + 1) % BlkMod
                 ELSE blk_cntr
  /\ wait_wr_data' <=> IF wait_wr_data THEN ~(all_blocks_done /\ wdt_cs = "WAIT")
                       ELSE op.dir = "wr" /\ cmd_cs = "RSP"
  /\ wait_rd_data' <=> IF wait_rd_data THEN ~(emmc_req_done /\ wdt_cs = "WAIT")
                       ELSE op.dir = "rd" /\ cmd_cs = "RSP"

DatPath(ckp) ==
  /\ CmdPath(CmdHs(ckp), Ready(cl, ckp)) /\ ~dat_en_restart
  /\ WdtArms(ckp) /\ DatLaneEdge(PldHs(ckp), Ready(dl, ckp)) /\ BlocksEdge(Ready(dl, ckp))
  /\ WdtType /\ WdtType' /\ BlkType /\ BlkType' /\ op' \in OpType
  /\ rsp_timed_out => rsp_timed_out'

(* How the data FSM leaves IDLE, and what it offers the data lane there.   *)
LEMMA WdtIdleArm ==
  ASSUME TypeOK, ~cmd_en_restart, NEW ckp \in BOOLEAN, NEW free \in BOOLEAN, NEW avail \in BOOLEAN,
         free => wait_rd_data, avail => wait_wr_data, WdtIdle(ckp, free, avail)
  PROVE  WdtIdleEdge(CmdHs(ckp), PldHs(ckp))
<1>1. WdtType /\ BlkType
  BY DEF TypeOK
<1>2. PldHs(ckp) \in BOOLEAN /\ CmdHs(ckp) \in BOOLEAN /\ (PldHs(ckp) => pld_valid)
  BY DEF PldHs, CmdHs, Ready
<1>3. wdt_cs' \in {"IDLE", "START"} /\ pld_kind' = "dc"
  BY DEF WdtIdle, WdtGoto, PldOffer
<1>4. wdt_cs' = "START" => /\ cmd_cs # "IDLE" /\ pld_valid'
                           /\ wait_rd_data \/ (wait_wr_data /\ PldHs(ckp))
  BY <1>1, <1>2 DEF WdtIdle, WdtGoto, PldOffer, WdtType, BlkType
<1>5. pld_valid' => /\ cmd_cs # "IDLE"
                    /\ \/ pld_valid \/ wait_rd_data
                       \/ wait_wr_data /\ rsp_cs \in {"CRC", "WAIT"} /\ CmdHs(ckp)
  BY <1>1, <1>2 DEF WdtIdle, WdtGoto, PldOffer, WdtType, BlkType
<1> QED BY <1>3, <1>4, <1>5 DEF WdtIdle, WdtIdleEdge

(* What the data lane does on any edge, given what it is offered.          *)
LEMMA DatLaneArms ==
  ASSUME TypeOK, ~dat_en_restart, NEW ckp \in BOOLEAN, NEW ends \in BOOLEAN, NEW start \in BOOLEAN,
         ends => dl.busy /\ DatEndOk, start => Waiting(dl) /\ DatStartOk,
         DatLane(ckp, ends, start)
  PROVE  DatLaneEdge(PldHs(ckp), Ready(dl, ckp))
<1>1. /\ dl \in LaneType /\ pld_kind \in Kinds /\ pld_valid \in BOOLEAN /\ pld_crc_en \in BOOLEAN
      /\ DatEndOk \in BOOLEAN /\ DatStartOk \in BOOLEAN
  BY DEF TypeOK, LanesType, WdtType, DatEndOk, DatStartOk
<1> HIDE DEF DatEndOk, DatStartOk
<1>2. /\ rx_pld_valid' <=> Ready(dl, ckp) /\ dl.kind \in {"wr", "rd"}
      /\ rx_pld_end' <=> Ready(dl, ckp) /\ dl.kind \in {"wr", "rd"} /\ dl.crc
      /\ dat_clk_vld_i' <=> dl.kind \in {"wr", "rd"}
  BY DEF DatLane, Sampled
<1>3. PldHs(ckp) <=> pld_valid /\ Ready(dl, ckp)
  BY DEF PldHs
<1>4. Ready(dl, ckp) => ~dl.busy /\ (dl.kind = "rd" => dl.stb)
  BY DEF Ready, Shifting
<1>5. CASE Ready(dl, ckp)
  <2>1. dl' = IF pld_valid THEN Word(dl, pld_kind, pld_crc_en, pld_kind # "dc" \/ pld_dc_num = 1)
              ELSE Quiet
    BY <1>5 DEF DatLane, LaneNext
  <2>2. dl' = IF pld_valid THEN [kind |-> pld_kind, crc |-> pld_crc_en, busy |-> pld_kind # "dc" \/ pld_dc_num = 1, stb |-> pld_kind = "rd" /\ dl.kind = "rd" /\ dl.stb]
              ELSE Quiet
    BY <2>1 DEF Word
  <2> QED BY <2>2, <1>1, <1>2, <1>3, <1>4, <1>5 DEF DatLaneEdge
<1>6. CASE ~Ready(dl, ckp)
  <2>1. dl' = IF Shifting(dl, ckp) THEN [dl EXCEPT !.busy = ~ends]
              ELSE [dl EXCEPT !.stb = @ \/ (dl.kind = "rd" /\ start)]
    BY <1>6 DEF DatLane, LaneNext
  <2>2. ckp /\ ~dl.busy /\ Shifting(dl, ckp) => FALSE
    BY <1>6 DEF Ready
  <2>3. /\ dl'.kind = dl.kind /\ (dl'.crc <=> dl.crc) /\ (dl.stb => dl'.stb)
        /\ dl.kind = "rd" /\ ~dl.stb => (dl'.busy <=> dl.busy)
        /\ dl'.busy => dl.busy
        /\ dl.busy /\ ~dl'.busy => DatEndOk
        /\ ~dl.stb /\ dl'.stb => dl.kind = "rd" /\ DatStartOk
    BY <2>1, <2>2, <1>1, <1>6 DEF LaneType, Shifting
  <2> QED BY <2>3, <1>2, <1>3, <1>4, <1>6 DEF DatLaneEdge
<1> QED BY <1>5, <1>6

(* With no restart, an edge is a step along the data path.                 *)
LEMMA DatPathStep ==
  ASSUME TypeOK, EngineInv, CmdLaneInv, ~cmd_en_restart, ~dat_en_restart, Tick,
         NEW ckp, NEW cends, NEW dends, NEW cstart, NEW dstart, NEW free, NEW avail,
         NEW dat0, NEW busy, NEW finish, NEW bad,
         ChosenStep(ckp, cends, dends, cstart, dstart, free, avail, dat0, busy, finish, bad)
  PROVE  ckp \in BOOLEAN /\ DatPath(ckp)
<1>1. /\ CmdFsm(ckp) /\ RspFsm /\ Host /\ CmdLane(ckp, cends, cstart)
      /\ WdtFsm(ckp, free, avail) /\ Blocks(ckp, bad) /\ DatLane(ckp, dends, dstart)
      /\ ckp \in BOOLEAN /\ cends \in BOOLEAN /\ cstart \in BOOLEAN /\ dends \in BOOLEAN
      /\ dstart \in BOOLEAN /\ free \in BOOLEAN /\ avail \in BOOLEAN
      /\ dends => dl.busy /\ DatEndOk
      /\ dstart => Waiting(dl) /\ DatStartOk
      /\ free => wait_rd_data
      /\ avail => wait_wr_data
  BY DEF ChosenStep, BooleanStep, Step
<1>2. CmdPath(CmdHs(ckp), Ready(cl, ckp))
  BY <1>1, CmdPathStep
<1>3. DatLaneEdge(PldHs(ckp), Ready(dl, ckp))
  BY <1>1, DatLaneArms
<1>4. WdtArms(ckp)
  <2>1. WdtIdle(ckp, free, avail) => wdt_cs = "IDLE" /\ WdtIdleEdge(CmdHs(ckp), PldHs(ckp))
    BY <1>1, WdtIdleArm DEF WdtIdle
  <2>2. /\ WdtStart(ckp) => wdt_cs = "START"
        /\ WdtPayload(ckp) => wdt_cs = "PAYLOAD"
        /\ WdtCrc(ckp) => wdt_cs = "CRC"
        /\ WdtDummy(ckp) => wdt_cs = "DUMMY"
        /\ WdtRsp(ckp) => wdt_cs = "RSP"
        /\ WdtWait => wdt_cs = "WAIT"
    BY DEF WdtStart, WdtPayload, WdtCrc, WdtDummy, WdtRsp, WdtWait
  <2> QED BY <1>1, <2>1, <2>2 DEF WdtFsm, WdtArms
<1>5. BlocksEdge(Ready(dl, ckp))
  BY <1>1 DEF Blocks, BlocksEdge
<1>6. /\ WdtType /\ WdtType' /\ BlkType /\ BlkType' /\ op' \in OpType
      /\ rsp_timed_out => rsp_timed_out'
  BY TickTyped DEF TypeOK, HostType, ChosenStep, BooleanStep, Step, Host
<1>7. DatPath(ckp)
  BY <1>2, <1>3, <1>4, <1>5, <1>6 DEF DatPath
<1> QED BY <1>1, <1>7

(* The same, for some choice of the divided clock.                         *)
LEMMA DatPathTick ==
  ASSUME TypeOK, EngineInv, CmdLaneInv, ~cmd_en_restart, ~dat_en_restart, Tick
  PROVE  \E ckp \in BOOLEAN : DatPath(ckp)
<1>1. PICK ckp, cends, dends, cstart, dstart, free, avail, dat0, busy, finish, bad :
           ChosenStep(ckp, cends, dends, cstart, dstart, free, avail, dat0, busy,
                      finish, bad)
  BY TickIsChosen
<1> QED BY <1>1, DatPathStep

(* While a block is under way the command does not change and the host has *)
(* seen no response timeout.                                               *)
LEMMA BlockOpStable ==
  ASSUME CmdLaneInv, EngineInv, DatLaneInv, NEW ckp \in BOOLEAN, DatPath(ckp),
         wdt_cs # "IDLE" \/ wait_rd_data \/ wait_wr_data
  PROVE  /\ op' = op /\ DatKind' = DatKind /\ cmd_cs \in {"RSP", "WAIT"}
         /\ op.dir \in {"rd", "wr"} /\ op.rsp # "R0" /\ ~rsp_timed_out
<1>1. cmd_cs \in {"RSP", "WAIT"}
  BY DEF DatLaneInv, DirInv, EngineInv, DataInv
<1>2. op' = op
  BY <1>1 DEF DatPath, CmdPath
<1>3. ~rsp_timed_out
  BY <1>1 DEF DatLaneInv, TimedOutInv, DatPath, CmdPath
<1> QED BY <1>1, <1>2, <1>3 DEF DatKind, DatLaneInv, DirInv

(* The data FSM works only for a data command, on the side of its          *)
(* direction.                                                              *)
LEMMA DirKept ==
  ASSUME CmdLaneInv, EngineInv, DatLaneInv, DataHost, NEW ckp \in BOOLEAN, DatPath(ckp)
  PROVE  DirInv'
<1> USE DEF DatPath, CmdPath, DatLaneInv, WdtGoto, WdtType, WdtStates, BlkType
<1>1. /\ wait_rd_data \/ wait_wr_data => cmd_cs \in {"RSP", "WAIT"}
      /\ wdt_cs \notin {"IDLE", "WAIT"} => wait_rd_data \/ wait_wr_data
      /\ det_emmc_done /\ cmd_cs = "WAIT" => ~wait_rd_data /\ ~wait_wr_data
      /\ cmd_cs = "RSP" => op.rsp # "R0"
  BY DEF EngineInv, DataInv, DoneInv, CmdLaneInv, CmdRspInv
<1>2. /\ wait_wr_data' => op'.dir = "wr" /\ op'.rsp # "R0"
      /\ wait_rd_data' => op'.dir = "rd" /\ op'.rsp # "R0"
  BY <1>1 DEF BlocksEdge, DirInv
<1>3. wdt_cs' # "IDLE" => cmd_cs' \in {"RSP", "WAIT"}
  <2> SUFFICES ASSUME wdt_cs' # "IDLE" PROVE cmd_cs' \in {"RSP", "WAIT"}
    OBVIOUS
  <2>1. cmd_cs \in {"RSP", "WAIT"}
    BY <1>1 DEF WdtArms, WdtIdleEdge, DirInv
  <2>2. CASE cmd_cs = "RSP"
    BY <2>2 DEF CmdEdge
  <2>3. CASE cmd_cs = "WAIT"
    <3>1. det_emmc_done => cl.kind = "none" /\ ~wait_rd_data /\ ~wait_wr_data
      BY <1>1, <2>3 DEF CmdLaneInv, CmdWaitInv
    <3>2. ~det_emmc_done
      BY <1>1, <3>1 DEF WdtArms, WdtIdleEdge, TailInv
    <3> QED BY <2>3, <3>2 DEF CmdEdge
  <2> QED BY <2>1, <2>2, <2>3
<1>4. wdt_cs' \notin {"IDLE", "WAIT"} =>
        /\ op' = op /\ (IF op.dir = "wr" THEN wait_wr_data ELSE wait_rd_data)
        /\ op'.dir \in {"rd", "wr"} /\ op'.rsp # "R0"
        /\ IF op'.dir = "wr" THEN wait_wr_data' ELSE wait_rd_data'
  <2> SUFFICES ASSUME wdt_cs' \notin {"IDLE", "WAIT"}
               PROVE  /\ op' = op /\ (IF op.dir = "wr" THEN wait_wr_data ELSE wait_rd_data)
                      /\ op'.dir \in {"rd", "wr"} /\ op'.rsp # "R0"
                      /\ IF op'.dir = "wr" THEN wait_wr_data' ELSE wait_rd_data'
    OBVIOUS
  <2>1. wdt_cs # "WAIT" /\ (wdt_cs = "IDLE" => wait_rd_data \/ wait_wr_data)
    BY DEF WdtArms, WdtIdleEdge, WdtWait
  <2>2. IF op.dir = "wr" THEN wait_wr_data ELSE wait_rd_data
    BY <2>1 DEF DirInv
  <2>3. op' = op /\ op.dir \in {"rd", "wr"} /\ op.rsp # "R0"
    BY <1>1, <2>2 DEF DirInv
  <2> QED BY <2>1, <2>2, <2>3 DEF BlocksEdge
<1>5. wdt_cs' = "WAIT" => op' = op /\ op'.dir \in {"rd", "wr"} /\ op'.rsp # "R0"
  BY BlockOpStable DEF WdtArms, WdtIdleEdge, DirInv
<1>6. wdt_cs' = "RSP" => op'.dir = "wr"
  BY <1>4 DEF WdtArms, WdtIdleEdge, WdtStart, WdtPayload, WdtCrc, WdtDummy, WdtWait, DirInv
<1>7. op'.dir = "wr" /\ cmd_cs' = "RSP" => wdt_cs' = "IDLE" /\ ~pld_valid'
  <2> SUFFICES ASSUME op'.dir = "wr", cmd_cs' = "RSP" PROVE wdt_cs' = "IDLE" /\ ~pld_valid'
    OBVIOUS
  <2>1. cmd_cs \in {"DUMMY", "RSP"} /\ op' = op
    BY DEF CmdEdge, CmdType, CmdStates
  <2>2. wdt_cs = "IDLE" /\ ~pld_valid /\ ~wait_rd_data
    BY <1>1, <2>1 DEF DirInv, OfferInv
  <2>3. ~(wait_wr_data /\ rsp_cs \in {"CRC", "WAIT"} /\ CmdHs(ckp))
    BY <1>1, <2>1 DEF CmdEdge, CmdLaneInv, RspStateInv
  <2>4. ~PldHs(ckp)
    BY <2>2 DEF DatLaneEdge
  <2> QED BY <2>2, <2>3, <2>4 DEF WdtArms, WdtIdleEdge
<1>8. op'.dir = "rd" /\ cmd_cs' = "RSP" => wdt_cs' \notin {"RSP", "WAIT"}
  <2> SUFFICES ASSUME op'.dir = "rd", cmd_cs' = "RSP" PROVE wdt_cs' \notin {"RSP", "WAIT"}
    OBVIOUS
  <2>1. cmd_cs \in {"DUMMY", "RSP"} /\ op' = op
    BY DEF CmdEdge, CmdType, CmdStates
  <2>2. wdt_cs \notin {"RSP", "WAIT"} /\ (wdt_cs = "DUMMY" => pld_dc_num = 0)
    BY <2>1 DEF DirInv
  <2> QED BY <2>2 DEF WdtArms, WdtIdleEdge, WdtStart, WdtPayload, WdtCrc, WdtDummy
<1>9. op'.dir = "rd" /\ cmd_cs' = "RSP" /\ wdt_cs' = "DUMMY" =>
        pld_dc_num' = 0 /\ dl'.busy /\ dl'.crc
  <2> SUFFICES ASSUME op'.dir = "rd", cmd_cs' = "RSP", wdt_cs' = "DUMMY"
               PROVE  pld_dc_num' = 0 /\ dl'.busy /\ dl'.crc
    OBVIOUS
  <2>1. wdt_cs \in {"CRC", "DUMMY"}
    BY DEF WdtArms, WdtIdleEdge, WdtStart, WdtPayload, WdtRsp, WdtWait
  <2>2. cmd_cs = "RSP" /\ op' = op
    BY <2>1 DEF CmdEdge, CmdType, CmdStates, DirInv
  <2>3. CASE wdt_cs = "CRC"
    <3>1. PldHs(ckp) /\ pld_dc_num' = pld_dc_num /\ pld_dc_num = 0 /\ pld_crc_en
      BY <2>3 DEF WdtArms, WdtCrc, OfferInv
    <3>2. pld_kind = "rd"
      BY <2>2, <2>3, BlockOpStable DEF DatWordInv, DatKind
    <3> QED BY <3>1, <3>2 DEF DatLaneEdge
  <2>4. CASE wdt_cs = "DUMMY"
    <3>1. pld_dc_num = 0 /\ dl.busy /\ dl.crc /\ wait_rd_data
      BY <2>2, <2>4 DEF DirInv
    <3>2. ~Ready(dl, ckp) /\ ~PldHs(ckp)
      BY <3>1 DEF DatLaneEdge
    <3>3. ~DatEndOk
      BY <2>2, <3>1 DEF DatEndOk, DataHost
    <3> QED BY <2>4, <3>1, <3>2, <3>3 DEF DatLaneEdge, WdtArms, WdtDummy, LanesType, LaneType
  <2> QED BY <2>1, <2>3, <2>4
<1> QED BY <1>2, <1>3, <1>4, <1>5, <1>6, <1>7, <1>8, <1>9 DEF DirInv

(* No word is offered to the data lane outside of a data command.          *)
LEMMA OfferKept ==
  ASSUME CmdLaneInv, EngineInv, DatLaneInv, NEW ckp \in BOOLEAN, DatPath(ckp)
  PROVE  OfferInv'
<1> USE DEF DatPath, CmdPath, DatLaneInv, WdtGoto, WdtType, WdtStates, WdtArms
<1>1. cmd_cs' \notin {"IDLE", "RSP", "WAIT"} => ~pld_valid'
  <2> SUFFICES ASSUME cmd_cs' \notin {"IDLE", "RSP", "WAIT"} PROVE ~pld_valid'
    OBVIOUS
  <2>1. cmd_cs \notin {"RSP", "WAIT"}
    BY DEF CmdEdge
  <2>2. wdt_cs = "IDLE" /\ ~wait_rd_data /\ ~wait_wr_data
    BY <2>1 DEF DirInv, EngineInv, DataInv
  <2> QED BY <2>1, <2>2 DEF WdtIdleEdge, OfferInv, CmdType, CmdStates
<1>2. wdt_cs' # "DUMMY" => pld_dc_num' = 0
  BY DEF WdtIdleEdge, WdtStart, WdtPayload, WdtCrc, WdtDummy, WdtRsp, WdtWait, OfferInv
<1>3. wdt_cs' = "CRC" => pld_crc_en'
  BY DEF WdtIdleEdge, WdtStart, WdtPayload, WdtCrc, WdtDummy, WdtRsp, WdtWait, OfferInv
<1> QED BY <1>1, <1>2, <1>3 DEF OfferInv

(* The last word of the data FSM is off the lane before its command ends.  *)
LEMMA TailKept ==
  ASSUME CmdLaneInv, EngineInv, DatLaneInv, DataHost, NEW ckp \in BOOLEAN, DatPath(ckp)
  PROVE  TailInv'
<1> USE DEF DatPath, CmdPath, DatLaneInv, WdtGoto, WdtType, WdtStates, WdtArms
<1>1. cmd_cs' = "WAIT" /\ ~cmd_valid' => ~wait_rd_data' /\ ~wait_wr_data'
  <2> SUFFICES ASSUME cmd_cs' = "WAIT", ~cmd_valid' PROVE ~wait_rd_data' /\ ~wait_wr_data'
    OBVIOUS
  <2>1. cmd_cs = "WAIT"
    BY DEF CmdEdge, CmdType, CmdStates
  <2>2. ~wait_rd_data /\ ~wait_wr_data
    BY <2>1 DEF CmdEdge, TailInv
  <2> QED BY <2>1, <2>2 DEF BlocksEdge
(* The data FSM reaches WAIT, or stays in it, only while the command lane  *)
(* still counts dummy cycles.                                              *)
<1>2. ASSUME wdt_cs' = "WAIT", wdt_cs # "WAIT"
      PROVE  ~dat_clk_vld_i' /\ cl'.kind = "dc" /\ cmd_valid'
  <2>1. /\ wdt_cs \in {"DUMMY", "RSP"} /\ dl.kind = "dc"
        /\ wait_rd_data \/ wait_wr_data
        /\ cmd_cs = "WAIT"
    <3>1. CASE wdt_cs = "DUMMY"
      <4>1. wait_rd_data /\ pld_dc_num = 1
        BY <1>2, <3>1 DEF WdtDummy
      <4>2. cmd_cs = "WAIT"
        BY <3>1, <4>1 DEF DirInv
      <4>3. dl.kind = "dc"
        BY <3>1, <4>1, BlockOpStable DEF DatWordInv
      <4> QED BY <3>1, <4>1, <4>2, <4>3
    <3>2. CASE wdt_cs = "RSP"
      <4>1. ~op.bustest
        BY DEF OpInv, DataHost
      <4>2. check_busy /\ wait_wr_data
        BY <1>2, <3>2, <4>1 DEF WdtRsp, DirInv
      <4>3. cmd_cs = "WAIT"
        BY <3>2, <4>2 DEF DirInv
      <4>4. dl.kind = "dc"
        BY <3>2, <4>2, BlockOpStable DEF DatWordInv
      <4> QED BY <3>2, <4>2, <4>3, <4>4
    <3> QED BY <1>2, <3>1, <3>2 DEF WdtIdleEdge, WdtStart, WdtPayload, WdtCrc
  <2>2. cmd_valid /\ cl.kind = "dc" /\ cmd_kind = "dc"
    BY <2>1 DEF TailInv, CmdLaneInv, CmdWaitInv
  <2>3. cl'.kind = "dc" /\ cmd_valid'
    BY <2>1, <2>2 DEF CmdEdge, CmdLaneEdge
  <2> QED BY <2>1, <2>3 DEF DatLaneEdge
<1>3. ASSUME wdt_cs' = "WAIT", wdt_cs = "WAIT"
      PROVE  /\ ~dat_clk_vld_i' /\ cl'.kind = "dc"
             /\ ~cmd_valid' => blk_cntr' = 0 /\ (~cl'.busy => ~all_blocks_done')
  <2>1. cmd_cs = "WAIT" /\ op.dir \in {"rd", "wr"} /\ ~dat_clk_vld_i /\ cl.kind = "dc" /\ cmd_kind = "dc"
    BY <1>3 DEF DirInv, TailInv, CmdLaneInv, CmdWaitInv
  <2>2. dl.kind \in {"dc", "none"}
    BY <1>3, BlockOpStable DEF DatWordInv, DatKind
  <2>3. op.blocks \in Nat /\ op.blocks # 0
    BY <2>1, OpsAssumption, SizeAssumption DEF OpInv, DataHost, OpType
  <2>4. CASE cmd_valid
    <3>1. cl'.kind = "dc"
      BY <2>1, <2>4 DEF CmdLaneEdge
    <3>2. ~cmd_valid' => cl'.busy /\ ~wait_rd_data /\ ~wait_wr_data
      BY <2>1, <2>4 DEF CmdLaneEdge, CmdEdge
    <3> QED BY <2>2, <3>1, <3>2 DEF DatLaneEdge, BlocksEdge
  <2>5. CASE ~cmd_valid
    <3>1. blk_cntr = 0 /\ (~cl.busy => ~all_blocks_done) /\ ~wait_rd_data /\ ~wait_wr_data
      BY <1>3, <2>1, <2>5 DEF TailInv
    <3>2. all_blocks_done
      BY <1>3, <2>1 DEF WdtWait
    <3>3. cl'.kind = "dc"
      BY <2>1, <3>1, <3>2 DEF CmdLaneEdge
    <3> QED BY <2>2, <2>3, <3>1, <3>3 DEF DatLaneEdge, BlocksEdge
  <2> QED BY <2>4, <2>5
<1> QED BY <1>1, <1>2, <1>3 DEF TailInv

(* The word the lane shifts follows the data FSM.                          *)
LEMMA DatWordKept ==
  ASSUME CmdLaneInv, EngineInv, DatLaneInv, DataHost, NEW ckp \in BOOLEAN, DatPath(ckp)
  PROVE  DatWordInv'
<1> SUFFICES ASSUME ~rsp_timed_out PROVE DatWordInv'
  BY DEF DatPath, DatWordInv
<1>0. /\ DatLaneEdge(PldHs(ckp), Ready(dl, ckp)) /\ WdtArms(ckp) /\ ~cmd_en_restart
      /\ ~dat_en_restart /\ WdtType /\ DatWordInv
  BY DEF DatPath, CmdPath, DatLaneInv
<1>1. ASSUME wdt_cs # "IDLE"
      PROVE  /\ op' = op /\ DatKind' = DatKind /\ DatKind \in {"wr", "rd"}
             /\ op.dir = "wr" <=> DatKind = "wr"
             /\ op'.dir = "wr" <=> DatKind = "wr"
             /\ wdt_cs # "WAIT" =>
                  IF op.dir = "wr" THEN wait_wr_data /\ ~wait_rd_data
                  ELSE wait_rd_data /\ ~wait_wr_data
             /\ wdt_cs # "DUMMY" => pld_dc_num = 0
             /\ wdt_last => wdt_cs = "PAYLOAD"
             /\ ~op.bustest
  BY <1>1, BlockOpStable
     DEF DatPath, DatLaneInv, DirInv, DatKind, OfferInv, XferInv, OpInv, DataHost, CmdPath
<1>2. CASE wdt_cs = "IDLE"
  BY <1>0, <1>2 DEF WdtArms, WdtIdleEdge, Quiet, DatWordInv, DatLaneEdge
<1>3. CASE wdt_cs = "START"
  <2>1. /\ wdt_cs' = IF PldHs(ckp) THEN "PAYLOAD" ELSE "START"
        /\ pld_valid' = pld_valid /\ wdt_last' = wdt_last
        /\ pld_kind' = IF ~PldHs(ckp) THEN pld_kind ELSE IF wait_wr_data THEN "wr" ELSE "rd"
    BY <1>0, <1>3 DEF WdtArms, WdtStart, WdtGoto, PldOffer
  <2>2. pld_valid /\ pld_kind = "dc" /\ dl.kind \in {"none", "dc"}
    BY <1>0, <1>3 DEF DatWordInv
  <2>3. dl'.kind \in {"none", "dc"} /\ (PldHs(ckp) => dl'.kind = "dc")
    BY <1>0, <2>2 DEF DatLaneEdge
  <2> QED BY <1>1, <1>3, <2>1, <2>2, <2>3 DEF DatWordInv
<1>4. CASE wdt_cs = "PAYLOAD"
  <2>1. /\ wdt_cs' = IF PldHs(ckp) /\ wdt_last THEN "CRC" ELSE "PAYLOAD"
        /\ pld_valid' = pld_valid /\ pld_kind' = pld_kind
        /\ ~PldHs(ckp) => wdt_last' = wdt_last
    BY <1>0, <1>4 DEF WdtArms, WdtPayload, WdtGoto, PldOffer
  <2>2. /\ pld_valid /\ pld_kind = DatKind /\ dl.kind \in {"dc", DatKind}
        /\ wdt_last => dl.kind = DatKind
    BY <1>0, <1>4 DEF DatWordInv
  <2>3. IF PldHs(ckp) THEN dl'.kind = DatKind ELSE dl'.kind = dl.kind
    BY <1>0, <2>2 DEF DatLaneEdge
  <2> QED BY <1>1, <1>4, <2>1, <2>2, <2>3 DEF DatWordInv
<1>5. CASE wdt_cs = "CRC"
  <2>1. /\ wdt_cs' = IF PldHs(ckp) THEN "DUMMY" ELSE "CRC"
        /\ pld_valid' = pld_valid /\ pld_kind' = (IF PldHs(ckp) THEN "dc" ELSE pld_kind)
        /\ pld_dc_num' = pld_dc_num
    BY <1>0, <1>5 DEF WdtArms, WdtCrc, WdtGoto, PldOffer
  <2>2. pld_valid /\ pld_kind = DatKind /\ dl.kind = DatKind
    BY <1>0, <1>5 DEF DatWordInv
  <2>3. dl'.kind = DatKind
    BY <1>0, <2>2 DEF DatLaneEdge
  <2> QED BY <1>1, <1>5, <2>1, <2>2, <2>3 DEF DatWordInv
<1>6. CASE wdt_cs = "DUMMY"
  <2>0. pld_dc_num \in {0, 1}
    BY <1>0 DEF WdtType
  <2>1. /\ wdt_cs' = IF ~(PldHs(ckp) /\ pld_dc_num = 1) THEN "DUMMY"
                     ELSE IF wait_rd_data THEN "WAIT" ELSE "RSP"
        /\ pld_valid' = (pld_valid /\ ~(PldHs(ckp) /\ pld_dc_num = 1 /\ wait_rd_data))
        /\ pld_kind' = IF PldHs(ckp) /\ pld_dc_num = 1 THEN "rd" ELSE pld_kind
        /\ pld_dc_num' = IF PldHs(ckp) THEN (IF pld_dc_num = 1 THEN 0 ELSE 1) ELSE pld_dc_num
        /\ check_busy' = (check_busy \/ (xfer_done /\ (~wait_wr_data \/ rx_pld_valid)))
    BY <1>0, <1>6, <2>0 DEF WdtArms, WdtDummy, WdtGoto, PldOffer, XferFlags
  <2>2. /\ pld_valid /\ pld_kind = "dc" /\ dl.kind = (IF pld_dc_num = 0 THEN DatKind ELSE "dc")
        /\ pld_dc_num = 1 => ~dl.busy
    BY <1>0, <1>6 DEF DatWordInv
  <2>3. /\ PldHs(ckp) => dl'.kind = "dc" /\ (pld_dc_num = 0 => ~dl'.busy)
        /\ ~PldHs(ckp) => dl'.kind = dl.kind /\ (~dl.busy => ~dl'.busy)
    BY <1>0, <2>2, <2>0 DEF DatLaneEdge
  <2>4. pld_dc_num = 1 /\ op.dir = "wr" => ~check_busy'
    BY <1>1, <1>6, <2>1 DEF DatLaneInv, XferInv
  <2> QED BY <1>1, <1>6, <2>0, <2>1, <2>2, <2>3, <2>4 DEF DatWordInv
<1>7. CASE wdt_cs = "RSP"
  <2>1. /\ wdt_cs' = IF check_busy /\ dat_line_not_busy THEN "WAIT" ELSE "RSP"
        /\ pld_valid' = pld_valid
        /\ pld_kind' = IF PldHs(ckp) THEN "dc" ELSE pld_kind
        /\ check_busy' = (check_busy \/ (xfer_done /\ (~wait_wr_data \/ rx_pld_valid)))
    BY <1>0, <1>1, <1>7 DEF WdtArms, WdtRsp, WdtGoto, PldOffer, XferFlags
  <2>2. /\ pld_valid /\ pld_kind \in {"rd", "dc"} /\ dl.kind \in {"dc", "rd"}
        /\ pld_kind = "rd" => dl.kind = "dc"
        /\ check_busy => dl.kind = "dc" /\ pld_kind = "dc"
    BY <1>0, <1>7 DEF DatWordInv
  <2>3. op.dir = "wr" /\ op'.dir = "wr" /\ wait_wr_data
    BY <1>1, <1>7 DEF DatLaneInv, DirInv
  <2>4. check_busy' => pld_kind = "dc" /\ dl.kind = "dc"
    BY <1>7, <2>1, <2>2, <2>3 DEF DatLaneInv, XferInv
  <2>5. /\ PldHs(ckp) => dl'.kind = pld_kind
        /\ ~PldHs(ckp) => dl'.kind = dl.kind
    BY <1>0, <2>2 DEF DatLaneEdge
  <2> QED BY <1>7, <2>1, <2>2, <2>3, <2>4, <2>5 DEF DatWordInv
<1>8. CASE wdt_cs = "WAIT"
  <2>1. wdt_cs' \in {"IDLE", "WAIT"} /\ pld_valid' = pld_valid /\ pld_kind' = pld_kind
    BY <1>0, <1>8 DEF WdtArms, WdtWait, WdtGoto, PldOffer
  <2>2. IF op.dir = "wr" THEN pld_valid /\ pld_kind = "dc" /\ dl.kind = "dc"
        ELSE ~pld_valid /\ dl.kind \in {"dc", "none"}
    BY <1>0, <1>8 DEF DatWordInv
  <2>3. IF op.dir = "wr" THEN dl'.kind = "dc" ELSE dl'.kind \in {"dc", "none"}
    BY <1>0, <2>2 DEF DatLaneEdge, Quiet
  <2> QED BY <1>1, <1>8, <2>1, <2>2, <2>3 DEF DatWordInv
<1> QED BY <1>0, <1>2, <1>3, <1>4, <1>5, <1>6, <1>7, <1>8 DEF WdtType, WdtStates

(* The transfer flags follow the words of the block.                       *)
LEMMA XferKept ==
  ASSUME CmdLaneInv, EngineInv, DatLaneInv, DataHost, NEW ckp \in BOOLEAN, DatPath(ckp)
  PROVE  XferInv'
<1>0. /\ DatLaneEdge(PldHs(ckp), Ready(dl, ckp)) /\ WdtArms(ckp) /\ ~cmd_en_restart
      /\ ~dat_en_restart /\ WdtType /\ DatWordInv /\ XferInv
  BY DEF DatPath, CmdPath, DatLaneInv
<1>1. ASSUME wdt_cs # "IDLE"
      PROVE  /\ op' = op /\ DatKind \in {"wr", "rd"} /\ ~rsp_timed_out
             /\ op.dir = "wr" <=> DatKind = "wr"
             /\ wdt_cs # "WAIT" =>
                  IF op.dir = "wr" THEN wait_wr_data /\ ~wait_rd_data
                  ELSE wait_rd_data /\ ~wait_wr_data
             /\ wdt_cs # "DUMMY" => pld_dc_num = 0
             /\ wdt_cs = "RSP" => op.dir = "wr"
             /\ wdt_last => wdt_cs = "PAYLOAD"
             /\ wdt_cs = "CRC" => pld_crc_en
  BY <1>1, BlockOpStable
     DEF DatPath, DatLaneInv, DirInv, DatKind, OfferInv, XferInv, CmdPath
<1>2. CASE wdt_cs = "IDLE"
  <2>1. wdt_cs' = "START" => dl.kind \in {"none", "dc"}
    BY <1>0, <1>2 DEF DatPath, DatLaneInv, WdtArms, WdtIdleEdge, TimedOutInv, DatWordInv, CmdPath
  <2> QED BY <1>0, <1>2, <2>1 DEF WdtArms, WdtIdleEdge, XferInv, DatLaneEdge
<1>3. CASE wdt_cs = "START"
  <2>1. /\ wdt_cs' = IF PldHs(ckp) THEN "PAYLOAD" ELSE "START"
        /\ wdt_last' = wdt_last /\ pld_crc_en' = pld_crc_en
        /\ xfer_done' = (xfer_done \/ (rx_pld_valid /\ rx_pld_end))
        /\ check_busy' = (check_busy \/ (xfer_done /\ (~wait_wr_data \/ rx_pld_valid)))
    BY <1>0, <1>3 DEF WdtArms, WdtStart, WdtGoto, PldOffer, XferFlags
  <2>2. /\ dl.kind \in {"none", "dc"} /\ ~xfer_done /\ ~check_busy /\ ~pld_crc_en
        /\ ~rx_pld_valid /\ ~wdt_last
    BY <1>0, <1>1, <1>3 DEF DatWordInv, XferInv
  <2>3. ~rx_pld_valid' /\ ~rx_pld_end' /\ (PldHs(ckp) => ~dl'.crc)
    BY <1>0, <2>2 DEF DatLaneEdge
  <2> QED BY <2>1, <2>2, <2>3 DEF XferInv
<1>4. CASE wdt_cs = "PAYLOAD"
  <2>1. /\ wdt_cs' = IF PldHs(ckp) /\ wdt_last THEN "CRC" ELSE "PAYLOAD"
        /\ wdt_last' = IF PldHs(ckp) THEN LastWord ELSE wdt_last
        /\ pld_crc_en' = IF PldHs(ckp) THEN wdt_last ELSE pld_crc_en
        /\ xfer_done' = (xfer_done \/ (rx_pld_valid /\ rx_pld_end))
        /\ check_busy' = (check_busy \/ (xfer_done /\ (~wait_wr_data \/ rx_pld_valid)))
    BY <1>0, <1>4 DEF WdtArms, WdtPayload, WdtGoto, PldOffer, XferFlags
  <2>2. /\ pld_valid /\ ~xfer_done /\ ~check_busy /\ ~pld_crc_en /\ ~dl.crc /\ ~rx_pld_end
    BY <1>0, <1>1, <1>4 DEF DatWordInv, XferInv
  <2>3. ~dl'.crc /\ ~rx_pld_end'
    BY <1>0, <2>2 DEF DatLaneEdge
  <2> QED BY <2>1, <2>2, <2>3 DEF XferInv, LastWord
<1>5. CASE wdt_cs = "CRC"
  <2>1. /\ wdt_cs' = IF PldHs(ckp) THEN "DUMMY" ELSE "CRC"
        /\ wdt_last' = wdt_last /\ pld_dc_num' = pld_dc_num
        /\ xfer_done' = (xfer_done \/ (rx_pld_valid /\ rx_pld_end))
        /\ check_busy' = (check_busy \/ (xfer_done /\ (~wait_wr_data \/ rx_pld_valid)))
    BY <1>0, <1>5 DEF WdtArms, WdtCrc, WdtGoto, PldOffer, XferFlags
  <2>2. /\ pld_valid /\ ~xfer_done /\ ~check_busy /\ ~dl.crc /\ ~rx_pld_end /\ ~wdt_last
        /\ pld_dc_num = 0
    BY <1>0, <1>1, <1>5 DEF DatWordInv, XferInv
  <2>3. ~rx_pld_end' /\ (~PldHs(ckp) => ~dl'.crc)
    BY <1>0, <2>2 DEF DatLaneEdge
  <2> QED BY <2>1, <2>2, <2>3 DEF XferInv
<1>6. CASE wdt_cs = "DUMMY"
  <2>0. pld_dc_num \in {0, 1}
    BY <1>0 DEF WdtType
  <2>1. /\ wdt_cs' = IF ~(PldHs(ckp) /\ pld_dc_num = 1) THEN "DUMMY"
                     ELSE IF wait_rd_data THEN "WAIT" ELSE "RSP"
        /\ wdt_last' = wdt_last
        /\ pld_dc_num' = IF PldHs(ckp) THEN (IF pld_dc_num = 1 THEN 0 ELSE 1) ELSE pld_dc_num
        /\ xfer_done' = (xfer_done \/ (rx_pld_valid /\ rx_pld_end))
        /\ check_busy' = (check_busy \/ (xfer_done /\ (~wait_wr_data \/ rx_pld_valid)))
    BY <1>0, <1>6, <2>0 DEF WdtArms, WdtDummy, WdtGoto, PldOffer, XferFlags
  <2>2. /\ pld_valid /\ dl.kind = (IF pld_dc_num = 0 THEN DatKind ELSE "dc") /\ ~wdt_last
        /\ pld_dc_num = 0 => ~xfer_done /\ ~check_busy /\ ~rx_pld_end
        /\ pld_dc_num = 1 => (rx_pld_valid => ~xfer_done) /\ (op.dir = "wr" => ~check_busy)
    BY <1>0, <1>1, <1>6 DEF DatWordInv, XferInv
  <2>3. /\ pld_dc_num = 1 => ~rx_pld_valid' /\ ~rx_pld_end'
        /\ ~PldHs(ckp) => ~rx_pld_valid' /\ ~rx_pld_end'
    BY <1>0, <2>2 DEF DatLaneEdge
  <2> QED BY <1>1, <1>6, <2>0, <2>1, <2>2, <2>3 DEF XferInv
<1>7. CASE wdt_cs = "RSP"
  <2>1. /\ wdt_cs' \in {"WAIT", "RSP"} /\ wdt_last' = wdt_last
        /\ pld_kind' = IF PldHs(ckp) THEN "dc" ELSE pld_kind
        /\ check_busy' = (check_busy \/ (xfer_done /\ (~wait_wr_data \/ rx_pld_valid)))
    BY <1>0, <1>1, <1>7 DEF WdtArms, WdtRsp, WdtGoto, PldOffer, XferFlags
  <2>2. /\ pld_valid /\ pld_kind \in {"rd", "dc"} /\ dl.kind \in {"dc", "rd"} /\ ~wdt_last
        /\ pld_kind = "rd" => dl.kind = "dc"
        /\ pld_kind = "rd" \/ dl.kind = "rd" => ~rx_pld_valid /\ ~check_busy
        /\ wait_wr_data
    BY <1>0, <1>1, <1>7 DEF DatWordInv, XferInv
  <2>3. /\ PldHs(ckp) => dl'.kind = pld_kind
        /\ ~PldHs(ckp) => dl'.kind = dl.kind /\ ~rx_pld_valid'
        /\ dl.kind = "dc" => ~rx_pld_valid'
    BY <1>0, <2>2 DEF DatLaneEdge
  <2> QED BY <2>1, <2>2, <2>3 DEF XferInv
<1>8. CASE wdt_cs = "WAIT"
  BY <1>0, <1>1, <1>8 DEF WdtArms, WdtWait, WdtGoto, XferInv
<1> QED BY <1>0, <1>2, <1>3, <1>4, <1>5, <1>6, <1>7, <1>8 DEF WdtType, WdtStates

(* A response timeout is seen by the host on the edge that raises the      *)
(* restart, and it outlives the restart until the host resets the core.    *)
LEMMA TimedOutTick ==
  ASSUME TypeOK, EngineInv, TimedOutInv, OpInv, DataHost, Tick
  PROVE  TimedOutInv' /\ OpInv'
<1>1. PICK ckp, cends, dends, cstart, dstart, free, avail, dat0, busy, finish, bad :
           BooleanStep(ckp, cends, dends, cstart, dstart, free, avail, dat0, busy,
                       finish, bad)
  BY TickIsStep
<1>2. /\ Host /\ CmdFsm(ckp) /\ WdtFsm(ckp, free, avail) /\ Timer(ckp) /\ Recovery
      /\ ckp \in BOOLEAN
  BY <1>1 DEF BooleanStep, Step
<1>3. /\ cmd_en_restart \in BOOLEAN /\ dat_en_restart \in BOOLEAN
      /\ rsp_timed_out \in BOOLEAN /\ recovery_cs \in RecStates
      /\ rsp_tmr1_gt_timeout \in BOOLEAN /\ dat_tmr1_gt_timeout \in BOOLEAN
  BY DEF TypeOK, RecType, HostType, TmrType
<1>4. rsp_timed_out' <=> rsp_timed_out \/ rsp_tmr1_gt_timeout
  BY <1>2, <1>3 DEF Host
<1>5. RestartInv /\ RspInv
  BY DEF EngineInv
<1>6. /\ dat_en_restart' => cmd_en_restart'
      /\ cmd_en_restart' => rsp_timed_out' \/ dat_en_restart'
      /\ cmd_en_restart /\ ~cmd_en_restart' => recovery_cs = "END"
      /\ rsp_tmr1_gt_timeout => cmd_en_restart'
  BY <1>2, <1>3, <1>4, <1>5
     DEF Recovery, RecIdle, RecCount, RecEnd, RestartInv, TimedOutInv, RecStates
<1>7. rsp_timed_out' => \/ cmd_en_restart'
                        \/ cmd_cs' = "IDLE" /\ ~det_emmc_start' /\ ~cmd_start' /\ wdt_cs' = "IDLE"
  <2> SUFFICES ASSUME rsp_timed_out, ~cmd_en_restart'
               PROVE  cmd_cs' = "IDLE" /\ ~det_emmc_start' /\ ~cmd_start' /\ wdt_cs' = "IDLE"
    BY <1>4, <1>6
  <2>1. ~cmd_start'
    BY <1>2 DEF Host, HostIdle, HostStart, DataHost
  <2>2. cmd_cs = "IDLE" /\ wdt_cs = "IDLE" /\ (cmd_en_restart \/ (~det_emmc_start /\ ~cmd_start))
    BY <1>5, <1>6 DEF TimedOutInv, RestartInv
  <2>3. cmd_cs' = "IDLE" /\ ~det_emmc_start'
    BY <1>2, <2>2
       DEF CmdFsm, CmdIdle, CmdBoot, CmdSendStart, CmdSendArg, CmdSendCrc, CmdDummy,
           CmdRsp, CmdWait, CmdGoto
  <2>4. wdt_cs' = "IDLE"
    BY <1>2, <2>2
       DEF WdtFsm, WdtIdle, WdtStart, WdtPayload, WdtCrc, WdtDummy, WdtRsp, WdtWait, WdtGoto
  <2> QED BY <2>1, <2>3, <2>4
<1>8. rsp_tmr1_gt_timeout' => cmd_cs' = "RSP" \/ recovery_cs' = "WAIT1"
  <2> SUFFICES ASSUME rsp_tmr1_gt_timeout' PROVE cmd_cs' = "RSP" \/ recovery_cs' = "WAIT1"
    OBVIOUS
  <2>1. rsp_cs = "START" /\ cmd_cs = "RSP"
    BY <1>2, <1>5 DEF Timer, RspOverdue, RspInv
  <2>2. CASE ~cmd_en_restart
    BY <1>2, <2>1, <2>2, CmdMoves
  <2>3. CASE cmd_en_restart
    BY <1>2, <1>3, <1>5, <2>1, <2>3 DEF RestartInv, Recovery, RecIdle, RecCount, RecEnd, RecStates
  <2> QED BY <2>2, <2>3
<1>9. OpInv'
  BY <1>2 DEF Host, HostIdle, HostStart, OpInv
<1> QED BY <1>6, <1>7, <1>8, <1>9 DEF TimedOutInv

(* A restart brings the data FSM to rest; a data restart quiets the lane.  *)
LEMMA DatLaneRestart ==
  ASSUME TypeOK, EngineInv, DatLaneInv, DataHost, cmd_en_restart, Tick
  PROVE  DirInv' /\ OfferInv' /\ TailInv' /\ DatWordInv' /\ XferInv'
<1>1. PICK ckp, cends, dends, cstart, dstart, free, avail, dat0, busy, finish, bad :
           BooleanStep(ckp, cends, dends, cstart, dstart, free, avail, dat0, busy,
                       finish, bad)
  BY TickIsStep
<1>2. /\ CmdFsm(ckp) /\ WdtFsm(ckp, free, avail) /\ Recovery /\ Blocks(ckp, bad)
      /\ DatLane(ckp, dends, dstart) /\ Host /\ ckp \in BOOLEAN
  BY <1>1 DEF BooleanStep, Step
<1>3. cmd_cs' = "IDLE" /\ wdt_cs' = "IDLE" /\ ~wait_rd_data' /\ ~wait_wr_data'
  <2>1. cmd_cs' = "IDLE"
    BY <1>2, CmdMoves
  <2>2. wdt_cs' = "IDLE"
    BY <1>2
       DEF WdtFsm, WdtIdle, WdtStart, WdtPayload, WdtCrc, WdtDummy, WdtRsp, WdtWait, WdtGoto
  <2> QED BY <1>2, <2>1, <2>2 DEF Blocks
<1>4. ~cmd_en_restart' => wdt_cs = "IDLE" /\ cmd_cs = "IDLE"
  BY <1>2, TickTyped
     DEF Recovery, RecIdle, RecCount, RecEnd, EngineInv, RestartInv, TypeOK, RecType
<1>5. cmd_cs = "IDLE" /\ wdt_cs = "IDLE" => ~wdt_last' /\ pld_dc_num' = 0 /\ ~pld_valid'
  BY <1>2
     DEF WdtFsm, WdtIdle, WdtStart, WdtPayload, WdtCrc, WdtDummy, WdtRsp, WdtWait, PldOffer
<1>6. ~rsp_timed_out' => dl' = Quiet /\ (pld_valid' => dat_en_restart')
  <2> SUFFICES ASSUME ~rsp_timed_out' PROVE dl' = Quiet /\ (pld_valid' => dat_en_restart')
    OBVIOUS
  <2>1. ~rsp_timed_out /\ dat_en_restart
    BY <1>2 DEF Host, DatLaneInv, TimedOutInv
  <2>2. dl' = Quiet
    BY <1>2, <2>1 DEF DatLane, LaneNext
  <2>3. cmd_en_restart' => dat_en_restart'
    BY TimedOutTick DEF DatLaneInv, TimedOutInv
  <2>4. ~cmd_en_restart' => ~pld_valid'
    BY <1>4, <1>5
  <2> QED BY <2>2, <2>3, <2>4
<1> QED
  BY <1>3, <1>4, <1>5, <1>6 DEF DirInv, OfferInv, TailInv, DatWordInv, XferInv, Quiet

(* An edge keeps the invariant of the data lane.                           *)
LEMMA DatLaneTick ==
  ASSUME TypeOK, EngineInv, CmdLaneInv, DatLaneInv, DataHost, Tick PROVE DatLaneInv'
<1>1. TimedOutInv' /\ OpInv'
  BY TimedOutTick DEF DatLaneInv
<1>2. CASE cmd_en_restart
  BY <1>1, <1>2, DatLaneRestart DEF DatLaneInv
<1>3. CASE ~cmd_en_restart
  <2>1. ~dat_en_restart
    BY <1>3 DEF DatLaneInv, TimedOutInv
  <2>2. PICK ckp \in BOOLEAN : DatPath(ckp)
    BY <1>3, <2>1, DatPathTick
  <2>3. DirInv' /\ OfferInv' /\ TailInv' /\ DatWordInv' /\ XferInv'
    BY <2>2, DirKept, OfferKept, TailKept, DatWordKept, XferKept
  <2> QED BY <1>1, <2>3 DEF DatLaneInv
<1> QED BY <1>2, <1>3

(* Both resets leave nothing on the data lane.                             *)
LEMMA DatLaneInit == Init => DatLaneInv
BY DEF Init, CtlInit, Quiet, DatLaneInv, OpInv, TimedOutInv, DirInv, OfferInv, TailInv,
   DatWordInv, XferInv

(* The software reset leaves nothing on the data lane.                     *)
LEMMA DatLaneReset == ASSUME OpInv, SoftReset PROVE DatLaneInv'
BY DEF SoftReset, Quiet, DatLaneInv, OpInv, TimedOutInv, DirInv, OfferInv, TailInv,
   DatWordInv, XferInv

(* Every step of the specification keeps it.                               *)
LEMMA DatLaneNext ==
  ASSUME TypeOK, EngineInv, CmdLaneInv, DatLaneInv, DataHost, [Next]_vars
  PROVE  DatLaneInv'
<1>1. CASE Tick BY <1>1, DatLaneTick
<1>2. CASE SoftReset BY <1>2, DatLaneReset DEF DatLaneInv
<1>3. CASE UNCHANGED vars
  BY <1>3 DEF vars, hostVars, cmdVars, wdtVars, blkVars, tmrVars, recVars, laneVars,
     DatLaneInv, OpInv, TimedOutInv, DirInv, OfferInv, TailInv, DatWordInv, XferInv, DatKind
<1> QED BY <1>1, <1>2, <1>3 DEF Next

(* The data lane shifts the word its FSM expects, in every state of that   *)
(* FSM, for every number of blocks, block size, device and bus manager.    *)
THEOREM DatLaneInvariant == ASSUME DataHost PROVE Spec => []DatLaneInv
<1>1. Init => TypeOK /\ EngineInv /\ CmdLaneInv /\ SavedInv /\ DatLaneInv
  BY InitTyped, EngineInvInit, CmdLaneInit, DatLaneInit
<1>2. TypeOK /\ EngineInv /\ CmdLaneInv /\ SavedInv /\ DatLaneInv /\ [Next]_vars
        => TypeOK' /\ EngineInv' /\ CmdLaneInv' /\ SavedInv' /\ DatLaneInv'
  BY NextTyped, EngineInvNext, CmdLaneNext, DatLaneNext
<1> QED BY <1>1, <1>2, PTL DEF Spec

(* When the host starts a command, no lane waits for or shifts a word of   *)
(* an earlier one and every FSM is at rest.                                *)
THEOREM LinesAreFreeAtStart == ASSUME DataHost PROVE Spec => []LinesFreeAtStart
<1>1. TypeOK /\ EngineInv /\ CmdLaneInv /\ DatLaneInv => LinesFreeAtStart
  <2> SUFFICES ASSUME TypeOK, EngineInv, CmdLaneInv, DatLaneInv, cmd_start
               PROVE  /\ cl.kind = "none" /\ dl.kind # "rd"
                      /\ wdt_cs = "IDLE" /\ rsp_cs = "IDLE" /\ recovery_cs = "IDLE"
    BY DEF LinesFreeAtStart
  <2>1. ~det_emmc_start /\ recovery_cs = "IDLE" /\ ~cmd_en_restart
    BY DEF EngineInv, HostInv, RestartInv
  <2>2. cmd_cs = "IDLE"
    BY <2>1 DEF EngineInv, BusyInv
  <2>3. cl.kind = "none"
    BY <2>2 DEF CmdLaneInv, CmdSendInv
  <2>4. rsp_cs = "IDLE"
    BY <2>2 DEF TypeOK, RspType, RspStates, EngineInv, RspInv, CmdLaneInv, RspStateInv
  <2>5. wdt_cs = "IDLE"
    BY <2>2 DEF DatLaneInv, DirInv
  <2>6. ~rsp_timed_out
    BY <2>1 DEF DatLaneInv, TimedOutInv
  <2> QED BY <2>1, <2>3, <2>4, <2>5, <2>6 DEF DatLaneInv, DatWordInv
<1> QED BY <1>1, TypeCorrect, EngineInvariant, CmdLaneInvariant, DatLaneInvariant, PTL

----------------------------------------------------------------------------
(* The timer.  The facts of this part hold when the data timeout of reads  *)
(* is longer than the response timeout (emmc_controller.c programs 0xFFFE  *)
(* and 0) and a timer count outlasts a restart.                            *)
TimeoutOrder ==
  ((\E o \in Ops : o.dir = "rd") => CmdTimeout < DatTimeout) /\ PRESCALE >= 4

(* Which flags can be set, and which line registers are known, where.      *)
FlagInv ==
  /\ cl.kind # "rd" => ~cl.stb
  /\ dl.kind # "rd" => ~dl.stb
  /\ dev_busy => wdt_cs \in {"RSP", "WAIT"} \/ cmd_en_restart
  /\ rd_not_started => op.dir = "rd" /\ (wdt_cs \in {"START", "PAYLOAD"} \/ cmd_en_restart)
  /\ ~rsp_timed_out /\ wdt_cs = "START" =>
       wdt_cntr = WdtCntrInit /\ (op.dir = "rd" => dat_line_not_busy)
  /\ pld_crc_en => wdt_cs = "CRC" \/ cmd_en_restart
  /\ dl.crc => (wdt_cs = "DUMMY" /\ pld_dc_num = 0) \/ rsp_timed_out
  /\ rx_pld_end => wdt_cs = "DUMMY" \/ rsp_timed_out
  /\ hit_rsp_tmr0_max => rsp_tmr0 = 0
  /\ recovery_cs \in {"WAIT2", "END"} => ~en_timer

(* While the response is awaited the timer exceeds its limit by one count  *)
(* at most; it is cleared once the response has started.                   *)
RspTimerInv ==
  /\ rsp_tmr1_gt_timeout /\ recovery_cs # "WAIT1" =>
       rsp_cs = "START" \/ (rsp_cs = "ARG" /\ ~rx_cmd_valid)
  /\ recovery_cs = "WAIT0" /\ ~dat_en_restart => rsp_cs \in {"START", "ARG"}
  /\ rsp_cs = "START" => rsp_tmr1 <= CmdTimeout + 1
  /\ rsp_cs = "START" /\ rsp_tmr1 > CmdTimeout /\ ~cmd_en_restart =>
       ~hit_rsp_tmr0_max /\ rsp_tmr0 <= IF rsp_tmr1_gt_timeout THEN 2 ELSE 1
  /\ rsp_cs = "START" /\ (rx_cmd_valid \/ (cl.stb /\ ~cl.busy)) => en_timer_mask
  /\ rsp_cs = "ARG" => /\ ~en_timer /\ rsp_tmr1 <= CmdTimeout + 1
                       /\ rx_cmd_valid => rsp_tmr1 = 0
  /\ rsp_cs = "CRC" => ~en_timer /\ rsp_tmr1 = 0
  /\ rsp_cs = "WAIT" => rsp_tmr1 = 0
  /\ ~cmd_en_restart /\ cmd_cs = "RSP" /\ en_timer => rsp_cs = "START"
  /\ ~cmd_en_restart /\ cmd_cs \notin {"RSP", "WAIT"} => ~en_timer /\ rsp_tmr1 = 0
  /\ ~cmd_en_restart /\ cmd_cs = "RSP" /\ rsp_cs = "IDLE" => ~en_timer /\ rsp_tmr1 = 0

(* In a write it runs for the response and for the status token only.      *)
WrTimerInv ==
  /\ wdt_cs = "RSP" /\ ~rsp_timed_out /\ pld_kind = "dc" => en_timer_mask
  /\ wdt_cs = "RSP" /\ check_busy => ~en_timer
  /\ op.dir # "rd" /\ en_timer /\ ~cmd_en_restart => rsp_cs = "START" \/ wdt_cs = "RSP"
  /\ op.dir # "rd" /\ ~cmd_en_restart /\ ~en_timer /\ rsp_tmr1 > 0 =>
       wdt_cs = "RSP" \/ rsp_cs = "ARG"

(* In a read it runs from the response to the first word of the block, and *)
(* what it has counted is cleared well before the block's last word.       *)
BlockAwaited ==
  cmd_cs = "WAIT" /\ rsp_cs = "IDLE" /\ wdt_cs = "PAYLOAD" /\ op.dir = "rd"

RdTimerInv ==
  /\ ~cmd_en_restart /\ cmd_cs = "WAIT" /\ op.dir = "rd" =>
       /\ en_timer => wdt_cs \in {"START", "PAYLOAD"}
       /\ rsp_tmr1 > 0 =>
            wdt_cs = "START" \/ (wdt_cs = "PAYLOAD" /\ ~wdt_last /\ wdt_cntr >= 1)
       /\ en_timer /\ wdt_cs = "PAYLOAD" =>
            /\ ~wdt_last
            /\ \/ wdt_cntr >= 2 /\ ~rx_pld_valid
               \/ wdt_cntr >= 1 /\ dl.busy /\ rx_pld_valid
  /\ ~rsp_timed_out /\ op.dir = "rd" /\ wdt_cs = "PAYLOAD" /\ dl.kind = "dc" =>
       wdt_cntr >= 3 /\ ~wdt_last /\ ~rx_pld_valid /\ dat_line_not_busy
  /\ ~rsp_timed_out /\ rd_not_started /\ wdt_cs = "PAYLOAD" =>
       /\ wdt_cntr >= 2 /\ ~wdt_last /\ ~rx_pld_valid
       /\ dl.kind = "rd" => dl.busy /\ (dl.stb => ~dat_line_not_busy)
  /\ dat_tmr1_gt_timeout /\ recovery_cs # "WAIT1" => BlockAwaited /\ (wdt_last => dl.busy)
  /\ dat_en_restart /\ recovery_cs = "WAIT0" => BlockAwaited

TimerInv == FlagInv /\ RspTimerInv /\ WrTimerInv /\ RdTimerInv

(* One edge of the timer, of the recovery FSM and of DAT0.                 *)
TimerStops ==
  \/ rsp_cs = "START" /\ rx_cmd_valid
  \/ wdt_cs = "RSP" /\ rx_pld_valid /\ ~rx_pld_end
  \/ wdt_cs = "PAYLOAD" /\ wait_rd_data /\ (rx_pld_valid \/ ~dat_line_not_busy)

TimerStarts ==
  /\ ~en_timer_mask
  /\ rsp_cs = "START" \/ wdt_cs = "RSP" \/ (rd_not_started /\ cmd_cs = "WAIT")

TimerEdge ==
  /\ hit_rsp_tmr0_max' => rsp_tmr0 = PRESCALE - 1 /\ rsp_tmr0' = 0
  /\ rsp_tmr1_gt_timeout' <=> rsp_tmr1 > CmdTimeout /\ rsp_cs = "START"
  /\ dat_tmr1_gt_timeout' <=> rsp_tmr1 > DatTimeout /\ wdt_cs = "PAYLOAD"
  /\ en_timer_mask' <=> rsp_cs = "START" \/ wdt_cs = "RSP"
  /\ rsp_tmr0' <= rsp_tmr0 + 1 /\ rsp_tmr1' <= rsp_tmr1 + 1
  /\ ~en_timer => rsp_tmr0' = 0 /\ rsp_tmr1' = 0
  /\ en_timer /\ ~hit_rsp_tmr0_max => rsp_tmr1' = rsp_tmr1
  /\ en_timer => (en_timer' <=> ~TimerStops /\ ~cmd_en_restart)
  /\ ~en_timer /\ en_timer' => TimerStarts

(* A counter that wraps adds one or returns to zero.                       *)
LEMMA WrapStep ==
  ASSUME NEW n \in Nat, n >= 1, NEW x \in 0..(n - 1)
  PROVE  /\ (x + 1) % n \in {0, x + 1}
         /\ x = n - 1 => (x + 1) % n = 0
<1>1. CASE x = n - 1
  BY <1>1
<1>2. CASE x # n - 1
  <2>1. x + 1 \in 0..(n - 1)
    BY <1>2
  <2>2. (x + 1) % n = x + 1
    BY <2>1
  <2> QED BY <1>2, <2>2
<1> QED BY <1>1, <1>2

(* What the shared timer does on any edge.                                 *)
LEMMA TimerArms ==
  ASSUME TypeOK, NEW ckp \in BOOLEAN, Timer(ckp) PROVE TimerEdge
<1>0. TmrType /\ RspType /\ WdtType /\ LanesType /\ BlkType /\ RecType /\ EnvType
  BY DEF TypeOK
<1>1. /\ rsp_tmr0 \in 0..(PRESCALE - 1) /\ rsp_tmr1 \in 0..(TMR_MOD - 1)
      /\ PRESCALE \in Nat /\ PRESCALE >= 1 /\ TMR_MOD \in Nat /\ TMR_MOD >= 2
      /\ (rsp_tmr0 + 1) % PRESCALE \in {0, rsp_tmr0 + 1}
      /\ rsp_tmr0 = PRESCALE - 1 => (rsp_tmr0 + 1) % PRESCALE = 0
      /\ (rsp_tmr1 + 1) % TMR_MOD \in {0, rsp_tmr1 + 1}
  BY <1>0, SizeAssumption, WrapStep DEF TmrType
<1>2. /\ hit_rsp_tmr0_max' <=> rsp_tmr0 = PRESCALE - 1 /\ ckp
      /\ rsp_tmr0' = IF ~en_timer THEN 0
                     ELSE IF ckp THEN (rsp_tmr0 + 1) % PRESCALE ELSE rsp_tmr0
      /\ rsp_tmr1' = IF ~en_timer THEN 0
                     ELSE IF hit_rsp_tmr0_max THEN (rsp_tmr1 + 1) % TMR_MOD
                     ELSE rsp_tmr1
      /\ rsp_tmr1_gt_timeout' <=> rsp_tmr1 > CmdTimeout /\ rsp_cs = "START"
      /\ dat_tmr1_gt_timeout' <=> rsp_tmr1 > DatTimeout /\ wdt_cs = "PAYLOAD"
      /\ en_timer_mask' <=> rsp_cs = "START" \/ wdt_cs = "RSP"
  BY <1>0 DEF Timer, RspOverdue, DatOverdue
<1>3. /\ en_timer => (en_timer' <=> ~TimerStops /\ ~cmd_en_restart)
      /\ ~en_timer /\ en_timer' => TimerStarts
  BY <1>0 DEF Timer, TimerStops, TimerStarts
<1>4. /\ hit_rsp_tmr0_max' => rsp_tmr0 = PRESCALE - 1 /\ rsp_tmr0' = 0
      /\ rsp_tmr0' <= rsp_tmr0 + 1 /\ rsp_tmr1' <= rsp_tmr1 + 1
      /\ ~en_timer => rsp_tmr0' = 0 /\ rsp_tmr1' = 0
      /\ en_timer /\ ~hit_rsp_tmr0_max => rsp_tmr1' = rsp_tmr1
  <2> HIDE DEF CmdHs
  <2> QED BY <1>1, <1>2
<1> QED BY <1>2, <1>3, <1>4 DEF TimerEdge

LineEdge ==
  /\ dev_busy' => wdt_cs = "RSP"
  /\ dl.kind \in {"none", "dc"} \/ (dl.kind = "rd" /\ ~dl.stb) =>
       (dat_line_not_busy' <=> ~dev_busy /\ ~dl'.stb)
  /\ ~cl.stb /\ cl'.stb => cl.kind = "rd" /\ cl'.kind = "rd"
  /\ cl'.stb /\ cl'.kind # "rd" => cl.stb /\ cl.kind # "rd"
  /\ dl'.stb /\ dl'.kind # "rd" => dl.stb /\ dl.kind # "rd"

RecoveryEdge ==
  /\ recovery_cs = "IDLE" /\ recovery_cs' \in {"IDLE", "WAIT0"}
  /\ cmd_en_restart' <=> rsp_tmr1_gt_timeout \/ dat_tmr1_gt_timeout
  /\ recovery_cs' = "WAIT0" => (dat_en_restart' <=> dat_tmr1_gt_timeout)
  /\ recovery_cs' = "WAIT0" => rsp_tmr1_gt_timeout \/ dat_tmr1_gt_timeout
  /\ rsp_timed_out' <=> rsp_timed_out \/ rsp_tmr1_gt_timeout

TimerPath(ckp) ==
  /\ DatPath(ckp) /\ TimerEdge /\ LineEdge /\ RecoveryEdge
  /\ TmrType /\ TmrType' /\ LanesType /\ LanesType' /\ HostType /\ HostType'

(* What the lanes and the busy line do on any edge, as far as the timer    *)
(* sees them.                                                              *)
LEMMA LineArms ==
  ASSUME TypeOK, NEW ckp \in BOOLEAN, NEW cends \in BOOLEAN, NEW cstart \in BOOLEAN,
         NEW dends \in BOOLEAN, NEW dstart \in BOOLEAN, NEW dat0 \in BOOLEAN,
         NEW busy \in BOOLEAN, busy => wdt_cs = "RSP",
         CmdLane(ckp, cends, cstart), DatLane(ckp, dends, dstart), Device(ckp, dat0, busy)
  PROVE  LineEdge
<1>1. /\ cl \in LaneType /\ dl \in LaneType /\ pld_crc_en \in BOOLEAN /\ dev_busy \in BOOLEAN
      /\ cmd_kind \in Kinds /\ pld_kind \in Kinds
  BY DEF TypeOK, LanesType, EnvType, CmdType, WdtType
<1>2. /\ ~cl.stb /\ cl'.stb => cl.kind = "rd" /\ cl'.kind = "rd"
      /\ cl'.stb /\ cl'.kind # "rd" => cl.stb /\ cl.kind # "rd"
  BY <1>1 DEF CmdLane, LaneNext, Word, Quiet, LaneType, Kinds
<1>3. dl'.stb /\ dl'.kind # "rd" => dl.stb /\ dl.kind # "rd"
  BY <1>1 DEF DatLane, LaneNext, Word, Quiet, LaneType, Kinds
<1>4. /\ dev_busy' => wdt_cs = "RSP"
      /\ dl.kind \in {"none", "dc"} \/ (dl.kind = "rd" /\ ~dl.stb) =>
           (dat_line_not_busy' <=> ~dev_busy /\ ~dl'.stb)
  BY <1>1 DEF Device, LaneType, Kinds
<1> QED BY <1>2, <1>3, <1>4 DEF LineEdge

(* Every edge that does not restart the engine is an edge of the timer's   *)
(* path.                                                                   *)
LEMMA TimerPathTick ==
  ASSUME TypeOK, EngineInv, CmdLaneInv, DatLaneInv, ~cmd_en_restart, Tick
  PROVE  \E ckp \in BOOLEAN : TimerPath(ckp)
<1>1. PICK ckp, cends, dends, cstart, dstart, free, avail, dat0, busy, finish, bad :
           ChosenStep(ckp, cends, dends, cstart, dstart, free, avail, dat0, busy,
                      finish, bad)
  BY TickIsChosen
<1>2. /\ Timer(ckp) /\ Recovery /\ Host /\ CmdLane(ckp, cends, cstart)
      /\ DatLane(ckp, dends, dstart) /\ Device(ckp, dat0, busy)
      /\ ckp \in BOOLEAN /\ cends \in BOOLEAN /\ cstart \in BOOLEAN /\ dends \in BOOLEAN
      /\ dstart \in BOOLEAN /\ dat0 \in BOOLEAN /\ busy \in BOOLEAN
      /\ busy => wdt_cs = "RSP"
  BY <1>1 DEF ChosenStep, BooleanStep, Step
<1>3. TimerEdge
  BY <1>2, TimerArms
<1>4. LineEdge
  BY <1>2, LineArms
<1>5. ~dat_en_restart
  BY DEF DatLaneInv, TimedOutInv
<1>6. RecoveryEdge
  <2>1. recovery_cs = "IDLE" /\ RecIdle
    BY <1>2 DEF EngineInv, RestartInv, Recovery, RecIdle, RecCount, RecEnd
  <2>2. /\ cmd_en_restart \in BOOLEAN /\ rsp_timed_out \in BOOLEAN
        /\ rsp_tmr1_gt_timeout \in BOOLEAN /\ dat_tmr1_gt_timeout \in BOOLEAN
    BY DEF TypeOK, RecType, HostType, TmrType
  <2>3. rsp_timed_out' <=> rsp_timed_out \/ rsp_tmr1_gt_timeout
    BY <1>2, <2>2 DEF Host
  <2> QED BY <2>1, <2>2, <2>3 DEF RecIdle, RecoveryEdge
<1>7. PICK c \in BOOLEAN : DatPath(c)
  BY <1>5, DatPathTick
<1>8. TmrType /\ TmrType' /\ LanesType /\ LanesType' /\ HostType /\ HostType'
  BY TickTyped DEF TypeOK
<1>9. TimerPath(c)
  BY <1>3, <1>4, <1>6, <1>7, <1>8 DEF TimerPath
<1> QED BY <1>9

(* The timer is started, or kept running, only for what it is to measure.  *)
LEMMA TimerOff ==
  ASSUME CmdLaneInv, EngineInv, DatLaneInv, TimerInv, DataHost, NEW ckp \in BOOLEAN,
         TimerPath(ckp)
  PROVE  /\ cmd_cs # "WAIT" => wdt_cs # "RSP"
         /\ cmd_cs \notin {"RSP", "WAIT"} => wdt_cs = "IDLE"
         /\ ~en_timer /\ cmd_cs # "WAIT" /\ rsp_cs # "START" => ~en_timer' /\ rsp_tmr1' = 0
         /\ rsp_cs = "START" /\ rx_cmd_valid => ~en_timer'
<1> USE DEF TimerPath
<1>1. /\ cmd_cs # "WAIT" => wdt_cs # "RSP"
      /\ cmd_cs \notin {"RSP", "WAIT"} => wdt_cs = "IDLE"
  BY DEF DatLaneInv, DirInv
<1>2. ~en_timer /\ cmd_cs # "WAIT" /\ rsp_cs # "START" => ~en_timer' /\ rsp_tmr1' = 0
  BY <1>1 DEF TimerEdge, TimerStarts
<1>3. rsp_cs = "START" /\ rx_cmd_valid => ~en_timer'
  BY DEF TimerEdge, TimerStarts, TimerStops, TimerInv, RspTimerInv
<1> QED BY <1>1, <1>2, <1>3

(* What every leaf below knows of the states around an edge.               *)
LEMMA EdgeFacts ==
  ASSUME CmdLaneInv, EngineInv, DatLaneInv, NEW ckp \in BOOLEAN, TimerPath(ckp)
  PROVE  /\ DatLaneEdge(PldHs(ckp), Ready(dl, ckp)) /\ WdtArms(ckp)
         /\ ~cmd_en_restart /\ ~dat_en_restart /\ WdtType /\ WdtType' /\ BlkType
         /\ CmdType /\ RspType /\ CmdEdge(CmdHs(ckp)) /\ RspEdge
         /\ rsp_timed_out => rsp_timed_out'
         /\ wdt_cs # "IDLE" => /\ op' = op /\ ~rsp_timed_out /\ op.dir \in {"rd", "wr"}
                               /\ cmd_cs \in {"RSP", "WAIT"}
                               /\ ~op.bustest \/ ~DataHost
         /\ wdt_cs \notin {"IDLE", "WAIT"} =>
              IF op.dir = "wr" THEN wait_wr_data /\ ~wait_rd_data
              ELSE wait_rd_data /\ ~wait_wr_data
         /\ wdt_cs \notin {"IDLE", "WAIT"} => ~(cmd_cs = "WAIT" /\ det_emmc_done)
         /\ cmd_cs # "IDLE" => op' = op
         /\ cmd_cs = "WAIT" => ~rsp_timed_out
<1> USE DEF TimerPath, DatPath, CmdPath
<1>1. wdt_cs # "IDLE" => /\ op' = op /\ ~rsp_timed_out /\ op.dir \in {"rd", "wr"}
                         /\ cmd_cs \in {"RSP", "WAIT"}
  BY BlockOpStable
<1>2. ~op.bustest \/ ~DataHost
  BY DEF DatLaneInv, OpInv, DataHost
<1>3. /\ wdt_cs \notin {"IDLE", "WAIT"} =>
           IF op.dir = "wr" THEN wait_wr_data /\ ~wait_rd_data
           ELSE wait_rd_data /\ ~wait_wr_data
      /\ wdt_cs \notin {"IDLE", "WAIT"} => ~(cmd_cs = "WAIT" /\ det_emmc_done)
  BY <1>1 DEF DatLaneInv, DirInv, EngineInv, DoneInv
<1>4. cmd_cs = "WAIT" => ~rsp_timed_out
  BY DEF DatLaneInv, TimedOutInv
<1> QED BY <1>1, <1>2, <1>3, <1>4

(* The flags that steer the timer are set in the states they belong to.    *)
LEMMA FlagKept ==
  ASSUME CmdLaneInv, EngineInv, DatLaneInv, TimerInv, DataHost, NEW ckp \in BOOLEAN,
         TimerPath(ckp)
  PROVE  FlagInv'
<1>0. /\ DatLaneEdge(PldHs(ckp), Ready(dl, ckp)) /\ WdtArms(ckp)
      /\ ~cmd_en_restart /\ WdtType /\ WdtType'
      /\ rsp_timed_out => rsp_timed_out'
      /\ wdt_cs # "IDLE" => op' = op /\ ~rsp_timed_out /\ ~op.bustest
      /\ wdt_cs \notin {"IDLE", "WAIT"} =>
           IF op.dir = "wr" THEN wait_wr_data /\ ~wait_rd_data
           ELSE wait_rd_data /\ ~wait_wr_data
  BY EdgeFacts
<1>1. FlagInv /\ LineEdge /\ TimerEdge /\ RecoveryEdge
  BY DEF TimerInv, TimerPath
<1>2. cl'.kind # "rd" => ~cl'.stb
  BY <1>1 DEF FlagInv, LineEdge
<1>3. dl'.kind # "rd" => ~dl'.stb
  BY <1>1 DEF FlagInv, LineEdge
<1>4. dev_busy' => wdt_cs' \in {"RSP", "WAIT"} \/ cmd_en_restart'
  BY <1>0, <1>1 DEF LineEdge, WdtArms, WdtRsp, WdtGoto
<1>5. rd_not_started' =>
        op'.dir = "rd" /\ (wdt_cs' \in {"START", "PAYLOAD"} \/ cmd_en_restart')
  <2>1. CASE wdt_cs = "START"
    BY <1>0, <2>1 DEF WdtArms, WdtStart, WdtGoto, DatLaneInv, DirInv
  <2>2. CASE wdt_cs = "PAYLOAD"
    <3>1. rd_not_started' => rd_not_started /\ op.dir = "rd" /\ ~wdt_last
      BY <1>0, <1>1, <2>2 DEF WdtArms, WdtPayload, FlagInv, TimerInv, RdTimerInv
    <3> QED BY <1>0, <2>2, <3>1 DEF WdtArms, WdtPayload, WdtGoto
  <2>3. CASE wdt_cs \notin {"START", "PAYLOAD"}
    BY <1>0, <2>3
       DEF WdtArms, WdtIdleEdge, WdtCrc, WdtDummy, WdtRsp, WdtWait, WdtType, WdtStates
  <2> QED BY <2>1, <2>2, <2>3
<1>6. ~rsp_timed_out' /\ wdt_cs' = "START" =>
        wdt_cntr' = WdtCntrInit /\ (op'.dir = "rd" => dat_line_not_busy')
  <2> SUFFICES ASSUME ~rsp_timed_out', wdt_cs' = "START"
               PROVE  wdt_cntr' = WdtCntrInit /\ (op'.dir = "rd" => dat_line_not_busy')
    OBVIOUS
  <2>1. wdt_cs \in {"IDLE", "START"} /\ ~rsp_timed_out
    BY <1>0
       DEF WdtArms, WdtPayload, WdtCrc, WdtDummy, WdtRsp, WdtWait, WdtGoto, WdtType, WdtStates
  <2>2. wdt_cntr' = WdtCntrInit
    BY <1>0, <1>1, <2>1 DEF WdtArms, WdtIdleEdge, WdtStart, WdtGoto, FlagInv, WdtCntrInit
  <2>3. dl.kind \in {"none", "dc"} /\ (pld_valid => pld_kind = "dc") /\ ~dev_busy
    BY <1>0, <1>1, <2>1, EdgeFacts DEF FlagInv, DatLaneInv, DatWordInv
  <2>4. dl'.kind # "rd"
    BY <1>0, <2>3 DEF DatLaneEdge, Quiet
  <2> QED BY <1>1, <1>3, <2>2, <2>3, <2>4 DEF LineEdge
<1>7. pld_crc_en' => wdt_cs' = "CRC" \/ cmd_en_restart'
  BY <1>0, <1>1
     DEF WdtArms, WdtIdleEdge, WdtStart, WdtPayload, WdtCrc, WdtDummy, WdtRsp, WdtWait,
         WdtGoto, WdtType, WdtStates, FlagInv
<1>8. dl'.crc => (wdt_cs' = "DUMMY" /\ pld_dc_num' = 0) \/ rsp_timed_out'
  <2>1. CASE PldHs(ckp)
    <3>1. dl'.crc => pld_crc_en /\ wdt_cs = "CRC" /\ pld_dc_num = 0
      BY <1>0, <1>1, <2>1 DEF DatLaneEdge, FlagInv, DatLaneInv, OfferInv
    <3> QED BY <1>0, <2>1, <3>1 DEF WdtArms, WdtCrc, WdtGoto
  <2>2. CASE ~PldHs(ckp)
    <3>1. dl'.crc => dl.crc
      BY <1>0, <2>2 DEF DatLaneEdge, Quiet
    <3> QED BY <1>0, <1>1, <2>2, <3>1 DEF WdtArms, WdtDummy, WdtGoto, FlagInv
  <2> QED BY <2>1, <2>2
<1>9. rx_pld_end' => wdt_cs' = "DUMMY" \/ rsp_timed_out'
  <2> SUFFICES ASSUME rx_pld_end', ~rsp_timed_out PROVE wdt_cs' = "DUMMY"
    BY <1>0
  <2>1. wdt_cs = "DUMMY" /\ pld_dc_num = 0
    BY <1>0, <1>1 DEF DatLaneEdge, FlagInv
  <2> QED BY <1>0, <2>1 DEF WdtArms, WdtDummy, WdtGoto
<1>10. hit_rsp_tmr0_max' => rsp_tmr0' = 0
  BY <1>1 DEF TimerEdge
<1>11. recovery_cs' \notin {"WAIT2", "END"}
  BY <1>1 DEF RecoveryEdge
<1> QED BY <1>2, <1>3, <1>4, <1>5, <1>6, <1>7, <1>8, <1>9, <1>10, <1>11 DEF FlagInv

(* The response and its timer.                                             *)
LEMMA RspTimerKept ==
  ASSUME CmdLaneInv, EngineInv, DatLaneInv, TimerInv, DataHost, TimeoutOrder,
         NEW ckp \in BOOLEAN, TimerPath(ckp)
  PROVE  RspTimerInv'
<1>0. /\ ~cmd_en_restart /\ CmdType /\ RspType /\ CmdEdge(CmdHs(ckp)) /\ RspEdge /\ RspInv
      /\ CmdLaneEdge(CmdHs(ckp), Ready(cl, ckp))
      /\ rx_cmd_valid' <=> Ready(cl, ckp) /\ cl.kind = "rd"
      /\ TimerEdge /\ LineEdge /\ RecoveryEdge /\ RspTimerInv
      /\ cmd_cs \notin {"RSP", "WAIT"} => rsp_cs = "IDLE" /\ rsp_cs' = "IDLE"
  BY DEF TimerPath, DatPath, CmdPath, TimerInv
<1>1. /\ rsp_tmr0 \in Nat /\ rsp_tmr1 \in Nat /\ rsp_tmr0' \in Nat /\ rsp_tmr1' \in Nat
      /\ CmdTimeout \in Nat /\ PRESCALE \in Nat /\ PRESCALE >= 4
  BY SizeAssumption DEF TimerPath, TmrType, TimeoutOrder
<1>2. /\ cmd_cs # "WAIT" => wdt_cs # "RSP"
      /\ ~en_timer /\ cmd_cs # "WAIT" /\ rsp_cs # "START" => ~en_timer' /\ rsp_tmr1' = 0
      /\ rsp_cs = "START" /\ rx_cmd_valid => ~en_timer'
  BY TimerOff
(* A response word is taken before the next one has been read.             *)
<1>3. /\ cmd_cs = "RSP" /\ rx_cmd_valid => ~rx_cmd_valid' /\ cmd_clk_vld_q
      /\ rsp_cs = "IDLE" => ~rx_cmd_valid
      /\ rsp_cs \in {"START", "ARG"} => cmd_cs = "RSP"
      /\ rsp_cs = "CRC" => cmd_cs = "RSP" \/ (cmd_cs = "WAIT" /\ rx_cmd_valid)
      /\ rsp_cs = "WAIT" => cmd_cs = "WAIT" /\ ~cmd_clk_vld_i /\ ~rx_cmd_valid
  BY <1>0 DEF CmdLaneInv, RspWordInv, RspStateInv, RspInv, CmdLaneEdge
<1>4. rsp_tmr1_gt_timeout' /\ recovery_cs' # "WAIT1" =>
        rsp_cs' = "START" \/ (rsp_cs' = "ARG" /\ ~rx_cmd_valid')
  BY <1>0, <1>3 DEF TimerEdge, RspEdge
<1>5. recovery_cs' = "WAIT0" /\ ~dat_en_restart' => rsp_cs' \in {"START", "ARG"}
  BY <1>0, <1>3 DEF RecoveryEdge, RspTimerInv, RspEdge
<1>6. rsp_cs = "START" => rsp_tmr1' <= CmdTimeout + 1
  BY <1>0, <1>1 DEF RspTimerInv, TimerEdge
<1>7. rsp_cs' = "START" => rsp_cs = "START" \/ (cmd_cs = "RSP" /\ rsp_cs = "IDLE")
  BY <1>0 DEF RspEdge, RspType, RspStates, RspInv
<1>8. rsp_cs' = "START" => rsp_tmr1' <= CmdTimeout + 1
  BY <1>0, <1>1, <1>2, <1>6, <1>7 DEF RspTimerInv
<1>9. rsp_cs' = "START" /\ rsp_tmr1' > CmdTimeout /\ ~cmd_en_restart' =>
        ~hit_rsp_tmr0_max' /\ rsp_tmr0' <= IF rsp_tmr1_gt_timeout' THEN 2 ELSE 1
  <2> SUFFICES ASSUME rsp_cs' = "START", rsp_tmr1' > CmdTimeout, ~cmd_en_restart'
               PROVE  ~hit_rsp_tmr0_max' /\ rsp_tmr0' <= IF rsp_tmr1_gt_timeout' THEN 2 ELSE 1
    OBVIOUS
  <2>1. rsp_cs = "START" /\ en_timer /\ ~rsp_tmr1_gt_timeout
    <3>1. rsp_cs = "START"
      BY <1>0, <1>1, <1>2, <1>7 DEF RspTimerInv
    <3> QED BY <1>0, <1>1, <3>1 DEF TimerEdge, RecoveryEdge
  <2>2. CASE hit_rsp_tmr0_max
    <3>1. rsp_tmr0 = 0
      BY <2>2 DEF TimerInv, FlagInv
    <3> QED BY <1>0, <1>1, <3>1 DEF TimerEdge
  <2>3. CASE ~hit_rsp_tmr0_max
    <3>1. rsp_tmr1' = rsp_tmr1 /\ rsp_tmr0 <= 1
      BY <1>0, <2>1, <2>3 DEF TimerEdge, RspTimerInv
    <3> QED BY <1>0, <1>1, <2>1, <3>1 DEF TimerEdge
  <2> QED BY <2>2, <2>3
<1>10. rsp_cs' = "START" /\ (rx_cmd_valid' \/ (cl'.stb /\ ~cl'.busy)) => en_timer_mask'
  <2>1. CASE rsp_cs = "START"
    BY <1>0, <2>1 DEF TimerEdge
  <2>2. CASE cmd_cs = "RSP" /\ rsp_cs = "IDLE"
    <3>1. /\ ~(cl.kind = "rd" /\ cl.stb)
          /\ cl.kind = "rd" /\ ~cl.stb => cl.busy
      BY <2>2 DEF CmdLaneInv, RspWordInv, CmdRspInv
    <3>2. ~cl.stb
      BY <3>1 DEF TimerInv, FlagInv
    <3>3. ~rx_cmd_valid'
      BY <1>0, <3>1 DEF CmdLaneEdge
    <3>4. cl'.stb => cl'.busy
      BY <1>0, <3>1, <3>2 DEF LineEdge, CmdLaneEdge
    <3> QED BY <3>3, <3>4
  <2> QED BY <1>7, <2>1, <2>2
<1>11. rsp_cs' = "ARG" => /\ ~en_timer' /\ rsp_tmr1' <= CmdTimeout + 1
                          /\ rx_cmd_valid' => rsp_tmr1' = 0
  <2>1. CASE rsp_cs = "START"
    BY <1>0, <1>2, <1>3, <1>6, <2>1 DEF RspEdge
  <2>2. CASE rsp_cs = "ARG"
    BY <1>0, <1>1, <1>2, <1>3, <2>2 DEF RspTimerInv
  <2> QED BY <1>0, <2>1, <2>2 DEF RspEdge, RspType, RspStates
<1>12. rsp_cs' = "CRC" => ~en_timer' /\ rsp_tmr1' = 0
  <2>1. rsp_cs' = "CRC" => cmd_cs = "RSP" /\ rsp_cs \in {"ARG", "CRC"}
    BY <1>0, <1>3 DEF RspEdge, RspType, RspStates
  <2> QED BY <1>0, <1>2, <2>1 DEF RspTimerInv
<1>13. rsp_cs' = "WAIT" => rsp_tmr1' = 0
  <2>1. rsp_cs' = "WAIT" => rsp_cs = "CRC"
    BY <1>0, <1>3 DEF RspEdge, RspType, RspStates
  <2> QED BY <1>0, <2>1 DEF RspTimerInv, TimerEdge
<1>14. cmd_cs' = "RSP" => cmd_cs \in {"DUMMY", "RSP"}
  BY <1>0 DEF CmdEdge, CmdType, CmdStates
<1>15. cmd_cs' = "RSP" /\ en_timer' => rsp_cs' = "START"
  <2> SUFFICES ASSUME cmd_cs' = "RSP", en_timer' PROVE rsp_cs' = "START"
    OBVIOUS
  <2>1. rsp_cs = "START"
    BY <1>0, <1>2, <1>14 DEF RspTimerInv
  <2> QED BY <1>0, <1>2, <2>1 DEF RspEdge
<1>16. cmd_cs' \notin {"RSP", "WAIT"} => ~en_timer' /\ rsp_tmr1' = 0
  <2> SUFFICES ASSUME cmd_cs' \notin {"RSP", "WAIT"} PROVE ~en_timer' /\ rsp_tmr1' = 0
    OBVIOUS
  <2>1. CASE cmd_cs # "WAIT"
    <3>1. cmd_cs # "RSP"
      BY <1>0 DEF CmdEdge
    <3> QED BY <1>0, <1>2, <2>1, <3>1 DEF RspTimerInv
  <2>2. CASE cmd_cs = "WAIT"
    <3>1. det_emmc_done
      BY <1>0, <2>2 DEF CmdEdge
    <3>2. wdt_cs \in {"IDLE", "WAIT"}
      BY <2>2, <3>1, EdgeFacts
    <3>3. rsp_cs = "IDLE"
      BY <1>0, <2>2, <3>1 DEF CmdLaneInv, CmdWaitInv
    <3>4. ~en_timer
      BY <1>0, <2>2, <3>2, <3>3 DEF TimerInv, RdTimerInv, WrTimerInv
    <3>5. ~rd_not_started
      BY <1>0, <3>2 DEF TimerInv, FlagInv
    <3> QED BY <1>0, <3>2, <3>3, <3>4, <3>5 DEF TimerEdge, TimerStarts
  <2> QED BY <2>1, <2>2
<1>17. cmd_cs' = "RSP" /\ rsp_cs' = "IDLE" => ~en_timer' /\ rsp_tmr1' = 0
  <2> SUFFICES ASSUME cmd_cs' = "RSP", rsp_cs' = "IDLE" PROVE ~en_timer' /\ rsp_tmr1' = 0
    OBVIOUS
  <2>1. rsp_cs = "IDLE" /\ cmd_cs # "WAIT"
    BY <1>0, <1>3, <1>14 DEF RspEdge, RspType, RspStates
  <2> QED BY <1>0, <1>2, <1>14, <2>1 DEF RspTimerInv
<1> QED BY <1>4, <1>5, <1>8, <1>9, <1>10, <1>11, <1>12, <1>13, <1>15, <1>16, <1>17
        DEF RspTimerInv

(* The timer in a write.                                                   *)
LEMMA WrTimerKept ==
  ASSUME CmdLaneInv, EngineInv, DatLaneInv, TimerInv, DataHost, NEW ckp \in BOOLEAN,
         TimerPath(ckp)
  PROVE  WrTimerInv'
<1>0. /\ WdtArms(ckp) /\ ~cmd_en_restart /\ WdtType /\ WdtType' /\ RspType /\ RspEdge
      /\ wdt_cs # "IDLE" => op' = op /\ ~rsp_timed_out /\ ~op.bustest
      /\ cmd_cs # "IDLE" => op' = op
      /\ wdt_cs \notin {"IDLE", "WAIT"} =>
           IF op.dir = "wr" THEN wait_wr_data /\ ~wait_rd_data
           ELSE wait_rd_data /\ ~wait_wr_data
  BY EdgeFacts
<1>1. WrTimerInv /\ FlagInv /\ RspTimerInv /\ TimerEdge /\ RspInv
  BY DEF TimerInv, TimerPath, DatPath, CmdPath
<1>2. rsp_tmr1 \in Nat /\ rsp_tmr1' \in Nat
  BY SizeAssumption DEF TimerPath, TmrType
<1>3. wdt_cs' = "RSP" => wdt_cs = "RSP" \/ (wdt_cs = "DUMMY" /\ pld_dc_num = 1)
  BY <1>0
     DEF WdtArms, WdtIdleEdge, WdtStart, WdtPayload, WdtCrc, WdtDummy, WdtWait, WdtGoto,
         WdtType, WdtStates
<1>4. wdt_cs = "RSP" => /\ op.dir = "wr" /\ wait_wr_data
                        /\ xfer_done /\ rx_pld_valid => pld_kind = "dc" /\ ~rx_pld_end
                        /\ check_busy => pld_kind = "dc" /\ en_timer_mask /\ ~en_timer
                        /\ pld_kind = "dc" => en_timer_mask
                        /\ pld_kind \in {"rd", "dc"}
  BY <1>0, <1>1 DEF DatLaneInv, DirInv, DatWordInv, XferInv, WrTimerInv, FlagInv
<1>5. wdt_cs' = "RSP" /\ ~rsp_timed_out' /\ pld_kind' = "dc" => en_timer_mask'
  BY <1>0, <1>1, <1>3 DEF TimerEdge, WdtArms, WdtDummy, WdtGoto, PldOffer
<1>6. wdt_cs' = "RSP" /\ check_busy' => ~en_timer'
  <2> SUFFICES ASSUME wdt_cs' = "RSP", check_busy' PROVE ~en_timer'
    OBVIOUS
  <2>1. CASE wdt_cs = "RSP"
    <3>1. check_busy \/ (xfer_done /\ rx_pld_valid)
      BY <1>0, <1>4, <2>1 DEF WdtArms, WdtRsp, XferFlags
    <3> QED BY <1>1, <1>4, <2>1, <3>1 DEF TimerEdge, TimerStops, TimerStarts
  <2>2. CASE wdt_cs = "DUMMY" /\ pld_dc_num = 1
    <3>1. ~wait_rd_data /\ op.dir = "wr"
      BY <1>0, <2>2 DEF WdtArms, WdtDummy, WdtGoto
    <3>2. (rx_pld_valid => ~xfer_done) /\ ~check_busy
      BY <2>2, <3>1 DEF DatLaneInv, XferInv
    <3> QED BY <1>0, <2>2, <3>1, <3>2 DEF WdtArms, WdtDummy, XferFlags
  <2> QED BY <1>3, <2>1, <2>2
<1>7. wdt_cs = "RSP" /\ wdt_cs' # "RSP" => check_busy
  BY <1>0 DEF WdtArms, WdtRsp, WdtGoto
<1>8. op'.dir # "rd" /\ en_timer' => rsp_cs' = "START" \/ wdt_cs' = "RSP"
  <2> SUFFICES ASSUME op'.dir # "rd", en_timer' PROVE rsp_cs' = "START" \/ wdt_cs' = "RSP"
    OBVIOUS
  <2>1. rsp_cs = "START" \/ wdt_cs = "RSP"
    <3>1. CASE en_timer
      BY <1>0, <1>1, <3>1 DEF WrTimerInv, RspTimerInv
    <3>2. CASE ~en_timer
      BY <1>0, <1>1, <3>2 DEF TimerEdge, TimerStarts, FlagInv
    <3> QED BY <3>1, <3>2
  <2>2. CASE rsp_cs = "START"
    BY <1>0, <2>2, TimerOff DEF RspEdge
  <2>3. CASE wdt_cs = "RSP"
    BY <1>1, <1>4, <1>7, <2>3 DEF TimerEdge, TimerStarts
  <2> QED BY <2>1, <2>2, <2>3
<1>9. op'.dir # "rd" /\ ~en_timer' /\ rsp_tmr1' > 0 => wdt_cs' = "RSP" \/ rsp_cs' = "ARG"
  <2> SUFFICES ASSUME op'.dir # "rd", ~en_timer', rsp_tmr1' > 0
               PROVE  wdt_cs' = "RSP" \/ rsp_cs' = "ARG"
    OBVIOUS
  <2>1. en_timer /\ TimerStops
    BY <1>0, <1>1, <1>2 DEF TimerEdge
  <2>2. op' = op
    BY <1>0, <1>1, <2>1 DEF RspTimerInv
  <2>3. CASE rsp_cs = "START"
    <3>1. cmd_cs = "RSP" /\ wdt_cs # "RSP" /\ ~wait_rd_data
      BY <1>1, <2>2, <2>3, TimerOff DEF RspInv, DatLaneInv, DirInv
    <3>2. rx_cmd_valid /\ cmd_clk_vld_q
      BY <2>1, <2>3, <3>1 DEF TimerStops, CmdLaneInv, RspWordInv
    <3> QED BY <1>0, <2>3, <3>2 DEF RspEdge
  <2>4. CASE wdt_cs = "RSP"
    BY <1>4, <1>7, <2>1, <2>4
  <2> QED BY <1>0, <1>1, <2>1, <2>2, <2>3, <2>4 DEF WrTimerInv
<1> QED BY <1>5, <1>6, <1>8, <1>9 DEF WrTimerInv

(* The word counter of the data FSM counts down.                           *)
LEMMA NextWordIs ==
  ASSUME WdtType
  PROVE  /\ wdt_cntr >= 1 => NextWord = wdt_cntr - 1
         /\ wdt_cntr = WdtCntrInit => NextWord >= 3 /\ NextWord \in Nat
<1> DEFINE n == 2 * MAX_BLOCK
<1>1. /\ n \in Nat /\ n >= 8 /\ BlockWords \in Nat /\ BlockWords >= 4
      /\ wdt_cntr \in 0..(n - 1) /\ NextWord = (wdt_cntr + n - 1) % n
      /\ WdtCntrInit = 0 \/ WdtCntrInit = BlockWords
  BY SizeAssumption DEF WdtType, NextWord, WdtCntrInit
<1> HIDE DEF n
<1>2. wdt_cntr >= 1 => NextWord = wdt_cntr - 1
  <2>1. ASSUME NEW c \in 0..(n - 1), c >= 1 PROVE (c + n - 1) % n = c - 1
    <3>1. (c + n - 1) = (c - 1) + n /\ c - 1 \in 0..(n - 1)
      BY <1>1, <2>1
    <3>2. ((c - 1) + n) % n = (c - 1) % n
      BY <1>1, <3>1
    <3>3. (c - 1) % n = c - 1
      BY <1>1, <3>1
    <3> QED BY <3>1, <3>2, <3>3
  <2> QED BY <1>1, <2>1
<1>3. wdt_cntr = WdtCntrInit => NextWord >= 3 /\ NextWord \in Nat
  <2>1. CASE WdtCntrInit = BlockWords
    BY <1>1, <1>2, <2>1
  <2>2. CASE WdtCntrInit = 0
    <3>1. (0 + n - 1) % n = n - 1
      BY <1>1
    <3> QED BY <1>1, <2>2, <3>1
  <2> QED BY <1>1, <2>1, <2>2
<1> QED BY <1>2, <1>3

(* While a read waits for its block, only the edge that hands over the     *)
(* last word, or the end of the command, leaves that state.                *)
LEMMA BlockAwaitedStep ==
  ASSUME CmdLaneInv, EngineInv, DatLaneInv, NEW ckp \in BOOLEAN, TimerPath(ckp),
         BlockAwaited, wdt_last => dl.busy
  PROVE  BlockAwaited'
<1>0. /\ WdtArms(ckp) /\ ~cmd_en_restart /\ CmdEdge(CmdHs(ckp)) /\ RspEdge
      /\ DatLaneEdge(PldHs(ckp), Ready(dl, ckp)) /\ op' = op
      /\ ~(cmd_cs = "WAIT" /\ det_emmc_done)
  BY EdgeFacts DEF BlockAwaited
<1>1. cmd_cs' = "WAIT"
  BY <1>0 DEF BlockAwaited, CmdEdge
<1>2. rsp_cs' = "IDLE"
  BY <1>0 DEF BlockAwaited, RspEdge, EngineInv, RspInv
<1>3. wdt_cs' = "PAYLOAD"
  BY <1>0 DEF BlockAwaited, WdtArms, WdtPayload, WdtGoto, DatLaneEdge
<1> QED BY <1>0, <1>1, <1>2, <1>3 DEF BlockAwaited

(* The timer exceeds the data timeout only while a read waits for a block  *)
(* of which the last word is not yet asked for.                            *)
LEMMA OverdueBlock ==
  ASSUME TypeOK, EngineInv, DatLaneInv, TimerInv, TimeoutOrder, DatOverdue, ~cmd_en_restart
  PROVE  BlockAwaited /\ ~wdt_last
<1>0. /\ rsp_tmr1 \in Nat /\ CmdTimeout \in Nat /\ DatTimeout \in Nat /\ rsp_cs \in RspStates
  BY SizeAssumption DEF TypeOK, TmrType, RspType
<1>1. rsp_tmr1 > DatTimeout /\ wdt_cs = "PAYLOAD" /\ RspTimerInv /\ WrTimerInv /\ RdTimerInv
  BY DEF DatOverdue, TimerInv
<1>2. cmd_cs \in {"RSP", "WAIT"} /\ op.dir \in {"rd", "wr"}
  BY <1>1 DEF DatLaneInv, DirInv
<1>5. op.dir = "rd"
  <2>1. ASSUME op.dir = "wr" PROVE rsp_cs \in {"START", "ARG"}
    BY <1>0, <1>1, <2>1 DEF WrTimerInv
  <2>2. ASSUME op.dir = "wr" PROVE cmd_cs = "RSP"
    BY <2>1, <2>2 DEF EngineInv, RspInv
  <2>3. op.dir # "wr"
    BY <1>1, <2>2 DEF DatLaneInv, DirInv
  <2> QED BY <1>2, <2>3
<1>6. CmdTimeout < DatTimeout
  BY <1>5 DEF TimeoutOrder, DatLaneInv, OpInv
<1>3. rsp_cs = "IDLE"
  BY <1>0, <1>1, <1>6 DEF RspTimerInv, RspStates
<1>4. cmd_cs = "WAIT"
  BY <1>0, <1>1, <1>2, <1>3 DEF RspTimerInv
<1> QED BY <1>0, <1>1, <1>3, <1>4, <1>5 DEF RdTimerInv, BlockAwaited

(* The timer in a read.                                                    *)
LEMMA RdTimerKept ==
  ASSUME TypeOK, CmdLaneInv, EngineInv, DatLaneInv, TimerInv, DataHost, TimeoutOrder,
         NEW ckp \in BOOLEAN, TimerPath(ckp)
  PROVE  RdTimerInv'
<1>0. /\ DatLaneEdge(PldHs(ckp), Ready(dl, ckp)) /\ WdtArms(ckp)
      /\ ~cmd_en_restart /\ WdtType /\ WdtType'
      /\ rsp_timed_out => rsp_timed_out'
      /\ wdt_cs # "IDLE" => op' = op /\ ~rsp_timed_out /\ ~op.bustest
      /\ wdt_cs \notin {"IDLE", "WAIT"} =>
           IF op.dir = "wr" THEN wait_wr_data /\ ~wait_rd_data
           ELSE wait_rd_data /\ ~wait_wr_data
      /\ CmdEdge(CmdHs(ckp)) /\ CmdType
      /\ cmd_cs # "IDLE" => op' = op
  BY EdgeFacts
<1>1. FlagInv /\ LineEdge /\ TimerEdge /\ RecoveryEdge /\ RspTimerInv /\ RdTimerInv /\ TimeoutOrder
  BY DEF TimerInv, TimerPath
<1>2. /\ rsp_tmr1 \in Nat /\ rsp_tmr1' \in Nat /\ wdt_cntr \in Nat /\ wdt_cntr' \in Nat
  BY SizeAssumption DEF TimerPath, TmrType, DatPath, WdtType
<1>3. wdt_cs = "START" => /\ pld_valid /\ pld_kind = "dc" /\ dl.kind \in {"none", "dc"}
                          /\ ~wdt_last /\ ~dev_busy /\ ~rx_pld_valid' /\ dl'.kind # "rd"
                          /\ PldHs(ckp) => dl'.kind = "dc"
                          /\ NextWord >= 3 /\ NextWord \in Nat
                          /\ wdt_cs' = IF PldHs(ckp) THEN "PAYLOAD" ELSE "START"
                          /\ wdt_cntr' = IF PldHs(ckp) THEN NextWord ELSE wdt_cntr
                          /\ wdt_last' = wdt_last
  <2> SUFFICES ASSUME wdt_cs = "START"
               PROVE  /\ pld_valid /\ pld_kind = "dc" /\ dl.kind \in {"none", "dc"}
                      /\ ~wdt_last /\ ~dev_busy /\ ~rx_pld_valid' /\ dl'.kind # "rd"
                      /\ PldHs(ckp) => dl'.kind = "dc"
                      /\ NextWord >= 3 /\ NextWord \in Nat
                      /\ wdt_cs' = IF PldHs(ckp) THEN "PAYLOAD" ELSE "START"
                      /\ wdt_cntr' = IF PldHs(ckp) THEN NextWord ELSE wdt_cntr
                      /\ wdt_last' = wdt_last
    OBVIOUS
  <2>1. pld_valid /\ pld_kind = "dc" /\ dl.kind \in {"none", "dc"} /\ ~wdt_last
    BY <1>0 DEF DatLaneInv, DatWordInv, XferInv
  <2>2. ~dev_busy /\ NextWord >= 3 /\ NextWord \in Nat
    BY <1>0, <1>1, NextWordIs DEF FlagInv
  <2>3. /\ wdt_cs' = IF PldHs(ckp) THEN "PAYLOAD" ELSE "START"
        /\ wdt_cntr' = IF PldHs(ckp) THEN NextWord ELSE wdt_cntr
        /\ wdt_last' = wdt_last
    BY <1>0 DEF WdtArms, WdtStart, WdtGoto
  <2>4. ~rx_pld_valid' /\ dl'.kind # "rd" /\ (PldHs(ckp) => dl'.kind = "dc")
    BY <1>0, <2>1 DEF DatLaneEdge, Quiet
  <2> QED BY <2>1, <2>2, <2>3, <2>4
<1>4. wdt_cs = "PAYLOAD" /\ op.dir = "rd" =>
        /\ pld_valid /\ pld_kind = "rd" /\ dl.kind \in {"dc", "rd"} /\ wait_rd_data /\ ~dev_busy
        /\ PldHs(ckp) <=> Ready(dl, ckp)
        /\ PldHs(ckp) => dl'.kind = "rd" /\ dl'.busy /\ ~dl.busy
                         /\ (dl'.stb <=> dl.kind = "rd" /\ dl.stb)
        /\ ~PldHs(ckp) => dl'.kind = dl.kind
        /\ rx_pld_valid' <=> PldHs(ckp) /\ dl.kind = "rd"
        /\ wdt_cs' = IF PldHs(ckp) /\ wdt_last THEN "CRC" ELSE "PAYLOAD"
        /\ wdt_cntr' = IF PldHs(ckp) THEN NextWord ELSE wdt_cntr
        /\ wdt_last' = IF PldHs(ckp) THEN LastWord ELSE wdt_last
        /\ rd_not_started' = (rd_not_started /\ dat_line_not_busy /\ ~rx_pld_valid)
        /\ wdt_cntr >= 1 => NextWord = wdt_cntr - 1
  <2> SUFFICES ASSUME wdt_cs = "PAYLOAD", op.dir = "rd"
               PROVE  /\ pld_valid /\ pld_kind = "rd" /\ dl.kind \in {"dc", "rd"} /\ wait_rd_data /\ ~dev_busy
                      /\ PldHs(ckp) <=> Ready(dl, ckp)
                      /\ PldHs(ckp) => dl'.kind = "rd" /\ dl'.busy /\ ~dl.busy
                                       /\ (dl'.stb <=> dl.kind = "rd" /\ dl.stb)
                      /\ ~PldHs(ckp) => dl'.kind = dl.kind
                      /\ rx_pld_valid' <=> PldHs(ckp) /\ dl.kind = "rd"
                      /\ wdt_cs' = IF PldHs(ckp) /\ wdt_last THEN "CRC" ELSE "PAYLOAD"
                      /\ wdt_cntr' = IF PldHs(ckp) THEN NextWord ELSE wdt_cntr
                      /\ wdt_last' = IF PldHs(ckp) THEN LastWord ELSE wdt_last
                      /\ rd_not_started' = (rd_not_started /\ dat_line_not_busy /\ ~rx_pld_valid)
                      /\ wdt_cntr >= 1 => NextWord = wdt_cntr - 1
    OBVIOUS
  <2>1. /\ pld_valid /\ pld_kind = "rd" /\ dl.kind \in {"dc", "rd"} /\ wait_rd_data /\ ~dev_busy
        /\ wdt_cntr >= 1 => NextWord = wdt_cntr - 1
    BY <1>0, <1>1, NextWordIs DEF DatLaneInv, DatWordInv, DatKind, FlagInv
  <2>2. /\ wdt_cs' = IF PldHs(ckp) /\ wdt_last THEN "CRC" ELSE "PAYLOAD"
        /\ wdt_cntr' = IF PldHs(ckp) THEN NextWord ELSE wdt_cntr
        /\ wdt_last' = IF PldHs(ckp) THEN LastWord ELSE wdt_last
        /\ rd_not_started' = (rd_not_started /\ dat_line_not_busy /\ ~rx_pld_valid)
    BY <1>0 DEF WdtArms, WdtPayload, WdtGoto
  <2>3. /\ PldHs(ckp) <=> Ready(dl, ckp)
        /\ PldHs(ckp) => dl'.kind = "rd" /\ dl'.busy /\ ~dl.busy
                         /\ (dl'.stb <=> dl.kind = "rd" /\ dl.stb)
        /\ ~PldHs(ckp) => dl'.kind = dl.kind
        /\ rx_pld_valid' <=> PldHs(ckp) /\ dl.kind = "rd"
    BY <1>0, <2>1 DEF DatLaneEdge
  <2> QED BY <2>1, <2>2, <2>3
<1>5. wdt_cs' = "PAYLOAD" => wdt_cs \in {"START", "PAYLOAD"}
  BY <1>0
     DEF WdtArms, WdtIdleEdge, WdtCrc, WdtDummy, WdtRsp, WdtWait, WdtGoto, WdtType, WdtStates
(* A word that waits for its start bit while nothing was read.             *)
<1>6. wdt_cs = "PAYLOAD" /\ op.dir = "rd" /\ dl.kind = "dc" =>
        wdt_cntr >= 3 /\ ~wdt_last /\ ~rx_pld_valid /\ dat_line_not_busy
  BY <1>0, <1>1 DEF RdTimerInv
<1>7. wdt_cs = "PAYLOAD" /\ rd_not_started =>
        /\ op.dir = "rd" /\ wdt_cntr >= 2 /\ ~wdt_last /\ ~rx_pld_valid
        /\ dl.kind = "rd" => dl.busy /\ (dl.stb => ~dat_line_not_busy)
  BY <1>0, <1>1 DEF RdTimerInv, FlagInv
<1>7a. wdt_cs = "PAYLOAD" /\ op.dir = "rd" /\ wdt_cntr >= 2 =>
         IF PldHs(ckp) THEN ~wdt_last' /\ wdt_cntr' = wdt_cntr - 1
         ELSE wdt_last' = wdt_last /\ wdt_cntr' = wdt_cntr
  <2> SUFFICES ASSUME wdt_cs = "PAYLOAD", op.dir = "rd", wdt_cntr >= 2
               PROVE  IF PldHs(ckp) THEN ~wdt_last' /\ wdt_cntr' = wdt_cntr - 1
                      ELSE wdt_last' = wdt_last /\ wdt_cntr' = wdt_cntr
    OBVIOUS
  <2>1. wdt_cntr >= 1 /\ ~(wdt_cntr < 2)
    BY <1>2
  <2>2. ~LastWord
    BY <2>1 DEF LastWord
  <2> QED BY <1>4, <2>1, <2>2
<1>8. ASSUME cmd_cs' = "WAIT", op'.dir = "rd", en_timer \/ en_timer'
      PROVE  cmd_cs = "WAIT" /\ op' = op
  <2>1. cmd_cs \in {"DUMMY", "RSP", "WAIT"}
    BY <1>0, <1>8 DEF CmdEdge, CmdType, CmdStates
  <2>2. CASE cmd_cs = "DUMMY"
    <3>1. ~en_timer /\ rsp_cs # "START"
      BY <1>0, <1>1, <2>2 DEF RspTimerInv, EngineInv, RspInv
    <3> QED BY <1>8, <2>2, <3>1, TimerOff
  <2>3. CASE cmd_cs = "RSP"
    <3>1. rsp_cs = "CRC"
      BY <1>0, <1>8, <2>3 DEF CmdEdge
    <3>2. ~en_timer
      BY <1>1, <3>1 DEF RspTimerInv
    <3> QED BY <1>8, <2>3, <3>1, <3>2, TimerOff
  <2> QED BY <1>0, <2>1, <2>2, <2>3
<1>9. ASSUME cmd_cs = "WAIT", op.dir = "rd", en_timer
      PROVE  \/ wdt_cs = "START"
             \/ /\ wdt_cs = "PAYLOAD" /\ ~wdt_last
                /\ \/ wdt_cntr >= 2 /\ ~rx_pld_valid
                   \/ wdt_cntr >= 1 /\ dl.busy /\ rx_pld_valid
  BY <1>0, <1>1, <1>9 DEF RdTimerInv
<1>10. cmd_cs' = "WAIT" /\ op'.dir = "rd" /\ en_timer' => wdt_cs' \in {"START", "PAYLOAD"}
  <2> SUFFICES ASSUME cmd_cs' = "WAIT", op'.dir = "rd", en_timer'
               PROVE  wdt_cs' \in {"START", "PAYLOAD"}
    OBVIOUS
  <2>1. cmd_cs = "WAIT" /\ op.dir = "rd"
    BY <1>8
  <2>2. wdt_cs = "START" \/ (wdt_cs = "PAYLOAD" /\ ~wdt_last)
    <3>1. CASE en_timer
      BY <1>9, <2>1, <3>1
    <3>2. CASE ~en_timer
      <4>1. rd_not_started
        BY <1>1, <2>1, <3>2 DEF TimerEdge, TimerStarts, EngineInv, RspInv, DatLaneInv, DirInv
      <4> QED BY <1>0, <1>1, <1>7, <4>1 DEF FlagInv
    <3> QED BY <3>1, <3>2
  <2> QED BY <1>3, <1>4, <2>1, <2>2
<1>11. cmd_cs' = "WAIT" /\ op'.dir = "rd" /\ rsp_tmr1' > 0 =>
         wdt_cs' = "START" \/ (wdt_cs' = "PAYLOAD" /\ ~wdt_last' /\ wdt_cntr' >= 1)
  <2> SUFFICES ASSUME cmd_cs' = "WAIT", op'.dir = "rd", rsp_tmr1' > 0
               PROVE  wdt_cs' = "START" \/ (wdt_cs' = "PAYLOAD" /\ ~wdt_last' /\ wdt_cntr' >= 1)
    OBVIOUS
  <2>1. en_timer
    BY <1>1, <1>2 DEF TimerEdge
  <2>2. cmd_cs = "WAIT" /\ op.dir = "rd"
    BY <1>8, <2>1
  <2>3. CASE wdt_cs = "START"
    BY <1>3, <2>3
  <2>4. CASE wdt_cs = "PAYLOAD"
    <3>1. /\ ~wdt_last /\ wdt_cntr >= 1
          /\ PldHs(ckp) => wdt_cntr >= 2
      BY <1>2, <1>4, <1>9, <2>1, <2>2, <2>4
    <3> QED BY <1>7a, <1>2, <1>4, <2>2, <2>4, <3>1
  <2> QED BY <1>9, <2>1, <2>2, <2>3, <2>4
<1>12. cmd_cs' = "WAIT" /\ op'.dir = "rd" /\ en_timer' /\ wdt_cs' = "PAYLOAD" =>
         /\ ~wdt_last'
         /\ \/ wdt_cntr' >= 2 /\ ~rx_pld_valid'
            \/ wdt_cntr' >= 1 /\ dl'.busy /\ rx_pld_valid'
  <2> SUFFICES ASSUME cmd_cs' = "WAIT", op'.dir = "rd", en_timer', wdt_cs' = "PAYLOAD"
               PROVE  /\ ~wdt_last'
                      /\ \/ wdt_cntr' >= 2 /\ ~rx_pld_valid'
                         \/ wdt_cntr' >= 1 /\ dl'.busy /\ rx_pld_valid'
    OBVIOUS
  <2>1. cmd_cs = "WAIT" /\ op.dir = "rd"
    BY <1>8
  <2>2. CASE wdt_cs = "START"
    BY <1>2, <1>3, <2>2
  <2>3. CASE wdt_cs = "PAYLOAD"
    <3>1. ~wdt_last /\ wdt_cntr >= 2 /\ ~rx_pld_valid
      <4>1. CASE en_timer
        BY <1>1, <1>4, <1>9, <2>1, <2>3, <4>1 DEF TimerEdge, TimerStops
      <4>2. CASE ~en_timer
        <5>1. rd_not_started
          BY <1>1, <2>1, <2>3, <4>2 DEF TimerEdge, TimerStarts, EngineInv, RspInv
        <5> QED BY <1>7, <2>3, <5>1
      <4> QED BY <4>1, <4>2
    <3>2. CASE PldHs(ckp)
      BY <1>7a, <1>2, <1>4, <1>6, <2>1, <2>3, <3>1, <3>2
    <3>3. CASE ~PldHs(ckp)
      BY <1>4, <2>1, <2>3, <3>1, <3>3
    <3> QED BY <3>2, <3>3
  <2> QED BY <1>5, <2>2, <2>3
<1>13. ~rsp_timed_out' /\ op'.dir = "rd" /\ wdt_cs' = "PAYLOAD" /\ dl'.kind = "dc" =>
         wdt_cntr' >= 3 /\ ~wdt_last' /\ ~rx_pld_valid' /\ dat_line_not_busy'
  <2> SUFFICES ASSUME op'.dir = "rd", wdt_cs' = "PAYLOAD", dl'.kind = "dc"
               PROVE  wdt_cntr' >= 3 /\ ~wdt_last' /\ ~rx_pld_valid' /\ dat_line_not_busy'
    OBVIOUS
  <2>1. op' = op
    BY <1>0, <1>5
  <2>2. ~dl'.stb
    BY <1>1 DEF LineEdge, FlagInv
  <2>3. CASE wdt_cs = "START"
    BY <1>1, <1>3, <2>2, <2>3 DEF LineEdge
  <2>4. CASE wdt_cs = "PAYLOAD"
    BY <1>1, <1>4, <1>6, <2>1, <2>2, <2>4 DEF LineEdge
  <2> QED BY <1>5, <2>3, <2>4
<1>14. ~rsp_timed_out' /\ rd_not_started' /\ wdt_cs' = "PAYLOAD" =>
         /\ wdt_cntr' >= 2 /\ ~wdt_last' /\ ~rx_pld_valid'
         /\ dl'.kind = "rd" => dl'.busy /\ (dl'.stb => ~dat_line_not_busy')
  <2> SUFFICES ASSUME rd_not_started', wdt_cs' = "PAYLOAD"
               PROVE  /\ wdt_cntr' >= 2 /\ ~wdt_last' /\ ~rx_pld_valid'
                      /\ dl'.kind = "rd" => dl'.busy /\ (dl'.stb => ~dat_line_not_busy')
    OBVIOUS
  <2>1. CASE wdt_cs = "START"
    BY <1>2, <1>3, <2>1
  <2>2. CASE wdt_cs = "PAYLOAD"
    <3>1. rd_not_started /\ dat_line_not_busy /\ ~rx_pld_valid /\ op.dir = "rd"
      <4>1. rd_not_started
        BY <1>0, <2>2 DEF WdtArms, WdtPayload
      <4> QED BY <1>4, <1>7, <2>2, <4>1
    <3>2. CASE dl.kind = "dc"
      BY <1>7a, <1>2, <1>4, <1>6, <2>2, <3>1, <3>2
    <3>3. CASE dl.kind = "rd"
      <4>1. dl.busy /\ ~dl.stb /\ ~PldHs(ckp) /\ wdt_cntr >= 2 /\ ~wdt_last
        BY <1>4, <1>7, <2>2, <3>1, <3>3
      <4>2. dl'.busy
        BY <1>0, <1>4, <2>2, <3>1, <3>3, <4>1 DEF DatLaneEdge
      <4> QED BY <1>1, <1>4, <2>2, <3>1, <3>3, <4>1, <4>2 DEF LineEdge
    <3> QED BY <1>4, <2>2, <3>1, <3>2, <3>3
  <2> QED BY <1>5, <2>1, <2>2
<1>15. dat_tmr1_gt_timeout' => BlockAwaited' /\ (wdt_last' => dl'.busy)
  <2> SUFFICES ASSUME dat_tmr1_gt_timeout' PROVE BlockAwaited' /\ (wdt_last' => dl'.busy)
    OBVIOUS
  <2>1. DatOverdue
    BY <1>1 DEF TimerEdge, DatOverdue
  <2>2. BlockAwaited /\ ~wdt_last
    BY <1>0, <2>1, OverdueBlock
  <2> QED BY <1>4, <2>2, BlockAwaitedStep DEF BlockAwaited
<1>16. dat_en_restart' /\ recovery_cs' = "WAIT0" => BlockAwaited'
  BY <1>1, BlockAwaitedStep DEF RecoveryEdge, RdTimerInv
<1> QED BY <1>10, <1>11, <1>12, <1>13, <1>14, <1>15, <1>16 DEF RdTimerInv

(* A restart ends with the timer cleared, as every FSM is at rest by then. *)
LEMMA TimerRestart ==
  ASSUME TypeOK, EngineInv, DatLaneInv, TimerInv, DataHost, cmd_en_restart, Tick
  PROVE  TimerInv'
<1>1. PICK ckp, cends, dends, cstart, dstart, free, avail, dat0, busy, finish, bad :
           ChosenStep(ckp, cends, dends, cstart, dstart, free, avail, dat0, busy,
                      finish, bad)
  BY TickIsChosen
<1>2. /\ Timer(ckp) /\ Recovery /\ Host /\ CmdFsm(ckp) /\ RspFsm /\ CmdLane(ckp, cends, cstart)
      /\ DatLane(ckp, dends, dstart) /\ Device(ckp, dat0, busy) /\ WdtFsm(ckp, free, avail)
      /\ ckp \in BOOLEAN /\ cends \in BOOLEAN /\ cstart \in BOOLEAN /\ dends \in BOOLEAN
      /\ dstart \in BOOLEAN /\ dat0 \in BOOLEAN /\ busy \in BOOLEAN
      /\ busy => wdt_cs = "RSP"
  BY <1>1 DEF ChosenStep, BooleanStep, Step
<1>3. TimerEdge /\ LineEdge
  BY <1>2, TimerArms, LineArms
<1>4. cmd_cs' = "IDLE" /\ rsp_cs' = "IDLE" /\ wdt_cs' = "IDLE"
  <2>1. cmd_cs' = "IDLE"
    BY <1>2, CmdMoves
  <2>2. rsp_cs' = "IDLE"
    BY <1>2 DEF RspFsm, RspIdle, RspStart, RspArg, RspCrc, RspWait, RspGoto
  <2>3. wdt_cs' = "IDLE"
    BY <1>2
       DEF WdtFsm, WdtIdle, WdtStart, WdtPayload, WdtCrc, WdtDummy, WdtRsp, WdtWait, WdtGoto
  <2> QED BY <2>1, <2>2, <2>3
<1>5. /\ recovery_cs # "IDLE" /\ recovery_cs \in RecStates
      /\ recovery_cs # "WAIT0" => cmd_cs = "IDLE" /\ rsp_cs = "IDLE" /\ wdt_cs = "IDLE"
      /\ recovery_cs' = CASE recovery_cs = "WAIT0" -> "WAIT1"
                          [] recovery_cs = "WAIT1" -> "WAIT2"
                          [] recovery_cs = "WAIT2" -> "END"
                          [] OTHER -> "IDLE"
      /\ recovery_cs = "END" <=> ~cmd_en_restart'
  BY <1>2 DEF Recovery, RecIdle, RecCount, RecEnd, EngineInv, RestartInv, TypeOK, RecType, RecStates
<1>6. cmd_cs = "IDLE" /\ rsp_cs = "IDLE" /\ wdt_cs = "IDLE" => ~en_timer'
  BY <1>3 DEF TimerEdge, TimerStarts
<1>7. recovery_cs' \in {"IDLE", "WAIT2", "END"} => ~en_timer'
  BY <1>5, <1>6 DEF RecStates
<1>8. ~cmd_en_restart' => ~en_timer' /\ rsp_tmr1' = 0
  BY <1>3, <1>5, <1>6 DEF TimerInv, FlagInv, TimerEdge
<1>9. FlagInv'
  <2>1. (cl'.kind # "rd" => ~cl'.stb) /\ (dl'.kind # "rd" => ~dl'.stb)
    BY <1>3 DEF LineEdge, TimerInv, FlagInv
  <2>2. dev_busy' => cmd_en_restart'
    BY <1>3, <1>5 DEF LineEdge
  <2>3. rd_not_started' => op'.dir = "rd" /\ cmd_en_restart'
    <3>1. rd_not_started' => wdt_cs # "IDLE" /\ op.dir = "rd"
      BY <1>2
         DEF WdtFsm, WdtIdle, WdtStart, WdtPayload, WdtCrc, WdtDummy, WdtRsp, WdtWait,
             TimerInv, FlagInv, DatLaneInv, DirInv
    <3>2. wdt_cs # "IDLE" => op' = op
      BY <1>2, OpStable DEF DatLaneInv, DirInv
    <3> QED BY <1>5, <3>1, <3>2
  <2>4. pld_crc_en' => cmd_en_restart'
    BY <1>2, <1>5
       DEF WdtFsm, WdtIdle, WdtStart, WdtPayload, WdtCrc, WdtDummy, WdtRsp, WdtWait
  <2>5. ~rsp_timed_out' => ~rsp_timed_out /\ dat_en_restart
    BY <1>2 DEF Host, DatLaneInv, TimedOutInv
  <2>6. dl'.crc => rsp_timed_out'
    BY <1>2, <2>5 DEF DatLane, LaneNext, Quiet
  <2>7. rx_pld_end' => rsp_timed_out'
    <3>1. rx_pld_end' => dl.crc
      BY <1>2 DEF DatLane
    <3>2. ~rsp_timed_out' => wdt_cs # "DUMMY"
      BY <1>5, <2>5 DEF TimerInv, RdTimerInv, BlockAwaited
    <3> QED BY <2>5, <3>1, <3>2 DEF TimerInv, FlagInv
  <2>8. hit_rsp_tmr0_max' => rsp_tmr0' = 0
    BY <1>3 DEF TimerEdge
  <2> QED BY <1>4, <1>7, <2>1, <2>2, <2>3, <2>4, <2>6, <2>7, <2>8 DEF FlagInv
<1>10. RspTimerInv'
  <2>1. rsp_tmr1_gt_timeout' => recovery_cs' = "WAIT1"
    BY <1>3, <1>5 DEF TimerEdge
  <2> QED BY <1>4, <1>5, <1>8, <2>1 DEF RspTimerInv, RecStates
<1>11. WrTimerInv'
  <2>1. ~cmd_en_restart' => ~(rsp_tmr1' > 0)
    BY <1>8
  <2> QED BY <1>4, <1>8, <2>1 DEF WrTimerInv
<1>12. RdTimerInv'
  <2>1. dat_tmr1_gt_timeout' => recovery_cs' = "WAIT1"
    BY <1>3, <1>5 DEF TimerEdge
  <2> QED BY <1>4, <1>5, <2>1 DEF RdTimerInv, RecStates
<1> QED BY <1>9, <1>10, <1>11, <1>12 DEF TimerInv

(* Every edge keeps the invariant of the timer.                            *)
LEMMA TimerTick ==
  ASSUME TypeOK, EngineInv, CmdLaneInv, DatLaneInv, TimerInv, DataHost, TimeoutOrder, Tick
  PROVE  TimerInv'
<1>1. CASE cmd_en_restart
  BY <1>1, TimerRestart
<1>2. CASE ~cmd_en_restart
  <2>1. PICK ckp \in BOOLEAN : TimerPath(ckp)
    BY <1>2, TimerPathTick
  <2>2. FlagInv' /\ RspTimerInv' /\ WrTimerInv' /\ RdTimerInv'
    BY <2>1, FlagKept, RspTimerKept, WrTimerKept, RdTimerKept
  <2> QED BY <2>2 DEF TimerInv
<1> QED BY <1>1, <1>2

(* Both resets clear the timer.                                            *)
LEMMA TimerInit == Init => TimerInv
BY DEF Init, CtlInit, Quiet, TimerInv, FlagInv, RspTimerInv, WrTimerInv, RdTimerInv

(* The software reset clears the timer.                                    *)
LEMMA TimerReset == ASSUME SoftReset PROVE TimerInv'
BY DEF SoftReset, Quiet, TimerInv, FlagInv, RspTimerInv, WrTimerInv, RdTimerInv

(* Every step of the specification keeps it.                               *)
LEMMA TimerNext ==
  ASSUME TypeOK, EngineInv, CmdLaneInv, DatLaneInv, TimerInv, DataHost, TimeoutOrder,
         [Next]_vars
  PROVE  TimerInv'
<1>1. CASE Tick BY <1>1, TimerTick
<1>2. CASE SoftReset BY <1>2, TimerReset
<1>3. CASE UNCHANGED vars
  <2> USE <1>3 DEF vars, hostVars, cmdVars, rspVars, wdtVars, blkVars, tmrVars, recVars,
                   laneVars, envVars
  <2>1. FlagInv' BY DEF TimerInv, FlagInv, WdtCntrInit
  <2>2. RspTimerInv' BY DEF TimerInv, RspTimerInv
  <2>3. WrTimerInv' BY DEF TimerInv, WrTimerInv
  <2>4. RdTimerInv' BY DEF TimerInv, RdTimerInv, BlockAwaited
  <2> QED BY <2>1, <2>2, <2>3, <2>4 DEF TimerInv
<1> QED BY <1>1, <1>2, <1>3 DEF Next

(* The shared timer runs for a response, a status token or a block that is *)
(* awaited, and what it has counted for one never counts for the next.     *)
THEOREM TimerInvariant == ASSUME DataHost, TimeoutOrder PROVE Spec => []TimerInv
<1>1. Init => /\ TypeOK /\ EngineInv /\ CmdLaneInv /\ SavedInv /\ DatLaneInv
              /\ TimerInv
  BY InitTyped, EngineInvInit, CmdLaneInit, DatLaneInit, TimerInit
<1>2. /\ TypeOK /\ EngineInv /\ CmdLaneInv /\ SavedInv /\ DatLaneInv /\ TimerInv /\ [Next]_vars
      => TypeOK' /\ EngineInv' /\ CmdLaneInv' /\ SavedInv' /\ DatLaneInv' /\ TimerInv'
  BY NextTyped, EngineInvNext, CmdLaneNext, DatLaneNext, TimerNext
<1> QED BY <1>1, <1>2, PTL DEF Spec

(* The data timer blames the device for its block only: the response of    *)
(* the read has been captured whole when the data timeout is raised.       *)
LEMMA DatTimeoutTick ==
  ASSUME TypeOK, EngineInv, CmdLaneInv, SavedInv, DatLaneInv, TimerInv, DataHost,
         TimeoutOrder, Tick
  PROVE  DatTimeoutAfterRsp'
<1> SUFFICES ASSUME dat_tmr1_gt_timeout'
             PROVE  op'.dir = "rd" /\ saved_rsp' = ResponseRegs'
  BY DEF DatTimeoutAfterRsp
<1>1. Host /\ RspFsm /\ DatOverdue
  <2>1. PICK ckp, cends, dends, cstart, dstart, free, avail, dat0, busy, finish, bad :
             BooleanStep(ckp, cends, dends, cstart, dstart, free, avail, dat0, busy,
                         finish, bad)
    BY TickIsStep
  <2>2. Timer(ckp) /\ Host /\ RspFsm /\ ckp \in BOOLEAN
    BY <2>1 DEF BooleanStep, Step
  <2> QED BY <2>2, TimerArms DEF TimerEdge, DatOverdue
<1>2. BlockAwaited
  <2>1. CASE ~cmd_en_restart
    BY <1>1, <2>1, OverdueBlock
  <2>2. CASE cmd_en_restart
    <3>1. recovery_cs = "WAIT0"
      BY <1>1, <2>2 DEF EngineInv, RestartInv, DatOverdue, TypeOK, RecType, RecStates
    <3>2. dat_en_restart
      <4>1. rsp_tmr1 \in Nat /\ CmdTimeout \in Nat /\ DatTimeout \in Nat
        BY SizeAssumption DEF TypeOK, TmrType
      <4>2. ASSUME ~dat_en_restart PROVE rsp_cs \in {"START", "ARG"}
        BY <3>1, <4>2 DEF TimerInv, RspTimerInv
      <4>3. ASSUME ~dat_en_restart PROVE op.dir = "rd"
        <5>1. cmd_cs = "RSP" /\ wdt_cs = "PAYLOAD"
          BY <1>1, <4>2, <4>3 DEF EngineInv, RspInv, DatOverdue
        <5> QED BY <5>1 DEF DatLaneInv, DirInv
      <4>4. ASSUME ~dat_en_restart PROVE CmdTimeout < DatTimeout
        BY <4>3, <4>4 DEF TimeoutOrder, DatLaneInv, OpInv
      <4> QED BY <1>1, <4>1, <4>2, <4>4 DEF TimerInv, RspTimerInv, DatOverdue
    <3> QED BY <3>1, <3>2 DEF TimerInv, RdTimerInv
  <2> QED BY <2>1, <2>2
<1>3. op' = op
  BY <1>1, <1>2, OpStable DEF BlockAwaited
<1>4. saved_rsp' = saved_rsp
  BY <1>1, <1>2 DEF RspFsm, SaveResponse, BlockAwaited
<1> QED BY <1>2, <1>3, <1>4 DEF BlockAwaited, SavedInv, ResponseRegs

(* A data timeout is raised for a read whose response has been saved       *)
(* whole: the timer that DAT0 shares with the response never reports a     *)
(* lost block for a command that is still being answered.                  *)
THEOREM DatTimeoutIsAfterRsp ==
  ASSUME DataHost, TimeoutOrder PROVE Spec => []DatTimeoutAfterRsp
<1>1. Init => DatTimeoutAfterRsp
  BY DEF Init, CtlInit, DatTimeoutAfterRsp
<1>2. TypeOK /\ EngineInv /\ CmdLaneInv /\ SavedInv /\ DatLaneInv /\ TimerInv
      /\ DatTimeoutAfterRsp /\ [Next]_vars => DatTimeoutAfterRsp'
  <2> SUFFICES ASSUME TypeOK, EngineInv, CmdLaneInv, SavedInv, DatLaneInv, TimerInv,
                      DatTimeoutAfterRsp, [Next]_vars
               PROVE  DatTimeoutAfterRsp'
    OBVIOUS
  <2>1. CASE Tick BY <2>1, DatTimeoutTick
  <2>2. CASE SoftReset BY <2>2 DEF SoftReset, DatTimeoutAfterRsp
  <2>3. CASE UNCHANGED vars
    BY <2>3 DEF vars, hostVars, rspVars, tmrVars, DatTimeoutAfterRsp, ResponseRegs
  <2> QED BY <2>1, <2>2, <2>3 DEF Next
<1> QED BY <1>1, <1>2, TypeCorrect, EngineInvariant, CmdLaneInvariant, DatLaneInvariant,
        TimerInvariant, PTL DEF Spec

(* A CRC error is raised while the command is busy, or after a response    *)
(* timeout that has been reported already.                                 *)
LEMMA ErrTick ==
  ASSUME TypeOK, EngineInv, CmdLaneInv, DatLaneInv, TimerInv, DataHost, Tick
  PROVE  ErrInTime'
<1> SUFFICES ASSUME det_cmd_crc_err' \/ det_pld_crc_err', ~rsp_timed_out'
             PROVE  det_emmc_start'
  BY DEF ErrInTime
<1>1. PICK ckp, cends, dends, cstart, dstart, free, avail, dat0, busy, finish, bad :
           BooleanStep(ckp, cends, dends, cstart, dstart, free, avail, dat0, busy,
                       finish, bad)
  BY TickIsStep
<1>2. CmdFsm(ckp) /\ Host /\ Blocks(ckp, bad) /\ ckp \in BOOLEAN /\ bad \in BOOLEAN
  BY <1>1 DEF BooleanStep, Step
<1>3. ~rsp_timed_out
  BY <1>2 DEF Host
<1>4. \/ rsp_cs = "CRC" /\ rx_cmd_valid
      \/ wdt_cs = "DUMMY"
      \/ xfer_done /\ wait_wr_data
  <2>1. \/ rsp_cs = "CRC" /\ rx_cmd_valid
        \/ rx_pld_end
        \/ xfer_done /\ wait_wr_data
    BY <1>2 DEF Blocks
  <2> QED BY <1>3, <2>1 DEF TimerInv, FlagInv
<1>5. ~cmd_en_restart
  <2> SUFFICES ASSUME cmd_en_restart PROVE FALSE
    OBVIOUS
  <2>1. dat_en_restart
    BY <1>3 DEF DatLaneInv, TimedOutInv
  <2>2. recovery_cs = "WAIT0" => rsp_cs = "IDLE" /\ wdt_cs = "PAYLOAD"
    BY <2>1 DEF TimerInv, RdTimerInv, BlockAwaited
  <2>3. recovery_cs # "WAIT0" => rsp_cs = "IDLE" /\ wdt_cs = "IDLE" /\ ~wait_wr_data
    BY DEF EngineInv, RestartInv, TypeOK, RecType, RecStates
  <2> QED BY <1>4, <2>2, <2>3 DEF DatLaneInv, XferInv
<1>6. cmd_cs \in {"RSP", "WAIT"} /\ ~(cmd_cs = "WAIT" /\ det_emmc_done)
  <2>1. CASE rsp_cs = "CRC" /\ rx_cmd_valid
    BY <1>5, <2>1 DEF CmdLaneInv, RspStateInv, CmdWaitInv
  <2>2. CASE wdt_cs = "DUMMY"
    BY <2>2 DEF EngineInv, DataInv, DoneInv
  <2>3. CASE xfer_done /\ wait_wr_data
    BY <2>3 DEF EngineInv, DataInv, DoneInv
  <2> QED BY <1>4, <2>1, <2>2, <2>3
<1>7. det_emmc_start
  BY <1>6 DEF EngineInv, BusyInv
<1> QED BY <1>2, <1>5, <1>6, <1>7
        DEF CmdFsm, CmdIdle, CmdBoot, CmdSendStart, CmdSendArg, CmdSendCrc, CmdDummy,
            CmdRsp, CmdWait, CmdStay, CmdGoto

(* A CRC error of the response, of a block or of a status token is raised  *)
(* while its command is still busy, so that the status that the driver     *)
(* reads at the end has it.                                                *)
THEOREM ErrorsInTime == ASSUME DataHost, TimeoutOrder PROVE Spec => []ErrInTime
<1>1. Init => ErrInTime
  BY DEF Init, CtlInit, ErrInTime
<1>2. TypeOK /\ EngineInv /\ CmdLaneInv /\ SavedInv /\ DatLaneInv /\ TimerInv
      /\ ErrInTime /\ [Next]_vars => ErrInTime'
  <2> SUFFICES ASSUME TypeOK, EngineInv, CmdLaneInv, DatLaneInv, TimerInv, ErrInTime,
                      [Next]_vars
               PROVE  ErrInTime'
    OBVIOUS
  <2>1. CASE Tick BY <2>1, ErrTick
  <2>2. CASE SoftReset BY <2>2 DEF SoftReset, ErrInTime
  <2>3. CASE UNCHANGED vars
    BY <2>3 DEF vars, hostVars, cmdVars, blkVars, ErrInTime
  <2> QED BY <2>1, <2>2, <2>3 DEF Next
<1> QED BY <1>1, <1>2, TypeCorrect, EngineInvariant, CmdLaneInvariant, DatLaneInvariant,
        TimerInvariant, PTL DEF Spec

----------------------------------------------------------------------------
(* The words and blocks of a command.  The facts of this part hold for     *)
(* blocks that the word counter is loaded for (cmd_proc_long_block shows   *)
(* the others) and for data commands that have a response, as all have.    *)
WordHost ==
  BlockWords <= MIN_BLOCK /\ \A o \in Ops : o.dir \in {"rd", "wr"} => o.rsp # "R0"

Waits == wait_rd_data \/ wait_wr_data

(* A command begins with its counts at zero, and when it has left its data *)
(* behind they are whole.                                                  *)
CountEndsInv ==
  /\ det_emmc_start /\ cmd_cs # "WAIT" /\ ~Waits =>
       dev_words = 0 /\ mem_words = 0 /\ blk_cntr = 0
  /\ cmd_cs = "WAIT" /\ op.dir \in {"rd", "wr"} /\ ~Waits =>
       dev_words = op.blocks * BlockWords /\ mem_words = op.blocks * BlockWords

(* The word counter says how much is left of a block, and the block        *)
(* counter how many are through; its comparison is an edge late.           *)
CounterInv ==
  /\ wdt_cs = "START" => wdt_cntr = BlockWords
  /\ wdt_cs = "PAYLOAD" => wdt_cntr < BlockWords /\ (wdt_last <=> wdt_cntr = 0)
  /\ Waits /\ wdt_cs \in {"IDLE", "START", "PAYLOAD"} => blk_cntr < op.blocks
  /\ Waits => blk_cntr <= op.blocks
  /\ Waits /\ (wdt_cs \in {"DUMMY", "RSP", "WAIT"} \/ (wdt_cs = "CRC" /\ ~dl.busy)) =>
       (all_blocks_done <=> blk_cntr = op.blocks)

(* The words of the block under way that the device has had or sent, and   *)
(* those that have been fetched for it; the words of a read that are on    *)
(* the data lane or come out of it.                                        *)
OfBlock == IF wdt_cs = "PAYLOAD" THEN BlockWords - 1 - wdt_cntr ELSE 0
Fetched == IF wdt_cs = "PAYLOAD" THEN BlockWords - wdt_cntr ELSE 0
OnLane == (IF dl.kind = "rd" /\ ~dl.crc THEN 1 ELSE 0)
          + (IF rx_pld_valid /\ ~rx_pld_end THEN 1 ELSE 0)

MovedInv ==
  /\ Waits => dev_words = blk_cntr * BlockWords + OfBlock
  /\ wait_wr_data => mem_words = blk_cntr * BlockWords + Fetched
  /\ wait_rd_data /\ ~rsp_timed_out => dev_words = mem_words + OnLane
  /\ wait_rd_data /\ emmc_req_done => mem_words = op.blocks * BlockWords

CountInv == CountEndsInv /\ CounterInv /\ MovedInv

----------------------------------------------------------------------------
(* One edge of the counts of words, of the bus manager's answer and of the *)
(* engine's busy flag.                                                     *)
WordsEdge(hs) ==
  /\ dev_words' = IF cmd_start THEN 0
                  ELSE IF wdt_cs = "PAYLOAD" /\ hs THEN dev_words + 1 ELSE dev_words
  /\ mem_words' = IF cmd_start THEN 0
                  ELSE IF \/ wait_rd_data /\ rx_pld_valid /\ ~rx_pld_end
                          \/ /\ wait_wr_data /\ hs /\ ~wdt_last
                             /\ wdt_cs \in {"START", "PAYLOAD"}
                       THEN mem_words + 1 ELSE mem_words
  /\ emmc_req_done' => Waits /\ (emmc_req_done \/ MayFinish)
  /\ det_emmc_start' => IF cmd_cs = "IDLE" THEN det_emmc_start \/ cmd_start
                        ELSE ~(cmd_cs = "WAIT" /\ det_emmc_done)
  /\ cmd_start => cmd_cs = "IDLE" /\ ~det_emmc_start
  /\ cmd_cs # "IDLE" => det_emmc_start
  /\ Waits => cmd_cs \in {"RSP", "WAIT"}
  /\ EnvType /\ EnvType'

CountPath(ckp) == DatPath(ckp) /\ WordsEdge(PldHs(ckp))

(* Every edge that does not restart the engine is one of them.             *)
LEMMA CountPathTick ==
  ASSUME TypeOK, EngineInv, CmdLaneInv, DatLaneInv, ~cmd_en_restart, Tick
  PROVE  \E ckp \in BOOLEAN : CountPath(ckp)
<1>1. PICK ckp, cends, dends, cstart, dstart, free, avail, dat0, busy, finish, bad :
           ChosenStep(ckp, cends, dends, cstart, dstart, free, avail, dat0, busy,
                      finish, bad)
  BY TickIsChosen
<1>2. ckp \in BOOLEAN /\ DatPath(ckp)
  BY <1>1, DatPathStep DEF DatLaneInv, TimedOutInv
<1>3. /\ CmdFsm(ckp) /\ Device(ckp, dat0, busy) /\ BusManager(ckp, finish)
      /\ finish \in BOOLEAN
  BY <1>1 DEF ChosenStep, BooleanStep, Step
<1>4. ~dat_en_restart
  BY DEF DatLaneInv, TimedOutInv
<1>5. PldHs(ckp) \in BOOLEAN /\ EnvType /\ EnvType'
  BY TickTyped DEF PldHs, Ready, TypeOK
<1>6. dev_words' = IF cmd_start THEN 0
                   ELSE IF wdt_cs = "PAYLOAD" /\ PldHs(ckp) THEN dev_words + 1 ELSE dev_words
  <2> HIDE DEF PldHs
  <2> QED BY <1>3, <1>4, <1>5 DEF Device
<1>7. /\ mem_words' = IF cmd_start THEN 0
                      ELSE IF MemAccess(ckp) THEN mem_words + 1 ELSE mem_words
      /\ emmc_req_done' => Waits /\ (emmc_req_done \/ MayFinish)
  BY <1>3 DEF BusManager, Waits
<1>8. /\ det_emmc_start' => IF cmd_cs = "IDLE" THEN det_emmc_start \/ cmd_start
                            ELSE ~(cmd_cs = "WAIT" /\ det_emmc_done)
      /\ cmd_start => cmd_cs = "IDLE" /\ ~det_emmc_start
      /\ cmd_cs # "IDLE" => det_emmc_start
      /\ Waits => cmd_cs \in {"RSP", "WAIT"}
  <2>1. det_emmc_start' <=> IF cmd_cs = "IDLE" THEN det_emmc_start \/ cmd_start
                            ELSE det_emmc_start /\ ~(cmd_cs = "WAIT" /\ det_emmc_done)
    BY <1>2, <1>3, CmdMoves
  <2> QED BY <2>1 DEF EngineInv, BusyInv, HostInv, DataInv, Waits
<1>9. WordsEdge(PldHs(ckp))
  BY <1>5, <1>6, <1>7, <1>8 DEF WordsEdge, MemAccess
<1> QED BY <1>2, <1>9 DEF CountPath

(* What the counters and the data FSM do on an edge, word by word.         *)
BlockEdge(hs) ==
  /\ hs \in BOOLEAN
  /\ Waits /\ Waits' => wait_rd_data' = wait_rd_data /\ wait_wr_data' = wait_wr_data
  /\ ~Waits /\ Waits' => /\ cmd_cs = "RSP" /\ wdt_cs = "IDLE" /\ wdt_cs' = "IDLE"
                         /\ op' = op /\ op.dir \in {"rd", "wr"}
  /\ Waits /\ ~Waits' => /\ wdt_cs = "WAIT"
                         /\ wait_wr_data => all_blocks_done
                         /\ wait_rd_data => emmc_req_done
  /\ Waits /\ Waits' /\ wdt_cs = "WAIT" => /\ wait_wr_data => ~all_blocks_done
                                           /\ wait_rd_data => ~emmc_req_done
  /\ ~(wait_rd_data /\ wait_wr_data)
  /\ ~Waits => wdt_cs \in {"IDLE", "WAIT"} /\ blk_cntr' = 0
  /\ Waits => /\ op' = op /\ ~rsp_timed_out /\ ~cmd_start
              /\ wait_rd_data => op.dir = "rd"
              /\ wait_wr_data => op.dir = "wr"
  /\ Waits => IF wdt_cs = "PAYLOAD" /\ wdt_cntr = 0 /\ hs THEN blk_cntr' = blk_cntr + 1
              ELSE blk_cntr' = blk_cntr
  /\ all_blocks_done' <=> blk_cntr = op.blocks
  /\ wdt_cs = "IDLE" => /\ wdt_cs' \in {"IDLE", "START"}
                        /\ wdt_cs' = "START" => Waits /\ wdt_cntr' = BlockWords
  /\ wdt_cs = "START" =>
       IF hs THEN wdt_cs' = "PAYLOAD" /\ wdt_cntr' = BlockWords - 1 /\ ~wdt_last'
       ELSE wdt_cs' = "START" /\ wdt_cntr' = wdt_cntr
  /\ wdt_cs = "PAYLOAD" =>
       IF ~hs THEN wdt_cs' = "PAYLOAD" /\ wdt_cntr' = wdt_cntr /\ wdt_last' = wdt_last
       ELSE IF wdt_cntr = 0 THEN wdt_cs' = "CRC" /\ dl'.busy
       ELSE wdt_cs' = "PAYLOAD" /\ wdt_cntr' = wdt_cntr - 1 /\ (wdt_last' <=> wdt_cntr = 1)
  /\ wdt_cs = "CRC" => wdt_cs' = (IF hs THEN "DUMMY" ELSE "CRC")
  /\ wdt_cs = "DUMMY" => wdt_cs' \in {"DUMMY", "RSP", "WAIT"}
  /\ wdt_cs = "RSP" => wdt_cs' \in {"RSP", "WAIT"}
  /\ wdt_cs = "WAIT" => /\ wdt_cs' \in {"IDLE", "WAIT"}
                        /\ wdt_cs' = "IDLE" => ~all_blocks_done \/ emmc_req_done

(* The ranges that the counts of blocks and words have.                    *)
LEMMA CountRanges ==
  ASSUME DatLaneInv, NEW ckp \in BOOLEAN, CountPath(ckp)
  PROVE  /\ BlockWords \in Nat /\ BlockWords >= 4 /\ BlkMod \in Nat
         /\ blk_cntr \in Nat /\ op.blocks \in Nat /\ op.blocks < BlkMod
         /\ dev_words \in Nat /\ mem_words \in Nat /\ wdt_cntr \in Nat
         /\ dev_words' \in Nat /\ mem_words' \in Nat /\ wdt_cntr' \in Nat /\ blk_cntr' \in Nat
         /\ wdt_cs \in WdtStates /\ wdt_cs' \in WdtStates /\ wdt_last \in BOOLEAN
<1>1. /\ WdtType /\ WdtType' /\ BlkType /\ BlkType' /\ EnvType /\ EnvType' /\ op \in OpType
  BY OpsAssumption DEF CountPath, DatPath, WordsEdge, DatLaneInv, OpInv
<1>2. /\ BlockWords \in Nat /\ BlockWords >= 4 /\ BlkMod \in Nat /\ MAX_BLOCK \in Nat
      /\ BlkMod >= 2
  BY SizeAssumption
<1>3. op.blocks \in Nat /\ op.blocks < BlkMod
  BY <1>1, <1>2 DEF OpType
<1>4. /\ blk_cntr \in Nat /\ blk_cntr' \in Nat
  BY <1>1, <1>2 DEF BlkType
<1>5. /\ wdt_cntr \in Nat /\ wdt_cntr' \in Nat /\ wdt_last \in BOOLEAN
      /\ wdt_cs \in WdtStates /\ wdt_cs' \in WdtStates
  BY <1>1, <1>2 DEF WdtType
<1> QED BY <1>1, <1>2, <1>3, <1>4, <1>5 DEF EnvType

(* An edge of the data path moves the counters like that.                  *)
LEMMA BlockArms ==
  ASSUME CmdLaneInv, EngineInv, DatLaneInv, CountInv, DataHost, WordHost,
         NEW ckp \in BOOLEAN, CountPath(ckp)
  PROVE  BlockEdge(PldHs(ckp))
<1> DEFINE hs == PldHs(ckp)  ready == Ready(dl, ckp)
<1>1. /\ DatLaneEdge(hs, ready) /\ WdtArms(ckp) /\ BlocksEdge(ready)
      /\ ~cmd_en_restart /\ ~dat_en_restart /\ WdtType /\ BlkType /\ DatPath(ckp)
      /\ hs \in BOOLEAN /\ ready \in BOOLEAN
  BY DEF CountPath, DatPath, CmdPath, PldHs, Ready
<1>2. ASSUME wdt_cs # "IDLE" \/ Waits
      PROVE  /\ op' = op /\ cmd_cs \in {"RSP", "WAIT"} /\ op.dir \in {"rd", "wr"}
             /\ ~rsp_timed_out /\ DatKind \in {"rd", "wr"}
  BY <1>1, <1>2, BlockOpStable DEF Waits, DatKind
<1>3. /\ wait_rd_data => op.dir = "rd"
      /\ wait_wr_data => op.dir = "wr"
      /\ wdt_cs \notin {"IDLE", "WAIT"} => Waits
      /\ wdt_last => wdt_cs = "PAYLOAD"
      /\ cmd_cs = "RSP" /\ op.dir \in {"rd", "wr"} => wdt_cs # "WAIT"
  BY <1>1 DEF DatLaneInv, DirInv, XferInv, Waits
<1>4. wdt_cs = "PAYLOAD" => (hs <=> ready) /\ pld_kind # "dc"
  BY <1>1, <1>2 DEF DatLaneInv, DatWordInv, DatLaneEdge
<1>5. /\ NextWord = wdt_cntr - 1 \/ wdt_cntr < 1
      /\ BlockWords \in Nat /\ BlockWords >= 4 /\ wdt_cntr \in Nat /\ blk_cntr \in Nat
      /\ op.blocks \in Nat /\ op.blocks < BlkMod /\ BlkMod \in Nat
  BY <1>1, CountRanges, NextWordIs
<1>6. WdtCntrInit = BlockWords
  BY DEF WdtCntrInit, WordHost
<1> HIDE DEF hs, ready
<1>7. /\ Waits /\ Waits' => wait_rd_data' = wait_rd_data /\ wait_wr_data' = wait_wr_data
      /\ ~Waits /\ Waits' => /\ cmd_cs = "RSP" /\ wdt_cs = "IDLE" /\ wdt_cs' = "IDLE"
                             /\ op' = op /\ op.dir \in {"rd", "wr"}
      /\ Waits /\ ~Waits' => /\ wdt_cs = "WAIT"
                             /\ wait_wr_data => all_blocks_done
                             /\ wait_rd_data => emmc_req_done
      /\ Waits /\ Waits' /\ wdt_cs = "WAIT" => /\ wait_wr_data => ~all_blocks_done
                                               /\ wait_rd_data => ~emmc_req_done
  <2>1. BlkType' /\ wdt_cs \in WdtStates
    BY <1>1 DEF DatPath, WdtType
  <2>2. ~Waits /\ Waits' => /\ cmd_cs = "RSP" /\ wdt_cs = "IDLE"
                            /\ op' = op /\ op.dir \in {"rd", "wr"}
    BY <1>1, <1>3, <2>1 DEF BlocksEdge, Waits, WdtStates, DatPath, CmdPath
  <2>3. wdt_cs = "IDLE" /\ ~Waits => wdt_cs' = "IDLE"
    BY <1>1 DEF WdtArms, WdtIdleEdge, Waits
  <2>4. Waits /\ Waits' => wait_rd_data' = wait_rd_data /\ wait_wr_data' = wait_wr_data
    BY <1>1, <1>3, <2>1 DEF BlocksEdge, Waits, BlkType
  <2>5. Waits /\ ~Waits' => /\ wdt_cs = "WAIT"
                            /\ wait_wr_data => all_blocks_done
                            /\ wait_rd_data => emmc_req_done
    BY <1>1 DEF BlocksEdge, Waits
  <2>6. Waits /\ Waits' /\ wdt_cs = "WAIT" => /\ wait_wr_data => ~all_blocks_done
                                              /\ wait_rd_data => ~emmc_req_done
    BY <1>1, <2>4 DEF BlocksEdge, Waits
  <2> QED BY <2>2, <2>3, <2>4, <2>5, <2>6
<1>8. Waits => IF wdt_cs = "PAYLOAD" /\ wdt_cntr = 0 /\ hs THEN blk_cntr' = blk_cntr + 1
               ELSE blk_cntr' = blk_cntr
  <2> SUFFICES ASSUME Waits
               PROVE  IF wdt_cs = "PAYLOAD" /\ wdt_cntr = 0 /\ hs THEN blk_cntr' = blk_cntr + 1
                      ELSE blk_cntr' = blk_cntr
    OBVIOUS
  <2>1. blk_cntr' = IF wdt_last /\ ready THEN (blk_cntr + 1) % BlkMod ELSE blk_cntr
    BY <1>1 DEF BlocksEdge, Waits
  <2>2. wdt_last <=> wdt_cs = "PAYLOAD" /\ wdt_cntr = 0
    BY <1>1, <1>3 DEF CountInv, CounterInv, WdtType
  <2>3. wdt_last => (blk_cntr + 1) % BlkMod = blk_cntr + 1
    <3>1. wdt_last => blk_cntr < op.blocks
      BY <2>2 DEF CountInv, CounterInv
    <3> QED BY <1>5, <3>1
  <2> QED BY <1>4, <2>1, <2>2, <2>3
<1>9. /\ ~Waits => wdt_cs \in {"IDLE", "WAIT"} /\ blk_cntr' = 0
      /\ all_blocks_done' <=> blk_cntr = op.blocks
  BY <1>1, <1>3 DEF BlocksEdge, Waits, WdtType, WdtStates
<1>10. /\ wdt_cs = "IDLE" => /\ wdt_cs' \in {"IDLE", "START"}
                             /\ wdt_cs' = "START" => Waits /\ wdt_cntr' = BlockWords
       /\ wdt_cs = "CRC" => wdt_cs' = (IF hs THEN "DUMMY" ELSE "CRC")
       /\ wdt_cs = "DUMMY" => wdt_cs' \in {"DUMMY", "RSP", "WAIT"}
       /\ wdt_cs = "RSP" => wdt_cs' \in {"RSP", "WAIT"}
       /\ wdt_cs = "WAIT" => /\ wdt_cs' \in {"IDLE", "WAIT"}
                             /\ wdt_cs' = "IDLE" => ~all_blocks_done \/ emmc_req_done
  BY <1>1, <1>6
     DEF WdtArms, WdtIdleEdge, WdtCrc, WdtDummy, WdtRsp, WdtWait, WdtGoto, Waits, hs
<1>11. wdt_cs = "START" =>
         IF hs THEN wdt_cs' = "PAYLOAD" /\ wdt_cntr' = BlockWords - 1 /\ ~wdt_last'
         ELSE wdt_cs' = "START" /\ wdt_cntr' = wdt_cntr
  <2> SUFFICES ASSUME wdt_cs = "START"
               PROVE  IF hs THEN wdt_cs' = "PAYLOAD" /\ wdt_cntr' = BlockWords - 1 /\ ~wdt_last'
                      ELSE wdt_cs' = "START" /\ wdt_cntr' = wdt_cntr
    OBVIOUS
  <2>1. /\ wdt_cs' = (IF hs THEN "PAYLOAD" ELSE "START") /\ wdt_last' = wdt_last
        /\ wdt_cntr' = IF hs THEN NextWord ELSE wdt_cntr
    BY <1>1 DEF WdtArms, WdtStart, WdtGoto, hs
  <2>2. wdt_cntr = BlockWords /\ ~wdt_last
    BY <1>3 DEF CountInv, CounterInv
  <2>3. NextWord = BlockWords - 1
    BY <1>5, <2>2
  <2> QED BY <2>1, <2>2, <2>3
<1>12. wdt_cs = "PAYLOAD" =>
         IF ~hs THEN wdt_cs' = "PAYLOAD" /\ wdt_cntr' = wdt_cntr /\ wdt_last' = wdt_last
         ELSE IF wdt_cntr = 0 THEN wdt_cs' = "CRC" /\ dl'.busy
         ELSE wdt_cs' = "PAYLOAD" /\ wdt_cntr' = wdt_cntr - 1 /\ (wdt_last' <=> wdt_cntr = 1)
  <2> SUFFICES ASSUME wdt_cs = "PAYLOAD"
               PROVE  IF ~hs THEN wdt_cs' = "PAYLOAD" /\ wdt_cntr' = wdt_cntr /\ wdt_last' = wdt_last
                      ELSE IF wdt_cntr = 0 THEN wdt_cs' = "CRC" /\ dl'.busy
                      ELSE wdt_cs' = "PAYLOAD" /\ wdt_cntr' = wdt_cntr - 1
                           /\ (wdt_last' <=> wdt_cntr = 1)
    OBVIOUS
  <2>1. /\ wdt_cs' = (IF hs /\ wdt_last THEN "CRC" ELSE "PAYLOAD")
        /\ wdt_last' = IF hs THEN LastWord ELSE wdt_last
        /\ wdt_cntr' = IF hs THEN NextWord ELSE wdt_cntr
    BY <1>1 DEF WdtArms, WdtPayload, WdtGoto, hs
  <2>2. wdt_last <=> wdt_cntr = 0
    BY DEF CountInv, CounterInv
  <2>3. hs => dl'.busy
    BY <1>1, <1>4 DEF DatLaneEdge
  <2>4. ~wdt_last => NextWord = wdt_cntr - 1 /\ (LastWord <=> wdt_cntr = 1)
    BY <1>5, <2>2 DEF LastWord
  <2> QED BY <2>1, <2>2, <2>3, <2>4
<1>13. /\ ~(wait_rd_data /\ wait_wr_data)
       /\ Waits => /\ op' = op /\ ~rsp_timed_out /\ ~cmd_start
                   /\ wait_rd_data => op.dir = "rd"
                   /\ wait_wr_data => op.dir = "wr"
  BY <1>2, <1>3 DEF CountPath, WordsEdge
<1> QED BY <1>1, <1>7, <1>8, <1>9, <1>10, <1>11, <1>12, <1>13, Zenon DEF BlockEdge, hs

(* The counters keep agreeing with the state of the data FSM.              *)
LEMMA CounterKept ==
  ASSUME CmdLaneInv, EngineInv, DatLaneInv, CountInv, DataHost, WordHost,
         NEW ckp \in BOOLEAN, CountPath(ckp)
  PROVE  CounterInv'
<1> DEFINE hs == PldHs(ckp)  ready == Ready(dl, ckp)
<1>1. BlockEdge(hs) /\ CounterInv
  BY BlockArms DEF CountInv
<1>2. /\ BlockWords \in Nat /\ BlockWords >= 4 /\ blk_cntr \in Nat /\ op.blocks \in Nat
      /\ wdt_cntr \in Nat /\ wdt_cs \in WdtStates /\ wdt_cs' \in WdtStates
  BY CountRanges
<1>3. DatLaneEdge(hs, ready)
  BY DEF CountPath, DatPath
<1> HIDE DEF hs, ready
<1>4. wdt_cs' = "START" => wdt_cntr' = BlockWords
  BY <1>1, <1>2 DEF BlockEdge, CounterInv, WdtStates
<1>5. wdt_cs' = "PAYLOAD" => wdt_cntr' < BlockWords /\ (wdt_last' <=> wdt_cntr' = 0)
  <2> SUFFICES ASSUME wdt_cs' = "PAYLOAD"
               PROVE  wdt_cntr' < BlockWords /\ (wdt_last' <=> wdt_cntr' = 0)
    OBVIOUS
  <2>1. wdt_cs \in {"START", "PAYLOAD"}
    BY <1>1, <1>2 DEF BlockEdge, WdtStates
  <2>2. CASE wdt_cs = "START"
    BY <1>1, <1>2, <2>2 DEF BlockEdge
  <2>3. CASE wdt_cs = "PAYLOAD"
    <3>1. wdt_cntr < BlockWords /\ (wdt_last <=> wdt_cntr = 0)
      BY <1>1, <2>3 DEF CounterInv
    <3> DEFINE c == wdt_cntr'
    <3>2. IF ~hs THEN c = wdt_cntr /\ wdt_last' = wdt_last
          ELSE wdt_cntr # 0 /\ c = wdt_cntr - 1 /\ (wdt_last' <=> wdt_cntr = 1)
      BY <1>1, <2>3 DEF BlockEdge
    <3> HIDE DEF c
    <3>3. c < BlockWords /\ (wdt_last' <=> c = 0)
      BY <1>2, <3>1, <3>2
    <3> QED BY <3>3 DEF c
  <2> QED BY <2>1, <2>2, <2>3
<1>6. ASSUME Waits'
      PROVE  /\ wdt_cs' \in {"IDLE", "START", "PAYLOAD"} => blk_cntr' < op'.blocks
             /\ blk_cntr' <= op'.blocks
  <2> DEFINE b == blk_cntr'
  <2>1. CASE ~Waits
    <3>1. b = 0 /\ op' = op /\ op.dir \in {"rd", "wr"}
      BY <1>1, <1>6, <2>1 DEF BlockEdge
    <3>2. op.blocks >= 1
      BY <3>1 DEF DatLaneInv, OpInv, DataHost
    <3> QED BY <1>2, <3>1, <3>2
  <2>2. CASE Waits
    <3>1. op' = op /\ blk_cntr <= op.blocks
          /\ (wdt_cs \in {"IDLE", "START", "PAYLOAD"} => blk_cntr < op.blocks)
          /\ b = IF wdt_cs = "PAYLOAD" /\ wdt_cntr = 0 /\ hs THEN blk_cntr + 1 ELSE blk_cntr
      BY <1>1, <2>2 DEF BlockEdge, CounterInv
    <3>2. wdt_cs' \in {"IDLE", "START", "PAYLOAD"} => blk_cntr < op.blocks
      <4> SUFFICES ASSUME wdt_cs' \in {"IDLE", "START", "PAYLOAD"}
                   PROVE  wdt_cs = "WAIT" => blk_cntr < op.blocks
        BY <1>1, <1>2, <3>1 DEF BlockEdge, WdtStates
      <4>1. wdt_cs = "WAIT" => ~all_blocks_done
        BY <1>1, <1>6, <2>2 DEF BlockEdge, Waits
      <4>2. wdt_cs = "WAIT" => blk_cntr # op.blocks
        BY <1>1, <2>2, <4>1 DEF CounterInv
      <4> QED BY <1>2, <3>1, <4>2
    <3>3. wdt_cs = "PAYLOAD" /\ wdt_cntr = 0 /\ hs => wdt_cs' = "CRC" /\ blk_cntr < op.blocks
      BY <1>1, <3>1 DEF BlockEdge
    <3> HIDE DEF b
    <3>4. /\ wdt_cs' \in {"IDLE", "START", "PAYLOAD"} => b < op.blocks
          /\ b <= op.blocks
      BY <1>2, <3>1, <3>2, <3>3
    <3> QED BY <3>1, <3>4 DEF b
  <2> QED BY <2>1, <2>2
<1>7. ASSUME Waits', wdt_cs' \in {"DUMMY", "RSP", "WAIT"} \/ (wdt_cs' = "CRC" /\ ~dl'.busy)
      PROVE  all_blocks_done' <=> blk_cntr' = op'.blocks
  <2>1. Waits
    BY <1>1, <1>7 DEF BlockEdge
  <2>2. ~(wdt_cs = "PAYLOAD" /\ wdt_cntr = 0 /\ hs)
    BY <1>1, <1>7 DEF BlockEdge
  <2> QED BY <1>1, <2>1, <2>2 DEF BlockEdge
<1> QED BY <1>4, <1>5, <1>6, <1>7 DEF CounterInv

(* Counts of blocks in words.                                              *)
LEMMA BlocksInWords ==
  ASSUME NEW a \in Nat, NEW b \in Nat, NEW n \in Nat
  PROVE  /\ a * n \in Nat /\ (a + 1) * n = a * n + n
         /\ a <= b => a * n <= b * n
         /\ a < b => a * n + n <= b * n
<1>1. a * n \in Nat /\ (a + 1) * n = a * n + n
  OBVIOUS
<1>2. a <= b => a * n <= b * n
  <2> SUFFICES ASSUME a <= b PROVE a * n <= b * n
    OBVIOUS
  <2>1. PICK d \in Nat : b = a + d
    <3>1. b - a \in Nat /\ b = a + (b - a)
      OBVIOUS
    <3> QED BY <3>1
  <2>2. b * n = a * n + d * n /\ d * n \in Nat /\ a * n \in Nat
    BY <2>1
  <2> QED BY <2>2
<1>3. a < b => a * n + n <= b * n
  <2> SUFFICES ASSUME a < b PROVE a * n + n <= b * n
    OBVIOUS
  <2>1. PICK d \in Nat : b = (a + 1) + d
    <3>1. b - (a + 1) \in Nat /\ b = (a + 1) + (b - (a + 1))
      OBVIOUS
    <3> QED BY <3>1
  <2>2. b * n = (a + 1) * n + d * n /\ d * n \in Nat /\ a * n \in Nat
    BY <2>1
  <2> QED BY <1>1, <2>2
<1> QED BY <1>1, <1>2, <1>3

(* A word of a read goes onto the lane when the data FSM hands one over    *)
(* and comes out an edge after its last bit.                               *)
LEMMA OnLaneMoves ==
  ASSUME CmdLaneInv, EngineInv, DatLaneInv, DataHost, NEW ckp \in BOOLEAN, CountPath(ckp),
         wait_rd_data \/ (~rsp_timed_out /\ wdt_cs = "IDLE")
  PROVE  /\ OnLane \in 0..2 /\ OnLane' \in 0..2
         /\ OnLane' = OnLane + (IF wdt_cs = "PAYLOAD" /\ PldHs(ckp) THEN 1 ELSE 0)
                             - (IF rx_pld_valid /\ ~rx_pld_end THEN 1 ELSE 0)
<1> DEFINE hs == PldHs(ckp)  ready == Ready(dl, ckp)
           word == dl.kind = "rd" /\ ~dl.crc  newword == dl'.kind = "rd" /\ ~dl'.crc
           out == rx_pld_valid /\ ~rx_pld_end  newout == rx_pld_valid' /\ ~rx_pld_end'
<1>1. /\ DatLaneEdge(hs, ready) /\ DatPath(ckp) /\ WdtType /\ ~dat_en_restart
      /\ ~rsp_timed_out /\ wdt_cs \in WdtStates /\ ready \in BOOLEAN /\ hs \in BOOLEAN
  BY BlockOpStable DEF CountPath, DatPath, WdtType, Ready, PldHs
<1>2. hs => (pld_kind = "rd" /\ ~pld_crc_en <=> wdt_cs = "PAYLOAD")
  <2>1. wdt_cs # "IDLE" => op.dir = "rd" /\ DatKind = "rd"
    BY <1>1 DEF DatLaneInv, DirInv, DatKind
  <2>2. wdt_cs # "RSP"
    BY <2>1 DEF DatLaneInv, DirInv
  <2>3. hs => pld_valid
    BY <1>1 DEF DatLaneEdge
  <2>4. DatWordInv /\ OfferInv /\ XferInv
    BY DEF DatLaneInv
  <2> QED BY <1>1, <2>1, <2>2, <2>3, <2>4 DEF DatWordInv, OfferInv, XferInv, WdtStates
<1>3. /\ hs => (newword <=> wdt_cs = "PAYLOAD")
      /\ ready /\ ~hs => ~newword
      /\ ready => (newout <=> word)
      /\ ~ready => (newword <=> word) /\ ~newout /\ ~hs
  <2>1. hs => (newword <=> wdt_cs = "PAYLOAD")
    BY <1>1, <1>2 DEF DatLaneEdge
  <2>2. ready /\ ~hs => dl' = Quiet
    BY <1>1 DEF DatLaneEdge
  <2>3. ready /\ ~hs => ~newword
    BY <2>2 DEF Quiet
  <2>4. /\ rx_pld_valid' <=> ready /\ dl.kind \in {"wr", "rd"}
        /\ rx_pld_end' <=> ready /\ dl.kind \in {"wr", "rd"} /\ dl.crc
        /\ ~ready => dl'.kind = dl.kind /\ (dl'.crc <=> dl.crc)
        /\ hs => ready
    BY <1>1 DEF DatLaneEdge
  <2>5. dl.kind # "wr"
    <3>1. wdt_cs # "IDLE" => op.dir = "rd" /\ DatKind = "rd"
      BY <1>1 DEF DatLaneInv, DirInv, DatKind
    <3>2. wdt_cs # "RSP" /\ DatWordInv
      BY <3>1 DEF DatLaneInv, DirInv
    <3> QED BY <1>1, <3>1, <3>2 DEF DatWordInv, WdtStates
  <2>6. ready => (newout <=> word)
    BY <2>4, <2>5
  <2>7. ~ready => (newword <=> word) /\ ~newout /\ ~hs
    BY <2>4
  <2> QED BY <2>1, <2>3, <2>6, <2>7
<1>4. /\ OnLane = (IF word THEN 1 ELSE 0) + (IF out THEN 1 ELSE 0)
      /\ OnLane' = (IF newword THEN 1 ELSE 0) + (IF newout THEN 1 ELSE 0)
  BY DEF OnLane
<1>5. hs => ready
  BY <1>1 DEF DatLaneEdge
<1> DEFINE now == OnLane  next == OnLane'
<1>6. /\ now = (IF word THEN 1 ELSE 0) + (IF out THEN 1 ELSE 0)
      /\ next = (IF newword THEN 1 ELSE 0) + (IF newout THEN 1 ELSE 0)
  BY <1>4
<1> HIDE DEF hs, ready, word, newword, out, newout, now, next
<1>7. /\ now \in 0..2 /\ next \in 0..2
      /\ next = now + (IF wdt_cs = "PAYLOAD" /\ hs THEN 1 ELSE 0) - (IF out THEN 1 ELSE 0)
  BY <1>3, <1>5, <1>6
<1> QED BY <1>7 DEF now, next, hs, out

(* The counts start at zero and are whole when the data is left behind.    *)
LEMMA CountEndsKept ==
  ASSUME CmdLaneInv, EngineInv, DatLaneInv, CountInv, DataHost, WordHost,
         NEW ckp \in BOOLEAN, CountPath(ckp)
  PROVE  CountEndsInv'
<1> DEFINE hs == PldHs(ckp)
<1>1. BlockEdge(hs) /\ WordsEdge(hs) /\ CountEndsInv /\ CounterInv /\ MovedInv
  BY BlockArms DEF CountInv, CountPath
<1>2. /\ BlockWords \in Nat /\ blk_cntr \in Nat /\ op.blocks \in Nat
      /\ dev_words \in Nat /\ mem_words \in Nat
  BY CountRanges
<1>3. /\ CmdEdge(CmdHs(ckp)) /\ (cmd_cs # "IDLE" => op' = op) /\ CmdType
      /\ BlocksEdge(Ready(dl, ckp)) /\ cmd_cs \in CmdStates
  BY DEF CountPath, DatPath, CmdPath, CmdType
<1>4. Waits => cmd_cs = "WAIT" \/ wdt_cs # "WAIT"
  BY <1>1 DEF DatLaneInv, DirInv, Waits, WordsEdge
<1>5. ~Waits => /\ ~cmd_start => dev_words' = dev_words /\ mem_words' = mem_words
                /\ blk_cntr' = 0
  BY <1>1 DEF BlockEdge, WordsEdge, Waits
<1>6. ASSUME det_emmc_start', cmd_cs' # "WAIT", ~Waits'
      PROVE  dev_words' = 0 /\ mem_words' = 0 /\ blk_cntr' = 0
  <2>1. CASE cmd_start
    <3>1. dev_words' = 0 /\ mem_words' = 0 /\ ~Waits
      BY <1>1, <2>1 DEF WordsEdge
    <3> QED BY <1>5, <3>1
  <2>2. CASE ~cmd_start
    <3>1. det_emmc_start /\ cmd_cs # "WAIT"
      BY <1>1, <1>3, <1>6, <2>2 DEF WordsEdge, CmdEdge
    <3>2. ~Waits
      BY <1>1, <1>4, <1>6, <3>1 DEF BlockEdge
    <3>3. dev_words = 0 /\ mem_words = 0
      BY <1>1, <3>1, <3>2 DEF CountEndsInv
    <3> QED BY <1>5, <2>2, <3>2, <3>3
  <2> QED BY <2>1, <2>2
<1>7. ASSUME cmd_cs' = "WAIT", op'.dir \in {"rd", "wr"}, ~Waits'
      PROVE  /\ dev_words' = op'.blocks * BlockWords
             /\ mem_words' = op'.blocks * BlockWords
  <2>1. cmd_cs \in {"DUMMY", "RSP", "WAIT"}
    BY <1>3, <1>7 DEF CmdEdge, CmdStates
  <2>2. op' = op /\ ~cmd_start
    BY <1>1, <1>3, <2>1 DEF WordsEdge
  <2>3. cmd_cs # "DUMMY"
    <3>1. op.rsp # "R0"
      BY <1>7, <2>2 DEF DatLaneInv, OpInv, WordHost
    <3>2. RspWords # 0
      BY <3>1 DEF RspWords
    <3> QED BY <1>3, <1>7, <3>2 DEF CmdEdge, CmdLaneInv, CmdSendInv
  <2>4. cmd_cs = "WAIT"
    <3>1. cmd_cs = "RSP" => Waits'
      BY <1>1, <1>3, <1>4, <1>7, <2>2 DEF BlocksEdge, Waits, BlockEdge
    <3> QED BY <1>7, <2>1, <2>3, <3>1
  <2>5. CASE ~Waits
    BY <1>1, <1>5, <1>7, <2>2, <2>4, <2>5 DEF CountEndsInv
  <2>6. CASE Waits
    <3>1. /\ wdt_cs = "WAIT" /\ (wait_wr_data => all_blocks_done)
          /\ wait_rd_data => emmc_req_done
          /\ dev_words' = dev_words /\ ~rsp_timed_out /\ ~(wait_rd_data /\ wait_wr_data)
      BY <1>1, <1>7, <2>2, <2>6 DEF BlockEdge, WordsEdge
    <3>2. dev_words = blk_cntr * BlockWords
      <4>1. dev_words = blk_cntr * BlockWords + 0 /\ blk_cntr * BlockWords \in Nat
        BY <1>1, <1>2, <2>6, <3>1, BlocksInWords DEF MovedInv, OfBlock
      <4> QED BY <4>1
    <3>3. CASE wait_wr_data
      <4>1. mem_words = blk_cntr * BlockWords /\ mem_words' = mem_words
        <5>1. mem_words = blk_cntr * BlockWords + 0 /\ blk_cntr * BlockWords \in Nat
          BY <1>1, <1>2, <3>1, <3>3, BlocksInWords DEF MovedInv, Fetched
        <5>2. mem_words' = mem_words
          BY <1>1, <2>2, <3>1, <3>3 DEF WordsEdge
        <5> QED BY <5>1, <5>2
      <4>2. blk_cntr = op.blocks
        BY <1>1, <2>6, <3>1, <3>3 DEF CounterInv
      <4> QED BY <2>2, <3>1, <3>2, <4>1, <4>2
    <3>4. CASE wait_rd_data
      <4>1. /\ mem_words = op.blocks * BlockWords /\ dev_words = mem_words + OnLane
            /\ blk_cntr <= op.blocks
        BY <1>1, <2>6, <3>1, <3>4 DEF MovedInv, CounterInv
      <4>2. blk_cntr * BlockWords <= op.blocks * BlockWords
        BY <1>2, <4>1, BlocksInWords
      <4>3. OnLane \in 0..2
        BY <3>4, OnLaneMoves
      <4>4. dev_words = mem_words /\ OnLane = 0
        BY <1>2, <3>2, <4>1, <4>2, <4>3
      <4>5. ~(rx_pld_valid /\ ~rx_pld_end)
        BY <4>4 DEF OnLane
      <4>6. mem_words' = mem_words
        BY <1>1, <2>2, <3>1, <3>4, <4>5 DEF WordsEdge
      <4> QED BY <2>2, <3>1, <4>1, <4>4, <4>6
    <3> QED BY <2>6, <3>3, <3>4 DEF Waits
  <2> QED BY <2>5, <2>6
<1> QED BY <1>6, <1>7 DEF CountEndsInv

(* A command that begins has moved nothing.                                *)
LEMMA MovedStart ==
  ASSUME CmdLaneInv, EngineInv, DatLaneInv, CountInv, DataHost, WordHost,
         NEW ckp \in BOOLEAN, CountPath(ckp), ~Waits, Waits'
  PROVE  MovedInv'
<1> DEFINE hs == PldHs(ckp)  ready == Ready(dl, ckp)
<1>1. BlockEdge(hs) /\ WordsEdge(hs) /\ CountEndsInv /\ DatLaneEdge(hs, ready)
      /\ ready \in BOOLEAN
  BY BlockArms DEF CountInv, CountPath, DatPath, CmdPath, Ready
<1>2. cmd_cs = "RSP" /\ wdt_cs = "IDLE" /\ wdt_cs' = "IDLE" /\ blk_cntr' = 0
  BY <1>1 DEF BlockEdge
<1>3. dev_words' = 0 /\ mem_words' = 0 /\ ~emmc_req_done'
  <2>1. det_emmc_start /\ ~cmd_start /\ ~emmc_req_done'
    BY <1>1, <1>2 DEF WordsEdge
  <2>2. dev_words = 0 /\ mem_words = 0
    BY <1>1, <1>2, <2>1 DEF CountEndsInv
  <2> QED BY <1>1, <1>2, <2>1, <2>2 DEF WordsEdge, Waits
<1>4. 0 * BlockWords + 0 = 0
  BY CountRanges
<1>5. ~rsp_timed_out' => OnLane' = 0
  <2> SUFFICES ASSUME ~rsp_timed_out' PROVE OnLane' = 0
    OBVIOUS
  <2>1. ~rsp_timed_out /\ ~dat_en_restart
    BY DEF CountPath, DatPath
  <2>2. dl.kind \in {"none", "dc"} /\ (pld_valid => pld_kind = "dc")
    BY <1>2, <2>1 DEF DatLaneInv, DatWordInv
  <2>3. ~rx_pld_valid'
    BY <1>1, <2>2 DEF DatLaneEdge
  <2>4. dl'.kind # "rd"
    <3>1. hs => dl'.kind # "rd"
      BY <1>1, <2>2 DEF DatLaneEdge
    <3>2. ready /\ ~hs => dl'.kind # "rd"
      BY <1>1 DEF DatLaneEdge, Quiet
    <3>3. ~ready => dl'.kind # "rd"
      BY <1>1, <2>2 DEF DatLaneEdge
    <3> QED BY <1>1, <3>1, <3>2, <3>3
  <2> QED BY <2>3, <2>4 DEF OnLane
<1>6. OfBlock' = 0 /\ Fetched' = 0
  BY <1>2 DEF OfBlock, Fetched
<1> QED BY <1>2, <1>3, <1>4, <1>5, <1>6 DEF MovedInv

(* While a block is under way the device and the bus manager count its     *)
(* words as the word counter does.                                         *)
LEMMA BlockMoves ==
  ASSUME CmdLaneInv, EngineInv, DatLaneInv, CountInv, DataHost, WordHost,
         NEW ckp \in BOOLEAN, CountPath(ckp), Waits
  PROVE  /\ dev_words' = blk_cntr' * BlockWords + OfBlock'
         /\ wait_wr_data => mem_words' = blk_cntr' * BlockWords + Fetched'
<1> DEFINE hs == PldHs(ckp)
<1>1. BlockEdge(hs) /\ WordsEdge(hs) /\ CounterInv /\ MovedInv /\ ~cmd_start
  BY BlockArms DEF CountInv, CountPath, BlockEdge
<1>2. /\ BlockWords \in Nat /\ BlockWords >= 4 /\ blk_cntr \in Nat /\ wdt_cntr \in Nat
      /\ dev_words \in Nat /\ mem_words \in Nat /\ wdt_cs \in WdtStates /\ wdt_last \in BOOLEAN
  BY CountRanges
<1>3. /\ blk_cntr * BlockWords \in Nat
      /\ (blk_cntr + 1) * BlockWords = blk_cntr * BlockWords + BlockWords
  BY <1>2, BlocksInWords
<1>4. /\ dev_words' = IF wdt_cs = "PAYLOAD" /\ hs THEN dev_words + 1 ELSE dev_words
      /\ wait_wr_data => mem_words' = IF hs /\ ~wdt_last /\ wdt_cs \in {"START", "PAYLOAD"}
                                      THEN mem_words + 1 ELSE mem_words
  BY <1>1 DEF WordsEdge, BlockEdge
<1>5. /\ dev_words = blk_cntr * BlockWords + OfBlock
      /\ wait_wr_data => mem_words = blk_cntr * BlockWords + Fetched
  BY <1>1 DEF MovedInv
<1> DEFINE d == dev_words'  m == mem_words'  of == OfBlock'  fe == Fetched'
           w == wdt_cntr'  pro == blk_cntr * BlockWords  nro == blk_cntr' * BlockWords
<1>6. CASE wdt_cs = "PAYLOAD"
  <2>1. wdt_cntr < BlockWords /\ (wdt_last <=> wdt_cntr = 0)
    BY <1>1, <1>6 DEF CounterInv
  <2>2. OfBlock = BlockWords - 1 - wdt_cntr /\ Fetched = BlockWords - wdt_cntr
    BY <1>6 DEF OfBlock, Fetched
  <2>3. CASE ~hs
    <3>1. wdt_cs' = "PAYLOAD" /\ w = wdt_cntr /\ nro = pro
      BY <1>1, <1>6, <2>3 DEF BlockEdge
    <3>2. of = OfBlock /\ fe = Fetched
      BY <3>1, <1>6 DEF OfBlock, Fetched
    <3> QED BY <1>4, <1>5, <2>3, <3>1, <3>2
  <2>4. CASE hs /\ wdt_cntr # 0
    <3>1. wdt_cs' = "PAYLOAD" /\ w = wdt_cntr - 1 /\ nro = pro
      BY <1>1, <1>6, <2>4 DEF BlockEdge
    <3>2. of = BlockWords - 1 - w /\ fe = BlockWords - w
      BY <3>1 DEF OfBlock, Fetched
    <3>3. d = dev_words + 1 /\ (wait_wr_data => m = mem_words + 1)
      BY <1>4, <1>6, <2>1, <2>4
    <3>4. pro \in Nat
      BY <1>3
    <3> HIDE DEF d, m, of, fe, w, pro, nro
    <3>5. dev_words = pro + OfBlock /\ (wait_wr_data => mem_words = pro + Fetched)
      BY <1>5 DEF pro
    <3>6. d = nro + of /\ (wait_wr_data => m = nro + fe)
      BY <1>2, <2>2, <3>1, <3>2, <3>3, <3>4, <3>5
    <3> QED BY <3>6 DEF d, m, nro, of, fe
  <2>5. CASE hs /\ wdt_cntr = 0
    <3>1. wdt_cs' = "CRC" /\ blk_cntr' = blk_cntr + 1
      BY <1>1, <1>6, <2>5 DEF BlockEdge
    <3>2. of = 0 /\ fe = 0 /\ nro = pro + BlockWords
      BY <1>3, <3>1 DEF OfBlock, Fetched
    <3>3. d = dev_words + 1 /\ (wait_wr_data => m = mem_words)
      BY <1>4, <1>6, <2>1, <2>5
    <3>4. pro \in Nat
      BY <1>3
    <3> HIDE DEF d, m, of, fe, w, pro, nro
    <3>5. dev_words = pro + OfBlock /\ (wait_wr_data => mem_words = pro + Fetched)
      BY <1>5 DEF pro
    <3>6. d = nro + of /\ (wait_wr_data => m = nro + fe)
      BY <1>2, <2>2, <2>5, <3>2, <3>3, <3>4, <3>5
    <3> QED BY <3>6 DEF d, m, nro, of, fe
  <2> QED BY <2>3, <2>4, <2>5
<1>7. CASE wdt_cs = "START"
  <2>1. ~wdt_last /\ nro = pro /\ OfBlock = 0 /\ Fetched = 0
    BY <1>1, <1>7 DEF DatLaneInv, XferInv, BlockEdge, OfBlock, Fetched,
       CountPath, DatPath, CmdPath
  <2>2. of = 0 /\ fe = IF hs THEN 1 ELSE 0
    <3>1. IF hs THEN wdt_cs' = "PAYLOAD" /\ w = BlockWords - 1 ELSE wdt_cs' = "START"
      BY <1>1, <1>7 DEF BlockEdge
    <3>2. /\ of = IF wdt_cs' = "PAYLOAD" THEN BlockWords - 1 - w ELSE 0
          /\ fe = IF wdt_cs' = "PAYLOAD" THEN BlockWords - w ELSE 0
      BY DEF OfBlock, Fetched
    <3> HIDE DEF of, fe, w, hs
    <3> QED BY <1>2, <3>1, <3>2
  <2>3. d = dev_words /\ (wait_wr_data => m = mem_words + (IF hs THEN 1 ELSE 0))
    BY <1>2, <1>4, <1>7, <2>1
  <2>4. pro \in Nat
    BY <1>3
  <2> HIDE DEF d, m, of, fe, w, pro, nro, hs
  <2>5. dev_words = pro + OfBlock /\ (wait_wr_data => mem_words = pro + Fetched)
    BY <1>5 DEF pro
  <2>6. d = nro + of /\ (wait_wr_data => m = nro + fe)
    BY <1>2, <2>1, <2>2, <2>3, <2>4, <2>5
  <2> QED BY <2>6 DEF d, m, nro, of, fe
<1>8. CASE wdt_cs \notin {"START", "PAYLOAD"}
  <2>1. wdt_cs' # "PAYLOAD" /\ nro = pro
    BY <1>1, <1>2, <1>8 DEF BlockEdge, WdtStates
  <2>2. of = 0 /\ fe = 0 /\ OfBlock = 0 /\ Fetched = 0
    BY <1>8, <2>1 DEF OfBlock, Fetched
  <2> QED BY <1>4, <1>5, <1>8, <2>1, <2>2
<1> QED BY <1>6, <1>7, <1>8

(* The device, the bus manager and the lane keep agreeing on the words of  *)
(* a command, and a read is answered only when nothing is left on the lane.*)
LEMMA MovedKept ==
  ASSUME CmdLaneInv, EngineInv, DatLaneInv, CountInv, DataHost, WordHost,
         NEW ckp \in BOOLEAN, CountPath(ckp)
  PROVE  MovedInv'
<1> DEFINE hs == PldHs(ckp)  out == rx_pld_valid /\ ~rx_pld_end
<1>1. BlockEdge(hs) /\ WordsEdge(hs) /\ CounterInv /\ MovedInv
  BY BlockArms DEF CountInv, CountPath
<1>2. CASE ~Waits'
  BY <1>2 DEF MovedInv, Waits
<1>3. CASE Waits' /\ ~Waits
  BY <1>3, MovedStart
<1>4. CASE Waits' /\ Waits
  <2>1. /\ dev_words' = blk_cntr' * BlockWords + OfBlock'
        /\ wait_wr_data => mem_words' = blk_cntr' * BlockWords + Fetched'
    BY <1>4, BlockMoves
  <2>2. /\ wait_rd_data' = wait_rd_data /\ wait_wr_data' = wait_wr_data /\ op' = op
        /\ ~(wait_rd_data /\ wait_wr_data) /\ ~rsp_timed_out /\ ~cmd_start
        /\ hs \in BOOLEAN
    BY <1>1, <1>4 DEF BlockEdge
  <2>3. /\ BlockWords \in Nat /\ BlockWords >= 4 /\ blk_cntr \in Nat /\ wdt_cntr \in Nat
        /\ op.blocks \in Nat /\ dev_words \in Nat /\ mem_words \in Nat
        /\ dev_words' \in Nat /\ mem_words' \in Nat
    BY CountRanges
  <2>4. ASSUME wait_rd_data
        PROVE  /\ dev_words' = IF wdt_cs = "PAYLOAD" /\ hs THEN dev_words + 1 ELSE dev_words
               /\ mem_words' = IF out THEN mem_words + 1 ELSE mem_words
               /\ dev_words = mem_words + OnLane /\ OnLane \in 0..2 /\ OnLane' \in 0..2
               /\ OnLane' = OnLane + (IF wdt_cs = "PAYLOAD" /\ hs THEN 1 ELSE 0)
                                   - (IF out THEN 1 ELSE 0)
    <3>1. /\ dev_words' = IF wdt_cs = "PAYLOAD" /\ hs THEN dev_words + 1 ELSE dev_words
          /\ mem_words' = IF out THEN mem_words + 1 ELSE mem_words
      BY <1>1, <2>2, <2>4 DEF WordsEdge
    <3>2. dev_words = mem_words + OnLane
      BY <1>1, <2>2, <2>4 DEF MovedInv
    <3> QED BY <2>4, <3>1, <3>2, OnLaneMoves
  <2>5. wait_rd_data => dev_words' = mem_words' + OnLane'
    <3> DEFINE d == dev_words'  m == mem_words'  n == OnLane'  put == wdt_cs = "PAYLOAD" /\ hs
    <3>1. wait_rd_data => /\ d = IF put THEN dev_words + 1 ELSE dev_words
                          /\ m = IF out THEN mem_words + 1 ELSE mem_words
                          /\ dev_words = mem_words + OnLane
                          /\ OnLane \in 0..2 /\ n \in 0..2
                          /\ n = OnLane + (IF put THEN 1 ELSE 0) - (IF out THEN 1 ELSE 0)
      BY <2>4
    <3> HIDE DEF d, m, n, put, out
    <3>2. wait_rd_data => d = m + n
      BY <2>3, <3>1
    <3> QED BY <3>2 DEF d, m, n
  <2>6. ASSUME wait_rd_data, emmc_req_done'
        PROVE  mem_words' = op.blocks * BlockWords
    <3> DEFINE pro == blk_cntr * BlockWords  all == op.blocks * BlockWords
    <3>1. mem_words = all
      BY <1>1, <2>2, <2>6 DEF WordsEdge, MovedInv, MayFinish
    <3>2. dev_words = pro + OfBlock /\ dev_words = mem_words + OnLane /\ OnLane \in 0..2
      BY <1>1, <1>4, <2>4, <2>6 DEF MovedInv
    <3>3. pro \in Nat /\ all \in Nat
      BY <2>3, BlocksInWords
    <3>4. pro + OfBlock <= all
      <4>1. CASE wdt_cs = "PAYLOAD"
        <5>1. wdt_cntr < BlockWords /\ blk_cntr < op.blocks
          BY <1>1, <1>4, <4>1 DEF CounterInv
        <5>2. pro + BlockWords <= all
          BY <2>3, <5>1, BlocksInWords
        <5>3. OfBlock = BlockWords - 1 - wdt_cntr
          BY <4>1 DEF OfBlock
        <5> HIDE DEF pro, all
        <5> QED BY <2>3, <3>3, <5>1, <5>2, <5>3
      <4>2. CASE wdt_cs # "PAYLOAD"
        <5>1. OfBlock = 0 /\ blk_cntr <= op.blocks
          BY <1>1, <1>4, <4>2 DEF CounterInv, OfBlock
        <5>2. pro <= all
          BY <2>3, <5>1, BlocksInWords
        <5> HIDE DEF pro, all
        <5> QED BY <3>3, <5>1, <5>2
      <4> QED BY <4>1, <4>2
    <3> HIDE DEF pro, all
    <3>5. OnLane = 0
      BY <2>3, <3>1, <3>2, <3>3, <3>4
    <3>6. ~out
      BY <3>5 DEF OnLane
    <3> QED BY <2>4, <2>6, <3>1, <3>6 DEF all
  <2> QED BY <2>1, <2>2, <2>5, <2>6 DEF MovedInv
<1> QED BY <1>2, <1>3, <1>4

(* A restart leaves no command and nothing under way.                      *)
LEMMA CountRestart ==
  ASSUME TypeOK, EngineInv, cmd_en_restart, Tick PROVE CountInv'
<1>1. PICK ckp, cends, dends, cstart, dstart, free, avail, dat0, busy, finish, bad :
           BooleanStep(ckp, cends, dends, cstart, dstart, free, avail, dat0, busy,
                       finish, bad)
  BY TickIsStep
<1>2. CmdFsm(ckp) /\ WdtFsm(ckp, free, avail) /\ Blocks(ckp, bad) /\ ckp \in BOOLEAN
  BY <1>1 DEF BooleanStep, Step
<1>3. cmd_cs' = "IDLE" /\ ~det_emmc_start'
  BY <1>2, CmdMoves
<1>4. wdt_cs' = "IDLE" /\ ~wait_rd_data' /\ ~wait_wr_data'
  BY <1>2
     DEF WdtFsm, WdtIdle, WdtStart, WdtPayload, WdtCrc, WdtDummy, WdtRsp, WdtWait, WdtGoto,
     Blocks
<1> QED BY <1>3, <1>4 DEF CountInv, CountEndsInv, CounterInv, MovedInv, Waits

(* An edge keeps the counts.                                               *)
LEMMA CountTick ==
  ASSUME TypeOK, EngineInv, CmdLaneInv, DatLaneInv, CountInv, DataHost, WordHost, Tick
  PROVE  CountInv'
<1>1. CASE cmd_en_restart
  BY <1>1, CountRestart
<1>2. CASE ~cmd_en_restart
  <2>1. PICK ckp \in BOOLEAN : CountPath(ckp)
    BY <1>2, CountPathTick
  <2>2. CountEndsInv' /\ CounterInv' /\ MovedInv'
    BY <2>1, CountEndsKept, CounterKept, MovedKept
  <2> QED BY <2>2 DEF CountInv
<1> QED BY <1>1, <1>2

(* No command has begun at power up.                                       *)
LEMMA CountInit == Init => CountInv
BY DEF Init, CtlInit, CountInv, CountEndsInv, CounterInv, MovedInv, Waits

(* The software reset forgets the command.                                 *)
LEMMA CountReset == ASSUME SoftReset PROVE CountInv'
BY DEF SoftReset, CountInv, CountEndsInv, CounterInv, MovedInv, Waits

(* Every step of the specification keeps the counts.                       *)
LEMMA CountNext ==
  ASSUME TypeOK, EngineInv, CmdLaneInv, DatLaneInv, CountInv, DataHost, WordHost,
         [Next]_vars
  PROVE  CountInv'
<1>1. CASE Tick BY <1>1, CountTick
<1>2. CASE SoftReset BY <1>2, CountReset
<1>3. CASE UNCHANGED vars
  BY <1>3 DEF vars, hostVars, cmdVars, wdtVars, blkVars, laneVars, envVars,
     CountInv, CountEndsInv, CounterInv, MovedInv, Waits, OfBlock, Fetched, OnLane
<1> QED BY <1>1, <1>2, <1>3 DEF Next

(* The words that the device and the bus manager have moved are those that *)
(* the block and word counters and the data lane account for, for every    *)
(* number of blocks, block size, device and bus manager.                   *)
THEOREM CountInvariant == ASSUME DataHost, WordHost PROVE Spec => []CountInv
<1>1. Init => CountInv
  BY CountInit
<1>2. TypeOK /\ EngineInv /\ CmdLaneInv /\ SavedInv /\ DatLaneInv /\ CountInv /\ [Next]_vars
        => CountInv'
  BY CountNext
<1> QED
  BY <1>1, <1>2, TypeCorrect, EngineInvariant, CmdLaneInvariant, DatLaneInvariant, PTL
     DEF Spec

(* A data command that completes has moved exactly the words it was asked  *)
(* for, on the data lines and through the FIFO, in whatever order response *)
(* and data came and however long the bus manager took.                    *)
THEOREM AllDataIsMoved == ASSUME DataHost, WordHost PROVE Spec => AllDataMoved
<1> DEFINE moved == op.dir \in {"rd", "wr"} =>
                      dev_words = op.blocks * BlockWords /\ mem_words = dev_words
<1>1. ASSUME TypeOK, EngineInv, CountInv, Tick, Completes
      PROVE  moved
  <2>1. PICK ckp, cends, dends, cstart, dstart, free, avail, dat0, busy, finish, bad :
             BooleanStep(ckp, cends, dends, cstart, dstart, free, avail, dat0, busy,
                         finish, bad)
    BY <1>1, TickIsStep
  <2>2. CmdFsm(ckp) /\ ckp \in BOOLEAN
    BY <2>1 DEF BooleanStep, Step
  <2>3. cmd_cs = "WAIT" /\ det_emmc_done
    BY <1>1, <2>2, CmdMoves DEF Completes
  <2>4. ~Waits
    BY <1>1, <2>3 DEF EngineInv, DoneInv, Waits
  <2> QED BY <1>1, <2>3, <2>4 DEF CountInv, CountEndsInv
<1>2. ASSUME TypeOK, EngineInv, CountInv, [Next]_vars
      PROVE  [Completes /\ op.dir \in {"rd", "wr"} =>
                dev_words = op.blocks * BlockWords /\ mem_words = dev_words]_vars
  <2>1. CASE Tick BY <2>1, <1>1, <1>2
  <2>2. CASE SoftReset BY <2>2 DEF SoftReset, Completes
  <2> QED BY <1>2, <2>1, <2>2 DEF Next
<1>3. TypeOK /\ EngineInv /\ CountInv /\ [Next]_vars
        => [Completes /\ op.dir \in {"rd", "wr"} =>
              dev_words = op.blocks * BlockWords /\ mem_words = dev_words]_vars
  BY <1>2
<1> QED
  BY <1>3, TypeCorrect, EngineInvariant, CountInvariant, PTL DEF Spec, AllDataMoved
============================================================================
