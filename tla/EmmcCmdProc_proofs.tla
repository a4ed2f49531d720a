------------------------ MODULE EmmcCmdProc_proofs ------------------------
(* Proofs about EmmcCmdProc for every value of its constants.              *)
EXTENDS EmmcCmdProc, TLAPS

(* The typing of the registers, one lemma per always block.                *)
LEMMA HostTyped == ASSUME TypeOK, Host PROVE HostType'
<1> USE OpsAssumption, HostAssumption DEF TypeOK, HostType, Host, HostIdle, HostStart
<1>1. op' \in OpType
  OBVIOUS
<1>2. cmd_start' \in BOOLEAN
  OBVIOUS
<1>3. gap' \in 0..HostGap
  OBVIOUS
<1>4. rsp_timed_out' \in BOOLEAN
  BY DEF TmrType
<1> QED BY <1>1, <1>2, <1>3, <1>4

(* The command FSM keeps its types.                                        *)
LEMMA CmdTyped == ASSUME TypeOK, NEW ckp \in BOOLEAN, CmdFsm(ckp) PROVE CmdType'
<1> USE DEF TypeOK, CmdType, HostType, OpType, RecType, Kinds, CmdStates,
            CmdGoto, CmdStay, CmdOffer
<1>0. /\ CmdHs(ckp) \in BOOLEAN /\ RspWords \in 0..5 /\ LinesFree \in BOOLEAN
      /\ wait_wr_data \in BOOLEAN /\ wait_rd_data \in BOOLEAN
  BY DEF CmdHs, Ready, RspWords, RspTypes, LinesFree, BlkType
<1>1. CASE CmdIdle
  <2> USE <1>1 DEF CmdIdle
  <2>1. cmd_cs' \in CmdStates /\ cmd_cntr' \in 0..5 /\ cmd_kind' \in Kinds
    OBVIOUS
  <2>2. det_emmc_start' \in BOOLEAN
    BY Zenon
  <2>3. det_emmc_done' \in BOOLEAN
    BY Zenon
  <2>4. cmd_valid' \in BOOLEAN
    OBVIOUS
  <2> QED BY <2>1, <2>2, <2>3, <2>4
<1>2. CASE CmdBoot BY <1>2 DEF CmdBoot
<1>3. CASE CmdSendStart(ckp) BY <1>3, <1>0 DEF CmdSendStart
<1>4. CASE CmdSendArg(ckp) BY <1>4, <1>0 DEF CmdSendArg
<1>5. CASE CmdSendCrc(ckp) BY <1>5, <1>0 DEF CmdSendCrc
<1>6. CASE CmdDummy(ckp) BY <1>6, <1>0 DEF CmdDummy
<1>7. CASE CmdRsp(ckp) BY <1>7, <1>0 DEF CmdRsp
<1>8. CASE CmdWait(ckp) BY <1>8, <1>0 DEF CmdWait
<1> QED BY <1>1, <1>2, <1>3, <1>4, <1>5, <1>6, <1>7, <1>8 DEF CmdFsm

(* The response FSM keeps its types.                                       *)
LEMMA RspTyped == ASSUME TypeOK, RspFsm PROVE RspType'
<1> USE DEF TypeOK, RspType, RspStates, RspGoto, LanesType, RecType
<1>1. /\ det_cmd_done' \in BOOLEAN /\ cmd_clk_vld_q' \in BOOLEAN
      /\ rsp_ptr' \in 0..7 /\ saved_rsp' \subseteq 0..5
  <2> USE DEF RspFsm, SaveResponse
  <2>1. det_cmd_done' \in BOOLEAN
    BY Zenon
  <2>2. cmd_clk_vld_q' \in BOOLEAN
    OBVIOUS
  <2>3. rsp_ptr' \in 0..7
    OBVIOUS
  <2>4. saved_rsp' \subseteq 0..5
    OBVIOUS
  <2> QED BY <2>1, <2>2, <2>3, <2>4
<1>2. rsp_cs' \in RspStates /\ rsp_cntr' \in 0..4
  <2>1. CASE RspIdle BY <2>1 DEF RspIdle
  <2>2. CASE RspStart BY <2>2 DEF RspStart
  <2>3. CASE RspArg BY <2>3 DEF RspArg
  <2>4. CASE RspCrc BY <2>4 DEF RspCrc
  <2>5. CASE RspWait BY <2>5 DEF RspWait
  <2> QED BY <2>1, <2>2, <2>3, <2>4, <2>5 DEF RspFsm
<1> QED BY <1>1, <1>2

(* The data transfer FSM keeps its types.                                  *)
LEMMA WdtTyped ==
  ASSUME TypeOK, NEW ckp \in BOOLEAN, NEW free \in BOOLEAN, NEW avail \in BOOLEAN,
         WdtFsm(ckp, free, avail)
  PROVE  WdtType'
<1> USE SizeAssumption
    DEF TypeOK, WdtType, WdtStates, Kinds, WdtGoto, PldOffer, XferFlags
<1>0. /\ PldHs(ckp) \in BOOLEAN /\ CmdHs(ckp) \in BOOLEAN
      /\ LastWord \in BOOLEAN /\ NextWord \in 0..(2 * MAX_BLOCK - 1)
      /\ wait_wr_data \in BOOLEAN /\ wait_rd_data \in BOOLEAN
      /\ rx_pld_valid \in BOOLEAN /\ rx_pld_end \in BOOLEAN
      /\ dat_line_not_busy \in BOOLEAN
  <2>1. NextWord \in 0..(2 * MAX_BLOCK - 1)
    BY DEF NextWord
  <2> QED BY <2>1 DEF PldHs, CmdHs, Ready, LastWord, BlkType, LanesType, EnvType
<1>1. CASE WdtIdle(ckp, free, avail)
  <2> USE <1>1, <1>0 DEF WdtIdle, WdtCntrInit
  <2>1. wdt_cs' \in WdtStates
    OBVIOUS
  <2>2. pld_valid' \in BOOLEAN
    OBVIOUS
  <2>3. pld_kind' \in Kinds /\ pld_dc_num' \in 0..1 /\ wdt_cntr' \in 0..(2 * MAX_BLOCK - 1)
    OBVIOUS
  <2>4. /\ wdt_last' \in BOOLEAN /\ xfer_done' \in BOOLEAN /\ check_busy' \in BOOLEAN
        /\ rd_not_started' \in BOOLEAN /\ pld_crc_en' \in BOOLEAN
    OBVIOUS
  <2> QED BY <2>1, <2>2, <2>3, <2>4
<1>2. CASE WdtStart(ckp) BY <1>2, <1>0 DEF WdtStart
<1>3. CASE WdtPayload(ckp) BY <1>3, <1>0 DEF WdtPayload
<1>4. CASE WdtCrc(ckp) BY <1>4, <1>0 DEF WdtCrc
<1>5. CASE WdtDummy(ckp)
  <2> USE <1>5, <1>0 DEF WdtDummy
  <2>1. wdt_cs' \in WdtStates /\ pld_kind' \in Kinds /\ pld_dc_num' \in 0..1
    OBVIOUS
  <2>2. pld_valid' \in BOOLEAN
    OBVIOUS
  <2>3. xfer_done' \in BOOLEAN /\ check_busy' \in BOOLEAN
    OBVIOUS
  <2>4. /\ wdt_cntr' \in 0..(2 * MAX_BLOCK - 1) /\ wdt_last' \in BOOLEAN
        /\ pld_crc_en' \in BOOLEAN /\ rd_not_started' \in BOOLEAN
    OBVIOUS
  <2> QED BY <2>1, <2>2, <2>3, <2>4
<1>6. CASE WdtRsp(ckp) BY <1>6, <1>0 DEF WdtRsp
<1>7. CASE WdtWait BY <1>7, <1>0 DEF WdtWait
<1> QED BY <1>1, <1>2, <1>3, <1>4, <1>5, <1>6, <1>7 DEF WdtFsm

(* The block bookkeeping and the error pulses keep their types.            *)
LEMMA BlkTyped ==
  ASSUME TypeOK, NEW ckp \in BOOLEAN, NEW bad \in BOOLEAN, Blocks(ckp, bad)
  PROVE  BlkType'
<1> USE SizeAssumption DEF TypeOK, BlkType, Blocks
<1>1. all_blocks_done' \in BOOLEAN
  OBVIOUS
<1>2. wait_wr_data' \in BOOLEAN
  BY Zenon
<1>3. wait_rd_data' \in BOOLEAN
  BY Zenon
<1>4. det_cmd_crc_err' \in BOOLEAN
  BY Zenon
<1>5. det_pld_crc_err' \in BOOLEAN
  BY Zenon
<1>6. blk_cntr' \in 0..(BlkMod - 1)
  OBVIOUS
<1> QED BY <1>1, <1>2, <1>3, <1>4, <1>5, <1>6

(* The timeout timer keeps its types.                                      *)
LEMMA TmrTyped == ASSUME TypeOK, NEW ckp \in BOOLEAN, Timer(ckp) PROVE TmrType'
<1> USE SizeAssumption DEF TypeOK, TmrType, Timer
<1>1. hit_rsp_tmr0_max' \in BOOLEAN /\ en_timer_mask' \in BOOLEAN
  OBVIOUS
<1>2. rsp_tmr1_gt_timeout' \in BOOLEAN /\ dat_tmr1_gt_timeout' \in BOOLEAN
  BY DEF RspOverdue, DatOverdue
<1>3. rsp_tmr0' \in 0..(PRESCALE - 1)
  OBVIOUS
<1>4. rsp_tmr1' \in 0..(TMR_MOD - 1)
  OBVIOUS
<1>5. en_timer' \in BOOLEAN
  BY Zenon
<1> QED BY <1>1, <1>2, <1>3, <1>4, <1>5

(* The recovery FSM keeps its types.                                       *)
LEMMA RecTyped == ASSUME TypeOK, Recovery PROVE RecType'
<1> USE DEF TypeOK, RecType, TmrType, RecStates
<1>1. CASE RecIdle BY <1>1 DEF RecIdle
<1>2. CASE RecCount BY <1>2 DEF RecCount
<1>3. CASE RecEnd BY <1>3 DEF RecEnd
<1> QED BY <1>1, <1>2, <1>3 DEF Recovery

(* A lane goes from a word to a word.                                      *)
LEMMA LaneNextTyped ==
  ASSUME NEW l \in LaneType, NEW word \in LaneType, NEW ckp, NEW valid,
         NEW ends \in BOOLEAN, NEW startbit \in BOOLEAN, NEW restart
  PROVE  LaneNext(l, ckp, valid, word, ends, startbit, restart) \in LaneType
BY DEF LaneNext, LaneType, Quiet, Kinds

(* The word a lane is offered is one it can shift.                         *)
LEMMA WordTyped ==
  ASSUME NEW l \in LaneType, NEW kind \in Kinds, NEW crc \in BOOLEAN, NEW long \in BOOLEAN
  PROVE  Word(l, kind, crc, long) \in LaneType
BY DEF Word, LaneType, Kinds

(* The two lanes and their input registers keep their types.               *)
LEMMA LanesTyped ==
  ASSUME TypeOK, NEW ckp \in BOOLEAN, NEW cends \in BOOLEAN, NEW dends \in BOOLEAN,
         NEW cstart \in BOOLEAN, NEW dstart \in BOOLEAN,
         CmdLane(ckp, cends, cstart), DatLane(ckp, dends, dstart)
  PROVE  LanesType'
<1>0. /\ cl \in LaneType /\ dl \in LaneType /\ cmd_kind \in Kinds
      /\ pld_kind \in Kinds /\ pld_crc_en \in BOOLEAN
  BY DEF TypeOK, LanesType, CmdType, WdtType
<1>1. cl' \in LaneType
  BY <1>0, LaneNextTyped, WordTyped DEF CmdLane
<1>2. dl' \in LaneType
  <2> DEFINE long == pld_kind # "dc" \/ pld_dc_num = 1
  <2>1. long \in BOOLEAN
    OBVIOUS
  <2>2. Word(dl, pld_kind, pld_crc_en, long) \in LaneType
    BY <1>0, <2>1, WordTyped
  <2> QED BY <1>0, <2>2, LaneNextTyped DEF DatLane
<1>3. cmd_clk_vld_i' \in BOOLEAN /\ dat_clk_vld_i' \in BOOLEAN
  BY DEF CmdLane, DatLane
<1>4. rx_cmd_valid' \in BOOLEAN /\ rx_pld_valid' \in BOOLEAN /\ rx_pld_end' \in BOOLEAN
  BY DEF CmdLane, DatLane, Sampled, Ready, Shifting
<1> QED BY <1>1, <1>2, <1>3, <1>4 DEF LanesType

(* Device and bus manager keep their types.                                *)
LEMMA EnvTyped ==
  ASSUME TypeOK, NEW ckp \in BOOLEAN, NEW dat0 \in BOOLEAN, NEW busy \in BOOLEAN,
         NEW finish \in BOOLEAN, Device(ckp, dat0, busy), BusManager(ckp, finish)
  PROVE  EnvType'
<1> USE DEF TypeOK, EnvType, Device, BusManager
<1>1. dev_busy' \in BOOLEAN
  OBVIOUS
<1>2. dat_line_not_busy' \in BOOLEAN
  OBVIOUS
<1>3. dev_words' \in Nat /\ mem_words' \in Nat
  OBVIOUS
<1>4. emmc_req_done' \in BOOLEAN
  BY Zenon
<1> QED BY <1>1, <1>2, <1>3, <1>4

(* Every choice of a tick is a Boolean.                                    *)
BooleanStep(ckp, cends, dends, cstart, dstart, free, avail, dat0, busy, finish, bad) ==
  /\ ckp \in BOOLEAN /\ cends \in BOOLEAN /\ dends \in BOOLEAN
  /\ cstart \in BOOLEAN /\ dstart \in BOOLEAN /\ free \in BOOLEAN
  /\ avail \in BOOLEAN /\ dat0 \in BOOLEAN /\ busy \in BOOLEAN
  /\ finish \in BOOLEAN /\ bad \in BOOLEAN
  /\ Step(ckp, cends, dends, cstart, dstart, free, avail, dat0, busy, finish, bad)

(* An edge is a Step for some choice of the surroundings.                  *)
LEMMA TickIsStep ==
  ASSUME Tick
  PROVE  \E ckp, cends, dends, cstart, dstart, free, avail, dat0, busy, finish, bad :
           BooleanStep(ckp, cends, dends, cstart, dstart, free, avail, dat0, busy,
                       finish, bad)
<1>1. PICK ckp \in BOOLEAN, cends \in OneOf(cl.busy),
     dends \in OneOf(dl.busy /\ DatEndOk), cstart \in OneOf(Waiting(cl)),
     dstart \in OneOf(Waiting(dl) /\ DatStartOk),
     free \in OneOf(wait_rd_data /\ wdt_cs = "IDLE"),
     avail \in OneOf(wait_wr_data /\ wdt_cs = "IDLE"),
     dat0 \in OneOf(dl.kind \in {"wr", "rd"}), busy \in OneOf(wdt_cs = "RSP"),
     finish \in OneOf(wait_wr_data \/ wait_rd_data),
     bad \in OneOf(rx_cmd_valid \/ rx_pld_valid) :
     Step(ckp, cends, dends, cstart, dstart, free, avail, dat0, busy, finish, bad)
  BY Zenon DEF Tick
<1>2. BooleanStep(ckp, cends, dends, cstart, dstart, free, avail, dat0, busy, finish, bad)
  BY <1>1 DEF OneOf, BooleanStep
<1> WITNESS ckp, cends, dends, cstart, dstart, free, avail, dat0, busy, finish, bad
<1> QED BY <1>2

(* Power-on reset establishes the types.                                   *)
LEMMA InitTyped == Init => TypeOK
<1> SUFFICES ASSUME Init PROVE TypeOK
  OBVIOUS
<1>0. /\ 0 \in 0..HostGap /\ 0 \in 0..5 /\ 0 \in 0..4 /\ 0 \in 0..7 /\ 0 \in 0..1
      /\ 0 \in 0..(2 * MAX_BLOCK - 1) /\ 0 \in 0..(BlkMod - 1)
      /\ 0 \in 0..(PRESCALE - 1) /\ 0 \in 0..(TMR_MOD - 1)
  BY HostAssumption, SizeAssumption
<1> USE DEF Init, CtlInit
<1>1. HostType /\ CmdType /\ RspType
  BY <1>0, OpsAssumption, Zenon
     DEF HostType, CmdType, RspType, CmdStates, RspStates, Kinds
<1>2. WdtType /\ BlkType
  BY <1>0, Zenon DEF WdtType, BlkType, WdtStates, Kinds
<1>3. TmrType /\ RecType
  BY <1>0, Zenon DEF TmrType, RecType, RecStates
<1>4. LanesType /\ EnvType
  BY DEF LanesType, EnvType, LaneType, Quiet, Kinds
<1> QED BY <1>1, <1>2, <1>3, <1>4 DEF TypeOK

(* The core reset keeps the types.                                         *)
LEMMA ResetTyped == ASSUME TypeOK, SoftReset PROVE TypeOK'
<1>0. /\ 0 \in 0..HostGap /\ 0 \in 0..5 /\ 0 \in 0..4 /\ 0 \in 0..7 /\ 0 \in 0..1
      /\ 0 \in 0..(2 * MAX_BLOCK - 1) /\ 0 \in 0..(BlkMod - 1)
      /\ 0 \in 0..(PRESCALE - 1) /\ 0 \in 0..(TMR_MOD - 1)
  BY HostAssumption, SizeAssumption
<1> USE DEF SoftReset
<1>1. HostType' /\ CmdType' /\ RspType'
  BY <1>0, Zenon DEF TypeOK, HostType, CmdType, RspType, CmdStates, RspStates, Kinds
<1>2. WdtType' /\ BlkType'
  BY <1>0, Zenon DEF WdtType, BlkType, WdtStates, Kinds
<1>3. TmrType' /\ RecType'
  BY <1>0, Zenon DEF TmrType, RecType, RecStates
<1>4. LanesType' /\ EnvType'
  BY DEF LanesType, EnvType, LaneType, Quiet, Kinds
<1> QED BY <1>1, <1>2, <1>3, <1>4 DEF TypeOK

(* An edge keeps the types: one part for each always block.                *)
LEMMA TickTyped == ASSUME TypeOK, Tick PROVE TypeOK'
<1>1. PICK ckp, cends, dends, cstart, dstart, free, avail, dat0, busy, finish, bad :
           BooleanStep(ckp, cends, dends, cstart, dstart, free, avail, dat0, busy,
                       finish, bad)
  BY TickIsStep
<1>2. HostType' /\ CmdType' /\ RspType'
  BY <1>1, HostTyped, CmdTyped, RspTyped DEF BooleanStep, Step
<1>3. WdtType' /\ BlkType' /\ TmrType' /\ RecType'
  BY <1>1, WdtTyped, BlkTyped, TmrTyped, RecTyped DEF BooleanStep, Step
<1>4. LanesType' /\ EnvType'
  BY <1>1, LanesTyped, EnvTyped DEF BooleanStep, Step
<1> QED BY <1>2, <1>3, <1>4 DEF TypeOK

(* So does every step of the specification.                                *)
LEMMA NextTyped == ASSUME TypeOK, [Next]_vars PROVE TypeOK'
<1>1. CASE Tick BY <1>1, TickTyped
<1>2. CASE SoftReset BY <1>2, ResetTyped
<1>3. CASE UNCHANGED vars
  BY <1>3 DEF vars, hostVars, cmdVars, rspVars, wdtVars, blkVars, tmrVars, recVars,
     laneVars, envVars, TypeOK, HostType, CmdType, RspType, WdtType, BlkType, TmrType,
     RecType, LanesType, EnvType
<1> QED BY <1>1, <1>2, <1>3 DEF Next

(* Every register keeps its range, whatever the device, the bus manager,   *)
(* the divided clock and the timing of the host do.                        *)
THEOREM TypeCorrect == Spec => []TypeOK
<1>1. Init => TypeOK
  BY InitTyped
<1>2. TypeOK /\ [Next]_vars => TypeOK'
  BY NextTyped
<1> QED BY <1>1, <1>2, PTL DEF Spec

----------------------------------------------------------------------------
(* The FSMs are coupled by EngineInv.                                      *)

(* What a step of the command FSM can do, arm by arm.                      *)
LEMMA CmdMoves ==
  ASSUME TypeOK, EngineInv, NEW ckp \in BOOLEAN, CmdFsm(ckp)
  PROVE  /\ cmd_en_restart => cmd_cs' = "IDLE" /\ ~det_emmc_start' /\ det_emmc_done'
         /\ ~cmd_en_restart /\ cmd_cs = "RSP" =>
              \/ cmd_cs' = "RSP"
              \/ cmd_cs' = "WAIT" /\ rsp_cs = "CRC"
         /\ ~cmd_en_restart /\ cmd_cs = "WAIT" =>
              cmd_cs' = IF det_emmc_done THEN "IDLE" ELSE "WAIT"
         /\ cmd_cs' = "RSP" => cmd_cs \in {"DUMMY", "RSP"}
         /\ cmd_cs' # "IDLE" => det_emmc_start'
         /\ det_emmc_done' /\ ~cmd_en_restart => cmd_cs = "WAIT" /\ LinesFree
         /\ ~cmd_en_restart =>
              det_emmc_start' = IF cmd_cs = "IDLE" THEN det_emmc_start \/ cmd_start
                                ELSE det_emmc_start /\ ~(cmd_cs = "WAIT" /\ det_emmc_done)
<1> USE DEF CmdGoto, CmdStay, EngineInv, BusyInv, DoneInv
<1>0. CmdType /\ RecType
  BY DEF TypeOK
<1>1. CASE CmdIdle BY <1>1 DEF CmdIdle
<1>2. CASE CmdBoot BY <1>2 DEF CmdBoot
<1>3. CASE CmdSendStart(ckp) BY <1>3 DEF CmdSendStart
<1>4. CASE CmdSendArg(ckp) BY <1>4 DEF CmdSendArg
<1>5. CASE CmdSendCrc(ckp) BY <1>5 DEF CmdSendCrc
<1>6. CASE CmdDummy(ckp) BY <1>6 DEF CmdDummy
<1>7. CASE CmdRsp(ckp) BY <1>7 DEF CmdRsp
<1>8. CASE CmdWait(ckp) BY <1>8 DEF CmdWait
<1> QED BY <1>1, <1>2, <1>3, <1>4, <1>5, <1>6, <1>7, <1>8 DEF CmdFsm

(* Power-on reset establishes the engine invariant.                        *)
LEMMA EngineInvInit == Init => EngineInv
BY DEF Init, CtlInit, EngineInv, BusyInv, RspInv, DataInv, DoneInv, RestartInv, HostInv

(* The core reset establishes it, wherever the FSMs were.                  *)
LEMMA EngineInvReset == ASSUME SoftReset PROVE EngineInv'
BY DEF SoftReset, EngineInv, BusyInv, RspInv, DataInv, DoneInv, RestartInv, HostInv

(* An edge keeps it: one step for each of its conjuncts.                   *)
LEMMA EngineInvTick == ASSUME TypeOK, EngineInv, Tick PROVE EngineInv'
<1>1. PICK ckp, cends, dends, cstart, dstart, free, avail, dat0, busy, finish, bad :
           BooleanStep(ckp, cends, dends, cstart, dstart, free, avail, dat0, busy,
                       finish, bad)
  BY TickIsStep
<1>2. /\ CmdFsm(ckp) /\ RspFsm /\ WdtFsm(ckp, free, avail) /\ Blocks(ckp, bad)
      /\ Timer(ckp) /\ Recovery
  BY <1>1 DEF BooleanStep, Step
<1>3. /\ CmdType /\ RspType /\ WdtType /\ BlkType /\ TmrType /\ RecType
      /\ RecType' /\ TmrType'
  BY TickTyped DEF TypeOK
<1>4. /\ cmd_en_restart => cmd_cs' = "IDLE" /\ ~det_emmc_start' /\ det_emmc_done'
      /\ ~cmd_en_restart /\ cmd_cs = "RSP" =>
           \/ cmd_cs' = "RSP"
           \/ cmd_cs' = "WAIT" /\ rsp_cs = "CRC"
      /\ ~cmd_en_restart /\ cmd_cs = "WAIT" =>
           cmd_cs' = IF det_emmc_done THEN "IDLE" ELSE "WAIT"
      /\ cmd_cs' = "RSP" => cmd_cs \in {"DUMMY", "RSP"}
      /\ cmd_cs' # "IDLE" => det_emmc_start'
      /\ det_emmc_done' /\ ~cmd_en_restart => cmd_cs = "WAIT" /\ LinesFree
      /\ ~cmd_en_restart =>
           det_emmc_start' = IF cmd_cs = "IDLE" THEN det_emmc_start \/ cmd_start
                             ELSE det_emmc_start /\ ~(cmd_cs = "WAIT" /\ det_emmc_done)
  BY <1>1, <1>2, CmdMoves DEF BooleanStep
<1>5. BusyInv'
  BY <1>4 DEF BusyInv
(* The response FSM leaves RSP_ARG after the command FSM left no arm but   *)
(* CMD_RSP, and enters RSP_START only from CMD_RSP.                        *)
<1>6. /\ rsp_cs' = "START" /\ ~cmd_en_restart =>
           rsp_cs = "START" \/ (rsp_cs = "IDLE" /\ det_cmd_done)
      /\ rsp_cs' = "ARG" /\ ~cmd_en_restart => rsp_cs \in {"START", "ARG"}
      /\ rsp_cs = "CRC" /\ ~cmd_en_restart => rsp_cs' \in {"CRC", "WAIT"}
      /\ cmd_en_restart => rsp_cs' = "IDLE"
      /\ det_cmd_done' => ~cmd_en_restart /\ cmd_cs = "RSP"
  BY <1>2, <1>3 DEF RspFsm, RspIdle, RspStart, RspArg, RspCrc, RspWait, RspGoto, RspType
<1>7. RspInv'
  BY <1>4, <1>6 DEF EngineInv, RspInv
<1>8. /\ cmd_en_restart => ~wait_rd_data' /\ ~wait_wr_data'
      /\ wait_rd_data' => wait_rd_data \/ cmd_cs = "RSP"
      /\ wait_wr_data' => wait_wr_data \/ cmd_cs = "RSP"
      /\ ~cmd_en_restart /\ wdt_cs # "WAIT" =>
           (wait_rd_data => wait_rd_data') /\ (wait_wr_data => wait_wr_data')
  BY <1>2, <1>3 DEF Blocks, BlkType
<1>9. /\ cmd_en_restart => wdt_cs' = "IDLE"
      /\ wdt_cs = "WAIT" => wdt_cs' \in {"IDLE", "WAIT"}
      /\ wdt_cs = "IDLE" /\ wdt_cs' # "IDLE" => wait_rd_data \/ wait_wr_data
  <2> USE DEF WdtGoto
  <2>1. CASE WdtIdle(ckp, free, avail) BY <2>1 DEF WdtIdle
  <2>2. CASE WdtStart(ckp) BY <2>2 DEF WdtStart
  <2>3. CASE WdtPayload(ckp) BY <2>3 DEF WdtPayload
  <2>4. CASE WdtCrc(ckp) BY <2>4 DEF WdtCrc
  <2>5. CASE WdtDummy(ckp) BY <2>5 DEF WdtDummy
  <2>6. CASE WdtRsp(ckp) BY <2>6 DEF WdtRsp
  <2>7. CASE WdtWait BY <2>7 DEF WdtWait
  <2> QED BY <1>2, <2>1, <2>2, <2>3, <2>4, <2>5, <2>6, <2>7 DEF WdtFsm
<1>10. DataInv'
  <2>1. wait_rd_data' \/ wait_wr_data' => cmd_cs' \in {"RSP", "WAIT"}
    BY <1>4, <1>8 DEF EngineInv, DataInv, DoneInv
  <2>2. wdt_cs' \notin {"IDLE", "WAIT"} => wait_rd_data' \/ wait_wr_data'
    BY <1>3, <1>8, <1>9 DEF EngineInv, DataInv, WdtType, WdtStates
  <2> QED BY <2>1, <2>2 DEF DataInv
<1>11. DoneInv'
  BY <1>4, <1>8 DEF EngineInv, DoneInv, LinesFree
<1>12. /\ rsp_tmr1_gt_timeout' => rsp_cs = "START"
       /\ dat_tmr1_gt_timeout' => wdt_cs = "PAYLOAD"
  BY <1>2 DEF Timer, RspOverdue, DatOverdue
<1>13. RestartInv'
  <2>1. cmd_en_restart' <=> recovery_cs' # "IDLE"
    BY <1>2, <1>3 DEF EngineInv, RestartInv, Recovery, RecIdle, RecCount, RecEnd, RecType,
       TmrType
  <2>2. recovery_cs' \in {"WAIT1", "WAIT2", "END"} => cmd_en_restart
    BY <1>2, <1>3 DEF EngineInv, RestartInv, Recovery, RecIdle, RecCount, RecEnd
  <2>3. rsp_tmr1_gt_timeout' \/ dat_tmr1_gt_timeout' =>
          \/ cmd_cs' \in {"RSP", "WAIT"} /\ ~det_emmc_done'
          \/ recovery_cs' = "WAIT1"
    <3> SUFFICES ASSUME rsp_tmr1_gt_timeout' \/ dat_tmr1_gt_timeout'
                 PROVE  \/ cmd_cs' \in {"RSP", "WAIT"} /\ ~det_emmc_done'
                        \/ recovery_cs' = "WAIT1"
      OBVIOUS
    <3>1. /\ cmd_cs = "RSP" \/ (cmd_cs = "WAIT" /\ ~det_emmc_done)
          /\ cmd_cs = "WAIT" => wait_rd_data \/ wait_wr_data
      BY <1>12 DEF EngineInv, RspInv, DataInv, DoneInv
    <3>2. CASE ~cmd_en_restart
      BY <3>1, <3>2, <1>4 DEF LinesFree
    <3>3. CASE cmd_en_restart
      <4>1. recovery_cs = "WAIT0"
        BY <3>1, <3>3, <1>3 DEF EngineInv, RestartInv, RecType, RecStates
      <4> QED BY <4>1, <1>2 DEF Recovery, RecIdle, RecCount, RecEnd
    <3> QED BY <3>2, <3>3
  <2>4. cmd_en_restart =>
          /\ cmd_cs' = "IDLE" /\ rsp_cs' = "IDLE" /\ wdt_cs' = "IDLE"
          /\ ~det_emmc_start' /\ det_emmc_done' /\ ~det_cmd_done'
          /\ ~wait_rd_data' /\ ~wait_wr_data'
    BY <1>4, <1>6, <1>8, <1>9
  <2>5. recovery_cs' = "WAIT0" => det_emmc_start'
    <3> SUFFICES ASSUME recovery_cs' = "WAIT0" PROVE det_emmc_start'
      OBVIOUS
    <3>1. /\ recovery_cs = "IDLE"
          /\ rsp_tmr1_gt_timeout \/ dat_tmr1_gt_timeout
      BY <1>2, <1>3 DEF Recovery, RecIdle, RecCount, RecEnd
    <3>2. ~cmd_en_restart /\ cmd_cs \in {"RSP", "WAIT"} /\ ~det_emmc_done
      BY <3>1 DEF EngineInv, RestartInv
    <3> QED BY <3>2, <1>4
  <2> QED BY <2>1, <2>2, <2>3, <2>4, <2>5 DEF RestartInv
<1>14. HostInv'
  <2>0. /\ gap \in Nat /\ gap' \in Nat /\ cmd_start \in BOOLEAN
        /\ det_emmc_start \in BOOLEAN /\ det_emmc_done \in BOOLEAN
    BY TickTyped, HostAssumption DEF TypeOK, HostType, CmdType
  <2>1. /\ det_emmc_start => gap' = 0
        /\ gap' <= gap + 1
    BY <1>1, <2>0 DEF BooleanStep, Step, Host, HostIdle, HostStart
  <2>2. recovery_cs' = "WAIT1" => gap' = 0
    BY <1>2, <2>1 DEF EngineInv, RestartInv, Recovery, RecIdle, RecCount, RecEnd
  <2>3. recovery_cs' = "WAIT2" => gap' <= 1
    BY <1>2, <2>0, <2>1 DEF EngineInv, HostInv, Recovery, RecIdle, RecCount, RecEnd
  <2>4. recovery_cs' = "END" => gap' <= 2
    BY <1>2, <1>3, <2>0, <2>1
       DEF EngineInv, HostInv, Recovery, RecIdle, RecCount, RecEnd, RecType, RecStates
  <2>5. ~det_emmc_start' /\ det_emmc_done' => gap' <= 3
    <3> SUFFICES ASSUME ~det_emmc_start', det_emmc_done' PROVE gap' <= 3
      OBVIOUS
    <3>1. CASE det_emmc_start
      BY <3>1, <2>1
    <3>2. CASE ~det_emmc_start
      <4>1. cmd_en_restart
        BY <3>2, <1>4 DEF EngineInv, BusyInv
      <4>2. gap <= 2
        BY <3>2, <4>1, <1>3, <2>0 DEF EngineInv, RestartInv, HostInv, RecType, RecStates
      <4> QED BY <4>2, <2>0, <2>1
    <3> QED BY <3>1, <3>2
  <2>6. cmd_start' => ~det_emmc_start' /\ ~det_emmc_done' /\ recovery_cs' = "IDLE"
    <3> SUFFICES ASSUME cmd_start'
                 PROVE  ~det_emmc_start' /\ ~det_emmc_done' /\ recovery_cs' = "IDLE"
      OBVIOUS
    <3>1. ~det_emmc_start /\ ~cmd_start /\ gap = HostGap
      BY <1>1 DEF BooleanStep, Step, Host, HostIdle, HostStart
    <3>2. recovery_cs = "IDLE" /\ ~cmd_en_restart
      BY <3>1, <1>3, <2>0, HostAssumption
         DEF EngineInv, RestartInv, HostInv, RecType, RecStates
    <3>3. cmd_cs = "IDLE"
      BY <3>1 DEF EngineInv, BusyInv
    <3>4. ~det_emmc_start' /\ ~det_emmc_done'
      BY <3>1, <3>2, <3>3, <1>4
    <3>5. recovery_cs' = "IDLE"
      BY <3>2, <3>3, <1>2 DEF EngineInv, RestartInv, Recovery, RecIdle, RecCount, RecEnd
    <3> QED BY <3>4, <3>5
  <2> QED BY <2>2, <2>3, <2>4, <2>5, <2>6 DEF HostInv
<1> QED BY <1>5, <1>7, <1>10, <1>11, <1>13, <1>14 DEF EngineInv

(* So does every step of the specification.                                *)
LEMMA EngineInvNext == ASSUME TypeOK, EngineInv, [Next]_vars PROVE EngineInv'
<1>1. CASE Tick BY <1>1, EngineInvTick
<1>2. CASE SoftReset BY <1>2, EngineInvReset
<1>3. CASE UNCHANGED vars
  BY <1>3 DEF vars, hostVars, cmdVars, rspVars, wdtVars, blkVars, recVars, tmrVars,
     EngineInv, BusyInv, RspInv, DataInv, DoneInv, RestartInv, HostInv
<1> QED BY <1>1, <1>2, <1>3 DEF Next

(* The FSMs stay coupled: a timeout is raised only for a command that is   *)
(* still busy, a restart brings every FSM to rest before it ends, and a    *)
(* start pulse finds the processor idle.                                   *)
THEOREM EngineInvariant == Spec => []EngineInv
<1>1. Init => TypeOK /\ EngineInv
  BY InitTyped, EngineInvInit
<1>2. TypeOK /\ EngineInv /\ [Next]_vars => TypeOK' /\ EngineInv'
  BY NextTyped, EngineInvNext
<1> QED BY <1>1, <1>2, PTL DEF Spec

----------------------------------------------------------------------------
(* Refinement of CmdEngine.                                                *)

(* An edge is a step of CmdEngine, or leaves its variables alone.          *)
LEMMA TickRefines ==
  ASSUME TypeOK, EngineInv, Tick
  PROVE  [Engine!EngineNext]_(Engine!engineVars)
<1>1. PICK ckp, cends, dends, cstart, dstart, free, avail, dat0, busy, finish, bad :
           BooleanStep(ckp, cends, dends, cstart, dstart, free, avail, dat0, busy,
                       finish, bad)
  BY TickIsStep
<1>2. CmdFsm(ckp) /\ (HostIdle \/ HostStart) /\ core_rst' = FALSE
  BY <1>1 DEF BooleanStep, Step, Host
<1>3. /\ cmd_start \in BOOLEAN /\ core_rst \in BOOLEAN /\ det_emmc_start \in BOOLEAN /\ det_emmc_done \in BOOLEAN
      /\ det_emmc_start' \in BOOLEAN /\ det_emmc_done' \in BOOLEAN
  BY TickTyped DEF TypeOK, HostType, CmdType
<1>4. /\ cmd_en_restart => ~det_emmc_start' /\ det_emmc_done'
      /\ det_emmc_done' /\ ~cmd_en_restart => cmd_cs = "WAIT"
      /\ ~cmd_en_restart =>
           det_emmc_start' = IF cmd_cs = "IDLE" THEN det_emmc_start \/ cmd_start
                             ELSE det_emmc_start /\ ~(cmd_cs = "WAIT" /\ det_emmc_done)
  BY <1>1, <1>2, CmdMoves DEF BooleanStep
<1> USE DEF Engine!EngineNext, Engine!engineVars
<1>5. CASE cmd_start
  <2>1. /\ ~cmd_en_restart /\ ~det_emmc_start /\ ~det_emmc_done /\ cmd_cs = "IDLE"
        /\ cmd_start' = FALSE
    BY <1>2, <1>5 DEF EngineInv, HostInv, RestartInv, BusyInv, HostIdle, HostStart
  <2>2. Engine!Accept
    BY <2>1, <1>2, <1>3, <1>4, <1>5 DEF Engine!Accept
  <2> QED BY <2>2
<1>6. CASE ~cmd_start /\ det_emmc_start
  <2>1. cmd_start' = FALSE
    BY <1>2, <1>6 DEF HostIdle, HostStart
  <2>2. CASE cmd_en_restart \/ det_emmc_done
    <3>1. det_emmc_done /\ ~cmd_en_restart => cmd_cs = "WAIT"
      BY <1>6 DEF EngineInv, DoneInv
    <3>2. det_emmc_start' = FALSE /\ (det_emmc_done \/ det_emmc_done')
      BY <2>2, <3>1, <1>3, <1>4
    <3>3. Engine!Retire
      BY <2>1, <3>2, <1>2, <1>3, <1>6 DEF Engine!Retire
    <3> QED BY <3>3
  <2>3. CASE ~cmd_en_restart /\ ~det_emmc_done
    <3>1. det_emmc_start' = TRUE
      BY <2>3, <1>3, <1>4, <1>6
    <3>2. det_emmc_done' => Engine!Report
      BY <2>1, <2>3, <3>1, <1>2, <1>3, <1>6 DEF Engine!Report
    <3>3. ~det_emmc_done' => Engine!Release \/ UNCHANGED Engine!engineVars
      BY <2>1, <2>3, <3>1, <1>2, <1>3, <1>6 DEF Engine!Release
    <3> QED BY <3>2, <3>3
  <2> QED BY <2>2, <2>3
<1>7. CASE ~cmd_start /\ ~det_emmc_start
  <2>1. cmd_cs = "IDLE"
    BY <1>7 DEF EngineInv, BusyInv
  <2>2. det_emmc_start' = FALSE /\ (det_emmc_done' <=> cmd_en_restart)
    BY <2>1, <1>3, <1>4, <1>7
  <2>3. cmd_en_restart => det_emmc_done
    BY <1>7 DEF EngineInv, RestartInv, TypeOK, RecType, RecStates
  <2>4. CASE HostIdle
    <3>1. cmd_start' = FALSE
      BY <2>4 DEF HostIdle
    <3>2. CASE det_emmc_done /\ ~det_emmc_done'
      <4>1. Engine!Settle
        BY <3>1, <3>2, <2>2, <1>2, <1>3, <1>7 DEF Engine!Settle
      <4> QED BY <4>1
    <3>3. CASE det_emmc_done <=> det_emmc_done'
      <4>1. Engine!Release \/ UNCHANGED Engine!engineVars
        BY <3>1, <3>3, <2>2, <1>2, <1>3, <1>7 DEF Engine!Release
      <4> QED BY <4>1
    <3> QED BY <3>2, <3>3, <2>2, <2>3
  <2>5. CASE HostStart
    <3>1. ~det_emmc_done /\ cmd_start' = TRUE
      BY <2>5, <1>7, HostAssumption DEF EngineInv, HostInv, HostStart, TypeOK, HostType
    <3>2. Engine!Request
      BY <3>1, <2>2, <2>3, <1>2, <1>3, <1>7 DEF Engine!Request
    <3> QED BY <3>2
  <2> QED BY <1>2, <2>4, <2>5
<1> QED BY <1>3, <1>5, <1>6, <1>7

(* The command processor implements the engine that the driver sees: no    *)
(* start pulse is lost, busy falls only with a done event, and no done     *)
(* event comes without a command, for every command, timeout and device.   *)
THEOREM ImplementsEngine == Spec => EngineSafe
<1>1. Init => Engine!EngineInit
  BY DEF Init, CtlInit, Engine!EngineInit
<1>2. TypeOK /\ EngineInv /\ [Next]_vars => [Engine!EngineNext]_(Engine!engineVars)
  <2> SUFFICES ASSUME TypeOK, EngineInv, [Next]_vars
               PROVE  [Engine!EngineNext]_(Engine!engineVars)
    OBVIOUS
  <2>1. CASE Tick BY <2>1, TickRefines
  <2>2. CASE SoftReset
    BY <2>2 DEF SoftReset, Engine!EngineNext, Engine!Abort
  <2>3. CASE UNCHANGED vars
    BY <2>3 DEF vars, hostVars, cmdVars, Engine!engineVars
  <2> QED BY <2>1, <2>2, <2>3 DEF Next
<1> QED BY <1>1, <1>2, TypeCorrect, EngineInvariant, PTL DEF Spec, EngineSafe, Engine!EngineSafe
=============================================================================
