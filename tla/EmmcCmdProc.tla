---------------------------- MODULE EmmcCmdProc ----------------------------
(***************************************************************************)
(* The command processor of the controller (rtl/emmc_cmd_proc.v) with the  *)
(* two SERDES lanes it drives (rtl/emmc_serdes.v), seen from clk_i.        *)
(*                                                                         *)
(* One step (Tick) is one rising edge of clk_i.  Every always block of the *)
(* source is one conjunct of Tick and assigns the registers that the block *)
(* assigns; an arm of a case statement is one disjunct.  SoftReset is the  *)
(* edge on which ip_core_rst_n is active.                                  *)
(*                                                                         *)
(* A SERDES lane is reduced to the word it is shifting: the bit and byte   *)
(* counters of a word become "busy" and then, on an arbitrary later edge,  *)
(* not busy, so the model covers every clock divider, bus width and word   *)
(* size at once.  The input pipeline (pad register, bit assembly, rx_valid *)
(* register) is one register, shorter than every word, as in the source.   *)
(* The device, the bus manager and the host are choices in the quantifiers *)
(* of Tick, and its bounds are the constants below.                        *)
(***************************************************************************)
EXTENDS Naturals, FiniteSets

CONSTANTS
  Ops,          \* the commands the host may program (see IsOp)
  BlockWords,   \* 32-bit words of a data block
  MIN_BLOCK,    \* MIN_BLOCK_SIZE and MAX_BLOCK_SIZE of the source, in words
  MAX_BLOCK,
  BlkMod,       \* 2^BLKCNTWID, the range of the block counters
  PRESCALE,     \* eMMC clocks per timer count (32 in the source)
  TMR_MOD,      \* 2^TMR_WIDTH, the range of the timeout timer
  CmdTimeout,   \* csr_cmd_timeout
  DatTimeout,   \* csr_dat_timeout
  HostGap,      \* clk_i edges the host lets pass from busy=0 to a new start
  HostReinits,  \* does the host reset the core after a response timeout?
  ShortBlocks   \* may a read block end before the response does?

Dirs == {"none", "rd", "wr", "boot"}
RspTypes == {"R0", "R1", "R2", "R3"}

(* What the CSR block tells of a command: whether its index makes it move  *)
(* data (wait_rd_data, wait_wr_data), its response type, CTRL0's number of *)
(* blocks, and whether it is BUSTEST_W (CMD19).                            *)
OpType == [dir : Dirs, rsp : RspTypes, blocks : 0..(BlkMod - 1),
           bustest : BOOLEAN]

ASSUME OpsAssumption == Ops \subseteq OpType /\ Ops # {}
ASSUME SizeAssumption ==
  /\ BlockWords \in Nat /\ BlockWords >= 4
  /\ MIN_BLOCK \in Nat /\ MAX_BLOCK \in Nat /\ BlockWords <= MAX_BLOCK
  /\ BlkMod \in Nat /\ BlkMod >= 2
  /\ PRESCALE \in Nat /\ PRESCALE >= 1
  /\ TMR_MOD \in Nat /\ TMR_MOD >= 2
  /\ CmdTimeout \in 0..(TMR_MOD - 1)
  /\ DatTimeout \in 0..(TMR_MOD - 1)
(* The restart takes four edges; one register access takes three.          *)
ASSUME HostAssumption == HostGap \in Nat /\ HostGap >= 4 /\ HostReinits \in BOOLEAN

(* A response lasts 48 clocks; a block of 256 bytes (the least of the IP's *)
(* settings) outlasts it on every bus width, one of 16 bytes need not.     *)
ASSUME DeviceAssumption == ShortBlocks \in BOOLEAN

VARIABLES
  \* CSR inputs, and the host's distance from the last busy command
  op, cmd_start, core_rst, gap, rsp_timed_out,
  \* command transmit FSM
  cmd_cs, det_emmc_start, det_emmc_done, cmd_cntr, cmd_valid, cmd_kind,
  \* response FSM and the response registers filled since the last command
  rsp_cs, rsp_cntr, det_cmd_done, cmd_clk_vld_q, rsp_ptr, saved_rsp,
  \* data transfer FSM
  wdt_cs, wdt_cntr, wdt_last, xfer_done, check_busy, rd_not_started,
  pld_valid, pld_kind, pld_crc_en, pld_dc_num,
  \* block bookkeeping and error pulses
  wait_wr_data, wait_rd_data, blk_cntr, all_blocks_done, dat_line_not_busy,
  det_cmd_crc_err, det_pld_crc_err,
  \* timeout timer and recovery FSM
  en_timer, en_timer_mask, rsp_tmr0, hit_rsp_tmr0_max, rsp_tmr1,
  rsp_tmr1_gt_timeout, dat_tmr1_gt_timeout,
  recovery_cs, cmd_en_restart, dat_en_restart,
  \* SERDES lanes and their input registers
  cl, cmd_clk_vld_i, rx_cmd_valid,
  dl, dat_clk_vld_i, rx_pld_valid, rx_pld_end,
  \* device: busy on DAT0, payload words seen on the data lines
  dev_busy, dev_words,
  \* bus manager: its FIFO accesses for this command, its emmc_req_done
  mem_words, emmc_req_done

hostVars == <<op, cmd_start, core_rst, gap, rsp_timed_out>>
cmdVars  == <<cmd_cs, det_emmc_start, det_emmc_done, cmd_cntr, cmd_valid,
              cmd_kind>>
rspVars  == <<rsp_cs, rsp_cntr, det_cmd_done, cmd_clk_vld_q, rsp_ptr,
              saved_rsp>>
wdtVars  == <<wdt_cs, wdt_cntr, wdt_last, xfer_done, check_busy,
              rd_not_started, pld_valid, pld_kind, pld_crc_en, pld_dc_num>>
blkVars  == <<wait_wr_data, wait_rd_data, blk_cntr, all_blocks_done,
              dat_line_not_busy, det_cmd_crc_err, det_pld_crc_err>>
tmrVars  == <<en_timer, en_timer_mask, rsp_tmr0, hit_rsp_tmr0_max, rsp_tmr1,
              rsp_tmr1_gt_timeout, dat_tmr1_gt_timeout>>
recVars  == <<recovery_cs, cmd_en_restart, dat_en_restart>>
laneVars == <<cl, cmd_clk_vld_i, rx_cmd_valid,
              dl, dat_clk_vld_i, rx_pld_valid, rx_pld_end>>
envVars  == <<dev_busy, dev_words, mem_words, emmc_req_done>>
vars == <<hostVars, cmdVars, rspVars, wdtVars, blkVars, tmrVars, recVars,
          laneVars, envVars>>

CmdStates == {"IDLE", "BOOT", "START", "ARG", "CRC", "DUMMY", "RSP", "WAIT"}
RspStates == {"IDLE", "START", "ARG", "CRC", "WAIT"}
WdtStates == {"IDLE", "START", "PAYLOAD", "CRC", "DUMMY", "RSP", "WAIT"}
RecStates == {"IDLE", "WAIT0", "WAIT1", "WAIT2", "END"}

----------------------------------------------------------------------------
(* SERDES lane.  kind is "none" when clk_valid_r is 0, else what the word  *)
(* does: "wr" drives the line, "rd" waits for a start bit (wait_stb) and   *)
(* samples, "dc" counts dummy cycles (dc_en_r).                            *)

Kinds == {"wr", "rd", "dc"}
LaneType == [kind : Kinds \cup {"none"}, crc : BOOLEAN, busy : BOOLEAN,
             stb : BOOLEAN]
Quiet == [kind |-> "none", crc |-> FALSE, busy |-> FALSE, stb |-> FALSE]

Shifting(l, ckp) == ckp /\ (l.kind = "rd" => l.stb)   \* en_shift_wdat
Ready(l, ckp) == ~l.busy /\ Shifting(l, ckp)          \* tx_ready

Word(l, kind, crc, long) ==                           \* en_load_wdat
  [kind |-> kind, crc |-> crc, busy |-> long,
   stb |-> kind = "rd" /\ l.kind = "rd" /\ l.stb]

(* The lane after an edge.  The device's start bit is latched by a lane    *)
(* that waits for one; ends says whether this edge shifts the last bit.    *)
LaneNext(l, ckp, valid, word, ends, startbit, restart) ==
  IF restart THEN Quiet
  ELSE IF Ready(l, ckp) THEN IF valid THEN word ELSE Quiet
  ELSE IF Shifting(l, ckp) THEN [l EXCEPT !.busy = ~ends]
  ELSE [l EXCEPT !.stb = @ \/ (l.kind = "rd" /\ startbit)]

Sampled(l, ckp) == Ready(l, ckp) /\ l.kind \in {"wr", "rd"}

CmdHs(ckp) == cmd_valid /\ Ready(cl, ckp)   \* tx_cmd_valid & tx_cmd_ready
PldHs(ckp) == pld_valid /\ Ready(dl, ckp)   \* tx_pld_valid & tx_pld_ready

CmdLane(ckp, ends, startbit) ==
  /\ cl' = LaneNext(cl, ckp, cmd_valid, Word(cl, cmd_kind, FALSE, TRUE),
                    ends, startbit, cmd_en_restart)
  /\ cmd_clk_vld_i' = (cl.kind \in {"wr", "rd"})
  /\ rx_cmd_valid' = (Sampled(cl, ckp) /\ cl.kind = "rd")

DatLane(ckp, ends, startbit) ==
  /\ dl' = LaneNext(dl, ckp, pld_valid,
                    Word(dl, pld_kind, pld_crc_en,
                         pld_kind # "dc" \/ pld_dc_num = 1),
                    ends, startbit, dat_en_restart)
  /\ dat_clk_vld_i' = (dl.kind \in {"wr", "rd"})
  /\ rx_pld_valid' = Sampled(dl, ckp)
  /\ rx_pld_end' = (Sampled(dl, ckp) /\ dl.crc)

----------------------------------------------------------------------------
(* Command transmit FSM.  cmd_en_restart overrides the three registers     *)
(* that CmdGoto assigns, whatever the arm computes.                        *)

(* Mutant: the restart ends the command without a done event.              *)
CmdGotoSilent(cs, start, done) ==
  /\ cmd_cs' = IF cmd_en_restart THEN "IDLE" ELSE cs
  /\ det_emmc_start' = (start /\ ~cmd_en_restart)
  /\ det_emmc_done' = done

CmdGoto(cs, start, done) ==
  /\ cmd_cs' = IF cmd_en_restart THEN "IDLE" ELSE cs
  /\ det_emmc_start' = (start /\ ~cmd_en_restart)
  /\ det_emmc_done' = (done \/ cmd_en_restart)

CmdStay(cs) == CmdGoto(cs, det_emmc_start, det_emmc_done)

CmdOffer(valid, kind) == cmd_valid' = valid /\ cmd_kind' = kind

(* Mutant: one word too many for the long response.                        *)
RspWordsLong == CASE op.rsp = "R0" -> 0 [] op.rsp = "R2" -> 6 [] OTHER -> 2
RspWords == CASE op.rsp = "R0" -> 0 [] op.rsp = "R2" -> 5 [] OTHER -> 2

CmdIdle ==
  /\ cmd_cs = "IDLE"
  /\ CmdGoto(IF ~det_emmc_start THEN "IDLE"
             ELSE IF op.dir = "boot" THEN "BOOT" ELSE "START",
             det_emmc_start \/ cmd_start, FALSE)
  /\ cmd_cntr' = 0
  /\ CmdOffer(FALSE, "rd")

CmdBoot ==
  /\ cmd_cs = "BOOT"
  /\ CmdStay("BOOT")
  /\ CmdOffer(TRUE, "wr")
  /\ UNCHANGED cmd_cntr

CmdSendStart(ckp) ==
  /\ cmd_cs = "START"
  /\ CmdStay(IF CmdHs(ckp) THEN "ARG" ELSE "START")
  /\ CmdOffer(TRUE, "wr")
  /\ UNCHANGED cmd_cntr

CmdSendArg(ckp) ==
  /\ cmd_cs = "ARG"
  /\ CmdStay(IF CmdHs(ckp) THEN "CRC" ELSE "ARG")
  /\ CmdOffer(TRUE, cmd_kind)
  /\ UNCHANGED cmd_cntr

CmdSendCrc(ckp) ==
  /\ cmd_cs = "CRC"
  /\ CmdStay(IF CmdHs(ckp) THEN "DUMMY" ELSE "CRC")
  /\ CmdOffer(TRUE, IF CmdHs(ckp) THEN "dc" ELSE cmd_kind)
  /\ cmd_cntr' = RspWords

CmdDummy(ckp) ==
  /\ cmd_cs = "DUMMY"
  /\ CmdStay(IF ~CmdHs(ckp) THEN "DUMMY"
             ELSE IF cmd_cntr # 0 THEN "RSP" ELSE "WAIT")
  /\ CmdOffer(TRUE, IF CmdHs(ckp) /\ cmd_cntr # 0 THEN "rd" ELSE cmd_kind)
  /\ UNCHANGED cmd_cntr

CmdRsp(ckp) ==
  /\ cmd_cs = "RSP"
  /\ CmdStay(IF CmdHs(ckp) /\ rsp_cs = "CRC" THEN "WAIT" ELSE "RSP")
  /\ CmdOffer(TRUE, IF ~CmdHs(ckp) THEN cmd_kind
                    ELSE IF cmd_cntr = 0 THEN "dc" ELSE "rd")
  /\ cmd_cntr' = IF CmdHs(ckp) /\ cmd_cntr # 0 THEN cmd_cntr - 1 ELSE cmd_cntr

(* Mutants: done does not wait for the trailing dummy cycles.              *)
LinesFreeNoDummy == ~(cmd_clk_vld_i \/ wait_wr_data \/ wait_rd_data)
LinesFreeNoData == ~cmd_clk_vld_i
LinesFree == ~(cmd_clk_vld_i \/ cl.kind = "dc" \/ wait_wr_data \/ wait_rd_data)

CmdWait(ckp) ==
  /\ cmd_cs = "WAIT"
  /\ CmdGoto(IF det_emmc_done THEN "IDLE" ELSE "WAIT",
             det_emmc_start /\ ~det_emmc_done, LinesFree)
  /\ CmdOffer(IF CmdHs(ckp) THEN wait_wr_data \/ wait_rd_data ELSE cmd_valid,
              cmd_kind)
  /\ UNCHANGED cmd_cntr

CmdFsm(ckp) ==
  \/ CmdIdle          \/ CmdBoot           \/ CmdSendStart(ckp)
  \/ CmdSendArg(ckp)  \/ CmdSendCrc(ckp)   \/ CmdDummy(ckp)
  \/ CmdRsp(ckp)      \/ CmdWait(ckp)

----------------------------------------------------------------------------
(* Response FSM and the saved response registers.                          *)

RspGoto(cs) == rsp_cs' = IF cmd_en_restart THEN "IDLE" ELSE cs

RspIdle ==
  /\ rsp_cs = "IDLE"
  /\ RspGoto(IF det_cmd_done /\ op.rsp # "R0" THEN "START" ELSE "IDLE")
  /\ UNCHANGED rsp_cntr

RspStart ==
  /\ rsp_cs = "START"
  /\ RspGoto(IF rx_cmd_valid /\ cmd_clk_vld_q THEN "ARG" ELSE "START")
  /\ rsp_cntr' = CASE op.rsp = "R0" -> 0 [] op.rsp = "R2" -> 4 [] OTHER -> 1

RspArg ==
  /\ rsp_cs = "ARG"
  /\ RspGoto(IF rx_cmd_valid /\ rsp_cntr <= 1 THEN "CRC" ELSE "ARG")
  /\ rsp_cntr' = IF rx_cmd_valid /\ rsp_cntr # 0 THEN rsp_cntr - 1
                 ELSE rsp_cntr

RspCrc ==
  /\ rsp_cs = "CRC"
  /\ RspGoto(IF rx_cmd_valid THEN "WAIT" ELSE "CRC")
  /\ UNCHANGED rsp_cntr

RspWait ==
  /\ rsp_cs = "WAIT"
  /\ RspGoto(IF cmd_clk_vld_i THEN "WAIT" ELSE "IDLE")
  /\ UNCHANGED rsp_cntr

(* Mutant: the old response is kept when a command is sent.                *)
SaveResponseNoClear ==
  LET stored == rsp_cs # "IDLE" /\ rx_cmd_valid IN
  /\ rsp_ptr' = IF rsp_cs = "IDLE" THEN 0
                ELSE IF stored THEN (rsp_ptr + 1) % 8 ELSE rsp_ptr
  /\ saved_rsp' = saved_rsp \cup (IF stored THEN {rsp_ptr} \cap (0..5) ELSE {})

SaveResponse ==
  LET stored == rsp_cs # "IDLE" /\ rx_cmd_valid IN
  /\ rsp_ptr' = IF rsp_cs = "IDLE" THEN 0
                ELSE IF stored THEN (rsp_ptr + 1) % 8 ELSE rsp_ptr
  /\ saved_rsp' = (IF cmd_cs = "DUMMY" THEN {} ELSE saved_rsp)
                  \cup (IF stored THEN {rsp_ptr} \cap (0..5) ELSE {})

RspFsm ==
  /\ cmd_clk_vld_q' = cmd_clk_vld_i
  /\ det_cmd_done' = (/\ ~cmd_en_restart
                      /\ cmd_cs = "RSP"
                      /\ det_cmd_done \/ (~cmd_clk_vld_i /\ cmd_clk_vld_q))
  /\ RspIdle \/ RspStart \/ RspArg \/ RspCrc \/ RspWait
  /\ SaveResponse

----------------------------------------------------------------------------
(* Data bookkeeping.  crcbad: the sampled word is a CRC that does not      *)
(* match, or a write status token other than "accepted".                   *)

Blocks(ckp, crcbad) ==
  /\ all_blocks_done' = (blk_cntr = op.blocks)
  /\ blk_cntr' = IF ~(wait_wr_data \/ wait_rd_data) THEN 0
                 ELSE IF wdt_last /\ Ready(dl, ckp) THEN (blk_cntr + 1) % BlkMod
                 ELSE blk_cntr
  /\ wait_wr_data' = (/\ ~cmd_en_restart
                      /\ IF wait_wr_data
                         THEN ~(all_blocks_done /\ wdt_cs = "WAIT")
                         ELSE op.dir = "wr" /\ cmd_cs = "RSP")
  /\ wait_rd_data' = (/\ ~cmd_en_restart
                      /\ IF wait_rd_data
                         THEN ~(emmc_req_done /\ wdt_cs = "WAIT")
                         ELSE op.dir = "rd" /\ cmd_cs = "RSP")
  /\ det_cmd_crc_err' = (crcbad /\ rx_cmd_valid /\ rsp_cs = "CRC"
                         /\ op.rsp # "R3")
  /\ det_pld_crc_err' = (/\ crcbad /\ rx_pld_valid
                         /\ rx_pld_end \/ (xfer_done /\ wait_wr_data))

----------------------------------------------------------------------------
(* Data transfer FSM.  free and avail are the bus manager's answers        *)
(* cmd_proc_mem_free and cmd_proc_mem_avail.                               *)

WdtGoto(cs) == wdt_cs' = IF cmd_en_restart THEN "IDLE" ELSE cs

PldOffer(valid, kind) == pld_valid' = valid /\ pld_kind' = kind

XferFlags ==
  /\ xfer_done' = (xfer_done \/ (rx_pld_valid /\ rx_pld_end))
  /\ check_busy' = (check_busy \/ (xfer_done /\ (~wait_wr_data \/ rx_pld_valid)))

(* wdt_cntr_init has a bit only for the block sizes up to MIN_BLOCK.       *)
WdtCntrInit == IF BlockWords <= MIN_BLOCK THEN BlockWords ELSE 0

WdtIdle(ckp, free, avail) ==
  LET cmdIdle == cmd_cs = "IDLE"
      rdGo == ~cmdIdle /\ wait_rd_data /\ cmd_cs \in {"RSP", "WAIT"} /\ free
      wrGo == ~cmdIdle /\ ~wait_rd_data /\ wait_wr_data /\ PldHs(ckp) /\ avail
      wrOn == \/ rsp_cs \in {"CRC", "WAIT"} /\ CmdHs(ckp) /\ cmd_kind = "dc"
              \/ PldHs(ckp)
              \/ pld_valid
  IN
  /\ wdt_cs = "IDLE"
  /\ WdtGoto(IF rdGo \/ wrGo THEN "START" ELSE "IDLE")
  /\ PldOffer(IF cmdIdle THEN FALSE
              ELSE IF wait_rd_data THEN rdGo \/ pld_valid
              ELSE IF wait_wr_data THEN wrOn ELSE pld_valid,
              "dc")
  /\ wdt_cntr' = WdtCntrInit
  /\ wdt_last' = FALSE /\ xfer_done' = FALSE /\ check_busy' = FALSE
  /\ rd_not_started' = FALSE
  /\ pld_crc_en' = FALSE /\ pld_dc_num' = 0

NextWord == (wdt_cntr + 2 * MAX_BLOCK - 1) % (2 * MAX_BLOCK)
(* Mutant: the last word is recognised one word late.                      *)
LastWordLate == wdt_cntr < 1 /\ ~wdt_last
LastWord == wdt_cntr < 2 /\ ~wdt_last

WdtStart(ckp) ==
  /\ wdt_cs = "START"
  /\ XferFlags
  /\ WdtGoto(IF PldHs(ckp) THEN "PAYLOAD" ELSE "START")
  /\ PldOffer(pld_valid, IF ~PldHs(ckp) THEN pld_kind
                         ELSE IF wait_wr_data THEN "wr" ELSE "rd")
  /\ wdt_cntr' = IF PldHs(ckp) THEN NextWord ELSE wdt_cntr
  /\ rd_not_started' = wait_rd_data
  /\ UNCHANGED <<wdt_last, pld_crc_en, pld_dc_num>>

WdtPayload(ckp) ==
  /\ wdt_cs = "PAYLOAD"
  /\ XferFlags
  /\ WdtGoto(IF PldHs(ckp) /\ wdt_last THEN "CRC" ELSE "PAYLOAD")
  /\ PldOffer(pld_valid, pld_kind)
  /\ wdt_cntr' = IF PldHs(ckp) THEN NextWord ELSE wdt_cntr
  /\ wdt_last' = IF PldHs(ckp) THEN LastWord ELSE wdt_last
  /\ pld_crc_en' = IF PldHs(ckp) THEN wdt_last ELSE pld_crc_en
  /\ rd_not_started' = (rd_not_started /\ dat_line_not_busy /\ ~rx_pld_valid)
  /\ UNCHANGED pld_dc_num

WdtCrc(ckp) ==
  /\ wdt_cs = "CRC"
  /\ XferFlags
  /\ WdtGoto(IF PldHs(ckp) THEN "DUMMY" ELSE "CRC")
  /\ PldOffer(pld_valid, IF PldHs(ckp) THEN "dc" ELSE pld_kind)
  /\ pld_crc_en' = (pld_crc_en /\ ~PldHs(ckp))
  /\ rd_not_started' = FALSE
  /\ UNCHANGED <<wdt_cntr, wdt_last, pld_dc_num>>

(* Two dummy words: one cycle, then two cycles.                            *)
WdtDummy(ckp) ==
  LET last == PldHs(ckp) /\ pld_dc_num = 1 IN
  /\ wdt_cs = "DUMMY"
  /\ XferFlags
  /\ WdtGoto(IF ~last THEN "DUMMY" ELSE IF wait_rd_data THEN "WAIT" ELSE "RSP")
  /\ PldOffer(pld_valid /\ ~(last /\ wait_rd_data),
              IF last THEN "rd" ELSE pld_kind)
  /\ pld_dc_num' = IF last THEN 0 ELSE IF PldHs(ckp) THEN 1 ELSE pld_dc_num
  /\ rd_not_started' = FALSE
  /\ UNCHANGED <<wdt_cntr, wdt_last, pld_crc_en>>

WdtRsp(ckp) ==
  /\ wdt_cs = "RSP"
  /\ XferFlags
  /\ WdtGoto(IF (check_busy /\ dat_line_not_busy) \/ op.bustest
             THEN "WAIT" ELSE "RSP")
  /\ PldOffer(pld_valid, IF PldHs(ckp) THEN "dc" ELSE pld_kind)
  /\ rd_not_started' = FALSE
  /\ UNCHANGED <<wdt_cntr, wdt_last, pld_crc_en, pld_dc_num>>

WdtWait ==
  /\ wdt_cs = "WAIT"
  /\ XferFlags
  /\ WdtGoto(IF ~dat_clk_vld_i /\ (~all_blocks_done \/ emmc_req_done)
             THEN "IDLE" ELSE "WAIT")
  /\ PldOffer(pld_valid, pld_kind)
  /\ rd_not_started' = FALSE
  /\ UNCHANGED <<wdt_cntr, wdt_last, pld_crc_en, pld_dc_num>>

WdtFsm(ckp, free, avail) ==
  \/ WdtIdle(ckp, free, avail) \/ WdtStart(ckp) \/ WdtPayload(ckp)
  \/ WdtCrc(ckp)               \/ WdtDummy(ckp) \/ WdtRsp(ckp)
  \/ WdtWait

----------------------------------------------------------------------------
(* One timer serves response and data; a mask holds it off once stopped.   *)

(* Mutants: the wrong limit, the wrong state.                              *)
DatOverdueCmdLimit == rsp_tmr1 > CmdTimeout /\ wdt_cs = "PAYLOAD"
DatOverdueInRsp == rsp_tmr1 > DatTimeout /\ wdt_cs = "RSP"
RspOverdue == rsp_tmr1 > CmdTimeout /\ rsp_cs = "START"
DatOverdue == rsp_tmr1 > DatTimeout /\ wdt_cs = "PAYLOAD"

Timer(ckp) ==
  /\ hit_rsp_tmr0_max' = (rsp_tmr0 = PRESCALE - 1 /\ ckp)
  /\ rsp_tmr1_gt_timeout' = RspOverdue
  /\ dat_tmr1_gt_timeout' = DatOverdue
  /\ en_timer_mask' = (rsp_cs = "START" \/ wdt_cs = "RSP")
  /\ rsp_tmr0' = IF ~en_timer THEN 0
                 ELSE IF ckp THEN (rsp_tmr0 + 1) % PRESCALE ELSE rsp_tmr0
  /\ rsp_tmr1' = IF ~en_timer THEN 0
                 ELSE IF hit_rsp_tmr0_max THEN (rsp_tmr1 + 1) % TMR_MOD
                 ELSE rsp_tmr1
  /\ en_timer' = IF en_timer
                 THEN ~(\/ rsp_cs = "START" /\ rx_cmd_valid
                        \/ wdt_cs = "RSP" /\ rx_pld_valid /\ ~rx_pld_end
                        \/ /\ wdt_cs = "PAYLOAD" /\ wait_rd_data
                           /\ rx_pld_valid \/ ~dat_line_not_busy
                        \/ cmd_en_restart)
                 ELSE /\ ~en_timer_mask
                      /\ \/ rsp_cs = "START"
                         \/ wdt_cs = "RSP" /\ ~op.bustest
                         \/ rd_not_started /\ cmd_cs = "WAIT"

----------------------------------------------------------------------------
(* Recovery FSM: a timeout holds cmd_en_restart for four edges.            *)

RecIdle ==
  LET hit == rsp_tmr1_gt_timeout \/ dat_tmr1_gt_timeout IN
  /\ recovery_cs = "IDLE"
  /\ recovery_cs' = IF hit THEN "WAIT0" ELSE "IDLE"
  /\ cmd_en_restart' = (cmd_en_restart \/ hit)
  /\ dat_en_restart' = IF hit THEN dat_tmr1_gt_timeout ELSE dat_en_restart

RecCount ==
  /\ recovery_cs \in {"WAIT0", "WAIT1", "WAIT2"}
  /\ recovery_cs' = CASE recovery_cs = "WAIT0" -> "WAIT1"
                      [] recovery_cs = "WAIT1" -> "WAIT2"
                      [] OTHER -> "END"
  /\ UNCHANGED <<cmd_en_restart, dat_en_restart>>

RecEnd ==
  /\ recovery_cs = "END"
  /\ recovery_cs' = "IDLE"
  /\ cmd_en_restart' = FALSE
  /\ dat_en_restart' = FALSE

Recovery == RecIdle \/ RecCount \/ RecEnd

----------------------------------------------------------------------------
(* Environment.                                                            *)

(* The host starts a command only when it has seen busy=0 for HostGap      *)
(* edges: the register accesses between its poll of INFO_STS and its write *)
(* of CTRL2.  emmc_cmd_start is a pulse of one edge.  A host that reads    *)
(* INT_STS[20] set may reset the core first (emmc_ctl_init) or go on.      *)
HostIdle ==
  /\ cmd_start' = FALSE
  /\ gap' = IF det_emmc_start \/ cmd_start THEN 0
            ELSE IF gap < HostGap THEN gap + 1 ELSE gap
  /\ UNCHANGED op

HostStart ==
  /\ ~det_emmc_start /\ ~cmd_start /\ gap = HostGap
  /\ HostReinits => ~rsp_timed_out
  /\ op' \in Ops
  /\ cmd_start' = TRUE
  /\ gap' = 0

Host ==
  /\ HostIdle \/ HostStart
  /\ core_rst' = FALSE
  /\ rsp_timed_out' = (rsp_timed_out \/ rsp_tmr1_gt_timeout)

(* After a write's status token the device may hold DAT0 low (busy) for    *)
(* any time.  dev_words counts the payload words of this command.          *)
Device(ckp, dat0, busy) ==
  /\ dev_busy' = ((dev_busy \/ (Sampled(dl, ckp) /\ dl.kind = "rd" /\ wdt_cs = "RSP"))
                  /\ busy)
  /\ dat_line_not_busy' = IF dl.kind = "wr" \/ (dl.kind = "rd" /\ dl.stb)
                          THEN dat0
                          ELSE ~(dev_busy \/ dl'.stb)
  /\ dev_words' = IF cmd_start THEN 0
                  ELSE IF wdt_cs = "PAYLOAD" /\ PldHs(ckp) /\ ~dat_en_restart
                       THEN dev_words + 1
                  ELSE dev_words

(* The bus manager: one FIFO access per word, and emmc_req_done once it    *)
(* has nothing left to move for the command (for a read: once every word   *)
(* went through the FIFO), withdrawn when the request is.                  *)
MemAccess(ckp) ==
  \/ wait_rd_data /\ rx_pld_valid /\ ~rx_pld_end
  \/ /\ wait_wr_data /\ PldHs(ckp) /\ ~wdt_last
     /\ wdt_cs \in {"START", "PAYLOAD"}

MayFinish ==
  \/ wait_wr_data
  \/ wait_rd_data /\ mem_words = op.blocks * BlockWords

BusManager(ckp, finish) ==
  /\ mem_words' = IF cmd_start THEN 0
                  ELSE IF MemAccess(ckp) THEN mem_words + 1 ELSE mem_words
  /\ emmc_req_done' = (/\ wait_wr_data \/ wait_rd_data
                       /\ emmc_req_done \/ (finish /\ MayFinish))

----------------------------------------------------------------------------
(* The device's start bits: a response may come at any time or never, and  *)
(* a read block never or after the start of its response, its last bit     *)
(* after the response's last one unless ShortBlocks.                       *)
DatStartOk ==
  ~wait_rd_data \/ cl.stb \/ rsp_cs \notin {"IDLE", "START"} \/ cmd_cs = "WAIT"

DatEndOk == ShortBlocks \/ ~wait_rd_data \/ ~dl.crc \/ cmd_cs = "WAIT"

Waiting(l) == l.kind = "rd" /\ ~l.stb
OneOf(b) == IF b THEN BOOLEAN ELSE {FALSE}

Step(ckp, cends, dends, cstart, dstart, free, avail, dat0, busy, finish, bad) ==
  /\ Host
  /\ CmdFsm(ckp)
  /\ RspFsm
  /\ WdtFsm(ckp, free, avail)
  /\ Blocks(ckp, bad)
  /\ Timer(ckp)
  /\ Recovery
  /\ CmdLane(ckp, cends, cstart)
  /\ DatLane(ckp, dends, dstart)
  /\ Device(ckp, dat0, busy)
  /\ BusManager(ckp, finish)

Tick ==
  \E ckp \in BOOLEAN, cends \in OneOf(cl.busy), dends \in OneOf(dl.busy /\ DatEndOk),
     cstart \in OneOf(Waiting(cl)), dstart \in OneOf(Waiting(dl) /\ DatStartOk),
     free \in OneOf(wait_rd_data /\ wdt_cs = "IDLE"),
     avail \in OneOf(wait_wr_data /\ wdt_cs = "IDLE"),
     dat0 \in OneOf(dl.kind \in {"wr", "rd"}),
     busy \in OneOf(wdt_cs = "RSP"),
     finish \in OneOf(wait_wr_data \/ wait_rd_data),
     bad \in OneOf(rx_cmd_valid \/ rx_pld_valid) :
    Step(ckp, cends, dends, cstart, dstart, free, avail, dat0, busy, finish, bad)

----------------------------------------------------------------------------
CtlInit ==
  /\ cmd_cs = "IDLE" /\ det_emmc_start = FALSE /\ det_emmc_done = FALSE
  /\ cmd_cntr = 0 /\ cmd_valid = FALSE /\ cmd_kind = "rd"
  /\ rsp_cs = "IDLE" /\ rsp_cntr = 0 /\ det_cmd_done = FALSE
  /\ cmd_clk_vld_q = FALSE /\ rsp_ptr = 0 /\ saved_rsp = {}
  /\ wdt_cs = "IDLE" /\ wdt_cntr = 0 /\ wdt_last = FALSE
  /\ xfer_done = FALSE /\ check_busy = FALSE /\ rd_not_started = FALSE
  /\ pld_valid = FALSE /\ pld_kind = "rd" /\ pld_crc_en = FALSE
  /\ pld_dc_num = 0
  /\ wait_wr_data = FALSE /\ wait_rd_data = FALSE /\ blk_cntr = 0
  /\ all_blocks_done = FALSE /\ dat_line_not_busy = FALSE
  /\ det_cmd_crc_err = FALSE /\ det_pld_crc_err = FALSE
  /\ en_timer = FALSE /\ en_timer_mask = FALSE /\ rsp_tmr0 = 0
  /\ hit_rsp_tmr0_max = FALSE /\ rsp_tmr1 = 0
  /\ rsp_tmr1_gt_timeout = FALSE /\ dat_tmr1_gt_timeout = FALSE
  /\ recovery_cs = "IDLE" /\ cmd_en_restart = FALSE /\ dat_en_restart = FALSE
  /\ cl = Quiet /\ cmd_clk_vld_i = FALSE /\ rx_cmd_valid = FALSE
  /\ dl = Quiet /\ dat_clk_vld_i = FALSE /\ rx_pld_valid = FALSE
  /\ rx_pld_end = FALSE
  /\ dev_busy = FALSE /\ dev_words = 0 /\ mem_words = 0
  /\ emmc_req_done = FALSE

Init ==
  /\ op \in Ops /\ cmd_start = FALSE /\ core_rst = FALSE /\ gap = 0
  /\ rsp_timed_out = FALSE
  /\ CtlInit

(* ip_core_rst: every register of the controller but the CSRs is reset.    *)
SoftReset ==
  /\ op' = op /\ cmd_start' = FALSE /\ core_rst' = TRUE /\ gap' = 0
  /\ rsp_timed_out' = FALSE
  /\ cmd_cs' = "IDLE" /\ det_emmc_start' = FALSE /\ det_emmc_done' = FALSE
  /\ cmd_cntr' = 0 /\ cmd_valid' = FALSE /\ cmd_kind' = "rd"
  /\ rsp_cs' = "IDLE" /\ rsp_cntr' = 0 /\ det_cmd_done' = FALSE
  /\ cmd_clk_vld_q' = FALSE /\ rsp_ptr' = 0 /\ saved_rsp' = {}
  /\ wdt_cs' = "IDLE" /\ wdt_cntr' = 0 /\ wdt_last' = FALSE
  /\ xfer_done' = FALSE /\ check_busy' = FALSE /\ rd_not_started' = FALSE
  /\ pld_valid' = FALSE /\ pld_kind' = "rd" /\ pld_crc_en' = FALSE
  /\ pld_dc_num' = 0
  /\ wait_wr_data' = FALSE /\ wait_rd_data' = FALSE /\ blk_cntr' = 0
  /\ all_blocks_done' = FALSE /\ dat_line_not_busy' = FALSE
  /\ det_cmd_crc_err' = FALSE /\ det_pld_crc_err' = FALSE
  /\ en_timer' = FALSE /\ en_timer_mask' = FALSE /\ rsp_tmr0' = 0
  /\ hit_rsp_tmr0_max' = FALSE /\ rsp_tmr1' = 0
  /\ rsp_tmr1_gt_timeout' = FALSE /\ dat_tmr1_gt_timeout' = FALSE
  /\ recovery_cs' = "IDLE" /\ cmd_en_restart' = FALSE /\ dat_en_restart' = FALSE
  /\ cl' = Quiet /\ cmd_clk_vld_i' = FALSE /\ rx_cmd_valid' = FALSE
  /\ dl' = Quiet /\ dat_clk_vld_i' = FALSE /\ rx_pld_valid' = FALSE
  /\ rx_pld_end' = FALSE
  /\ dev_busy' = FALSE /\ dev_words' = 0 /\ mem_words' = 0
  /\ emmc_req_done' = FALSE

Next == Tick \/ SoftReset

Spec == Init /\ [][Next]_vars

(* What the parts around the command processor are bound to do: the        *)
(* divided clock runs, words end, the bus manager serves its requests, and *)
(* a device that was sent a block answers with a status token and leaves   *)
(* busy.  Nothing obliges it to send a response or a read block.           *)
Progress ==
  \E cstart \in OneOf(Waiting(cl)), dat0 \in BOOLEAN, bad \in BOOLEAN,
     dstart \in IF wdt_cs = "RSP" THEN {TRUE}
                ELSE OneOf(Waiting(dl) /\ DatStartOk) :
    Step(TRUE, TRUE, DatEndOk, cstart, dstart, TRUE, TRUE, dat0, FALSE, TRUE, bad)

FairSpec == Spec /\ WF_vars(Progress)

----------------------------------------------------------------------------
HostType ==
  /\ op \in OpType /\ cmd_start \in BOOLEAN /\ gap \in 0..HostGap
  /\ core_rst \in BOOLEAN /\ rsp_timed_out \in BOOLEAN

CmdType ==
  /\ cmd_cs \in CmdStates /\ det_emmc_start \in BOOLEAN
  /\ det_emmc_done \in BOOLEAN /\ cmd_cntr \in 0..5
  /\ cmd_valid \in BOOLEAN /\ cmd_kind \in Kinds

RspType ==
  /\ rsp_cs \in RspStates /\ rsp_cntr \in 0..4 /\ det_cmd_done \in BOOLEAN
  /\ cmd_clk_vld_q \in BOOLEAN /\ rsp_ptr \in 0..7 /\ saved_rsp \subseteq 0..5

WdtType ==
  /\ wdt_cs \in WdtStates /\ wdt_cntr \in 0..(2 * MAX_BLOCK - 1)
  /\ wdt_last \in BOOLEAN /\ xfer_done \in BOOLEAN /\ check_busy \in BOOLEAN
  /\ rd_not_started \in BOOLEAN /\ pld_valid \in BOOLEAN
  /\ pld_kind \in Kinds /\ pld_crc_en \in BOOLEAN /\ pld_dc_num \in 0..1

BlkType ==
  /\ wait_wr_data \in BOOLEAN /\ wait_rd_data \in BOOLEAN
  /\ blk_cntr \in 0..(BlkMod - 1) /\ all_blocks_done \in BOOLEAN
  /\ det_cmd_crc_err \in BOOLEAN /\ det_pld_crc_err \in BOOLEAN

TmrType ==
  /\ en_timer \in BOOLEAN /\ en_timer_mask \in BOOLEAN
  /\ rsp_tmr0 \in 0..(PRESCALE - 1) /\ hit_rsp_tmr0_max \in BOOLEAN
  /\ rsp_tmr1 \in 0..(TMR_MOD - 1) /\ rsp_tmr1_gt_timeout \in BOOLEAN
  /\ dat_tmr1_gt_timeout \in BOOLEAN

RecType ==
  /\ recovery_cs \in RecStates /\ cmd_en_restart \in BOOLEAN
  /\ dat_en_restart \in BOOLEAN

LanesType ==
  /\ cl \in LaneType /\ cmd_clk_vld_i \in BOOLEAN /\ rx_cmd_valid \in BOOLEAN
  /\ dl \in LaneType /\ dat_clk_vld_i \in BOOLEAN /\ rx_pld_valid \in BOOLEAN
  /\ rx_pld_end \in BOOLEAN

EnvType ==
  /\ dat_line_not_busy \in BOOLEAN /\ dev_busy \in BOOLEAN
  /\ dev_words \in Nat /\ mem_words \in Nat /\ emmc_req_done \in BOOLEAN

(* The registers keep their types and the ranges of their widths.          *)
TypeOK ==
  /\ HostType /\ CmdType /\ RspType   /\ WdtType /\ BlkType
  /\ TmrType  /\ RecType /\ LanesType /\ EnvType

----------------------------------------------------------------------------
(* Properties.                                                             *)

(* The processor implements the engine of CmdEngine: a start pulse given   *)
(* HostGap edges after busy fell is never lost (not even inside the four   *)
(* edges of a restart), busy falls only with a done event, and no done     *)
(* event comes without a command.  EngineLive adds that a command that was *)
(* taken ends, by a completion or by a timeout, whatever the device does,  *)
(* unless it is BOOT, which has no end (emmc_cmd_proc.v 358-527).          *)
Engine == INSTANCE CmdEngine
            WITH start <- cmd_start, busy <- det_emmc_start, done <- det_emmc_done,
                 reset <- core_rst

EngineSafe == Engine!EngineSafe
EngineLive == <>[](cmd_cs = "BOOT") \/ Engine!EngineEnds

(* Why it holds: where each FSM can be while another one is in a state     *)
(* that raises a flag.  Three edges into a restart everything is at rest,  *)
(* so the fourth ends it with no timeout pending.  Inductive with TypeOK.  *)
BusyInv == cmd_cs # "IDLE" => det_emmc_start

RspInv ==
  /\ rsp_cs \in {"START", "ARG"} => cmd_cs = "RSP"
  /\ det_cmd_done /\ cmd_cs # "RSP" => rsp_cs \in {"CRC", "WAIT"}

DataInv ==
  /\ wait_rd_data \/ wait_wr_data => cmd_cs \in {"RSP", "WAIT"}
  /\ wdt_cs \notin {"IDLE", "WAIT"} => wait_rd_data \/ wait_wr_data

DoneInv ==
  /\ det_emmc_done => cmd_cs = "WAIT" \/ (cmd_cs = "IDLE" /\ ~det_emmc_start)
  /\ det_emmc_done /\ cmd_cs = "WAIT" => ~wait_rd_data /\ ~wait_wr_data

RestartInv ==
  /\ cmd_en_restart <=> recovery_cs # "IDLE"
  /\ recovery_cs = "WAIT0" => det_emmc_start
  /\ recovery_cs \in {"WAIT1", "WAIT2", "END"} =>
       /\ cmd_cs = "IDLE" /\ rsp_cs = "IDLE" /\ wdt_cs = "IDLE"
       /\ ~det_emmc_start /\ det_emmc_done /\ ~det_cmd_done
       /\ ~wait_rd_data /\ ~wait_wr_data
  /\ rsp_tmr1_gt_timeout \/ dat_tmr1_gt_timeout =>
       \/ cmd_cs \in {"RSP", "WAIT"} /\ ~det_emmc_done
       \/ recovery_cs = "WAIT1"

(* How far the host can have counted while a restart or a done event of    *)
(* the last command is still to be seen, so that HostGap edges suffice.    *)
HostInv ==
  /\ recovery_cs = "WAIT1" => gap = 0
  /\ recovery_cs = "WAIT2" => gap <= 1
  /\ recovery_cs = "END" => gap <= 2
  /\ ~det_emmc_start /\ det_emmc_done => gap <= 3
  /\ cmd_start => ~det_emmc_start /\ ~det_emmc_done /\ recovery_cs = "IDLE"

EngineInv == BusyInv /\ RspInv /\ DataInv /\ DoneInv /\ RestartInv /\ HostInv

(* busy = 0 means that the lines are free: when the host starts a command, *)
(* no lane still waits for, or shifts, a word of an earlier command, and   *)
(* every FSM is at rest.                                                   *)
LinesFreeAtStart ==
  cmd_start => /\ cl.kind = "none" /\ dl.kind # "rd"
               /\ wdt_cs = "IDLE" /\ rsp_cs = "IDLE" /\ recovery_cs = "IDLE"

(* A CRC error is found while the command is busy, so the host that reads  *)
(* INT_STS after busy fell sees it; the only exception is a data word left *)
(* behind by a response timeout, which INT_STS[20] has already reported.   *)
ErrInTime ==
  det_cmd_crc_err \/ det_pld_crc_err => det_emmc_start \/ rsp_timed_out

(* A command completes on the edge on which busy falls without a restart.  *)
Completes == det_emmc_start /\ ~det_emmc_start' /\ det_emmc_done' /\ ~cmd_en_restart

(* A data command that completes has moved exactly the words it was asked  *)
(* for, on the data lines and through the FIFO, in whatever order response *)
(* and data came and however long the bus manager took.                    *)
AllDataMoved ==
  [][Completes /\ op.dir \in {"rd", "wr"} =>
       dev_words = op.blocks * BlockWords /\ mem_words = dev_words]_vars

(* A command that completes has refreshed exactly the response registers   *)
(* its response type fills, the ones emmc_get_resp_data reads after it.    *)
ResponseRegs == CASE op.rsp = "R0" -> {} [] op.rsp = "R2" -> 0..5 [] OTHER -> 0..2
ResponseSaved == [][Completes => saved_rsp = ResponseRegs]_vars

(* The shared timer blames the right side: with a data timeout longer than *)
(* the response timeout, a data timeout is reported only for a read whose  *)
(* response has been captured whole.                                       *)
DatTimeoutAfterRsp ==
  dat_tmr1_gt_timeout => op.dir = "rd" /\ saved_rsp = ResponseRegs
============================================================================
