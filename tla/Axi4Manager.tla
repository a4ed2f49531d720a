---------------------------- MODULE Axi4Manager ----------------------------
(* The AXI4 bus manager (rtl/emmc_axi4_m.v) with its data FIFO, between    *)
(* the command processor and an AXI4 subordinate.  A step is an edge of    *)
(* clk_i; addresses count words from csr_src_dst_addr, and the word of a   *)
(* transfer is named by its index, so that a word is in its place when it  *)
(* is at the address of that name.                                         *)
EXTENDS EmmcFifo

CONSTANTS
  MAX_BURST,    \* 256: the beats of the longest burst
  MIN_BLOCK,    \* MIN_BLOCK_SIZE, in words
  BIG_BLOCKS,   \* MAX_BLOCK_SIZE > 1024: generate block gen_blk_gt1KB
  BLOCK_WORDS,  \* the block sizes software programs, in words
  NUM_BLOCKS,   \* the block counts it programs
  DIRS,         \* the kinds of request: "read" and "write"
  SETTLE,       \* edges between programming and the first request
  GAP,          \* least number of edges between two blocks on the data lines
  PATIENT,      \* the card sends no block while an earlier one is written
  ABANDONS      \* a timeout may end a request anywhere

ASSUME AxiAssumption ==
  /\ MAX_BURST \in Nat \ {0} /\ MIN_BLOCK \in Nat /\ SETTLE \in Nat /\ GAP \in Nat
  /\ BLOCK_WORDS \subseteq Nat \ {0} /\ NUM_BLOCKS \subseteq Nat \ {0}
  /\ {BIG_BLOCKS, PATIENT, ABANDONS} \subseteq BOOLEAN
  /\ DIRS \subseteq {"read", "write"}

(* FIFO_DEPTH is two blocks of the largest size; between two blocks there  *)
(* are more edges than mem_free is late.                                   *)
ASSUME RoomAssumption == GAP >= 2 /\ \A w \in BLOCK_WORDS : 2 * w <= SIZE

VARIABLES
  busreq_cs, axaddr, axlen_p1, axlen, wcntr, wlast, blk_cntr, all_blocks_done,
  wdatq,                                  \* u_axi4_wdatq: <<>> or one beat
  req_done_dly, partial_bcnt, block_last, \* gen_blk_gt1KB
  fifo_wr,                                \* dat_fifo_wren and _wdata: <<>> or a word
  fifo_cntr, gteq_axlen, mem_avail, mem_free,
  plan, dir, block_len, num_blocks, settle, in_block, pos, gap, dirty,
  burst, ram, bpend                       \* the subordinate

busVars == <<busreq_cs, axaddr, axlen_p1, axlen, wcntr, wlast, blk_cntr,
             all_blocks_done, wdatq>>
partVars == <<req_done_dly, partial_bcnt, block_last>>
cntVars == <<fifo_wr, fifo_cntr, gteq_axlen, mem_avail, mem_free>>
cpVars == <<plan, dir, block_len, num_blocks, settle, in_block, pos, gap, dirty>>
subVars == <<burst, ram, bpend>>
axiVars == <<fifoVars, busVars, partVars, cntVars, cpVars, subVars>>

MemRd == dir = "read"     \* emmc_memrd_req: words go to the bus
MemWr == dir = "write"    \* emmc_memwr_req: words come from the bus
Total == block_len * num_blocks

----------------------------------------------------------------------------
(* Wires.  aready: the subordinate takes an address; beat: it is ready for *)
(* write data, or has read data; word: the command processor moves a word. *)

ReqDone(aready) == busreq_cs \in {"READ", "WRITE"} /\ aready

WrDatVld(beat) == busreq_cs = "DONE" /\ wdatq # <<>> /\ beat

RdDatVld(beat) == burst # <<>> /\ burst.kind = "READ" /\ beat /\ ~Aful

WrDatDone(beat) == WrDatVld(beat) /\ wdatq[1].last
RdDatDone(beat) == RdDatVld(beat) /\ burst.beat = burst.len
DatDone(beat) == WrDatDone(beat) \/ RdDatDone(beat)

(* Mutant: the queue is refilled while the last beat of a word is pending. *)
WdatqWrenEager(beat) == busreq_cs \notin {"IDLE", "WAIT"} /\ MemRd /\ ~Emty
WdatqWren(beat) ==
  /\ busreq_cs \notin {"IDLE", "WAIT"} /\ MemRd /\ ~Emty
  /\ wdatq = <<>> \/ WrDatVld(beat)

FifoRden(beat, word) == ~Emty /\ (WdatqWren(beat) \/ (MemWr /\ word))

(* Mutant: the end is reported with the last burst still under way.        *)
emmc_req_done_early == all_blocks_done
emmc_req_done == all_blocks_done /\ busreq_cs = "WAIT"

(* incr_blk_cnt: one block's address has been taken, and it was the last   *)
(* burst of the block.                                                     *)
IncrBlkCnt(aready) ==
  IF BIG_BLOCKS THEN req_done_dly[2] /\ block_last ELSE ReqDone(aready)

----------------------------------------------------------------------------
(* Bus request FSM.                                                        *)

(* Mutants: the count wraps; it counts words that wait in the FIFO.        *)
WcntrDWrap(beat) == IF WdatqWren(beat) THEN wcntr - 1 ELSE wcntr
WcntrDAny(beat) == IF wcntr # 0 /\ MemRd /\ ~Emty THEN wcntr - 1 ELSE wcntr
WcntrD(beat) == IF wcntr # 0 /\ WdatqWren(beat) THEN wcntr - 1 ELSE wcntr

(* axlen_p1_d: a shorter burst only for block sizes up to MIN_BLOCK.       *)
BurstOf(len) == IF len < MAX_BURST /\ len <= MIN_BLOCK THEN len ELSE MAX_BURST

BusIdle ==
  /\ busreq_cs = "IDLE"
  /\ busreq_cs' = IF MemRd \/ MemWr THEN "WAIT" ELSE "IDLE"
  /\ blk_cntr' = 0 /\ wcntr' = 0 /\ wlast' = FALSE /\ axaddr' = 0
  /\ axlen_p1' = BurstOf(block_len)

(* Mutant: the blocks are not counted.                                     *)
WaitNextEndless ==
  CASE MemWr -> "READ" [] MemRd /\ gteq_axlen -> "WRITE" [] OTHER -> "WAIT"
WaitNext ==
  CASE all_blocks_done -> IF MemRd \/ MemWr THEN "WAIT" ELSE "IDLE"
    [] ~all_blocks_done /\ MemWr -> "READ"
    [] ~all_blocks_done /\ MemRd /\ gteq_axlen -> "WRITE"
    [] OTHER -> "WAIT"

BusWait(aready, beat) ==
  /\ busreq_cs = "WAIT"
  /\ busreq_cs' = WaitNext
  /\ wcntr' = axlen
  /\ wlast' = (WcntrD(beat) = 0)
  /\ blk_cntr' = IF IncrBlkCnt(aready) THEN blk_cntr + 1 ELSE blk_cntr
  /\ UNCHANGED <<axaddr, axlen_p1>>

BusBurst(aready, beat) ==
  /\ busreq_cs \in {"READ", "WRITE", "DONE"}
  /\ busreq_cs' = IF DatDone(beat) THEN "WAIT"
                  ELSE IF ReqDone(aready) THEN "DONE" ELSE busreq_cs
  /\ axaddr' = IF DatDone(beat) THEN axaddr + axlen_p1 ELSE axaddr
  /\ wcntr' = WcntrD(beat)
  /\ wlast' = (WcntrD(beat) = 0)
  /\ blk_cntr' = IF IncrBlkCnt(aready) THEN blk_cntr + 1 ELSE blk_cntr
  /\ UNCHANGED axlen_p1

BusFsm(aready, beat) ==
  /\ BusIdle \/ BusWait(aready, beat) \/ BusBurst(aready, beat)
  /\ axlen' = (axlen_p1 + MAX_BURST - 1) % MAX_BURST
  /\ all_blocks_done' = (blk_cntr = num_blocks)
  /\ wdatq' = IF WdatqWren(beat) THEN <<[data |-> Rdat, last |-> wlast]>>
              ELSE IF WrDatVld(beat) THEN <<>> ELSE wdatq

(* The bursts of a block that is longer than one.                          *)
MaxPartial == block_len \div MAX_BURST

PartialBlocks(aready) ==
  IF ~BIG_BLOCKS THEN UNCHANGED partVars
  ELSE /\ req_done_dly' = <<ReqDone(aready), req_done_dly[1]>>
       /\ block_last' = (busreq_cs # "IDLE" /\ partial_bcnt = MaxPartial)
       /\ partial_bcnt' =
            CASE busreq_cs = "IDLE" -> 0
              [] busreq_cs # "IDLE" /\ ReqDone(aready) ->
                   IF block_last THEN 0 ELSE 1
              [] OTHER -> IF IncrBlkCnt(aready) THEN 0 ELSE partial_bcnt

----------------------------------------------------------------------------
(* FIFO write register, word counter and its comparisons.                  *)

FifoWrite(beat, word) ==
  CASE MemRd /\ ~Full /\ word -> <<pos>>
    [] MemWr /\ ~Full /\ RdDatVld(beat) -> <<burst.addr + burst.beat>>
    [] OTHER -> <<>>

(* Mutant: the block counts as fetched a word too late.                    *)
AvailLate == fifo_cntr > block_len
Avail == fifo_cntr # 0 /\ fifo_cntr >= block_len

FifoSide(beat, word) ==
  LET rden == FifoRden(beat, word)
      wr == IF fifo_wr # <<>> THEN 1 ELSE 0
      rd == IF rden THEN 1 ELSE 0
  IN /\ IF fifo_wr = <<>> \/ Full THEN Edge(FALSE, 0, rden)
        ELSE Edge(TRUE, fifo_wr[1], rden)
     /\ fifo_wr' = FifoWrite(beat, word)
     /\ fifo_cntr' = fifo_cntr + wr - rd
     /\ gteq_axlen' = (fifo_cntr >= axlen)
     /\ mem_avail' = Avail
     /\ mem_free' = (fifo_cntr <= block_len)

----------------------------------------------------------------------------
(* The AXI4 subordinate: one burst at a time (the manager asks for no      *)
(* more), a response for every write burst, some time later.               *)

Subordinate(aready, beat, bvalid) ==
  /\ burst' = CASE ReqDone(aready) -> [kind |-> busreq_cs, addr |-> axaddr,
                                       len |-> axlen, beat |-> 0]
                [] ~ReqDone(aready) /\ DatDone(beat) -> <<>>
                [] ~ReqDone(aready) /\ ~DatDone(beat)
                     /\ (WrDatVld(beat) \/ RdDatVld(beat)) ->
                       [burst EXCEPT !.beat = @ + 1]
                [] OTHER -> burst
  /\ bpend' = bpend - (IF bvalid THEN 1 ELSE 0)
              + (IF WrDatDone(beat) THEN 1 ELSE 0)

Store(beat) ==
  IF WrDatVld(beat)
  THEN ram' = ram \cup {<<burst.addr + burst.beat, wdatq[1].data>>}
  ELSE UNCHANGED ram

----------------------------------------------------------------------------
(* The command processor, as far as the manager sees it.                   *)

CpSame == UNCHANGED <<plan, block_len, num_blocks, settle, dirty>>

(* Software prepares the next transfer: a bus transaction is long over,    *)
(* and after a timeout the core has been reset.                            *)
CpProgram ==
  /\ plan = "none" /\ dir = "none" /\ ~dirty /\ bpend = 0
  /\ \E d \in DIRS, w \in BLOCK_WORDS, n \in NUM_BLOCKS :
       plan' = d /\ block_len' = w /\ num_blocks' = n
  /\ settle' = SETTLE /\ pos' = 0 /\ gap' = 0 /\ ram' = {}
  /\ UNCHANGED <<dir, in_block, dirty>>

CpRaise ==
  /\ plan # "none" /\ dir = "none"
  /\ settle' = IF settle > 0 THEN settle - 1 ELSE 0
  /\ dir' = IF settle = 0 THEN plan ELSE "none"
  /\ UNCHANGED <<plan, block_len, num_blocks, in_block, pos, gap, dirty, ram>>

CpStart(beat) ==
  /\ dir # "none" /\ ~in_block /\ pos < Total /\ gap = 0
  /\ IF MemRd THEN mem_free ELSE mem_avail
  /\ in_block' = TRUE
  /\ CpSame /\ UNCHANGED <<dir, pos, gap>> /\ Store(beat)

(* PATIENT: the words beyond a burst come when the burst is over.          *)
CardReady ==
  \/ ~PATIENT \/ ~MemRd
  \/ busreq_cs \notin {"WRITE", "DONE"} \/ pos < axaddr + axlen_p1

CpWord(beat) ==
  /\ dir # "none" /\ in_block /\ CardReady
  /\ pos' = pos + 1
  /\ in_block' = ((pos + 1) % block_len # 0)
  /\ gap' = IF (pos + 1) % block_len = 0 THEN GAP ELSE 0
  /\ CpSame /\ UNCHANGED dir /\ Store(beat)

CpRest(beat) ==
  /\ plan = "none" \/ dir # "none"
  /\ gap' = IF gap > 0 THEN gap - 1 ELSE 0
  /\ CpSame /\ UNCHANGED <<dir, in_block, pos>> /\ Store(beat)

(* wait_rd_data falls on emmc_req_done, wait_wr_data on the last block.    *)
CpFinish(beat) ==
  /\ dir # "none" /\ pos = Total
  /\ MemRd => emmc_req_done
  /\ dir' = "none" /\ plan' = "none" /\ in_block' = FALSE /\ gap' = 0
  /\ UNCHANGED <<block_len, num_blocks, settle, pos, dirty>>
  /\ Store(beat)

(* cmd_en_restart after a timeout.                                         *)
CpAbandon(beat) ==
  /\ ABANDONS /\ dir # "none"
  /\ dir' = "none" /\ plan' = "none" /\ in_block' = FALSE /\ gap' = 0
  /\ dirty' = TRUE
  /\ UNCHANGED <<block_len, num_blocks, settle, pos>> /\ Store(beat)

----------------------------------------------------------------------------
Manager(aready, beat, word, bvalid) ==
  /\ BusFsm(aready, beat)
  /\ PartialBlocks(aready)
  /\ FifoSide(beat, word)
  /\ Subordinate(aready, beat, bvalid)

Tick(aready, beat, bvalid) ==
  \/ /\ Manager(aready, beat, FALSE, bvalid)
     /\ \/ CpProgram \/ CpRaise \/ CpStart(beat) \/ CpRest(beat)
        \/ CpFinish(beat)
  \/ Manager(aready, beat, TRUE, bvalid) /\ CpWord(beat)

(* ip_core_rst.  Software does it with no burst on the bus, and finds the  *)
(* command processor's requests gone.                                      *)
ManagerReset ==
  /\ busreq_cs' = "IDLE" /\ axaddr' = 0 /\ axlen_p1' = 0 /\ axlen' = 0
  /\ wcntr' = 0 /\ wlast' = FALSE /\ blk_cntr' = 0 /\ all_blocks_done' = FALSE
  /\ wdatq' = <<>>
  /\ req_done_dly' = <<FALSE, FALSE>> /\ partial_bcnt' = 0 /\ block_last' = FALSE
  /\ fifo_wr' = <<>> /\ fifo_cntr' = 0 /\ gteq_axlen' = FALSE
  /\ mem_avail' = FALSE /\ mem_free' = FALSE
  /\ FifoReset

SoftReset ==
  /\ burst = <<>> /\ bpend = 0
  /\ ManagerReset
  /\ dir' = "none" /\ plan' = "none" /\ in_block' = FALSE /\ gap' = 0
  /\ settle' = 0 /\ pos' = 0 /\ dirty' = FALSE /\ ram' = {}
  /\ UNCHANGED <<block_len, num_blocks, burst, bpend>>

AxiInit ==
  /\ FifoInit
  /\ busreq_cs = "IDLE" /\ axaddr = 0 /\ axlen_p1 = 0 /\ axlen = 0
  /\ wcntr = 0 /\ wlast = FALSE /\ blk_cntr = 0 /\ all_blocks_done = FALSE
  /\ wdatq = <<>>
  /\ req_done_dly = <<FALSE, FALSE>> /\ partial_bcnt = 0 /\ block_last = FALSE
  /\ fifo_wr = <<>> /\ fifo_cntr = 0 /\ gteq_axlen = FALSE
  /\ mem_avail = FALSE /\ mem_free = FALSE
  /\ plan = "none" /\ dir = "none" /\ settle = 0 /\ in_block = FALSE
  /\ pos = 0 /\ gap = 0 /\ dirty = FALSE
  /\ block_len \in BLOCK_WORDS /\ num_blocks \in NUM_BLOCKS
  /\ burst = <<>> /\ ram = {} /\ bpend = 0

Edges == \E aready, beat, bvalid \in BOOLEAN :
  (bvalid => bpend > 0) /\ Tick(aready, beat, bvalid)

Timeouts == \E aready, beat, bvalid \in BOOLEAN :
  /\ bvalid => bpend > 0
  /\ Manager(aready, beat, FALSE, bvalid) /\ CpAbandon(beat)

AxiNext == Edges \/ Timeouts \/ SoftReset

AxiSpec == AxiInit /\ [][AxiNext]_axiVars

----------------------------------------------------------------------------
(* The types; among them, the burst and word counters never wrap.          *)
AxiTypeOK ==
  /\ busreq_cs \in {"IDLE", "WAIT", "READ", "WRITE", "DONE"}
  /\ axaddr \in Nat /\ axlen_p1 \in 0..MAX_BURST /\ axlen \in 0..MAX_BURST - 1
  /\ wcntr \in 0..MAX_BURST - 1 /\ wlast \in BOOLEAN
  /\ blk_cntr \in Nat /\ all_blocks_done \in BOOLEAN
  /\ Len(wdatq) <= 1 /\ Len(fifo_wr) <= 1
  /\ partial_bcnt \in 0..1 /\ block_last \in BOOLEAN
  /\ fifo_cntr \in 0..SIZE + 2
  /\ FifoTypeOK

(* The word counter that gates blocks and bursts is the FIFO's contents,   *)
(* and a word that is on its way into the FIFO finds room.                 *)
FifoCounted ==
  /\ fifo_cntr = Len(Contents)
  /\ fifo_wr # <<>> => ~Full

Words(a, b) == [i \in 1..(b - a) |-> a + i - 1]

(* Every word of a request is in one place and in order: stored, on its    *)
(* way, or still to come; none is lost, repeated or stored elsewhere.  And *)
(* once mem_avail has started a block, its words are at the FIFO's output  *)
(* as fast as the data lines can take them (emmc_axi4_m.v 347-399).        *)
WordsInOrder ==
  LET queued == [i \in 1..Len(wdatq) |-> wdatq[i].data]
      fetched == axaddr + (IF busreq_cs = "DONE" THEN burst.beat ELSE 0)
      stored == pos - Len(wdatq \o Contents \o fifo_wr)
  IN dirty \/ CASE MemRd -> /\ ram = {<<k, k>> : k \in 0..stored - 1}
                           /\ queued \o Contents \o fifo_wr = Words(stored, pos)
               [] MemWr -> /\ Contents \o fifo_wr = Words(pos, fetched)
                           /\ in_block => ~Emty
               [] OTHER -> Contents \o wdatq \o fifo_wr = <<>>

(* A write burst is flagged last on the beat that awlen announced, and on  *)
(* no other.                                                               *)
BurstShape ==
  (busreq_cs = "DONE" /\ wdatq # <<>>)
    => (wdatq[1].last <=> burst.beat = burst.len)

(* No burst touches memory outside the num_blocks blocks of its request.   *)
BurstInBuffer ==
  (burst # <<>> /\ ~dirty) => burst.addr + burst.len < Total

(* When a read's end is reported to the command processor, all its words   *)
(* have been handed to the bus.                                            *)
StoredWhenDone ==
  (emmc_req_done /\ MemRd /\ ~dirty) => ram = {<<k, k>> : k \in 0..Total - 1}

(* Fairness: the clock runs; the bus takes an address and moves a beat     *)
(* that it is offered; the card goes on with its transfer.  Nothing obliges *)
(* a timeout or a reset to come to a request's rescue.                     *)
AddressTaken == \E beat \in BOOLEAN : ReqDone(TRUE) /\ Tick(TRUE, beat, FALSE)
BeatMoved == \E aready \in BOOLEAN :
  (WrDatVld(TRUE) \/ RdDatVld(TRUE)) /\ Tick(aready, TRUE, FALSE)
CardMoves == \E aready, beat \in BOOLEAN :
  \/ /\ Manager(aready, beat, FALSE, FALSE)
     /\ CpRaise \/ CpStart(beat) \/ CpFinish(beat)
  \/ Manager(aready, beat, TRUE, FALSE) /\ CpWord(beat)

AxiFair ==
  /\ AxiSpec
  /\ WF_axiVars(Edges) /\ WF_axiVars(AddressTaken)
  /\ WF_axiVars(BeatMoved) /\ WF_axiVars(CardMoves)

(* A request ends: the manager counts every block and no burst hangs.      *)
RequestEnds == (dir # "none") ~> (dir = "none")
=============================================================================
