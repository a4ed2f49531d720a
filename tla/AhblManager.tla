---------------------------- MODULE AhblManager ----------------------------
(* The AHB-Lite bus manager (rtl/emmc_ahbl_m.v, gen_blk_lteq1KB) with its  *)
(* data FIFO: what Axi4Manager is for AXI4.  A step is an edge of clk_i;   *)
(* a word of a transfer is named by its index, which is also its address   *)
(* less csr_src_dst_addr.  The address of a beat is on the bus one edge    *)
(* before its data, and the manager counts both by itself.                 *)
EXTENDS EmmcFifo

CONSTANTS
  MAX_BURST,    \* 256: the burst of an unknown block size
  BLOCK_WORDS,  \* block sizes, in words
  NUM_BLOCKS,   \* block counts
  SETTLE,       \* edges between programming and the request
  GAP           \* least number of edges between two blocks on the data lines

ASSUME AhblAssumption ==
  /\ MAX_BURST \in Nat \ {0} /\ SETTLE \in Nat /\ GAP \in Nat
  /\ BLOCK_WORDS \subseteq 1..MAX_BURST /\ NUM_BLOCKS \subseteq Nat \ {0}

(* FIFO_DEPTH is two blocks of the largest size; between two blocks there  *)
(* are more edges than mem_free is late.                                   *)
ASSUME RoomAssumption == GAP >= 2 /\ \A w \in BLOCK_WORDS : 2 * w <= SIZE

VARIABLES
  busreq_cs, axaddr_r, axlen_p1, burst_count, data_count, addr_issued,
  blk_cntr, all_blocks_done,
  htrans, haddr, hwrite, hwdata,           \* ahbl_..._r; htrans: not IDLE
  fifo_wr, fifo_cntr, fifocnt_gteq_axlen, mem_avail, mem_free,
  dphase,                                  \* the subordinate's data phase
  ram,                                     \* what has been stored, and where
  plan, dir, block_len, num_blocks, settle, in_block, pos, gap,
  waited,   \* history: ahbl_hready_i has been low (once: a bound)
  dirty     \* history: a write larger than the FIFO, or a withdrawn request

busVars == <<busreq_cs, axaddr_r, axlen_p1, burst_count, data_count,
             addr_issued, blk_cntr, all_blocks_done>>
ahbVars == <<htrans, haddr, hwrite, hwdata, dphase, ram, waited>>
cntVars == <<fifo_wr, fifo_cntr, fifocnt_gteq_axlen, mem_avail, mem_free>>
cpVars == <<plan, dir, block_len, num_blocks, settle, in_block, pos, gap, dirty>>
ahblVars == <<fifoVars, busVars, ahbVars, cntVars, cpVars>>

MemRd == dir = "read"     \* emmc_memrd_req: words go to the bus
MemWr == dir = "write"    \* emmc_memwr_req: words come from the bus
Total == block_len * num_blocks

----------------------------------------------------------------------------
(* Wires.  ready is ahbl_hready_i.                                         *)

Addressing == busreq_cs \in {"READ", "WRITE"}

(* Mutant: an address too many.                                            *)
AddrPhaseLong(ready) == Addressing /\ ready /\ burst_count <= axlen_p1
AddrPhase(ready) == Addressing /\ ready /\ burst_count < axlen_p1

(* rd_req_done, wr_req_done: seen only if the bus is ready on the one edge *)
(* before the FSM goes on.                                                 *)
ReqDone(ready) == Addressing /\ ready /\ burst_count >= axlen_p1

DatVld(ready) ==
  (Addressing \/ busreq_cs = "DONE") /\ ready /\ data_count \in 1..axlen_p1
DatDone(ready) == DatVld(ready) /\ data_count = axlen_p1

FifoRden(ready, word) ==
  ~Emty /\ ((MemRd /\ addr_issued /\ ready) \/ (MemWr /\ word))

emmc_req_done == all_blocks_done /\ busreq_cs = "WAIT"

----------------------------------------------------------------------------
(* Main state machine.                                                     *)

BusIdle ==
  /\ busreq_cs = "IDLE"
  /\ busreq_cs' = IF MemRd \/ MemWr THEN "WAIT" ELSE "IDLE"
  /\ blk_cntr' = 0 /\ burst_count' = 0 /\ axaddr_r' = 0 /\ axlen_p1' = block_len

(* Mutant: a write burst starts with its first word.                       *)
StartWriteEager == fifo_cntr # 0
StartWrite == fifocnt_gteq_axlen

BusWait ==
  /\ busreq_cs = "WAIT"
  /\ busreq_cs' =
       CASE all_blocks_done -> IF MemRd \/ MemWr THEN "WAIT" ELSE "IDLE"
         [] ~all_blocks_done /\ MemWr -> "READ"
         [] ~all_blocks_done /\ MemRd /\ StartWrite -> "WRITE"
         [] OTHER -> "WAIT"
  /\ burst_count' = IF busreq_cs' = "WAIT" \/ all_blocks_done THEN burst_count ELSE 0
  /\ UNCHANGED <<axaddr_r, axlen_p1, blk_cntr>>

BusAddress(ready) ==
  /\ Addressing
  /\ busreq_cs' = IF burst_count >= axlen_p1 THEN "DONE" ELSE busreq_cs
  /\ burst_count' = IF AddrPhase(ready) THEN burst_count + 1 ELSE burst_count
  /\ axaddr_r' = IF AddrPhase(ready) THEN axaddr_r + 1 ELSE axaddr_r
  /\ blk_cntr' = IF ReqDone(ready) THEN blk_cntr + 1 ELSE blk_cntr
  /\ UNCHANGED axlen_p1

BusDone(ready) ==
  /\ busreq_cs = "DONE"
  /\ busreq_cs' = IF DatDone(ready) THEN "WAIT" ELSE "DONE"
  /\ axaddr_r' = IF DatDone(ready) THEN haddr ELSE axaddr_r
  /\ UNCHANGED <<axlen_p1, burst_count, blk_cntr>>

BusFsm(ready) ==
  /\ BusIdle \/ BusWait \/ BusAddress(ready) \/ BusDone(ready)
  /\ all_blocks_done' = (blk_cntr = num_blocks)
  /\ addr_issued' = AddrPhase(ready)
  /\ data_count' =
       IF busreq_cs \in {"IDLE", "WAIT"} THEN 0
       ELSE IF (addr_issued \/ busreq_cs = "DONE") /\ ready /\ data_count < axlen_p1
            THEN data_count + 1
       ELSE data_count

(* AHB-Lite control and write data registers.                              *)
BusSignals(ready) ==
  /\ htrans' = AddrPhase(ready)
  /\ haddr' = IF Addressing /\ ready THEN axaddr_r ELSE haddr
  /\ hwrite' = IF Addressing THEN busreq_cs = "WRITE" ELSE hwrite
  /\ hwdata' = IF addr_issued /\ ready /\ ~Emty THEN Rdat ELSE hwdata

----------------------------------------------------------------------------
(* The subordinate: it takes the address that is on the bus, and is ready  *)
(* unless it has a data phase to prolong.                                  *)

Writes == dphase # <<>> /\ dphase[1].write
Hrdata == IF dphase = <<>> THEN 0 ELSE dphase[1].addr

Subordinate(ready) ==
  /\ ready \/ (dphase # <<>> /\ ~waited)
  /\ waited' = (waited \/ ~ready)
  /\ dphase' = IF ~ready THEN dphase
               ELSE IF htrans THEN <<[addr |-> haddr, write |-> hwrite]>> ELSE <<>>

Stored(ready) == IF ready /\ Writes THEN ram \cup {<<dphase[1].addr, hwdata>>} ELSE ram

----------------------------------------------------------------------------
(* FIFO write register, word counter and its comparisons.                  *)

FifoWrite(ready, word) ==
  CASE MemRd /\ ~Full /\ word -> <<pos>>
    [] MemWr /\ ~Full /\ DatVld(ready) /\ ~hwrite -> <<Hrdata>>
    [] OTHER -> <<>>

FifoSide(ready, word) ==
  LET rden == FifoRden(ready, word)
      wr == IF fifo_wr # <<>> THEN 1 ELSE 0
      rd == IF rden THEN 1 ELSE 0
  IN /\ IF fifo_wr = <<>> \/ Full THEN Edge(FALSE, 0, rden)
        ELSE Edge(TRUE, fifo_wr[1], rden)
     /\ fifo_wr' = FifoWrite(ready, word)
     /\ fifo_cntr' = fifo_cntr + wr - rd
     /\ fifocnt_gteq_axlen' = (fifo_cntr >= axlen_p1)
     /\ mem_avail' = (fifo_cntr # 0 /\ fifo_cntr >= block_len)
     /\ mem_free' = (fifo_cntr <= block_len)

----------------------------------------------------------------------------
(* The command processor, as far as the manager sees it; after what the    *)
(* manager is not made for, a request follows only a core reset (a bound). *)

CpProgram ==
  /\ plan = "none" /\ dir = "none" /\ ~dirty /\ ~waited /\ busreq_cs = "IDLE"
  /\ \E d \in {"read", "write"}, w \in BLOCK_WORDS, n \in NUM_BLOCKS :
       plan' = d /\ block_len' = w /\ num_blocks' = n
  /\ dirty' = (plan' = "write" /\ block_len' * num_blocks' > SIZE)
  /\ settle' = SETTLE /\ pos' = 0 /\ gap' = 0 /\ ram' = {}
  /\ UNCHANGED <<dir, in_block>>

CpRaise ==
  /\ plan # "none" /\ dir = "none"
  /\ settle' = (IF settle > 0 THEN settle - 1 ELSE 0)
  /\ dir' = (IF settle = 0 THEN plan ELSE "none")
  /\ UNCHANGED <<plan, block_len, num_blocks, in_block, pos, gap, dirty>>

CpStart ==
  /\ dir # "none" /\ ~in_block /\ pos < Total /\ gap = 0
  /\ IF MemRd THEN mem_free ELSE mem_avail
  /\ in_block' = TRUE
  /\ UNCHANGED <<plan, dir, block_len, num_blocks, settle, pos, gap, dirty>>

CpWord ==
  /\ dir # "none" /\ in_block
  /\ pos' = pos + 1 /\ in_block' = ((pos + 1) % block_len # 0)
  /\ gap' = IF in_block' THEN 0 ELSE GAP
  /\ UNCHANGED <<plan, dir, block_len, num_blocks, settle, dirty>>

CpRest ==
  /\ plan = "none" \/ dir # "none"
  /\ gap' = IF gap > 0 THEN gap - 1 ELSE 0
  /\ UNCHANGED <<plan, dir, block_len, num_blocks, settle, in_block, pos, dirty>>

(* wait_rd_data falls on emmc_req_done, wait_wr_data on the last block;    *)
(* or a timeout withdraws the request.                                     *)
CpFinish ==
  /\ dir # "none"
  /\ \/ pos = Total /\ (MemRd => emmc_req_done) /\ UNCHANGED dirty
     \/ dirty' = TRUE
  /\ dir' = "none" /\ plan' = "none" /\ in_block' = FALSE /\ gap' = 0
  /\ UNCHANGED <<block_len, num_blocks, settle, pos>>

----------------------------------------------------------------------------
Manager(ready, word) ==
  /\ BusFsm(ready) /\ BusSignals(ready) /\ Subordinate(ready)
  /\ FifoSide(ready, word)

Edges == \E ready \in BOOLEAN :
  \/ Manager(ready, FALSE) /\ CpProgram
  \/ /\ Manager(ready, FALSE) /\ ram' = Stored(ready)
     /\ CpRaise \/ CpStart \/ CpRest \/ CpFinish
  \/ Manager(ready, TRUE) /\ ram' = Stored(ready) /\ CpWord

(* ip_core_rst, with no beat on the bus.                                   *)
SoftReset ==
  /\ ~htrans /\ dphase = <<>>
  /\ FifoReset
  /\ busreq_cs' = "IDLE" /\ axaddr_r' = 0 /\ axlen_p1' = 0 /\ burst_count' = 0
  /\ data_count' = 0 /\ addr_issued' = FALSE /\ blk_cntr' = 0 /\ all_blocks_done' = FALSE
  /\ htrans' = FALSE /\ haddr' = 0 /\ hwrite' = FALSE /\ hwdata' = 0
  /\ fifo_wr' = <<>> /\ fifo_cntr' = 0 /\ fifocnt_gteq_axlen' = FALSE
  /\ mem_avail' = FALSE /\ mem_free' = FALSE
  /\ dphase' = <<>> /\ ram' = {}
  /\ plan' = "none" /\ dir' = "none" /\ settle' = 0 /\ in_block' = FALSE
  /\ pos' = 0 /\ gap' = 0 /\ waited' = FALSE /\ dirty' = FALSE
  /\ UNCHANGED <<block_len, num_blocks>>

AhblInit ==
  /\ FifoInit
  /\ busreq_cs = "IDLE" /\ axaddr_r = 0 /\ axlen_p1 = 0 /\ burst_count = 0
  /\ data_count = 0 /\ addr_issued = FALSE /\ blk_cntr = 0 /\ all_blocks_done = FALSE
  /\ htrans = FALSE /\ haddr = 0 /\ hwrite = FALSE /\ hwdata = 0
  /\ fifo_wr = <<>> /\ fifo_cntr = 0 /\ fifocnt_gteq_axlen = FALSE
  /\ mem_avail = FALSE /\ mem_free = FALSE
  /\ dphase = <<>> /\ ram = {}
  /\ plan = "none" /\ dir = "none" /\ settle = 0 /\ in_block = FALSE
  /\ pos = 0 /\ gap = 0 /\ waited = FALSE /\ dirty = FALSE
  /\ block_len \in BLOCK_WORDS /\ num_blocks \in NUM_BLOCKS

AhblNext == Edges \/ SoftReset

AhblSpec == AhblInit /\ [][AhblNext]_ahblVars

----------------------------------------------------------------------------
(* What the manager is not made for: a subordinate that is ever not ready, *)
(* a write request larger than the FIFO, which it fetches without a look   *)
(* at the FIFO's room, and a request that is withdrawn.                    *)
Spoiled == waited \/ dirty

(* The types; no more addresses and beats than the burst has; and the word *)
(* counter that gates blocks and bursts is the FIFO's contents             *)
(* (emmc_ahbl_m.v 292-352, 471-492).                                       *)
AhblInv ==
  /\ busreq_cs \in {"IDLE", "WAIT", "READ", "WRITE", "DONE"}
  /\ axlen_p1 \in 0..MAX_BURST
  /\ burst_count \in 0..axlen_p1 /\ data_count \in 0..axlen_p1
  /\ Len(fifo_wr) <= 1 /\ FifoTypeOK
  /\ ~Spoiled => /\ fifo_cntr = Len(Contents)
                 /\ fifo_wr # <<>> => ~Full

Words(a, b) == [i \in 1..(b - a) |-> a + i - 1]

(* Address and data are counted apart, and yet every word is in one place  *)
(* and in order: stored at its address, on its way, or still to come; no   *)
(* block finds the FIFO empty; and when the end is reported there is no    *)
(* word missing and none too many (emmc_ahbl_m.v 213-239, 296-363).        *)
WordsDelivered ==
  LET flying == IF Writes THEN <<hwdata>> ELSE <<>>
      queued == flying \o Contents \o fifo_wr
      stored == pos - Len(queued)
  IN Spoiled \/
     CASE MemRd -> /\ ram = {<<k, k>> : k \in 0..stored - 1}
                   /\ queued = Words(stored, pos)
                   /\ Writes => dphase[1].addr = stored
                   /\ emmc_req_done => stored = Total
       [] MemWr -> /\ queued = Words(pos, pos + Len(queued))
                   /\ in_block => ~Emty
                   /\ pos + Len(queued) <= Total
                   /\ emmc_req_done => pos + Len(queued) = Total
       [] OTHER -> queued = <<>>
=============================================================================
