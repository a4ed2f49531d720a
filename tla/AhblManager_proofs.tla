------------------------ MODULE AhblManager_proofs ------------------------
(* Proofs about AhblManager, for words that are named by natural numbers.  *)
EXTENDS AhblManager, EmmcFifo_proofs

Kinds == {"none", "read", "write"}
Bit(b) == IF b THEN 1 ELSE 0

(* The types, in every state: those of AhblInv and those of the registers  *)
(* that it does not name.  The word counter never counts too few words.    *)
BusTypes ==
  /\ busreq_cs \in {"IDLE", "WAIT", "READ", "WRITE", "DONE"}
  /\ axaddr_r \in Nat /\ axlen_p1 \in 0..MAX_BURST /\ blk_cntr \in Nat
  /\ burst_count \in 0..axlen_p1 /\ data_count \in 0..axlen_p1
  /\ addr_issued \in BOOLEAN /\ all_blocks_done \in BOOLEAN
  /\ htrans \in BOOLEAN /\ haddr \in Nat /\ hwrite \in BOOLEAN /\ hwdata \in Nat
  /\ dphase # <<>> => dphase[1] \in [addr : Nat, write : BOOLEAN]
CpTypes ==
  /\ plan \in Kinds /\ dir \in Kinds /\ in_block \in BOOLEAN
  /\ block_len \in BLOCK_WORDS /\ num_blocks \in NUM_BLOCKS
  /\ pos \in Nat /\ gap \in 0..GAP
  /\ waited \in BOOLEAN /\ dirty \in BOOLEAN
CountTypes ==
  /\ fifo_wr \in Seq(Nat) /\ Len(fifo_wr) <= 1
  /\ fifo_cntr \in Nat /\ Len(Contents) <= fifo_cntr
  /\ mem_avail \in BOOLEAN /\ mem_free \in BOOLEAN /\ fifocnt_gteq_axlen \in BOOLEAN
  /\ FifoInv
Types == BusTypes /\ CpTypes /\ CountTypes

(* The word whose data phase is on the bus, or comes next.                 *)
Taken == axaddr_r - Bit(addr_issued) - Bit(dphase # <<>>)

(* How far the FSM is with the burst of block number blk_cntr: an address  *)
(* on every edge, its data one edge later.                                 *)
IdleInv == busreq_cs = "IDLE" =>
  /\ ~addr_issued /\ dphase = <<>>
  /\ plan # "none" => axaddr_r = 0 /\ blk_cntr = 0
  /\ dir # "none" => axlen_p1 = block_len /\ ~all_blocks_done
WaitInv == busreq_cs = "WAIT" =>
  /\ ~addr_issued /\ dphase = <<>>
  /\ axlen_p1 = block_len /\ axaddr_r = blk_cntr * block_len /\ blk_cntr <= num_blocks
  /\ all_blocks_done <=> blk_cntr = num_blocks
  /\ dir = "none" => all_blocks_done
AddressInv == Addressing =>
  /\ dir # "none" /\ (busreq_cs = "WRITE" <=> MemRd)
  /\ axlen_p1 = block_len /\ axaddr_r = blk_cntr * block_len + burst_count
  /\ blk_cntr < num_blocks
  /\ addr_issued <=> burst_count # 0
  /\ data_count = burst_count - Bit(addr_issued)
  /\ dphase # <<>> <=> data_count # 0
  /\ addr_issued => haddr = axaddr_r - 1 /\ (hwrite <=> MemRd)
DoneInv == busreq_cs = "DONE" =>
  /\ dir # "none" /\ ~addr_issued /\ dphase # <<>>
  /\ axlen_p1 = block_len /\ axaddr_r = blk_cntr * block_len
  /\ blk_cntr \in 1..num_blocks
  /\ data_count = axlen_p1 /\ burst_count = axlen_p1
  /\ haddr = axaddr_r /\ (hwrite <=> MemRd)
BurstInv ==
  /\ IdleInv /\ WaitInv /\ AddressInv /\ DoneInv
  /\ htrans = addr_issued
  /\ dphase # <<>> => dphase[1] = [addr |-> Taken, write |-> MemRd]

(* A request begins with nothing under way.                                *)
PlanInv ==
  /\ dir # "none" => plan = dir
  /\ dir = "none" => Contents = <<>> /\ fifo_wr = <<>> /\ ~in_block
  /\ dir = "none" /\ plan # "none" =>
       busreq_cs = "IDLE" /\ pos = 0 /\ gap = 0 /\ ram = {}
  /\ plan = "write" => Total <= SIZE

Left == block_len - (pos % block_len)
BlockInv == ~in_block /\ dir # "none" => pos % block_len = 0

(* A read: the words, in order, are in the memory, in hwdata, in the FIFO. *)
ReadWords == MemRd =>
  /\ pos = Taken + Bit(dphase # <<>>) + Len(Contents) + Len(fifo_wr)
  /\ Contents = Run(pos - Len(fifo_wr) - Len(Contents), Len(Contents))
  /\ fifo_wr # <<>> => fifo_wr[1] = pos - 1
  /\ dphase # <<>> => hwdata = Taken
  /\ ram = {<<k, k>> : k \in 0..Taken - 1}

(* There is room for a block of a read before it starts and for what is    *)
(* left of it while it comes: mem_free, which is two edges late, is looked *)
(* at only when the last block is in the memory and counted.               *)
RoomInv == MemRd =>
  /\ Len(Contents) + Len(fifo_wr) <= 2 * block_len
  /\ in_block => Len(Contents) + Len(fifo_wr) + Left <= 2 * block_len
  /\ ~in_block /\ gap < GAP => fifo_wr = <<>>
  /\ ~in_block /\ gap + 1 < GAP /\ mem_free => Len(Contents) <= block_len

(* A burst to memory finds every one of its words at the FIFO's output.    *)
BurstWords == MemRd =>
  /\ busreq_cs = "WAIT" /\ fifocnt_gteq_axlen => AlmostAtOutput(axlen_p1)
  /\ Addressing => AtOutput(axlen_p1 - data_count)

(* A write: what has been fetched is in the FIFO, in order, but for what   *)
(* the card has taken.                                                     *)
WriteWords == MemWr =>
  /\ Taken = pos + Len(Contents) + Len(fifo_wr)
  /\ Contents = Run(pos, Len(Contents))
  /\ fifo_wr # <<>> => fifo_wr[1] = pos + Len(Contents)

(* A block to the card finds every one of its words at the FIFO's output.  *)
BlockWordsInv == MemWr =>
  /\ ~in_block /\ gap < GAP /\ mem_avail => AlmostAtOutput(block_len)
  /\ in_block => AtOutput(Left)

Counted == fifo_cntr = Len(Contents) /\ (fifo_wr # <<>> => ~Full)

FlowInv == /\ Counted /\ BurstInv /\ PlanInv /\ BlockInv
           /\ ReadWords /\ RoomInv /\ BurstWords /\ WriteWords /\ BlockWordsInv

AhblIInv == Types /\ (~Spoiled => FlowInv)

----------------------------------------------------------------------------
(* The types.                                                              *)

(* The FSM, its counters and the bus registers keep their types.           *)
LEMMA BusTyped ==
  ASSUME Data = Nat, Types, NEW ready \in BOOLEAN,
         BusFsm(ready), BusSignals(ready), Subordinate(ready)
  PROVE  BusTypes' /\ waited' \in BOOLEAN
<1>0. /\ MAX_BURST \in Nat /\ block_len \in 1..MAX_BURST /\ waited \in BOOLEAN
      /\ axlen_p1 \in 0..MAX_BURST /\ axlen_p1 \in Nat
  BY AhblAssumption DEF Types, BusTypes, CpTypes
<1>1. /\ busreq_cs' \in {"IDLE", "WAIT", "READ", "WRITE", "DONE"}
      /\ axlen_p1' \in 0..MAX_BURST
      /\ busreq_cs # "IDLE" => axlen_p1' = axlen_p1
      /\ axaddr_r' \in Nat /\ blk_cntr' \in Nat
  <2> USE <1>0 DEF Types, BusTypes
  <2>1. CASE BusIdle BY <2>1 DEF BusIdle
  <2>2. CASE BusWait BY <2>2 DEF BusWait
  <2>3. CASE BusAddress(ready) BY <2>3 DEF BusAddress, Addressing
  <2>4. CASE BusDone(ready) BY <2>4 DEF BusDone
  <2> QED BY <2>1, <2>2, <2>3, <2>4 DEF BusFsm
<1>2. burst_count' \in 0..axlen_p1'
  <2> USE <1>0 DEF Types, BusTypes
  <2>1. CASE BusIdle BY <2>1 DEF BusIdle
  <2>2. CASE BusWait BY <2>2 DEF BusWait
  <2>3. CASE BusAddress(ready) BY <2>3 DEF BusAddress, AddrPhase
  <2>4. CASE BusDone(ready) BY <2>4 DEF BusDone
  <2> QED BY <2>1, <2>2, <2>3, <2>4 DEF BusFsm
<1>3. data_count' \in 0..axlen_p1'
  <2>1. axlen_p1' \in Nat /\ data_count \in 0..axlen_p1
    BY <1>0, <1>1 DEF Types, BusTypes
  <2>2. CASE busreq_cs \in {"IDLE", "WAIT"}
    <3>1. data_count' = 0
      BY <2>2 DEF BusFsm
    <3> QED BY <2>1, <3>1
  <2>3. CASE busreq_cs \notin {"IDLE", "WAIT"}
    BY <1>0, <1>1, <2>1, <2>3 DEF BusFsm
  <2> QED BY <2>2, <2>3
<1>4. addr_issued' \in BOOLEAN /\ htrans' \in BOOLEAN
  BY DEF BusFsm, BusSignals, AddrPhase, Addressing
<1>5. all_blocks_done' \in BOOLEAN
  BY DEF BusFsm
<1>6. haddr' \in Nat
  BY DEF BusSignals, Types, BusTypes
<1>7. hwrite' \in BOOLEAN
  BY DEF BusSignals, Types, BusTypes
<1>8. hwdata' \in Nat
  <2>1. ~Emty => Rdat \in Nat
    BY DEF Emty, Rdat, Types, CountTypes, FifoInv, FifoTypeOK
  <2> QED BY <2>1 DEF BusSignals, Types, BusTypes
<1>9. dphase' # <<>> => dphase'[1] \in [addr : Nat, write : BOOLEAN]
  BY DEF Subordinate, Types, BusTypes
<1>10. waited' \in BOOLEAN
  BY <1>0 DEF Subordinate
<1> QED BY <1>1, <1>2, <1>3, <1>4, <1>5, <1>6, <1>7, <1>8, <1>9, <1>10 DEF BusTypes

(* What the command processor does in an edge.                             *)
CpStep(ready, word) ==
  \/ ~word /\ CpProgram
  \/ /\ ~word /\ ram' = Stored(ready)
     /\ CpRaise \/ CpStart \/ CpRest \/ CpFinish
  \/ word /\ CpWord /\ ram' = Stored(ready)

(* The command processor keeps its types.                                  *)
LEMMA CpTyped ==
  ASSUME Types, NEW ready \in BOOLEAN, NEW word \in BOOLEAN, CpStep(ready, word)
  PROVE  /\ plan' \in Kinds /\ dir' \in Kinds /\ in_block' \in BOOLEAN
         /\ block_len' \in BLOCK_WORDS /\ num_blocks' \in NUM_BLOCKS
         /\ pos' \in Nat /\ gap' \in 0..GAP /\ dirty' \in BOOLEAN
<1> USE AhblAssumption DEF Types, CpTypes, Kinds
<1>1. CASE CpProgram BY <1>1 DEF CpProgram
<1>2. CASE CpRaise BY <1>2 DEF CpRaise
<1>3. CASE CpStart BY <1>3 DEF CpStart
<1>4. CASE CpRest BY <1>4 DEF CpRest
<1>5. CASE CpFinish
  <2>1. dirty' \in BOOLEAN
    BY <1>5 DEF CpFinish
  <2>2. gap' \in 0..GAP
    BY <1>5 DEF CpFinish
  <2>3. pos' = pos /\ block_len' = block_len /\ num_blocks' = num_blocks
        /\ plan' = "none" /\ dir' = "none" /\ in_block' = FALSE
    BY <1>5 DEF CpFinish
  <2> QED BY <2>1, <2>2, <2>3
<1>6. CASE CpWord BY <1>6 DEF CpWord
<1> QED BY <1>1, <1>2, <1>3, <1>4, <1>5, <1>6 DEF CpStep

(* What goes into the FIFO on an edge, and whether a word leaves it.       *)
Wren == fifo_wr # <<>> /\ ~Full
Wdat == IF Wren THEN fifo_wr[1] ELSE 0

(* The edge that the FIFO sees.                                            *)
LEMMA FifoStep ==
  ASSUME Data = Nat, Types, NEW ready \in BOOLEAN, NEW word \in BOOLEAN,
         FifoSide(ready, word)
  PROVE  LET rden == FifoRden(ready, word) IN
         /\ rden \in BOOLEAN /\ (rden => ~Emty)
         /\ Wren \in BOOLEAN /\ (Wren => ~Full) /\ Wdat \in Data
         /\ Edge(Wren, Wdat, rden)
         /\ FifoInv /\ FifoInv'
<1> DEFINE rden == FifoRden(ready, word)
<1>1. rden \in BOOLEAN /\ (rden => ~Emty)
  BY DEF FifoRden
<1>2. Wren \in BOOLEAN /\ (Wren => ~Full)
  BY DEF Wren
<1>3. Wdat \in Data
  <2>1. fifo_wr # <<>> => fifo_wr[1] \in Nat
    BY DEF Types, CountTypes
  <2> QED BY <2>1 DEF Wdat, Wren
<1>4. Edge(Wren, Wdat, rden)
  BY DEF FifoSide, Wren, Wdat
<1>5. FifoInv /\ FifoInv'
  BY <1>1, <1>2, <1>3, <1>4, EdgeCounts DEF Types, CountTypes
<1> QED BY <1>1, <1>2, <1>3, <1>4, <1>5

(* The write register and the word counter keep their types.               *)
LEMMA CountTyped ==
  ASSUME Data = Nat, Types, NEW ready \in BOOLEAN, NEW word \in BOOLEAN,
         FifoSide(ready, word)
  PROVE  CountTypes'
<1> DEFINE rden == FifoRden(ready, word)
           n == Len(Contents)
           nn == Len(Contents')
<1>1. /\ rden \in BOOLEAN /\ (rden => ~Emty)
      /\ Wren \in BOOLEAN /\ (Wren => ~Full) /\ Wdat \in Data
      /\ Edge(Wren, Wdat, rden) /\ FifoInv /\ FifoInv'
  BY FifoStep
<1>2. /\ n \in Nat /\ nn \in Nat /\ n >= Bit(rden) /\ nn = n + Bit(Wren) - Bit(rden)
  BY <1>1, EdgeLengths DEF Bit
<1>3. fifo_wr' \in Seq(Nat) /\ Len(fifo_wr') <= 1
  <2>1. pos \in Nat /\ Hrdata \in Nat
    BY DEF Types, BusTypes, CpTypes, Hrdata
  <2>2. fifo_wr' \in {<<pos>>, <<Hrdata>>, <<>>}
    BY DEF FifoSide, FifoWrite
  <2>3. CASE fifo_wr' = <<pos>> BY <2>1, <2>3
  <2>4. CASE fifo_wr' = <<Hrdata>> BY <2>1, <2>4
  <2>5. CASE fifo_wr' = <<>> BY <2>5
  <2> QED BY <2>2, <2>3, <2>4, <2>5
<1>4. fifo_cntr' \in Nat /\ nn <= fifo_cntr'
  <2>1. fifo_cntr' = fifo_cntr + Bit(fifo_wr # <<>>) - Bit(rden)
    BY DEF FifoSide, Bit
  <2>2. fifo_cntr \in Nat /\ n <= fifo_cntr
    BY DEF Types, CountTypes
  <2>3. Bit(Wren) <= Bit(fifo_wr # <<>>) /\ Bit(Wren) \in Nat /\ Bit(rden) \in Nat
        /\ Bit(fifo_wr # <<>>) \in Nat
    BY DEF Wren, Bit
  <2> HIDE DEF n, nn, rden
  <2> QED BY <1>2, <2>1, <2>2, <2>3
<1>5. mem_avail' \in BOOLEAN /\ mem_free' \in BOOLEAN /\ fifocnt_gteq_axlen' \in BOOLEAN
  BY DEF FifoSide
<1> QED BY <1>1, <1>3, <1>4, <1>5 DEF CountTypes

(* An edge of the clock: what the manager does and what the card does.     *)
LEMMA EdgesAre ==
  ASSUME Edges
  PROVE  \E ready \in BOOLEAN, word \in BOOLEAN : Manager(ready, word) /\ CpStep(ready, word)
<1>1. PICK ready \in BOOLEAN :
        \/ Manager(ready, FALSE) /\ CpProgram
        \/ /\ Manager(ready, FALSE) /\ ram' = Stored(ready)
           /\ CpRaise \/ CpStart \/ CpRest \/ CpFinish
        \/ Manager(ready, TRUE) /\ ram' = Stored(ready) /\ CpWord
  BY DEF Edges
<1>2. \/ Manager(ready, FALSE) /\ CpStep(ready, FALSE)
      \/ Manager(ready, TRUE) /\ CpStep(ready, TRUE)
  BY <1>1 DEF CpStep
<1> QED BY <1>2

(* Every edge keeps the types.                                             *)
LEMMA Typed ==
  ASSUME Data = Nat, Types, NEW ready \in BOOLEAN, NEW word \in BOOLEAN,
         Manager(ready, word), CpStep(ready, word)
  PROVE  Types'
<1>1. BusTypes' /\ waited' \in BOOLEAN
  BY BusTyped DEF Manager
<1>2. CountTypes'
  BY CountTyped DEF Manager
<1> QED BY <1>1, <1>2, CpTyped DEF Types, CpTypes

----------------------------------------------------------------------------
(* The bus side, while the subordinate is ready.                           *)

(* The edge of a state in which addresses are issued.                      *)
LEMMA AddressStep ==
  ASSUME Types, BurstInv, Addressing,
         BusFsm(TRUE), BusSignals(TRUE), Subordinate(TRUE)
  PROVE  LET more == burst_count < axlen_p1 IN
         /\ addr_issued' = more /\ htrans' = more
         /\ busreq_cs' = IF more THEN busreq_cs ELSE "DONE"
         /\ burst_count' = burst_count + Bit(more)
         /\ axaddr_r' = axaddr_r + Bit(more)
         /\ blk_cntr' = blk_cntr + Bit(~more)
         /\ axlen_p1' = axlen_p1
         /\ ~more => burst_count = axlen_p1 /\ addr_issued
         /\ data_count' = burst_count
         /\ haddr' = axaddr_r /\ hwrite' = MemRd
         /\ dphase' = IF addr_issued
                      THEN <<[addr |-> axaddr_r - 1, write |-> MemRd]>> ELSE <<>>
<1> DEFINE more == burst_count < axlen_p1
<1>1. /\ axlen_p1 \in Nat \ {0} /\ burst_count \in 0..axlen_p1
      /\ data_count \in 0..axlen_p1
      /\ addr_issued \in BOOLEAN /\ axaddr_r \in Nat /\ blk_cntr \in Nat
  BY AhblAssumption DEF Types, BusTypes, CpTypes, BurstInv, AddressInv
<1>2. /\ addr_issued <=> burst_count # 0
      /\ data_count = burst_count - Bit(addr_issued)
      /\ busreq_cs = "WRITE" <=> MemRd
      /\ addr_issued => haddr = axaddr_r - 1 /\ (hwrite <=> MemRd)
      /\ htrans = addr_issued
  BY DEF BurstInv, AddressInv
<1>3. BusAddress(TRUE)
  BY DEF BusFsm, BusIdle, BusWait, BusDone, Addressing
<1>4. /\ busreq_cs' = IF more THEN busreq_cs ELSE "DONE"
      /\ burst_count' = burst_count + Bit(more)
      /\ axaddr_r' = axaddr_r + Bit(more)
      /\ blk_cntr' = blk_cntr + Bit(~more)
      /\ axlen_p1' = axlen_p1
  BY <1>1, <1>3 DEF BusAddress, AddrPhase, ReqDone, Bit
<1>5. ~more => burst_count = axlen_p1 /\ addr_issued
  BY <1>1, <1>2
<1>6. addr_issued' = more /\ htrans' = more
  BY DEF BusFsm, BusSignals, AddrPhase
<1>7. data_count' = burst_count
  <2>1. busreq_cs \notin {"IDLE", "WAIT", "DONE"}
    BY DEF Addressing
  <2>2. CASE addr_issued
    <3>1. data_count = burst_count - 1 /\ data_count < axlen_p1
      BY <1>1, <1>2, <2>2 DEF Bit
    <3>2. data_count' = data_count + 1
      BY <2>1, <2>2, <3>1 DEF BusFsm
    <3> QED BY <1>1, <3>1, <3>2
  <2>3. CASE ~addr_issued
    <3>1. data_count' = data_count
      BY <2>1, <2>3 DEF BusFsm
    <3> QED BY <1>1, <1>2, <2>3, <3>1 DEF Bit
  <2> QED BY <1>1, <2>2, <2>3
<1>8. haddr' = axaddr_r /\ hwrite' = MemRd
  BY <1>2 DEF BusSignals, MemRd
<1>9. dphase' = IF addr_issued
                THEN <<[addr |-> axaddr_r - 1, write |-> MemRd]>> ELSE <<>>
  <2>1. hwrite \in BOOLEAN /\ MemRd \in BOOLEAN
    BY DEF MemRd, Types, BusTypes
  <2>2. addr_issued => hwrite = MemRd
    BY <1>2, <2>1
  <2>3. dphase' = IF htrans THEN <<[addr |-> haddr, write |-> hwrite]>> ELSE <<>>
    BY DEF Subordinate
  <2> QED BY <1>2, <2>2, <2>3
<1> QED BY <1>4, <1>5, <1>6, <1>7, <1>8, <1>9

(* The edge on which the last beat of a burst is taken.                    *)
LEMMA DoneStep ==
  ASSUME Types, BurstInv, busreq_cs = "DONE",
         BusFsm(TRUE), BusSignals(TRUE), Subordinate(TRUE)
  PROVE  /\ busreq_cs' = "WAIT" /\ axaddr_r' = axaddr_r
         /\ axlen_p1' = axlen_p1 /\ blk_cntr' = blk_cntr
         /\ all_blocks_done' = (blk_cntr = num_blocks)
         /\ addr_issued' = FALSE /\ htrans' = FALSE /\ dphase' = <<>>
<1>1. /\ ~htrans /\ haddr = axaddr_r /\ data_count = axlen_p1 /\ axlen_p1 \in Nat \ {0}
  BY AhblAssumption DEF Types, BusTypes, CpTypes, BurstInv, DoneInv
<1>2. DatDone(TRUE)
  BY <1>1 DEF DatDone, DatVld
<1>3. BusDone(TRUE)
  BY DEF BusFsm, BusIdle, BusWait, BusAddress, Addressing
<1> QED BY <1>1, <1>2, <1>3
        DEF BusFsm, BusDone, BusSignals, Subordinate, AddrPhase, Addressing

(* The edge of a state without a burst.                                    *)
LEMMA IdleStep ==
  ASSUME Types, BurstInv, busreq_cs \in {"IDLE", "WAIT"}, NEW ready \in BOOLEAN,
         BusFsm(ready), BusSignals(ready), Subordinate(ready)
  PROVE  /\ addr_issued' = FALSE /\ htrans' = FALSE /\ dphase' = <<>>
         /\ all_blocks_done' = (blk_cntr = num_blocks)
         /\ busreq_cs = "IDLE" =>
              /\ busreq_cs' = IF MemRd \/ MemWr THEN "WAIT" ELSE "IDLE"
              /\ blk_cntr' = 0 /\ axaddr_r' = 0 /\ axlen_p1' = block_len
         /\ busreq_cs = "WAIT" =>
              /\ UNCHANGED <<axaddr_r, axlen_p1, blk_cntr>>
              /\ BusWait
              /\ busreq_cs' \in {"READ", "WRITE"} =>
                   burst_count' = 0 /\ data_count' = 0
<1>1. dphase = <<>> /\ ~htrans
  BY DEF BurstInv, IdleInv, WaitInv
<1>2. addr_issued' = FALSE /\ htrans' = FALSE /\ dphase' = <<>>
  BY <1>1 DEF BusFsm, BusSignals, Subordinate, AddrPhase, Addressing
<1>3. all_blocks_done' = (blk_cntr = num_blocks) /\ data_count' = 0
  BY DEF BusFsm
<1>4. busreq_cs = "IDLE" => BusIdle
  BY DEF BusFsm, BusWait, BusAddress, BusDone, Addressing
<1>5. busreq_cs = "WAIT" => BusWait
  BY DEF BusFsm, BusIdle, BusAddress, BusDone, Addressing
<1>6. busreq_cs = "WAIT" /\ busreq_cs' \in {"READ", "WRITE"} => burst_count' = 0
  <2> SUFFICES ASSUME busreq_cs = "WAIT", busreq_cs' \in {"READ", "WRITE"}
               PROVE  burst_count' = 0
    OBVIOUS
  <2>1. BusWait
    BY <1>5
  <2>2. ~all_blocks_done
    BY <2>1 DEF BusWait
  <2> QED BY <2>1, <2>2 DEF BusWait
<1> QED BY <1>2, <1>3, <1>4, <1>5, <1>6 DEF BusIdle, BusWait

(* Where the bus goes from the wait state.                                 *)
LEMMA WaitStep ==
  ASSUME Types, busreq_cs = "WAIT", BusWait
  PROVE  /\ all_blocks_done => busreq_cs' = IF MemRd \/ MemWr THEN "WAIT" ELSE "IDLE"
         /\ ~all_blocks_done /\ MemWr => busreq_cs' = "READ"
         /\ ~all_blocks_done /\ MemRd =>
              busreq_cs' = IF StartWrite THEN "WRITE" ELSE "WAIT"
         /\ ~all_blocks_done /\ ~MemRd /\ ~MemWr => busreq_cs' = "WAIT"
<1>1. all_blocks_done \in BOOLEAN /\ fifocnt_gteq_axlen \in BOOLEAN
  BY DEF Types, BusTypes, CountTypes
<1>2. ~(MemRd /\ MemWr)
  BY DEF MemRd, MemWr
<1>3. CASE all_blocks_done BY <1>3 DEF BusWait
<1>4. CASE ~all_blocks_done /\ MemWr BY <1>2, <1>4 DEF BusWait
<1>5. CASE ~all_blocks_done /\ MemRd /\ StartWrite BY <1>2, <1>5 DEF BusWait
<1>6. CASE ~all_blocks_done /\ MemRd /\ ~StartWrite BY <1>2, <1>6 DEF BusWait
<1>7. CASE ~all_blocks_done /\ ~MemRd /\ ~MemWr BY <1>7 DEF BusWait
<1> QED BY <1>3, <1>4, <1>5, <1>6, <1>7

(* A request under way, on an edge that does not end it.                   *)
Goes == dir # "none" /\ UNCHANGED <<plan, dir, block_len, num_blocks>>

(* The next word to be taken moves on with every data phase, which follows *)
(* the address by an edge.                                                 *)
LEMMA TakenMoves ==
  ASSUME Types, Types', BurstInv, plan # "none",
         BusFsm(TRUE), BusSignals(TRUE), Subordinate(TRUE)
  PROVE  /\ Taken' = Taken + Bit(dphase # <<>>)
         /\ dphase' # <<>> <=> addr_issued
         /\ dphase' # <<>> => dphase'[1] = [addr |-> Taken', write |-> MemRd]
         /\ htrans' = addr_issued'
<1>0. axaddr_r \in Nat /\ axaddr_r' \in Nat
  BY DEF Types, BusTypes
<1>1. CASE busreq_cs \in {"IDLE", "WAIT"}
  <2>1. ~addr_issued /\ dphase = <<>>
    BY <1>1 DEF BurstInv, IdleInv, WaitInv
  <2>2. ~addr_issued' /\ dphase' = <<>> /\ htrans' = addr_issued'
    BY <1>1, IdleStep
  <2>3. axaddr_r' = axaddr_r
    <3>1. CASE busreq_cs = "IDLE"
      BY <3>1, IdleStep DEF BurstInv, IdleInv
    <3>2. CASE busreq_cs = "WAIT"
      BY <3>2, IdleStep
    <3> QED BY <1>1, <3>1, <3>2
  <2> QED BY <1>0, <2>1, <2>2, <2>3 DEF Taken, Bit
<1>2. CASE Addressing
  <2>1. /\ addr_issued' = (burst_count < axlen_p1) /\ htrans' = addr_issued'
        /\ axaddr_r' = axaddr_r + Bit(burst_count < axlen_p1)
        /\ dphase' = IF addr_issued
                     THEN <<[addr |-> axaddr_r - 1, write |-> MemRd]>> ELSE <<>>
    BY <1>2, AddressStep
  <2>2. dphase' # <<>> <=> addr_issued
    BY <2>1
  <2>3. Taken' = axaddr_r - Bit(addr_issued)
    <3>1. Bit(addr_issued') = Bit(burst_count < axlen_p1)
      BY <2>1 DEF Bit
    <3>2. Bit(dphase' # <<>>) = Bit(addr_issued)
      BY <2>2 DEF Bit
    <3>3. Bit(burst_count < axlen_p1) \in 0..1 /\ Bit(addr_issued) \in 0..1
      BY DEF Bit
    <3>4. Taken' = axaddr_r' - Bit(addr_issued') - Bit(dphase' # <<>>)
      BY DEF Taken
    <3> QED BY <1>0, <2>1, <3>1, <3>2, <3>3, <3>4
  <2>4. addr_issued => Taken' = axaddr_r - 1
    BY <1>0, <2>3 DEF Bit
  <2>5. Taken' = Taken + Bit(dphase # <<>>)
    <3>1. Bit(addr_issued) \in 0..1 /\ Bit(dphase # <<>>) \in 0..1
      BY DEF Bit
    <3> QED BY <1>0, <2>3, <3>1 DEF Taken
  <2> QED BY <2>1, <2>2, <2>4, <2>5
<1>3. CASE busreq_cs = "DONE"
  <2>1. ~addr_issued
    BY <1>3 DEF BurstInv, DoneInv
  <2>2. ~addr_issued' /\ dphase' = <<>> /\ htrans' = addr_issued' /\ axaddr_r' = axaddr_r
    BY <1>3, DoneStep
  <2> QED BY <1>0, <2>1, <2>2 DEF Taken, Bit
<1> QED BY <1>1, <1>2, <1>3 DEF Types, BusTypes, Addressing

(* The burst goes on as BurstInv says while the request does.              *)
LEMMA BurstKept ==
  ASSUME Types, Types', BurstInv, Goes, plan = dir,
         BusFsm(TRUE), BusSignals(TRUE), Subordinate(TRUE)
  PROVE  BurstInv'
<1>0. /\ axaddr_r \in Nat /\ blk_cntr \in Nat /\ burst_count \in Nat
      /\ block_len \in Nat \ {0} /\ num_blocks \in Nat \ {0}
      /\ (MemRd' <=> MemRd) /\ (MemWr' <=> MemWr) /\ (MemRd \/ MemWr) /\ ~(MemRd /\ MemWr)
      /\ dir' # "none" /\ block_len' = block_len /\ num_blocks' = num_blocks
      /\ all_blocks_done \in BOOLEAN
  <2>1. /\ axaddr_r \in Nat /\ blk_cntr \in Nat /\ burst_count \in Nat
        /\ all_blocks_done \in BOOLEAN
    BY DEF Types, BusTypes
  <2>2. block_len \in Nat \ {0} /\ num_blocks \in Nat \ {0} /\ dir \in Kinds
    BY AhblAssumption DEF Types, CpTypes
  <2>3. dir # "none" /\ dir' = dir /\ block_len' = block_len /\ num_blocks' = num_blocks
    BY DEF Goes
  <2> QED BY <2>1, <2>2, <2>3 DEF Kinds, MemRd, MemWr
<1>a. /\ htrans' = addr_issued' /\ (dphase' # <<>> <=> addr_issued)
      /\ dphase' # <<>> => dphase'[1] = [addr |-> Taken', write |-> MemRd']
  <2>1. MemRd' = MemRd
    BY DEF Goes, MemRd
  <2> QED BY <2>1, TakenMoves DEF Goes
<1> SUFFICES IdleInv' /\ WaitInv' /\ AddressInv' /\ DoneInv'
  BY <1>a DEF BurstInv
<1>1. CASE busreq_cs = "IDLE"
  <2>1. axaddr_r = 0 /\ blk_cntr = 0
    BY <1>1 DEF BurstInv, IdleInv, Goes
  <2>2. /\ busreq_cs' = "WAIT" /\ blk_cntr' = 0 /\ axaddr_r' = 0
        /\ axlen_p1' = block_len /\ ~all_blocks_done'
        /\ ~addr_issued' /\ dphase' = <<>>
    BY <1>0, <1>1, <2>1, IdleStep
  <2>3. WaitInv'
    BY <1>0, <2>2 DEF WaitInv
  <2> QED BY <2>2, <2>3 DEF IdleInv, AddressInv, DoneInv, Addressing
<1>2. CASE busreq_cs = "WAIT"
  <2>1. /\ axlen_p1 = block_len /\ axaddr_r = blk_cntr * block_len
        /\ blk_cntr <= num_blocks /\ (all_blocks_done <=> blk_cntr = num_blocks)
    BY <1>2 DEF BurstInv, WaitInv
  <2>2. /\ axaddr_r' = axaddr_r /\ axlen_p1' = axlen_p1 /\ blk_cntr' = blk_cntr
        /\ (all_blocks_done' <=> blk_cntr = num_blocks)
        /\ ~addr_issued' /\ dphase' = <<>>
        /\ BusWait
        /\ busreq_cs' \in {"READ", "WRITE"} => burst_count' = 0 /\ data_count' = 0
    BY <1>2, IdleStep
  <2>3. CASE busreq_cs' = "WAIT"
    <3>1. WaitInv'
      BY <1>0, <2>1, <2>2 DEF WaitInv
    <3> QED BY <2>3, <3>1 DEF IdleInv, AddressInv, DoneInv, Addressing
  <2>4. CASE busreq_cs' # "WAIT"
    <3>1. ~all_blocks_done /\ busreq_cs' = IF MemRd THEN "WRITE" ELSE "READ"
      BY <1>0, <1>2, <2>2, <2>4, WaitStep
    <3>2. blk_cntr < num_blocks
      BY <1>0, <2>1, <3>1
    <3>3. burst_count' = 0 /\ data_count' = 0
      BY <2>2, <3>1
    <3>4. axaddr_r' = blk_cntr' * block_len' + burst_count' /\ Bit(addr_issued') = 0
      BY <1>0, <2>1, <2>2, <3>3 DEF Bit
    <3>5. AddressInv'
      BY <1>0, <2>1, <2>2, <3>1, <3>2, <3>3, <3>4 DEF AddressInv
    <3> QED BY <3>1, <3>5 DEF IdleInv, WaitInv, DoneInv
  <2> QED BY <2>3, <2>4
<1>3. CASE Addressing
  <2> DEFINE more == burst_count < axlen_p1
  <2>1. /\ addr_issued' = more
        /\ busreq_cs' = IF more THEN busreq_cs ELSE "DONE"
        /\ burst_count' = burst_count + Bit(more)
        /\ axaddr_r' = axaddr_r + Bit(more)
        /\ blk_cntr' = blk_cntr + Bit(~more)
        /\ axlen_p1' = axlen_p1 /\ (~more => burst_count = axlen_p1 /\ addr_issued)
        /\ data_count' = burst_count
        /\ haddr' = axaddr_r /\ (hwrite' <=> MemRd)
    BY <1>3, AddressStep
  <2>2. /\ axlen_p1 = block_len /\ axaddr_r = blk_cntr * block_len + burst_count
        /\ blk_cntr < num_blocks /\ (busreq_cs = "WRITE" <=> MemRd)
        /\ addr_issued <=> burst_count # 0
    BY <1>3 DEF BurstInv, AddressInv
  <2>4. CASE more
    <3>0. Bit(more) = 1 /\ Bit(~more) = 0
      BY <2>4 DEF Bit
    <3>1. /\ addr_issued' /\ busreq_cs' = busreq_cs
          /\ burst_count' = burst_count + 1 /\ axaddr_r' = axaddr_r + 1
          /\ blk_cntr' = blk_cntr
      <4>1. addr_issued' /\ busreq_cs' = busreq_cs
        BY <2>1, <2>4
      <4> HIDE DEF more
      <4> QED BY <1>0, <2>1, <3>0, <4>1
    <3>2. axaddr_r' = blk_cntr' * block_len' + burst_count'
      BY <1>0, <2>2, <3>1
    <3>3. /\ axaddr_r' - 1 = haddr' /\ burst_count' # 0 /\ data_count' = burst_count' - Bit(addr_issued')
      BY <1>0, <2>1, <3>1 DEF Bit
    <3>4. dphase' # <<>> <=> data_count' # 0
      BY <1>a, <2>1, <2>2
    <3>5. AddressInv'
      BY <1>0, <2>1, <2>2, <3>1, <3>2, <3>3, <3>4 DEF AddressInv
    <3> QED BY <1>3, <3>1, <3>5 DEF IdleInv, WaitInv, DoneInv, Addressing
  <2>5. CASE ~more
    <3>0. Bit(more) = 0 /\ Bit(~more) = 1
      BY <2>5 DEF Bit
    <3>1. /\ ~addr_issued' /\ busreq_cs' = "DONE"
          /\ axaddr_r' = axaddr_r /\ blk_cntr' = blk_cntr + 1
          /\ burst_count = axlen_p1 /\ burst_count' = axlen_p1 /\ addr_issued
      <4>1. ~addr_issued' /\ busreq_cs' = "DONE" /\ burst_count = axlen_p1 /\ addr_issued
        BY <2>1, <2>5
      <4> HIDE DEF more
      <4> QED BY <1>0, <2>1, <3>0, <4>1
    <3>2. axaddr_r' = blk_cntr' * block_len'
      BY <1>0, <2>2, <3>1
    <3>3. blk_cntr' \in 1..num_blocks' /\ dphase' # <<>>
      BY <1>0, <1>a, <2>2, <3>1
    <3>4. DoneInv'
      BY <1>0, <2>1, <2>2, <3>1, <3>2, <3>3 DEF DoneInv
    <3> QED BY <3>1, <3>4 DEF IdleInv, WaitInv, AddressInv, Addressing
  <2> QED BY <2>4, <2>5
<1>4. CASE busreq_cs = "DONE"
  <2>1. /\ axlen_p1 = block_len /\ axaddr_r = blk_cntr * block_len
        /\ blk_cntr \in 1..num_blocks
    BY <1>4 DEF BurstInv, DoneInv
  <2>2. /\ busreq_cs' = "WAIT" /\ axaddr_r' = axaddr_r
        /\ axlen_p1' = axlen_p1 /\ blk_cntr' = blk_cntr
        /\ (all_blocks_done' <=> blk_cntr = num_blocks)
        /\ ~addr_issued' /\ dphase' = <<>>
    BY <1>4, DoneStep
  <2>3. WaitInv'
    BY <1>0, <2>1, <2>2 DEF WaitInv
  <2> QED BY <2>2, <2>3 DEF IdleInv, AddressInv, DoneInv, Addressing
<1> QED BY <1>1, <1>2, <1>3, <1>4 DEF Types, BusTypes, Addressing

(* A word number that the bus has reached is one of the request's.         *)
LEMMA TakenBounds ==
  ASSUME Types, BurstInv, dir # "none", plan = dir
  PROVE  /\ Taken \in Nat /\ Total \in Nat /\ Taken + Bit(dphase # <<>>) <= Total
         /\ busreq_cs = "WAIT" =>
              IF all_blocks_done THEN Taken = Total ELSE Taken < Total
         /\ busreq_cs # "WAIT" => Taken < Total
<1>0. /\ axaddr_r \in Nat /\ blk_cntr \in Nat /\ burst_count \in 0..axlen_p1
      /\ data_count \in 0..axlen_p1 /\ axlen_p1 \in Nat
      /\ block_len \in Nat \ {0} /\ num_blocks \in Nat \ {0}
      /\ all_blocks_done \in BOOLEAN
  BY AhblAssumption DEF Types, BusTypes, CpTypes
<1>1. Total \in Nat /\ Total > 0
  BY <1>0 DEF Total
<1>2. \A k \in Nat : k < num_blocks => (k + 1) * block_len <= Total
  <2> SUFFICES ASSUME NEW k \in Nat, k < num_blocks PROVE (k + 1) * block_len <= Total
    OBVIOUS
  <2>1. k + 1 <= num_blocks
    BY <1>0
  <2>2. \A a, b, c \in Nat : a <= b => a * c <= b * c
    OBVIOUS
  <2>3. (k + 1) * block_len <= num_blocks * block_len
    BY <1>0, <2>1, <2>2
  <2>4. num_blocks * block_len = Total
    BY <1>0 DEF Total
  <2> QED BY <2>3, <2>4
<1>3. CASE busreq_cs = "IDLE"
  <2>1. axaddr_r = 0 /\ ~addr_issued /\ dphase = <<>>
    BY <1>3 DEF BurstInv, IdleInv
  <2>2. Taken = 0 /\ Bit(dphase # <<>>) = 0
    <3>1. Bit(addr_issued) = 0 /\ Bit(dphase # <<>>) = 0
      BY <2>1 DEF Bit
    <3> QED BY <2>1, <3>1 DEF Taken
  <2> QED BY <1>1, <1>3, <2>2
<1>4. CASE busreq_cs = "WAIT"
  <2>1. /\ axaddr_r = blk_cntr * block_len /\ ~addr_issued /\ dphase = <<>>
        /\ blk_cntr <= num_blocks /\ (all_blocks_done <=> blk_cntr = num_blocks)
    BY <1>4 DEF BurstInv, WaitInv
  <2>2. Taken = axaddr_r /\ Bit(dphase # <<>>) = 0
    BY <1>0, <2>1 DEF Taken, Bit
  <2>3. CASE all_blocks_done
    <3>1. axaddr_r = Total
      BY <1>0, <2>1, <2>3 DEF Total
    <3> QED BY <1>1, <1>4, <2>2, <2>3, <3>1
  <2>4. CASE ~all_blocks_done
    <3>1. (blk_cntr + 1) * block_len <= Total
      BY <1>0, <1>2, <2>1, <2>4
    <3>2. (blk_cntr + 1) * block_len = axaddr_r + block_len
      BY <1>0, <2>1
    <3> QED BY <1>0, <1>1, <1>4, <2>2, <2>4, <3>1, <3>2
  <2> QED BY <2>3, <2>4
<1>5. CASE Addressing
  <2>1. /\ axlen_p1 = block_len /\ axaddr_r = blk_cntr * block_len + burst_count
        /\ blk_cntr < num_blocks
        /\ addr_issued <=> burst_count # 0
        /\ data_count = burst_count - Bit(addr_issued)
        /\ dphase # <<>> <=> data_count # 0
    BY <1>5 DEF BurstInv, AddressInv
  <2>2. Taken = axaddr_r - Bit(addr_issued) - Bit(dphase # <<>>)
    BY DEF Taken
  <2>3. (blk_cntr + 1) * block_len <= Total
    BY <1>0, <1>2, <2>1
  <2>4. blk_cntr * block_len \in Nat /\ (blk_cntr + 1) * block_len = blk_cntr * block_len + block_len
    BY <1>0
  <2> DEFINE base == blk_cntr * block_len
             ai == Bit(addr_issued)
             dp == Bit(dphase # <<>>)
  <2>5. /\ ai = (IF burst_count # 0 THEN 1 ELSE 0)
        /\ dp = (IF burst_count - ai # 0 THEN 1 ELSE 0)
    BY <2>1 DEF Bit
  <2>6. base \in Nat /\ base + block_len <= Total /\ Taken = base + burst_count - ai - dp
    <3>1. base \in Nat /\ base + block_len <= Total /\ axaddr_r = base + burst_count
      BY <2>1, <2>3, <2>4
    <3>2. ai \in 0..1 /\ dp \in 0..1
      BY DEF Bit
    <3> HIDE DEF base
    <3> QED BY <1>0, <2>2, <3>1, <3>2
  <2>7. busreq_cs # "WAIT"
    BY <1>5 DEF Addressing
  <2> HIDE DEF base, ai, dp
  <2>8. Taken \in Nat /\ Taken + dp <= Total /\ Taken < Total
    BY <1>0, <1>1, <2>1, <2>5, <2>6
  <2> QED BY <1>1, <2>7, <2>8 DEF dp
<1>6. CASE busreq_cs = "DONE"
  <2>1. /\ axaddr_r = blk_cntr * block_len /\ ~addr_issued /\ dphase # <<>>
        /\ blk_cntr \in 1..num_blocks
    BY <1>6 DEF BurstInv, DoneInv
  <2>2. Taken = axaddr_r - 1 /\ Bit(dphase # <<>>) = 1
    BY <1>0, <2>1 DEF Taken, Bit
  <2>3. ((blk_cntr - 1) + 1) * block_len <= Total
    <3>1. blk_cntr - 1 \in Nat /\ blk_cntr - 1 < num_blocks
      BY <1>0, <2>1
    <3> QED BY <1>2, <3>1
  <2>4. (blk_cntr - 1) + 1 = blk_cntr
    BY <1>0
  <2>5. axaddr_r <= Total
    BY <2>1, <2>3, <2>4
  <2>6. axaddr_r > 0
    BY <1>0, <2>1
  <2> QED BY <1>0, <1>1, <1>6, <2>2, <2>5, <2>6
<1> QED BY <1>3, <1>4, <1>5, <1>6 DEF Types, BusTypes, Addressing

----------------------------------------------------------------------------
(* The words, while a request goes on.                                     *)

(* A word that is on its way into the FIFO is put in; the counter follows. *)
LEMMA FifoCounts2 ==
  ASSUME Data = Nat, Types, Counted, NEW ready \in BOOLEAN, NEW word \in BOOLEAN,
         FifoSide(ready, word)
  PROVE  LET rden == FifoRden(ready, word) IN
         /\ Len(Contents) \in Nat /\ Len(Contents') \in Nat
         /\ Len(Contents) >= Bit(rden)
         /\ Len(Contents') = Len(Contents) + Len(fifo_wr) - Bit(rden)
         /\ fifo_cntr' = Len(Contents')
         /\ Len(fifo_wr) = Bit(fifo_wr # <<>>) /\ Len(fifo_wr') = Bit(fifo_wr' # <<>>)
         /\ (Wren <=> fifo_wr # <<>>) /\ (fifo_wr # <<>> => Wdat = fifo_wr[1])
         /\ Len(mem) <= Len(Contents) /\ Len(mem') <= Len(Contents')
<1> DEFINE rden == FifoRden(ready, word)
           n == Len(Contents)
           nn == Len(Contents')
<1>1. /\ rden \in BOOLEAN /\ (rden => ~Emty)
      /\ Wren \in BOOLEAN /\ (Wren => ~Full) /\ Wdat \in Data
      /\ Edge(Wren, Wdat, rden) /\ FifoInv /\ FifoInv'
  BY FifoStep
<1>2. /\ n \in Nat /\ nn \in Nat /\ n >= Bit(rden) /\ nn = n + Bit(Wren) - Bit(rden)
  BY <1>1, EdgeLengths DEF Bit
<1>3. /\ fifo_wr \in Seq(Nat) /\ Len(fifo_wr) <= 1
      /\ fifo_wr' \in Seq(Nat) /\ Len(fifo_wr') <= 1
  BY CountTyped DEF Types, CountTypes
<1>4. \A s \in Seq(Nat) : Len(s) <= 1 => Len(s) = Bit(s # <<>>)
  <2> SUFFICES ASSUME NEW s \in Seq(Nat), Len(s) <= 1 PROVE Len(s) = Bit(s # <<>>)
    OBVIOUS
  <2>1. Len(s) \in Nat /\ (Len(s) = 0 <=> s = <<>>)
    OBVIOUS
  <2>2. CASE s = <<>> BY <2>1, <2>2 DEF Bit
  <2>3. CASE s # <<>>
    <3> DEFINE l == Len(s)
    <3>1. l \in Nat /\ l # 0 /\ l <= 1
      BY <2>1, <2>3
    <3> HIDE DEF l
    <3>2. l = 1
      BY <3>1
    <3> QED BY <2>3, <3>2 DEF Bit, l
  <2> QED BY <2>2, <2>3
<1>5. (Wren <=> fifo_wr # <<>>) /\ (fifo_wr # <<>> => Wdat = fifo_wr[1])
  BY DEF Wren, Wdat, Counted
<1>6. Bit(Wren) = Len(fifo_wr)
  BY <1>3, <1>4, <1>5 DEF Bit
<1>7. fifo_cntr' = nn
  <2>1. fifo_cntr' = fifo_cntr + Bit(fifo_wr # <<>>) - Bit(rden)
    BY DEF FifoSide, Bit
  <2> QED BY <1>2, <1>3, <1>4, <1>6, <2>1 DEF Counted
<1>8. ASSUME FifoInv PROVE Len(mem) <= Len(Contents)
  <2>1. mem \in Seq(Data) /\ latch \in Seq(Data) /\ pipe \in Seq(Data)
    BY <1>8 DEF FifoInv, FifoTypeOK
  <2>2. Len(Contents) = Len(pipe) + Len(latch) + Len(mem)
    BY <2>1, ConcatProperties DEF Contents
  <2> QED BY <2>1, <2>2, LenProperties
<1>9. Len(mem) <= n
  BY <1>1, <1>8
<1>10. Len(mem') <= nn
  <2>1. mem' \in Seq(Data) /\ latch' \in Seq(Data) /\ pipe' \in Seq(Data)
    BY <1>1 DEF FifoInv, FifoTypeOK
  <2>2. Len(Contents') = Len(pipe') + Len(latch') + Len(mem')
    BY <2>1, ConcatProperties DEF Contents
  <2> QED BY <2>1, <2>2, LenProperties
<1> HIDE DEF n, nn, rden
<1>11. nn = n + Len(fifo_wr) - Bit(rden)
  BY <1>2, <1>6
<1> QED BY <1>2, <1>3, <1>4, <1>5, <1>7, <1>9, <1>10, <1>11 DEF n, nn, rden

(* What the command processor does while a request goes on.                *)
LEMMA CpGoes ==
  ASSUME Types, NEW word \in BOOLEAN, CpStep(TRUE, word), dir # "none", dir' # "none"
  PROVE  /\ Goes /\ ram' = Stored(TRUE) /\ pos' = pos + Bit(word)
         /\ \/ ~word /\ CpStart
            \/ ~word /\ CpRest
            \/ word /\ CpWord
<1>1. pos \in Nat
  BY DEF Types, CpTypes
<1>2. /\ ram' = Stored(TRUE)
      /\ \/ ~word /\ CpStart
         \/ ~word /\ CpRest
         \/ word /\ CpWord
  BY DEF CpStep, CpProgram, CpRaise, CpFinish
<1>3. CASE ~word /\ CpStart
  BY <1>1, <1>2, <1>3 DEF CpStart, Goes, Bit
<1>4. CASE ~word /\ CpRest
  BY <1>1, <1>2, <1>4 DEF CpRest, Goes, Bit
<1>5. CASE word /\ CpWord
  BY <1>1, <1>2, <1>5 DEF CpWord, Goes, Bit
<1> QED BY <1>2, <1>3, <1>4, <1>5

(* The FIFO is read as often as the bus, or the card, takes a word.        *)
LEMMA ReadsAre ==
  ASSUME Types, FlowInv, NEW word \in BOOLEAN, CpStep(TRUE, word),
         dir # "none", dir' # "none"
  PROVE  /\ MemRd => (FifoRden(TRUE, word) <=> addr_issued)
         /\ MemWr => (FifoRden(TRUE, word) <=> word)
<1>1. MemRd /\ addr_issued => ~Emty
  <2> SUFFICES ASSUME MemRd, addr_issued PROVE ~Emty
    OBVIOUS
  <2>1. Addressing
    BY DEF Types, BusTypes, FlowInv, BurstInv, IdleInv, WaitInv, DoneInv, Addressing
  <2>2. data_count = burst_count - 1 /\ burst_count \in 0..axlen_p1 /\ axlen_p1 \in Nat
    BY <2>1, AhblAssumption DEF FlowInv, BurstInv, AddressInv, Bit, Types, BusTypes
  <2>3. AtOutput(axlen_p1 - data_count) /\ axlen_p1 - data_count > 0
    BY <2>1, <2>2 DEF FlowInv, BurstWords
  <2> QED BY <2>3 DEF AtOutput
<1>2. MemWr /\ word => ~Emty
  <2> SUFFICES ASSUME MemWr, word PROVE ~Emty
    OBVIOUS
  <2>1. in_block
    BY CpGoes DEF CpWord
  <2>2. AtOutput(Left)
    BY <2>1 DEF FlowInv, BlockWordsInv
  <2>3. Left > 0
    <3>1. pos \in Nat /\ block_len \in Nat \ {0}
      BY AhblAssumption DEF Types, CpTypes
    <3> QED BY <3>1 DEF Left
  <2> QED BY <2>2, <2>3 DEF AtOutput
<1>3. ~(MemRd /\ MemWr)
  BY DEF MemRd, MemWr
<1> QED BY <1>1, <1>2, <1>3 DEF FifoRden

(* What is left of a block when a word of it has come.                     *)
LEMMA LeftOfBlock ==
  ASSUME NEW b \in Nat \ {0}, NEW p \in Nat
  PROVE  /\ p % b \in 0..(b - 1)
         /\ (p + 1) % b # 0 => (p + 1) % b = (p % b) + 1
OBVIOUS

(* What is put into the write register: every word that comes.             *)
LEMMA WriteRegister ==
  ASSUME Data = Nat, Types, FlowInv, NEW word \in BOOLEAN,
         FifoSide(TRUE, word), CpStep(TRUE, word), dir # "none", dir' # "none"
  PROVE  /\ MemRd => fifo_wr' = IF word THEN <<pos>> ELSE <<>>
         /\ MemWr => fifo_wr' = IF dphase # <<>> THEN <<Taken>> ELSE <<>>
<1> DEFINE n == Len(Contents)  w == Len(fifo_wr)
<1>0. /\ pos \in Nat /\ block_len \in Nat \ {0} /\ SIZE \in Nat /\ 2 * block_len <= SIZE
      /\ axlen_p1 \in Nat
  BY AhblAssumption, RoomAssumption, FifoAssumption DEF Types, CpTypes, BusTypes
<1>1. n \in Nat /\ w \in 0..1 /\ Len(mem) <= n /\ Len(mem) \in Nat
  <2>1. n \in Nat /\ w = Bit(fifo_wr # <<>>) /\ Len(mem) <= n
    BY FifoCounts2 DEF FlowInv
  <2>2. Len(mem) \in Nat
    BY DEF Types, CountTypes, FifoInv, FifoTypeOK
  <2> QED BY <2>1, <2>2 DEF Bit
<1>2. fifo_wr' = FifoWrite(TRUE, word)
  BY DEF FifoSide
<1>3. ~(MemRd /\ MemWr)
  BY DEF MemRd, MemWr
<1>4. CASE MemRd
  <2>1. word => ~Full
    <3> SUFFICES ASSUME word PROVE Len(mem) < SIZE
      BY <1>1 DEF Full
    <3>1. in_block
      BY CpGoes DEF CpWord
    <3>2. n + w + Left <= 2 * block_len
      BY <1>4, <3>1 DEF FlowInv, RoomInv
    <3>3. Left \in Nat \ {0}
      BY <1>0, LeftOfBlock DEF Left
    <3> HIDE DEF n, w
    <3> QED BY <1>0, <1>1, <3>2, <3>3
  <2> QED BY <1>2, <1>3, <1>4, <2>1 DEF FifoWrite
<1>5. CASE MemWr
  <2>1. dphase # <<>> <=> DatVld(TRUE)
    <3>1. CASE busreq_cs \in {"IDLE", "WAIT"}
      BY <3>1 DEF FlowInv, BurstInv, IdleInv, WaitInv, DatVld, Addressing
    <3>2. CASE Addressing
      BY <3>2, <1>0 DEF FlowInv, BurstInv, AddressInv, DatVld, Types, BusTypes
    <3>3. CASE busreq_cs = "DONE"
      BY <3>3, <1>0 DEF FlowInv, BurstInv, DoneInv, DatVld
    <3> QED BY <3>1, <3>2, <3>3 DEF Types, BusTypes, Addressing
  <2>2. dphase # <<>> => ~hwrite
    <3> SUFFICES ASSUME dphase # <<>> PROVE ~hwrite
      OBVIOUS
    <3>1. CASE Addressing
      <4>1. data_count # 0 /\ data_count = burst_count - Bit(addr_issued) /\ (addr_issued <=> burst_count # 0)
        BY <3>1 DEF FlowInv, BurstInv, AddressInv
      <4>2. addr_issued
        BY <4>1 DEF Bit
      <4> QED BY <1>3, <1>5, <3>1, <4>2 DEF FlowInv, BurstInv, AddressInv
    <3>2. CASE busreq_cs = "DONE"
      BY <1>3, <1>5, <3>2 DEF FlowInv, BurstInv, DoneInv
    <3>3. busreq_cs \notin {"IDLE", "WAIT"}
      BY DEF FlowInv, BurstInv, IdleInv, WaitInv
    <3> QED BY <3>1, <3>2, <3>3 DEF Types, BusTypes, Addressing
  <2>3. dphase # <<>> => ~Full
    <3> SUFFICES ASSUME dphase # <<>> PROVE Len(mem) < SIZE
      BY <1>1 DEF Full
    <3>1. Taken \in Nat /\ Total \in Nat /\ Taken + 1 <= Total
      BY TakenBounds DEF FlowInv, PlanInv, Bit
    <3>2. Taken = pos + n + w
      BY <1>5 DEF FlowInv, WriteWords
    <3>3. Total <= SIZE
      BY <1>5 DEF FlowInv, PlanInv, MemWr
    <3> HIDE DEF n, w
    <3> QED BY <1>0, <1>1, <3>1, <3>2, <3>3
  <2>4. dphase # <<>> => Hrdata = Taken
    BY DEF Hrdata, FlowInv, BurstInv
  <2> QED BY <1>2, <1>3, <1>5, <2>1, <2>2, <2>3, <2>4 DEF FifoWrite
<1> QED BY <1>4, <1>5

(* The words of a read stay in order.                                      *)
LEMMA ReadWordsKept ==
  ASSUME Data = Nat, Types, Types', FlowInv, NEW word \in BOOLEAN,
         Manager(TRUE, word), CpStep(TRUE, word), dir # "none", dir' # "none"
  PROVE  ReadWords'
<1> SUFFICES ASSUME MemRd PROVE ReadWords'
  BY CpGoes DEF Goes, MemRd, ReadWords
<1> DEFINE n == Len(Contents)  w == Len(fifo_wr)
           nn == Len(Contents')  ww == Len(fifo_wr')
           rden == FifoRden(TRUE, word)
           dp == Bit(dphase # <<>>)
           first == pos - w - n
<1>1. /\ BusFsm(TRUE) /\ BusSignals(TRUE) /\ Subordinate(TRUE) /\ FifoSide(TRUE, word)
      /\ pos \in Nat /\ plan = dir
  BY DEF Manager, Types, CpTypes, FlowInv, PlanInv
<1>2. /\ pos = Taken + dp + n + w /\ Contents = Run(first, n)
      /\ fifo_wr # <<>> => fifo_wr[1] = pos - 1
      /\ dphase # <<>> => hwdata = Taken
      /\ ram = {<<k, k>> : k \in 0..Taken - 1}
  BY DEF FlowInv, ReadWords
<1>3. /\ n \in Nat /\ nn \in Nat /\ nn = n + w - Bit(rden)
      /\ w = Bit(fifo_wr # <<>>) /\ ww = Bit(fifo_wr' # <<>>)
      /\ (Wren <=> fifo_wr # <<>>) /\ (fifo_wr # <<>> => Wdat = fifo_wr[1])
  BY <1>1, FifoCounts2 DEF FlowInv
<1>4. /\ Taken \in Nat /\ Taken' = Taken + dp /\ (dphase' # <<>> <=> addr_issued)
      /\ dp \in 0..1 /\ w \in 0..1
  <2>1. Taken \in Nat
    BY <1>1, TakenBounds DEF FlowInv
  <2>2. Taken' = Taken + dp /\ (dphase' # <<>> <=> addr_issued)
    BY <1>1, TakenMoves DEF FlowInv
  <2>3. dp \in 0..1 /\ w \in 0..1
    BY <1>3 DEF Bit
  <2> QED BY <2>1, <2>2, <2>3
<1>5. first \in Nat /\ first = Taken + dp
  <2> HIDE DEF n, w, dp
  <2> QED BY <1>1, <1>2, <1>3, <1>4
<1>6. /\ rden \in BOOLEAN /\ (rden => ~Emty)
      /\ Wren \in BOOLEAN /\ (Wren => ~Full) /\ Wdat \in Data
      /\ Edge(Wren, Wdat, rden) /\ FifoInv
  BY <1>1, FifoStep
<1>7. Wren => Wdat = first + n
  <2>1. Wren => w = 1 /\ Wdat = pos - 1
    BY <1>2, <1>3 DEF Bit
  <2> HIDE DEF n, w
  <2> QED BY <1>1, <1>3, <2>1
<1>8. /\ Contents' = Run(IF rden THEN first + 1 ELSE first, nn)
      /\ rden => Rdat = first
  <2>1. Contents = Run(first, Len(Contents)) /\ (Wren => Wdat = first + Len(Contents))
    BY <1>2, <1>7
  <2> HIDE DEF first, rden, n, nn
  <2>2. /\ Contents' = Run(IF rden THEN first + 1 ELSE first, Len(Contents'))
        /\ rden => Rdat = first
    BY <1>5, <1>6, <2>1, EdgeRun
  <2> QED BY <2>2 DEF nn
<1>9. rden <=> addr_issued
  BY ReadsAre
<1>10. pos' = pos + Bit(word) /\ fifo_wr' = (IF word THEN <<pos>> ELSE <<>>) /\ ww = Bit(word)
  <2>1. pos' = pos + Bit(word) /\ fifo_wr' = (IF word THEN <<pos>> ELSE <<>>)
    BY <1>1, CpGoes, WriteRegister
  <2>2. fifo_wr' # <<>> <=> word
    BY <2>1
  <2> QED BY <1>3, <2>1, <2>2 DEF Bit
<1>11. Bit(dphase' # <<>>) = Bit(rden) /\ Bit(rden) \in 0..1 /\ Bit(word) \in 0..1
  <2>1. dphase' # <<>> <=> rden
    BY <1>4, <1>9
  <2> HIDE DEF rden
  <2>2. Bit(dphase' # <<>>) = Bit(rden)
    BY <2>1 DEF Bit
  <2>3. Bit(rden) \in 0..1 /\ Bit(word) \in 0..1
    BY DEF Bit
  <2> QED BY <2>2, <2>3
<1>12. pos' = Taken' + Bit(dphase' # <<>>) + nn + ww
  <2> HIDE DEF n, w, nn, ww, rden, dp, first
  <2>1. pos + Bit(word) = Taken + dp + Bit(rden) + (n + w - Bit(rden)) + Bit(word)
    BY <1>1, <1>2, <1>3, <1>4, <1>11
  <2> QED BY <1>3, <1>4, <1>10, <1>11, <2>1
<1>13. Contents' = Run(pos' - ww - nn, nn)
  <2>1. pos' - ww - nn = first + Bit(rden)
    <3> DEFINE a == Bit(rden)  b == Bit(word)
    <3>a. pos \in Nat /\ n \in Nat /\ w \in Nat
      BY <1>1, <1>3, <1>4
    <3>b. a \in Nat /\ b \in Nat
      <4> HIDE DEF rden
      <4>1. a \in 0..1 /\ b \in 0..1
        BY <1>11
      <4> HIDE DEF a, b
      <4> QED BY <4>1
    <3>1. /\ pos \in Nat /\ n \in Nat /\ w \in Nat /\ a \in Nat /\ b \in Nat
          /\ nn = n + w - a /\ ww = b /\ pos' = pos + b /\ first = pos - w - n
      BY <1>3, <1>10, <3>a, <3>b
    <3> HIDE DEF n, w, nn, ww, rden, dp, a, b, first
    <3>2. pos' - ww - nn = first + a
      BY <3>1
    <3> QED BY <3>2 DEF a
  <2>2. first + Bit(rden) = IF rden THEN first + 1 ELSE first
    <3> HIDE DEF first, rden
    <3> QED BY <1>5, <1>6 DEF Bit
  <2> QED BY <1>8, <2>1, <2>2
<1>14. fifo_wr' # <<>> => fifo_wr'[1] = pos' - 1
  BY <1>1, <1>10 DEF Bit
<1>15. dphase' # <<>> => hwdata' = Taken'
  <2>1. dphase' # <<>> => rden /\ addr_issued /\ ~Emty
    BY <1>4, <1>6, <1>9
  <2>2. addr_issued /\ ~Emty => hwdata' = Rdat
    BY <1>1 DEF BusSignals
  <2> QED BY <1>4, <1>5, <1>8, <2>1, <2>2
<1>16. ram' = {<<k, k>> : k \in 0..Taken' - 1}
  <2>1. ram' = Stored(TRUE)
    BY CpGoes
  <2>2. CASE dphase = <<>>
    <3>1. Taken' = Taken
      BY <1>4, <2>2 DEF Bit
    <3>2. ram' = ram
      BY <2>1, <2>2 DEF Stored, Writes
    <3> QED BY <1>2, <3>1, <3>2
  <2>3. CASE dphase # <<>>
    <3>1. dphase[1].addr = Taken /\ dphase[1].write /\ hwdata = Taken
      BY <1>2, <2>3 DEF FlowInv, BurstInv
    <3>2. ram' = ram \cup {<<Taken, Taken>>}
      BY <2>1, <2>3, <3>1 DEF Stored, Writes
    <3>3. Taken' = Taken + 1
      BY <1>4, <2>3 DEF Bit
    <3>4. 0..(Taken + 1) - 1 = (0..Taken - 1) \cup {Taken}
      BY <1>4
    <3> QED BY <1>2, <3>2, <3>3, <3>4
  <2> QED BY <2>2, <2>3
<1> QED BY <1>12, <1>13, <1>14, <1>15, <1>16 DEF ReadWords

(* The words of a write stay in order.                                     *)
LEMMA WriteWordsKept ==
  ASSUME Data = Nat, Types, Types', FlowInv, NEW word \in BOOLEAN,
         Manager(TRUE, word), CpStep(TRUE, word), dir # "none", dir' # "none"
  PROVE  WriteWords'
<1> SUFFICES ASSUME MemWr PROVE WriteWords'
  BY CpGoes DEF Goes, MemWr, WriteWords
<1> DEFINE n == Len(Contents)  w == Len(fifo_wr)
           nn == Len(Contents')  ww == Len(fifo_wr')
           rden == FifoRden(TRUE, word)
           dp == Bit(dphase # <<>>)
<1>1. /\ BusFsm(TRUE) /\ BusSignals(TRUE) /\ Subordinate(TRUE) /\ FifoSide(TRUE, word)
      /\ pos \in Nat /\ plan = dir /\ plan # "none"
  BY DEF Manager, Types, CpTypes, FlowInv, PlanInv
<1>2. /\ Taken = pos + n + w /\ Contents = Run(pos, n)
      /\ fifo_wr # <<>> => fifo_wr[1] = pos + n
  BY DEF FlowInv, WriteWords
<1>3. /\ n \in Nat /\ nn \in Nat /\ nn = n + w - Bit(rden)
      /\ w = Bit(fifo_wr # <<>>) /\ ww = Bit(fifo_wr' # <<>>)
      /\ (Wren <=> fifo_wr # <<>>) /\ (fifo_wr # <<>> => Wdat = fifo_wr[1])
  BY <1>1, FifoCounts2 DEF FlowInv
<1>4. Taken \in Nat /\ Taken' = Taken + dp /\ dp \in 0..1 /\ w \in 0..1
  <2>1. Taken \in Nat
    BY <1>1, TakenBounds DEF FlowInv
  <2>2. Taken' = Taken + dp
    BY <1>1, TakenMoves DEF FlowInv
  <2>3. dp \in 0..1 /\ w \in 0..1
    BY <1>3 DEF Bit
  <2> QED BY <2>1, <2>2, <2>3
<1>6. /\ rden \in BOOLEAN /\ (rden => ~Emty)
      /\ Wren \in BOOLEAN /\ (Wren => ~Full) /\ Wdat \in Data
      /\ Edge(Wren, Wdat, rden) /\ FifoInv
  BY <1>1, FifoStep
<1>7. Wren => Wdat = pos + n
  BY <1>2, <1>3
<1>8. Contents' = Run(IF rden THEN pos + 1 ELSE pos, nn)
  <2>1. Contents = Run(pos, Len(Contents)) /\ (Wren => Wdat = pos + Len(Contents))
    BY <1>2, <1>7
  <2> HIDE DEF rden, n, nn
  <2>2. Contents' = Run(IF rden THEN pos + 1 ELSE pos, Len(Contents'))
    BY <1>1, <1>6, <2>1, EdgeRun
  <2> QED BY <2>2 DEF nn
<1>9. rden <=> word
  BY ReadsAre
<1>10. /\ pos' = pos + Bit(word) /\ Bit(rden) = Bit(word) /\ Bit(word) \in 0..1
       /\ fifo_wr' = (IF dphase # <<>> THEN <<Taken>> ELSE <<>>) /\ ww = dp
  <2>1. /\ pos' = pos + Bit(word)
        /\ fifo_wr' = (IF dphase # <<>> THEN <<Taken>> ELSE <<>>)
    BY <1>1, CpGoes, WriteRegister
  <2>2. fifo_wr' # <<>> <=> dphase # <<>>
    BY <2>1
  <2>3. ww = dp
    BY <1>3, <2>2 DEF Bit
  <2> HIDE DEF rden
  <2>4. Bit(rden) = Bit(word) /\ Bit(word) \in 0..1
    BY <1>9 DEF Bit
  <2> QED BY <2>1, <2>3, <2>4
<1>11. Taken' = pos' + nn + ww
  <2> DEFINE a == Bit(word)
  <2>a. pos \in Nat /\ n \in Nat /\ w \in Nat /\ dp \in Nat /\ a \in Nat
    BY <1>1, <1>3, <1>4, <1>10
  <2>b. /\ Taken = pos + n + w /\ Taken' = Taken + dp
        /\ pos' = pos + a /\ nn = n + w - a /\ ww = dp
    BY <1>2, <1>3, <1>4, <1>10
  <2> HIDE DEF n, w, nn, ww, rden, dp, a
  <2> QED BY <2>a, <2>b
<1>12. Contents' = Run(pos', nn)
  <2>1. pos' = IF rden THEN pos + 1 ELSE pos
    <3> HIDE DEF rden
    <3> QED BY <1>1, <1>6, <1>10 DEF Bit
  <2> QED BY <1>8, <2>1
<1>13. fifo_wr' # <<>> => fifo_wr'[1] = pos' + nn
  <2> SUFFICES ASSUME fifo_wr' # <<>> PROVE fifo_wr'[1] = pos' + nn
    OBVIOUS
  <2>1. fifo_wr'[1] = Taken
    BY <1>10
  <2> HIDE DEF n, w, nn, ww, rden, dp
  <2> DEFINE a == Bit(rden)
  <2>a. /\ pos \in Nat /\ n \in Nat /\ w \in Nat /\ a \in Nat
        /\ nn = n + w - a /\ pos' = pos + a
    BY <1>1, <1>3, <1>4, <1>10
  <2> HIDE DEF a
  <2>2. pos' + nn = pos + n + w
    BY <2>a
  <2> QED BY <1>2, <2>1, <2>2
<1> QED BY <1>11, <1>12, <1>13 DEF WriteWords

(* There stays room for a read.                                            *)
LEMMA RoomKept ==
  ASSUME Data = Nat, Types, Types', FlowInv, NEW word \in BOOLEAN,
         Manager(TRUE, word), CpStep(TRUE, word), dir # "none", dir' # "none"
  PROVE  RoomInv' /\ BlockInv'
<1> DEFINE n == Len(Contents)  w == Len(fifo_wr)
           nn == Len(Contents')  ww == Len(fifo_wr')
           rden == FifoRden(TRUE, word)
           left == Left
           b == block_len
<1>1. /\ FifoSide(TRUE, word) /\ Goes /\ pos' = pos + Bit(word)
      /\ \/ ~word /\ CpStart
         \/ ~word /\ CpRest
         \/ word /\ CpWord
  BY CpGoes DEF Manager
<1>2. /\ block_len \in Nat \ {0} /\ pos \in Nat /\ gap \in 0..GAP /\ gap' \in 0..GAP
      /\ GAP \in Nat /\ GAP >= 2
      /\ in_block \in BOOLEAN /\ mem_free \in BOOLEAN
  BY AhblAssumption, RoomAssumption DEF Types, CpTypes, CountTypes
<1>3. /\ n \in Nat /\ nn \in Nat /\ nn = n + w - Bit(rden)
      /\ w = Bit(fifo_wr # <<>>) /\ ww = Bit(fifo_wr' # <<>>)
      /\ Bit(rden) \in 0..1 /\ w \in 0..1 /\ fifo_cntr = n
  <2>1. /\ n \in Nat /\ nn \in Nat /\ nn = n + w - Bit(rden)
        /\ w = Bit(fifo_wr # <<>>) /\ ww = Bit(fifo_wr' # <<>>)
    BY <1>1, FifoCounts2 DEF FlowInv
  <2>2. Bit(rden) \in 0..1 /\ w \in 0..1
    BY <2>1 DEF Bit
  <2>3. fifo_cntr = n
    BY DEF FlowInv, Counted
  <2> QED BY <2>1, <2>2, <2>3
<1>4. mem_free' = (n <= block_len)
  BY <1>1, <1>3 DEF FifoSide
<1>5. MemRd => /\ n + w <= 2 * b
               /\ in_block => n + w + left <= 2 * b
               /\ ~in_block /\ gap < GAP => w = 0
               /\ ~in_block /\ gap + 1 < GAP /\ mem_free => n <= b
  BY <1>3 DEF FlowInv, RoomInv, Bit
<1>6. MemRd => (fifo_wr' # <<>> <=> word) /\ ww = Bit(word)
  <2>1. MemRd => (fifo_wr' # <<>> <=> word)
    <3>1. FifoSide(TRUE, word)
      BY <1>1
    <3>2. MemRd => fifo_wr' = IF word THEN <<pos>> ELSE <<>>
      BY <3>1, WriteRegister
    <3> QED BY <3>2
  <2> QED BY <1>3, <2>1 DEF Bit
<1>7. block_len' = block_len /\ (MemRd' <=> MemRd) /\ dir # "none" /\ dir' # "none"
  BY <1>1 DEF Goes, MemRd
<1>8. /\ left \in 1..b
      /\ ~in_block => pos % b = 0 /\ left = b
      /\ (pos + 1) % b # 0 => b - ((pos + 1) % b) = left - 1
      /\ left - 1 \in Nat
  <2> DEFINE r == pos % b
             q == (pos + 1) % b
  <2>1. r \in 0..(b - 1) /\ (q # 0 => q = r + 1)
    BY <1>2, LeftOfBlock
  <2>2. left = b - r /\ (~in_block => r = 0)
    BY DEF Left, FlowInv, BlockInv
  <2> HIDE DEF r, q, left
  <2>3. left \in 1..b /\ (q # 0 => b - q = left - 1) /\ (~in_block => left = b)
    BY <1>2, <2>1, <2>2
  <2> QED BY <1>2, <2>2, <2>3 DEF r, q
<1>9. CASE ~word /\ CpStart
  <2>1. /\ ~in_block /\ in_block' = TRUE /\ gap = 0 /\ pos' = pos
        /\ (MemRd => mem_free)
    BY <1>9 DEF CpStart
  <2>2. Left' = left
    BY <1>7, <2>1 DEF Left
  <2>3. MemRd => n <= b /\ w = 0 /\ ww = 0
    BY <1>2, <1>5, <1>6, <1>9, <2>1 DEF Bit
  <2> HIDE DEF n, w, nn, ww, left, rden
  <2>4. MemRd => nn + ww <= 2 * b /\ nn + ww + left <= 2 * b
    BY <1>2, <1>3, <1>8, <2>1, <2>3
  <2> QED BY <1>7, <2>1, <2>2, <2>4 DEF RoomInv, BlockInv, nn, ww
<1>10. CASE ~word /\ CpRest
  <2>1. /\ in_block' = in_block /\ pos' = pos /\ gap' = IF gap > 0 THEN gap - 1 ELSE 0
    BY <1>10 DEF CpRest
  <2>2. Left' = left
    BY <1>7, <2>1 DEF Left
  <2>3. MemRd => ww = 0 /\ fifo_wr' = <<>>
    BY <1>6, <1>10 DEF Bit
  <2> HIDE DEF n, w, nn, ww, left, rden
  <2>4. MemRd => nn + ww <= 2 * b /\ (in_block => nn + ww + left <= 2 * b)
    BY <1>2, <1>3, <1>5, <1>8, <2>3
  <2>5. MemRd /\ ~in_block' /\ gap' + 1 < GAP /\ mem_free' => nn <= b
    BY <1>2, <1>3, <1>4, <1>5, <2>1
  <2>6. BlockInv'
    BY <1>7, <2>1 DEF BlockInv, FlowInv
  <2> QED BY <1>7, <2>1, <2>2, <2>3, <2>4, <2>5, <2>6 DEF RoomInv, nn, ww
<1>11. CASE word /\ CpWord
  <2>1. /\ in_block /\ pos' = pos + 1
        /\ in_block' = ((pos + 1) % b # 0) /\ gap' = IF in_block' THEN 0 ELSE GAP
    BY <1>11 DEF CpWord
  <2>2. in_block' => Left' = left - 1
    BY <1>7, <1>8, <2>1 DEF Left
  <2>3. MemRd => ww = 1
    BY <1>6, <1>11 DEF Bit
  <2>4. BlockInv'
    BY <1>7, <2>1 DEF BlockInv
  <2> HIDE DEF n, w, nn, ww, left, rden
  <2>5. MemRd => nn + ww <= 2 * b /\ (in_block' => nn + ww + (left - 1) <= 2 * b)
    BY <1>2, <1>3, <1>5, <1>8, <2>1, <2>3
  <2>6. ~in_block' => ~(gap' < GAP) /\ ~(gap' + 1 < GAP)
    BY <1>2, <2>1
  <2> QED BY <1>7, <2>2, <2>4, <2>5, <2>6 DEF RoomInv, nn, ww
<1> QED BY <1>1, <1>9, <1>10, <1>11

(* The words of a burst to memory are at the FIFO's output in time.        *)
LEMMA BurstWordsKept ==
  ASSUME Data = Nat, Types, Types', FlowInv, NEW word \in BOOLEAN,
         Manager(TRUE, word), CpStep(TRUE, word), dir # "none", dir' # "none"
  PROVE  BurstWords'
<1> SUFFICES ASSUME MemRd PROVE BurstWords'
  BY CpGoes DEF Goes, MemRd, BurstWords
<1> DEFINE rden == FifoRden(TRUE, word)
<1>1. /\ BusFsm(TRUE) /\ BusSignals(TRUE) /\ Subordinate(TRUE) /\ FifoSide(TRUE, word)
      /\ axlen_p1 \in Nat /\ burst_count \in 0..axlen_p1 /\ data_count \in 0..axlen_p1
      /\ BurstInv /\ (rden <=> addr_issued) /\ ~MemWr
  <2>1. rden <=> addr_issued
    BY ReadsAre
  <2>2. ~MemWr
    BY DEF MemRd, MemWr
  <2>3. /\ axlen_p1 \in Nat /\ burst_count \in 0..axlen_p1 /\ data_count \in 0..axlen_p1
    BY AhblAssumption DEF Types, BusTypes
  <2> QED BY <2>1, <2>2, <2>3 DEF Manager, FlowInv
<1>2. \A k \in Nat :
         /\ ~rden /\ k <= Len(Contents) => AlmostAtOutput(k)'
         /\ ~rden /\ AlmostAtOutput(k) => AtOutput(k)'
         /\ ~rden /\ AtOutput(k) => AtOutput(k)'
         /\ rden /\ AtOutput(k + 1) => AtOutput(k)'
  <2>1. /\ rden \in BOOLEAN /\ (rden => ~Emty)
        /\ Wren \in BOOLEAN /\ (Wren => ~Full) /\ Wdat \in Data
        /\ Edge(Wren, Wdat, rden) /\ FifoInv
    BY <1>1, FifoStep
  <2> HIDE DEF rden
  <2> QED BY <2>1, ReadAhead
<1>3. fifocnt_gteq_axlen' <=> Len(Contents) >= axlen_p1
  BY <1>1 DEF FifoSide, FlowInv, Counted
<1>4. Len(Contents) \in Nat
  BY <1>1, FifoCounts2 DEF FlowInv
<1>5. CASE busreq_cs = "IDLE"
  <2>1. busreq_cs' = "WAIT" /\ axlen_p1 = block_len /\ axlen_p1' = block_len /\ ~rden
    BY <1>1, <1>5, IdleStep DEF BurstInv, IdleInv
  <2>2. fifocnt_gteq_axlen' => AlmostAtOutput(axlen_p1)'
    BY <1>1, <1>2, <1>3, <1>4, <2>1 DEF AlmostAtOutput
  <2> QED BY <2>1, <2>2 DEF BurstWords, Addressing
<1>6. CASE busreq_cs = "WAIT"
  <2>1. /\ BusWait /\ axlen_p1' = axlen_p1 /\ ~rden
        /\ busreq_cs' \in {"READ", "WRITE"} => data_count' = 0
        /\ fifocnt_gteq_axlen => AlmostAtOutput(axlen_p1)
    BY <1>1, <1>6, IdleStep DEF BurstInv, WaitInv, FlowInv, BurstWords
  <2>2. CASE busreq_cs' = "WAIT"
    <3>1. fifocnt_gteq_axlen' => AlmostAtOutput(axlen_p1)'
      BY <1>1, <1>2, <1>3, <1>4, <2>1 DEF AlmostAtOutput
    <3> QED BY <2>2, <3>1 DEF BurstWords, Addressing
  <2>3. CASE busreq_cs' # "WAIT"
    <3>1. StartWrite /\ busreq_cs' = "WRITE"
      BY <1>1, <1>6, <2>1, <2>3, WaitStep
    <3>2. AlmostAtOutput(axlen_p1)
      BY <2>1, <3>1 DEF StartWrite
    <3>3. axlen_p1' - data_count' = axlen_p1
      BY <1>1, <2>1, <3>1
    <3>4. axlen_p1 > 0 => ~Emty' /\ axlen_p1 <= Len(Contents)' /\ (axlen_p1 > 1 => adv' = 2)
      BY <1>1, <1>2, <2>1, <3>2 DEF AtOutput
    <3> QED BY <3>1, <3>3, <3>4 DEF BurstWords, AtOutput
  <2> QED BY <2>2, <2>3
<1>7. CASE Addressing
  <2>1. /\ busreq_cs' = IF burst_count < axlen_p1 THEN busreq_cs ELSE "DONE"
        /\ axlen_p1' = axlen_p1 /\ data_count' = burst_count
    BY <1>1, <1>7, AddressStep
  <2>2. /\ data_count = burst_count - Bit(addr_issued)
        /\ addr_issued <=> burst_count # 0
    BY <1>1, <1>7 DEF BurstInv, AddressInv
  <2>3. AtOutput(axlen_p1 - data_count)
    BY <1>7 DEF FlowInv, BurstWords
  <2> DEFINE k == axlen_p1 - burst_count
  <2>4. k \in Nat /\ axlen_p1' - data_count' = k
    BY <1>1, <2>1
  <2>5. CASE addr_issued
    <3>1. axlen_p1 - data_count = k + 1
      BY <1>1, <2>2, <2>5 DEF Bit
    <3>2. AtOutput(k + 1)
      BY <2>3, <3>1
    <3> HIDE DEF k
    <3>3. k > 0 => ~Emty' /\ k <= Len(Contents)' /\ (k > 1 => adv' = 2)
      BY <1>1, <1>2, <2>4, <2>5, <3>2 DEF AtOutput
    <3> QED BY <1>7, <2>1, <2>4, <3>3 DEF BurstWords, AtOutput, Addressing
  <2>6. CASE ~addr_issued
    <3>1. axlen_p1 - data_count = k
      BY <1>1, <2>2, <2>6 DEF Bit
    <3>2. AtOutput(k)
      BY <2>3, <3>1
    <3> HIDE DEF k
    <3>3. k > 0 => ~Emty' /\ k <= Len(Contents)' /\ (k > 1 => adv' = 2)
      BY <1>1, <1>2, <2>4, <2>6, <3>2 DEF AtOutput
    <3> QED BY <1>7, <2>1, <2>4, <3>3 DEF BurstWords, AtOutput, Addressing
  <2> QED BY <2>5, <2>6
<1>8. CASE busreq_cs = "DONE"
  <2>1. busreq_cs' = "WAIT" /\ axlen_p1' = axlen_p1 /\ ~rden
    BY <1>1, <1>8, DoneStep DEF BurstInv, DoneInv
  <2>2. fifocnt_gteq_axlen' => AlmostAtOutput(axlen_p1)'
    BY <1>1, <1>2, <1>3, <1>4, <2>1 DEF AlmostAtOutput
  <2> QED BY <2>1, <2>2 DEF BurstWords, Addressing
<1> QED BY <1>5, <1>6, <1>7, <1>8 DEF Types, BusTypes, Addressing

(* The words of a block to the card are at the FIFO's output in time.      *)
LEMMA BlockWordsKept ==
  ASSUME Data = Nat, Types, Types', FlowInv, NEW word \in BOOLEAN,
         Manager(TRUE, word), CpStep(TRUE, word), dir # "none", dir' # "none"
  PROVE  BlockWordsInv'
<1> SUFFICES ASSUME MemWr PROVE BlockWordsInv'
  BY CpGoes DEF Goes, MemWr, BlockWordsInv
<1> DEFINE rden == FifoRden(TRUE, word)
           b == block_len
           left == Left
<1>1. /\ FifoSide(TRUE, word) /\ Goes
      /\ \/ ~word /\ CpStart
         \/ ~word /\ CpRest
         \/ word /\ CpWord
  BY CpGoes DEF Manager
<1>2. /\ b \in Nat \ {0} /\ pos \in Nat /\ gap \in 0..GAP
      /\ GAP \in Nat /\ GAP >= 2 /\ in_block \in BOOLEAN
  BY AhblAssumption, RoomAssumption DEF Types, CpTypes
<1>3. rden <=> word
  BY ReadsAre
<1>4. \A k \in Nat :
         /\ ~rden /\ k <= Len(Contents) => AlmostAtOutput(k)'
         /\ ~rden /\ AlmostAtOutput(k) => AtOutput(k)'
         /\ ~rden /\ AtOutput(k) => AtOutput(k)'
         /\ rden /\ AtOutput(k + 1) => AtOutput(k)'
  <2>1. /\ rden \in BOOLEAN /\ (rden => ~Emty)
        /\ Wren \in BOOLEAN /\ (Wren => ~Full) /\ Wdat \in Data
        /\ Edge(Wren, Wdat, rden) /\ FifoInv
    BY <1>1, FifoStep
  <2> HIDE DEF rden
  <2> QED BY <2>1, ReadAhead
<1>5. mem_avail' => b <= Len(Contents)
  BY <1>1 DEF FifoSide, FlowInv, Counted
<1>6. /\ ~in_block /\ gap < GAP /\ mem_avail => AlmostAtOutput(b)
      /\ in_block => AtOutput(left)
  BY DEF FlowInv, BlockWordsInv
<1>7. /\ left \in 1..b /\ left - 1 \in Nat /\ left = (left - 1) + 1
      /\ ~in_block => left = b
      /\ (pos + 1) % b # 0 => b - ((pos + 1) % b) = left - 1
  <2> DEFINE r == pos % b
             q == (pos + 1) % b
  <2>1. r \in 0..(b - 1) /\ (q # 0 => q = r + 1)
    BY <1>2, LeftOfBlock
  <2>2. left = b - r /\ (~in_block => r = 0)
    BY <1>1 DEF Left, FlowInv, BlockInv, Goes
  <2> HIDE DEF r, q, left
  <2>3. /\ left \in 1..b /\ (q # 0 => b - q = left - 1) /\ (~in_block => left = b)
        /\ left - 1 \in Nat /\ left = (left - 1) + 1
    BY <1>2, <2>1, <2>2
  <2> QED BY <2>3 DEF r, q
<1>8. block_len' = b
  BY <1>1 DEF Goes
<1>9. CASE ~word /\ CpStart
  <2>1. ~in_block /\ in_block' = TRUE /\ gap = 0 /\ pos' = pos /\ mem_avail
    BY <1>9 DEF CpStart, MemRd, MemWr
  <2>2. Left' = b
    BY <1>7, <1>8, <2>1 DEF Left
  <2>3. AlmostAtOutput(b)
    BY <1>2, <1>6, <2>1
  <2> HIDE DEF b, rden
  <2>4. b > 0 => ~Emty' /\ b <= Len(Contents)' /\ (b > 1 => adv' = 2)
    BY <1>2, <1>3, <1>4, <1>9, <2>3 DEF AtOutput
  <2> QED BY <2>1, <2>2, <2>4 DEF BlockWordsInv, AtOutput
<1>10. CASE ~word /\ CpRest
  <2>1. in_block' = in_block /\ pos' = pos
    BY <1>10 DEF CpRest
  <2>2. Left' = left
    BY <1>8, <2>1 DEF Left
  <2> HIDE DEF b, rden, left
  <2>3. CASE in_block
    <3>1. left > 0 => ~Emty' /\ left <= Len(Contents)' /\ (left > 1 => adv' = 2)
      <4>1. left \in Nat /\ AtOutput(left)
        BY <1>2, <1>6, <1>7, <2>3
      <4> QED BY <1>3, <1>4, <1>10, <4>1 DEF AtOutput
    <3> QED BY <2>1, <2>2, <2>3, <3>1 DEF BlockWordsInv, AtOutput
  <2>4. CASE ~in_block
    <3>1. mem_avail' => (b > 0 => b <= Len(Contents)' /\ adv' > 0)
      BY <1>2, <1>3, <1>4, <1>5, <1>10 DEF AlmostAtOutput
    <3> QED BY <1>8, <2>1, <2>4, <3>1 DEF BlockWordsInv, AlmostAtOutput
  <2> QED BY <2>3, <2>4, <1>2
<1>11. CASE word /\ CpWord
  <2>1. /\ in_block /\ pos' = pos + 1
        /\ in_block' = ((pos + 1) % b # 0) /\ gap' = IF in_block' THEN 0 ELSE GAP
    BY <1>11 DEF CpWord
  <2>2. in_block' => Left' = left - 1
    BY <1>7, <1>8, <2>1 DEF Left
  <2>3. ~in_block' => ~(gap' < GAP)
    BY <1>2, <2>1
  <2> DEFINE k == left - 1
  <2>4. k \in Nat /\ AtOutput(k + 1)
    BY <1>6, <1>7, <2>1
  <2> HIDE DEF b, rden, left, k
  <2>5. k > 0 => ~Emty' /\ k <= Len(Contents)' /\ (k > 1 => adv' = 2)
    BY <1>3, <1>4, <1>11, <2>4 DEF AtOutput
  <2>6. in_block' => Left' = k
    BY <2>2 DEF k
  <2> QED BY <2>3, <2>5, <2>6 DEF BlockWordsInv, AtOutput
<1> QED BY <1>1, <1>9, <1>10, <1>11

(* A request that goes on is as it was planned.                            *)
LEMMA PlanKept ==
  ASSUME Types, Types', FlowInv, Goes
  PROVE  PlanInv' /\ plan = dir
<1>1. plan = dir /\ dir' # "none" /\ plan' = dir'
  BY DEF Goes, FlowInv, PlanInv
<1>2. plan' = "write" => Total' <= SIZE
  BY DEF Goes, FlowInv, PlanInv, Total
<1> QED BY <1>1, <1>2 DEF PlanInv

(* All of it is kept while a request goes on.                              *)
LEMMA FlowGoesOn ==
  ASSUME Data = Nat, Types, Types', FlowInv, NEW word \in BOOLEAN,
         Manager(TRUE, word), CpStep(TRUE, word), dir # "none", dir' # "none"
  PROVE  FlowInv'
<1>1. Goes
  BY CpGoes
<1>2. PlanInv' /\ plan = dir
  BY <1>1, PlanKept
<1>3. BurstInv'
  BY <1>1, <1>2, BurstKept DEF Manager, FlowInv
<1>4. ReadWords' /\ WriteWords' /\ RoomInv' /\ BlockInv' /\ BurstWords' /\ BlockWordsInv'
  BY ReadWordsKept, WriteWordsKept, RoomKept, BurstWordsKept, BlockWordsKept
<1>5. Counted'
  <2> DEFINE nn == Len(Contents')  ww == Len(fifo_wr')
  <2>1. /\ nn \in Nat /\ fifo_cntr' = nn /\ ww = Bit(fifo_wr' # <<>>) /\ Len(mem') <= nn
    BY FifoCounts2 DEF Manager, FlowInv
  <2>2. Len(mem') \in Nat
    BY DEF Types, CountTypes, FifoInv, FifoTypeOK
  <2>3. fifo_wr' # <<>> => nn + 1 <= SIZE
    <3> SUFFICES ASSUME fifo_wr' # <<>> PROVE nn + 1 <= SIZE
      OBVIOUS
    <3>0. ww = 1 /\ SIZE \in Nat
      BY <2>1, FifoAssumption DEF Bit
    <3>1. CASE MemRd'
      <4>1. nn + ww <= 2 * block_len'
        BY <1>4, <3>1 DEF RoomInv
      <4>2. 2 * block_len' <= SIZE
        BY RoomAssumption DEF Types, CpTypes
      <4>3. block_len' \in Nat
        BY AhblAssumption DEF Types, CpTypes
      <4> DEFINE bb == 2 * block_len'
      <4>4. bb \in Nat /\ bb <= SIZE
        <5>0. \A x \in Nat : 2 * x \in Nat
          OBVIOUS
        <5>1. bb \in Nat
          BY <4>3, <5>0
        <5>2. bb <= SIZE
          BY <4>2
        <5> QED BY <5>1, <5>2
      <4>5. nn \in Nat /\ ww = 1
        BY <2>1, <3>0
      <4>6. nn + ww <= bb
        BY <4>1
      <4> HIDE DEF nn, bb, ww
      <4>7. nn + 1 <= bb
        BY <4>5, <4>6
      <4> QED BY <3>0, <4>4, <4>5, <4>7
    <3>2. CASE MemWr'
      <4>1. Taken' = pos' + nn + ww
        BY <1>4, <3>2 DEF WriteWords
      <4>2. Taken' <= Total' /\ Total' <= SIZE /\ Taken' \in Nat /\ Total' \in Nat
        <5>1. dir' # "none" /\ plan' = dir'
          BY <1>2 DEF PlanInv
        <5>2. /\ Taken \in Nat /\ Total \in Nat
              /\ Taken + Bit(dphase # <<>>) <= Total
          BY <1>2, TakenBounds DEF FlowInv
        <5>3. Taken' = Taken + Bit(dphase # <<>>)
          BY <1>2, TakenMoves DEF Manager, FlowInv
        <5>4. Total' = Total
          BY <1>1 DEF Goes, Total
        <5>5. Total' <= SIZE
          BY <1>2, <3>2, <5>1 DEF PlanInv, MemWr
        <5>6. Bit(dphase # <<>>) \in 0..1
          BY DEF Bit
        <5> QED BY <5>2, <5>3, <5>4, <5>5, <5>6
      <4>3. pos' \in Nat
        BY DEF Types, CpTypes
      <4>4. nn \in Nat /\ pos' + nn + 1 <= SIZE
        BY <2>1, <3>0, <4>1, <4>2
      <4> QED BY <3>0, <4>3, <4>4
    <3> QED BY <3>1, <3>2 DEF MemRd, MemWr, Types, CpTypes, Kinds
  <2>4. fifo_wr' # <<>> => ~Full'
    <3> SUFFICES ASSUME fifo_wr' # <<>> PROVE Len(mem') # SIZE
      BY DEF Full
    <3> HIDE DEF nn
    <3> QED BY <2>1, <2>2, <2>3, FifoAssumption
  <2> QED BY <2>1, <2>4 DEF Counted
<1> QED BY <1>2, <1>3, <1>4, <1>5 DEF FlowInv

----------------------------------------------------------------------------
(* Between two requests.                                                   *)

(* What spoils a request does so until a reset.                            *)
LEMMA StaysSpoiled ==
  ASSUME Types, NEW ready \in BOOLEAN, NEW word \in BOOLEAN,
         Manager(ready, word), CpStep(ready, word), ~Spoiled'
  PROVE  ready = TRUE /\ ~Spoiled /\ ~dirty'
<1>1. waited' = (waited \/ ~ready) /\ waited \in BOOLEAN
  BY DEF Manager, Subordinate, Types, CpTypes
<1>2. ~waited' /\ ~dirty'
  BY DEF Spoiled
<1>3. ready = TRUE /\ ~waited
  BY <1>1, <1>2
<1>4. ~dirty
  BY <1>2 DEF CpStep, CpProgram, CpRaise, CpStart, CpRest, CpFinish, CpWord
<1> QED BY <1>2, <1>3, <1>4 DEF Spoiled

(* An empty FIFO stays empty while nothing is under way.                   *)
LEMMA StaysEmpty ==
  ASSUME Data = Nat, Types, Counted, FifoSide(TRUE, FALSE),
         Contents = <<>>, fifo_wr = <<>>, busreq_cs \in {"IDLE", "WAIT"}
  PROVE  Contents' = <<>> /\ fifo_wr' = <<>> /\ Counted' /\ ~mem_avail'
<1>1. fifo_wr' = <<>>
  BY DEF FifoSide, FifoWrite, DatVld, Addressing
<1>2. Contents' \in Seq(Nat)
  <2>1. FifoInv'
    BY FifoStep
  <2> QED BY <2>1 DEF FifoInv, FifoTypeOK, Contents
<1>3. Len(Contents') = 0 /\ fifo_cntr' = 0
  <2> DEFINE n == Len(Contents)  nn == Len(Contents')
             r == Bit(FifoRden(TRUE, FALSE))
  <2>1. n = 0 /\ Len(fifo_wr) = 0
    OBVIOUS
  <2>2. nn \in Nat /\ n >= r /\ nn = n + Len(fifo_wr) - r /\ fifo_cntr' = nn
    BY FifoCounts2
  <2>3. r \in 0..1
    BY DEF Bit
  <2> HIDE DEF n, nn, r
  <2>4. nn = 0 /\ fifo_cntr' = 0
    BY <2>1, <2>2, <2>3
  <2> QED BY <2>4 DEF nn
<1>4. Contents' = <<>>
  BY <1>2, <1>3
<1>5. ~mem_avail'
  <2>1. fifo_cntr = 0
    BY DEF Counted
  <2> QED BY <2>1 DEF FifoSide
<1> QED BY <1>1, <1>3, <1>4, <1>5 DEF Counted

(* From the programming of a request to its first edge, and without one.   *)
LEMMA FlowWaits ==
  ASSUME Data = Nat, Types, Types', FlowInv, NEW word \in BOOLEAN,
         Manager(TRUE, word), CpStep(TRUE, word), dir = "none", ~dirty'
  PROVE  FlowInv'
<1>1. /\ BusFsm(TRUE) /\ BusSignals(TRUE) /\ Subordinate(TRUE) /\ FifoSide(TRUE, word)
      /\ BurstInv /\ Counted /\ Contents = <<>> /\ fifo_wr = <<>> /\ ~in_block
      /\ ~MemRd /\ ~MemWr
  BY DEF Manager, FlowInv, PlanInv, MemRd, MemWr
<1>a. block_len' \in Nat \ {0} /\ num_blocks' \in Nat \ {0} /\ block_len' * num_blocks' \in Nat
      /\ 0 <= 2 * block_len' /\ 0 % block_len' = 0
  <2>1. block_len' \in 1..MAX_BURST /\ num_blocks' \in Nat \ {0} /\ MAX_BURST \in Nat
    BY AhblAssumption DEF Types, CpTypes
  <2>2. \A b, m \in Nat \ {0} : b * m \in Nat /\ 0 <= 2 * b /\ 0 % b = 0
    OBVIOUS
  <2>3. block_len' \in Nat \ {0}
    BY <2>1
  <2> QED BY <2>1, <2>2, <2>3
<1>2. busreq_cs \in {"IDLE", "WAIT"} /\ (busreq_cs = "WAIT" => all_blocks_done)
  BY <1>1 DEF BurstInv, WaitInv, AddressInv, DoneInv, Addressing, Types, BusTypes
<1>3. /\ busreq_cs' = "IDLE" /\ addr_issued' = FALSE /\ htrans' = FALSE /\ dphase' = <<>>
      /\ busreq_cs = "IDLE" => blk_cntr' = 0 /\ axaddr_r' = 0 /\ axlen_p1' = block_len
      /\ all_blocks_done' = (blk_cntr = num_blocks)
  <2>1. CASE busreq_cs = "IDLE" BY <1>1, <2>1, IdleStep
  <2>2. CASE busreq_cs = "WAIT"
    <3>1. /\ BusWait /\ addr_issued' = FALSE /\ htrans' = FALSE /\ dphase' = <<>>
          /\ all_blocks_done' = (blk_cntr = num_blocks)
      BY <1>1, <2>2, IdleStep
    <3>2. busreq_cs' = "IDLE"
      BY <1>1, <1>2, <2>2, <3>1, WaitStep
    <3> QED BY <2>2, <3>1, <3>2
  <2> QED BY <1>2, <2>1, <2>2
<1>4. /\ ~word
      /\ \/ CpProgram
         \/ ram' = Stored(TRUE) /\ CpRaise
         \/ ram' = Stored(TRUE) /\ CpRest /\ plan = "none"
  BY DEF CpStep, CpStart, CpRest, CpFinish, CpWord
<1>5. Contents' = <<>> /\ fifo_wr' = <<>> /\ Counted' /\ ~mem_avail'
  <2>1. FifoSide(TRUE, FALSE)
    BY <1>1, <1>4
  <2> QED BY <1>1, <1>2, <2>1, StaysEmpty
<1>6. ~in_block'
  BY <1>1, <1>4 DEF CpProgram, CpRaise, CpRest
<1>7. plan' # "none" => /\ busreq_cs = "IDLE" /\ pos' = 0 /\ gap' = 0 /\ ram' = {}
                        /\ plan' = "write" => Total' <= SIZE
  <2>1. CASE CpProgram
    <3>1. busreq_cs = "IDLE" /\ pos' = 0 /\ gap' = 0 /\ ram' = {}
          /\ dirty' = (plan' = "write" /\ block_len' * num_blocks' > SIZE)
      BY <2>1 DEF CpProgram
    <3>2. Total' = block_len' * num_blocks' /\ Total' \in Nat
      BY <1>a DEF Total
    <3>3. plan' = "write" => ~(Total' > SIZE)
      BY <3>1, <3>2
    <3> DEFINE tt == Total'
    <3> HIDE DEF tt
    <3>4. tt \in Nat /\ (plan' = "write" => ~(tt > SIZE))
      BY <3>2, <3>3 DEF tt
    <3>5. plan' = "write" => tt <= SIZE
      BY <3>4, FifoAssumption
    <3> QED BY <3>1, <3>5 DEF tt
  <2>2. CASE ram' = Stored(TRUE) /\ CpRaise
    <3>1. /\ plan # "none" /\ plan' = plan /\ pos' = pos /\ gap' = gap
          /\ block_len' = block_len /\ num_blocks' = num_blocks
      BY <2>2 DEF CpRaise
    <3>2. /\ busreq_cs = "IDLE" /\ pos = 0 /\ gap = 0 /\ ram = {}
          /\ plan = "write" => Total <= SIZE
      BY <3>1 DEF FlowInv, PlanInv
    <3>3. dphase = <<>>
      BY <1>1, <3>2 DEF BurstInv, IdleInv
    <3>4. ram' = {}
      BY <2>2, <3>2, <3>3 DEF Stored, Writes
    <3> QED BY <3>1, <3>2, <3>4 DEF Total
  <2>3. CASE CpRest /\ plan = "none"
    BY <2>3 DEF CpRest
  <2> QED BY <1>4, <2>1, <2>2, <2>3
<1>8. dir' # "none" => /\ plan' = dir' /\ axlen_p1' = block_len' /\ ~all_blocks_done'
  <2> SUFFICES ASSUME dir' # "none"
               PROVE  plan' = dir' /\ axlen_p1' = block_len' /\ ~all_blocks_done'
    OBVIOUS
  <2>1. CpRaise /\ plan # "none" /\ dir' = plan /\ plan' = plan
        /\ block_len' = block_len /\ num_blocks' = num_blocks
    BY <1>4 DEF CpProgram, CpRaise, CpRest
  <2>2. busreq_cs = "IDLE"
    BY <2>1 DEF FlowInv, PlanInv
  <2>3. blk_cntr = 0
    BY <1>1, <2>1, <2>2 DEF BurstInv, IdleInv
  <2> QED BY <1>a, <1>3, <2>1, <2>2, <2>3
<1>9. dir' # "none" => plan' # "none"
  BY <1>8
<1>10. BurstInv'
  BY <1>3, <1>7, <1>8
     DEF BurstInv, IdleInv, WaitInv, AddressInv, DoneInv, Addressing
<1>11. PlanInv'
  BY <1>3, <1>5, <1>6, <1>7, <1>8 DEF PlanInv
<1>12. dir' # "none" => Taken' = 0 /\ pos' = 0 /\ ram' = {}
  <2>1. dir' # "none" => axaddr_r' = 0 /\ pos' = 0 /\ ram' = {}
    BY <1>3, <1>7, <1>9
  <2>2. Bit(addr_issued') = 0 /\ Bit(dphase' # <<>>) = 0
    BY <1>3 DEF Bit
  <2> QED BY <2>1, <2>2 DEF Taken
<1>13. BlockInv'
  BY <1>a, <1>12 DEF BlockInv
<1>14. Len(Contents') = 0 /\ Len(fifo_wr') = 0 /\ Contents' = Run(0, 0)
  BY <1>5, RunMoves
<1>15. ReadWords'
  <2>1. (0..0 - 1) = {}
    OBVIOUS
  <2>2. Bit(dphase' # <<>>) = 0
    BY <1>3 DEF Bit
  <2> QED BY <1>3, <1>5, <1>12, <1>14, <2>1, <2>2 DEF ReadWords, MemRd
<1>16. WriteWords'
  BY <1>5, <1>12, <1>14 DEF WriteWords, MemWr
<1>17. RoomInv'
  <2>1. Len(Contents') + Len(fifo_wr') = 0 /\ Len(Contents') <= block_len'
    BY <1>a, <1>14
  <2>2. Len(Contents') + Len(fifo_wr') <= 2 * block_len'
    BY <1>a, <2>1
  <2> QED BY <1>5, <1>6, <2>1, <2>2 DEF RoomInv
<1>18. BurstWords' /\ BlockWordsInv'
  BY <1>3, <1>5, <1>6 DEF BurstWords, BlockWordsInv, Addressing
<1> QED BY <1>5, <1>10, <1>11, <1>13, <1>15, <1>16, <1>17, <1>18 DEF FlowInv

(* A request is not ended before all of its words are where they belong.   *)
LEMMA FlowEnds ==
  ASSUME Data = Nat, Types, Types', FlowInv, NEW word \in BOOLEAN,
         Manager(TRUE, word), CpStep(TRUE, word), dir # "none", dir' = "none", ~dirty'
  PROVE  FlowInv'
<1> DEFINE n == Len(Contents)  w == Len(fifo_wr)  dp == Bit(dphase # <<>>)
<1>1. /\ BusFsm(TRUE) /\ BusSignals(TRUE) /\ Subordinate(TRUE) /\ FifoSide(TRUE, word)
      /\ BurstInv /\ Counted /\ plan = dir /\ pos \in Nat
      /\ (MemRd \/ MemWr) /\ ~(MemRd /\ MemWr)
      /\ all_blocks_done \in BOOLEAN
  BY DEF Manager, FlowInv, PlanInv, MemRd, MemWr, Types, CpTypes, BusTypes, Kinds
<1>2. /\ ~word /\ plan' = "none" /\ ~in_block'
      /\ pos = Total /\ (MemRd => emmc_req_done)
      /\ UNCHANGED <<block_len, num_blocks>>
  BY DEF CpStep, CpProgram, CpRaise, CpStart, CpRest, CpFinish, CpWord
<1>3. /\ Taken \in Nat /\ Total \in Nat /\ Taken + dp <= Total /\ dp \in 0..1
      /\ busreq_cs = "WAIT" => IF all_blocks_done THEN Taken = Total ELSE Taken < Total
      /\ busreq_cs # "WAIT" => Taken < Total
  BY <1>1, TakenBounds DEF Bit
<1>4. n \in Nat /\ w \in Nat
  <2>1. n \in Nat /\ w = Bit(fifo_wr # <<>>)
    BY <1>1, FifoCounts2
  <2> QED BY <2>1 DEF Bit
<1>5. n = 0 /\ w = 0 /\ Taken = Total
  <2>1. CASE MemRd
    <3>1. Taken = Total /\ pos = Taken + dp + n + w
      BY <1>2, <1>3, <2>1 DEF emmc_req_done, FlowInv, ReadWords
    <3> HIDE DEF n, w, dp
    <3> QED BY <1>2, <1>3, <1>4, <3>1
  <2>2. CASE MemWr
    <3>1. Taken = pos + n + w
      BY <2>2 DEF FlowInv, WriteWords
    <3> HIDE DEF n, w, dp
    <3> QED BY <1>2, <1>3, <1>4, <3>1
  <2> QED BY <1>1, <2>1, <2>2
<1>6. busreq_cs = "WAIT" /\ all_blocks_done
  BY <1>1, <1>3, <1>5
<1>7. Contents = <<>> /\ fifo_wr = <<>>
  <2>1. Contents \in Seq(Nat) /\ fifo_wr \in Seq(Nat)
    BY DEF Types, CountTypes, FifoInv, FifoTypeOK, Contents
  <2> QED BY <1>5, <2>1
<1>8. Contents' = <<>> /\ fifo_wr' = <<>> /\ Counted'
  <2>1. FifoSide(TRUE, FALSE)
    BY <1>1, <1>2
  <2> QED BY <1>1, <1>6, <1>7, <2>1, StaysEmpty
<1>9. /\ busreq_cs' = "WAIT" /\ addr_issued' = FALSE /\ htrans' = FALSE /\ dphase' = <<>>
      /\ UNCHANGED <<axaddr_r, axlen_p1, blk_cntr>>
      /\ all_blocks_done' = (blk_cntr = num_blocks)
  <2>1. /\ BusWait /\ addr_issued' = FALSE /\ htrans' = FALSE /\ dphase' = <<>>
        /\ UNCHANGED <<axaddr_r, axlen_p1, blk_cntr>>
        /\ all_blocks_done' = (blk_cntr = num_blocks)
    BY <1>1, <1>6, IdleStep
  <2> QED BY <1>1, <1>6, <2>1, WaitStep
<1>10. WaitInv'
  BY <1>1, <1>2, <1>6, <1>9 DEF BurstInv, WaitInv
<1>11. BurstInv'
  BY <1>9, <1>10 DEF BurstInv, IdleInv, AddressInv, DoneInv, Addressing
<1>12. PlanInv' /\ BlockInv'
  BY <1>2, <1>8 DEF PlanInv, BlockInv
<1> QED BY <1>8, <1>11, <1>12
        DEF FlowInv, ReadWords, RoomInv, BurstWords, WriteWords, BlockWordsInv,
            MemRd, MemWr

----------------------------------------------------------------------------
(* The theorems.                                                           *)

(* Every step of the manager keeps the invariant.                          *)
LEMMA AhblKept ==
  ASSUME Data = Nat, AhblIInv, [AhblNext]_ahblVars
  PROVE  AhblIInv'
<1>1. CASE Edges
  <2>1. PICK ready \in BOOLEAN, word \in BOOLEAN :
          Manager(ready, word) /\ CpStep(ready, word)
    BY <1>1, EdgesAre
  <2>2. Types'
    BY <2>1, Typed DEF AhblIInv
  <2>3. ASSUME ~Spoiled' PROVE FlowInv'
    <3>1. ready = TRUE /\ ~Spoiled /\ ~dirty'
      BY <2>1, <2>3, StaysSpoiled DEF AhblIInv
    <3>2. Manager(TRUE, word) /\ CpStep(TRUE, word) /\ FlowInv /\ Types
      BY <2>1, <3>1 DEF AhblIInv
    <3>3. CASE dir = "none"
      BY <2>2, <3>1, <3>2, <3>3, FlowWaits
    <3>4. CASE dir # "none" /\ dir' = "none"
      BY <2>2, <3>1, <3>2, <3>4, FlowEnds
    <3>5. CASE dir # "none" /\ dir' # "none"
      BY <2>2, <3>2, <3>5, FlowGoesOn
    <3> QED BY <3>3, <3>4, <3>5
  <2> QED BY <2>2, <2>3 DEF AhblIInv
<1>2. CASE SoftReset
  <2> USE <1>2 DEF SoftReset
  <2>1. Types'
    <3>0. /\ 0 \in Nat /\ 0 \in 0..0 /\ 0 \in 0..MAX_BURST /\ 0 \in 0..GAP /\ 0 \in 0..2
          /\ 0 <= SIZE /\ <<>> \in Seq(Nat) /\ <<>> \in Seq(Data) /\ Len(<<>>) = 0
          /\ <<>> \o <<>> \o <<>> = <<>>
      BY AhblAssumption, FifoAssumption
    <3>1. BusTypes'
      BY <3>0 DEF BusTypes
    <3>2. CpTypes'
      <4>1. block_len' \in BLOCK_WORDS /\ num_blocks' \in NUM_BLOCKS
        BY DEF AhblIInv, Types, CpTypes
      <4> QED BY <3>0, <4>1 DEF CpTypes, Kinds
    <3>3. CountTypes'
      <4>1. FifoInv'
        BY <3>0 DEF FifoReset, FifoInv, FifoTypeOK, AdvCounts
      <4>2. Len(Contents') <= fifo_cntr' /\ Len(fifo_wr') <= 1 /\ fifo_wr' \in Seq(Nat)
        <5>1. Contents' = <<>>
          BY <3>0 DEF FifoReset, Contents
        <5> QED BY <3>0, <5>1
      <4> QED BY <3>0, <4>1, <4>2 DEF CountTypes
    <3> QED BY <3>1, <3>2, <3>3 DEF Types
  <2>2. Contents' = <<>> /\ Len(fifo_wr') = 0
    BY DEF FifoReset, Contents
  <2>3. Counted' /\ BurstInv' /\ PlanInv' /\ BlockInv'
    BY <2>2 DEF Counted, BurstInv, IdleInv, WaitInv, AddressInv, DoneInv, Addressing,
                PlanInv, BlockInv
  <2> QED BY <2>1, <2>3
          DEF AhblIInv, FlowInv, ReadWords, RoomInv, BurstWords, WriteWords,
              BlockWordsInv, MemRd, MemWr
<1>3. CASE UNCHANGED ahblVars
  <2> USE <1>3 DEF ahblVars, fifoVars, busVars, ahbVars, cntVars, cpVars
  <2>1. Contents' = Contents
    BY DEF Contents
  <2>2. Types => Types'
    BY <2>1 DEF Types, BusTypes, CpTypes, CountTypes, FifoInv, FifoTypeOK, AdvCounts
  <2>3. /\ MemRd' = MemRd /\ MemWr' = MemWr /\ Taken' = Taken /\ Total' = Total
        /\ Left' = Left /\ Addressing' = Addressing /\ Spoiled' = Spoiled
        /\ Emty' = Emty /\ Full' = Full
    BY DEF MemRd, MemWr, Taken, Total, Left, Addressing, Spoiled, Emty, Full
  <2>4. FlowInv => Counted' /\ PlanInv' /\ BlockInv'
    BY <2>1, <2>3 DEF FlowInv, Counted, PlanInv, BlockInv
  <2>5. FlowInv => BurstInv'
    BY <2>3 DEF FlowInv, BurstInv, IdleInv, WaitInv, AddressInv, DoneInv
  <2>6. FlowInv => ReadWords' /\ RoomInv' /\ WriteWords'
    BY <2>1, <2>3 DEF FlowInv, ReadWords, RoomInv, WriteWords
  <2>7. FlowInv => BurstWords' /\ BlockWordsInv'
    BY <2>1, <2>3 DEF FlowInv, BurstWords, BlockWordsInv, AtOutput, AlmostAtOutput, StartWrite
  <2> QED BY <2>2, <2>3, <2>4, <2>5, <2>6, <2>7 DEF AhblIInv, FlowInv
<1> QED BY <1>1, <1>2, <1>3 DEF AhblNext

(* With words that are named by numbers: what the FSM, its two counters,   *)
(* the FIFO and the card's side know of each other, in every state.        *)
THEOREM AhblInvariant ==
  ASSUME Data = Nat
  PROVE  AhblSpec => []AhblIInv
<1>1. AhblInit => AhblIInv
  <2> SUFFICES ASSUME AhblInit PROVE AhblIInv
    OBVIOUS
  <2> USE DEF AhblInit
  <2>1. Types
    <3>0. /\ 0 \in Nat /\ 0 \in 0..0 /\ 0 \in 0..MAX_BURST /\ 0 \in 0..GAP /\ 0 \in 0..2
          /\ 0 <= SIZE /\ <<>> \in Seq(Nat) /\ <<>> \in Seq(Data) /\ Len(<<>>) = 0
          /\ <<>> \o <<>> \o <<>> = <<>>
      BY AhblAssumption, FifoAssumption
    <3>1. BusTypes
      BY <3>0 DEF BusTypes
    <3>2. CpTypes
      BY <3>0 DEF CpTypes, Kinds
    <3>3. CountTypes
      <4>1. FifoInv
        BY <3>0 DEF FifoInit, FifoInv, FifoTypeOK, AdvCounts
      <4>2. Len(Contents) <= fifo_cntr /\ Len(fifo_wr) <= 1 /\ fifo_wr \in Seq(Nat)
        <5>1. Contents = <<>>
          BY <3>0 DEF FifoInit, Contents
        <5> QED BY <3>0, <5>1
      <4> QED BY <3>0, <4>1, <4>2 DEF CountTypes
    <3> QED BY <3>1, <3>2, <3>3 DEF Types
  <2>2. Contents = <<>> /\ Len(fifo_wr) = 0
    BY DEF FifoInit, Contents
  <2>3. Counted /\ BurstInv /\ PlanInv /\ BlockInv
    BY <2>2 DEF Counted, BurstInv, IdleInv, WaitInv, AddressInv, DoneInv, Addressing,
                PlanInv, BlockInv
  <2> QED BY <2>1, <2>3
          DEF AhblIInv, FlowInv, ReadWords, RoomInv, BurstWords, WriteWords,
              BlockWordsInv, MemRd, MemWr
<1>2. AhblIInv /\ [AhblNext]_ahblVars => AhblIInv'
  BY AhblKept
<1> QED BY <1>1, <1>2, PTL DEF AhblSpec

(* The bus never gets more addresses or beats than a burst has, and the    *)
(* word counter that gates blocks and bursts is what the FIFO holds        *)
(* (emmc_ahbl_m.v 292-352, 471-492).                                       *)
THEOREM CountersAreRight ==
  ASSUME Data = Nat
  PROVE  AhblSpec => []AhblInv
<1>1. AhblIInv => AhblInv
  BY DEF AhblIInv, Types, BusTypes, CountTypes, FifoInv, FlowInv, Counted, AhblInv
<1> QED BY <1>1, AhblInvariant, PTL

(* Every word of a request is in one place and in order: the memory, the   *)
(* bus, the FIFO, the write register; the FIFO is never empty when the     *)
(* card needs a word; none is missing, and none too many, when the end is  *)
(* reported (emmc_ahbl_m.v 213-239, 296-363).                              *)
THEOREM WordsAreDelivered ==
  ASSUME Data = Nat
  PROVE  AhblSpec => []WordsDelivered
<1>1. AhblIInv => WordsDelivered
  <2> DEFINE n == Len(Contents)  w == Len(fifo_wr)  dp == Bit(dphase # <<>>)
             flying == IF Writes THEN <<hwdata>> ELSE <<>>
             queued == flying \o Contents \o fifo_wr
             stored == pos - Len(queued)
  <2> SUFFICES ASSUME AhblIInv, ~Spoiled PROVE WordsDelivered
    BY DEF WordsDelivered
  <2>0. Types /\ FlowInv /\ BurstInv /\ plan \in Kinds /\ dir \in Kinds
        /\ (dir # "none" => plan = dir)
    BY DEF AhblIInv, Types, CpTypes, FlowInv, PlanInv
  <2>1. /\ n \in Nat /\ w \in 0..1 /\ dp \in 0..1 /\ pos \in Nat
        /\ Contents \in Seq(Nat) /\ fifo_wr \in Seq(Nat)
        /\ w = 0 <=> fifo_wr = <<>>
        /\ w = 1 => fifo_wr = <<fifo_wr[1]>>
    <3>1. Contents \in Seq(Nat) /\ fifo_wr \in Seq(Nat) /\ pos \in Nat /\ w <= 1
      BY <2>0 DEF Types, CountTypes, CpTypes, FifoInv, FifoTypeOK, Contents
    <3>2. n \in Nat /\ w \in Nat /\ (w = 0 <=> fifo_wr = <<>>)
          /\ (w = 1 => fifo_wr = <<fifo_wr[1]>>)
      BY <3>1
    <3>3. dp \in 0..1
      BY DEF Bit
    <3> HIDE DEF n, w, dp
    <3> QED BY <3>1, <3>2, <3>3
  <2>2. n \in Nat /\ w \in 0..1 /\ dp \in 0..1 /\ pos \in Nat /\ w \in Nat
    <3>1. n \in Nat /\ w \in 0..1 /\ dp \in 0..1 /\ pos \in Nat
      BY <2>1
    <3> HIDE DEF n, w, dp
    <3> QED BY <3>1
  <2>3. CASE MemRd
    <3>0. dir # "none" /\ plan # "none" /\ ~MemWr
      BY <2>0, <2>3 DEF MemRd, MemWr
    <3>1. /\ pos = Taken + dp + n + w /\ Contents = Run(pos - w - n, n)
          /\ fifo_wr # <<>> => fifo_wr[1] = pos - 1
          /\ dphase # <<>> => hwdata = Taken
          /\ ram = {<<k, k>> : k \in 0..Taken - 1}
      BY <2>0, <2>3 DEF FlowInv, ReadWords
    <3>2. /\ Taken \in Nat
          /\ busreq_cs = "WAIT" /\ all_blocks_done => Taken = Total
      BY <2>0, <3>0, TakenBounds
    <3>3. dphase # <<>> => dphase[1].addr = Taken /\ dphase[1].write = TRUE
      <4>1. MemRd = TRUE
        BY <2>3 DEF MemRd
      <4>2. dphase # <<>> => dphase[1] = [addr |-> Taken, write |-> TRUE]
        BY <2>0, <4>1 DEF BurstInv
      <4> QED BY <4>2
    <3>4. (Writes <=> dphase # <<>>) /\ flying = Run(Taken, dp)
      <4>1. Run(Taken, 0) = <<>> /\ Run(Taken, 1) = <<Taken>>
        BY <3>2, RunMoves
      <4> QED BY <3>1, <3>3, <4>1 DEF Writes, Bit
    <3>5. Contents = Run(Taken + dp, n) /\ fifo_wr = Run(Taken + dp + n, w)
      <4>0. pos = Taken + dp + n + w
        BY <3>1
      <4>1. pos - w - n = Taken + dp /\ (w = 1 => pos - 1 = Taken + dp + n)
            /\ Taken + dp + n \in Nat
        <5> HIDE DEF n, w, dp
        <5> QED BY <2>2, <3>2, <4>0
      <4>2. Run(Taken + dp + n, 0) = <<>> /\ Run(Taken + dp + n, 1) = <<Taken + dp + n>>
        BY <4>1, RunMoves
      <4>3. w = 0 \/ w = 1
        <5> HIDE DEF w
        <5> QED BY <2>1
      <4>4. CASE w = 0
        <5>1. fifo_wr = <<>>
          BY <2>1, <4>4
        <5> HIDE DEF n, w, dp
        <5> QED BY <3>1, <4>1, <4>2, <4>4, <5>1
      <4>5. CASE w = 1
        <5>1. fifo_wr # <<>> /\ fifo_wr = <<fifo_wr[1]>>
          BY <2>1, <4>5
        <5> HIDE DEF n, w, dp
        <5> QED BY <3>1, <4>1, <4>2, <4>5, <5>1
      <4> QED BY <4>3, <4>4, <4>5
    <3>6. queued = Run(Taken, dp + n + w) /\ Len(queued) = dp + n + w
      <4> HIDE DEF n, w, dp, flying
      <4>0. dp \in Nat
        BY <2>2
      <4>1. Run(Taken, dp) \o Run(Taken + dp, n) = Run(Taken, dp + n)
        BY <2>2, <3>2, <4>0, RunsJoin
      <4>2. dp + n \in Nat /\ dp + n + w \in Nat /\ Taken + dp + n = Taken + (dp + n)
        BY <2>2, <3>2
      <4>3. Run(Taken, dp + n) \o Run(Taken + (dp + n), w) = Run(Taken, (dp + n) + w)
        BY <2>2, <3>2, <4>2, RunsJoin
      <4>4. Len(Run(Taken, dp + n + w)) = dp + n + w
        BY <3>2, <4>2, RunMoves
      <4>5. queued = Run(Taken, dp + n + w)
        BY <3>4, <3>5, <4>1, <4>2, <4>3
      <4> QED BY <4>4, <4>5
    <3>7. stored = Taken /\ pos - Taken = dp + n + w
      <4>1. pos = Taken + dp + n + w /\ Len(queued) = dp + n + w
        BY <3>1, <3>6
      <4> HIDE DEF n, w, dp, flying, queued
      <4> QED BY <2>2, <3>2, <4>1
    <3>8. queued = Words(stored, pos)
      <4>1. Words(Taken, pos) = Run(Taken, pos - Taken)
        BY DEF Words, Run
      <4> QED BY <3>6, <3>7, <4>1
    <3>9. ram = {<<k, k>> : k \in 0..stored - 1}
      BY <3>1, <3>7
    <3>10. emmc_req_done => stored = Total
      BY <3>2, <3>7 DEF emmc_req_done
    <3>11. Writes => dphase[1].addr = stored
      BY <3>3, <3>4, <3>7
    <3> HIDE DEF queued, stored
    <3> QED BY <2>3, <3>0, <3>8, <3>9, <3>10, <3>11 DEF WordsDelivered, queued, stored, flying
  <2>4. CASE MemWr
    <3>0. dir # "none" /\ plan # "none" /\ ~MemRd /\ MemRd = FALSE
      BY <2>0, <2>4 DEF MemRd, MemWr
    <3>1. /\ Taken = pos + n + w /\ Contents = Run(pos, n)
          /\ fifo_wr # <<>> => fifo_wr[1] = pos + n
      BY <2>0, <2>4 DEF FlowInv, WriteWords
    <3>2. /\ Taken \in Nat /\ Total \in Nat /\ Taken <= Total
          /\ busreq_cs = "WAIT" /\ all_blocks_done => Taken = Total
      <4>1. /\ Taken \in Nat /\ Total \in Nat /\ Taken + dp <= Total
            /\ busreq_cs = "WAIT" /\ all_blocks_done => Taken = Total
        BY <2>0, <3>0, TakenBounds
      <4> HIDE DEF dp
      <4> QED BY <2>1, <4>1
    <3>3. ~Writes
      BY <2>0, <3>0 DEF BurstInv, Writes
    <3>4. fifo_wr = Run(pos + n, w)
      <4>1. pos + n \in Nat
        BY <2>1
      <4>2. Run(pos + n, 0) = <<>> /\ Run(pos + n, 1) = <<pos + n>>
        BY <4>1, RunMoves
      <4>3. w = 0 \/ w = 1
        <5> HIDE DEF w
        <5> QED BY <2>1
      <4>4. CASE w = 0
        <5>1. fifo_wr = <<>>
          BY <2>1, <4>4
        <5> HIDE DEF n, w
        <5> QED BY <4>2, <4>4, <5>1
      <4>5. CASE w = 1
        <5>1. fifo_wr # <<>> /\ fifo_wr = <<fifo_wr[1]>>
          BY <2>1, <4>5
        <5> HIDE DEF n, w
        <5> QED BY <3>1, <4>2, <4>5, <5>1
      <4> QED BY <4>3, <4>4, <4>5
    <3>5. queued = Run(pos, n + w) /\ Len(queued) = n + w
      <4>1. flying = <<>> /\ <<>> \o Contents = Contents
        BY <2>1, <3>3
      <4>2. queued = Contents \o fifo_wr
        <5> HIDE DEF flying
        <5> QED BY <4>1
      <4> HIDE DEF n, w, flying, queued
      <4>3. Run(pos, n) \o Run(pos + n, w) = Run(pos, n + w)
        BY <2>2, RunsJoin
      <4>4. n + w \in Nat
        BY <2>2
      <4>5. Len(Run(pos, n + w)) = n + w
        BY <2>2, <4>4, RunMoves
      <4> QED BY <3>1, <3>4, <4>2, <4>3, <4>5
    <3>6. /\ pos + Len(queued) = Taken /\ (pos + Len(queued)) - pos = n + w
      <4>1. Taken = pos + n + w /\ Len(queued) = n + w
        BY <3>1, <3>5
      <4> HIDE DEF n, w, flying, queued
      <4> QED BY <2>2, <3>2, <4>1
    <3>7. queued = Words(pos, pos + Len(queued))
      <4>1. Words(pos, pos + Len(queued)) = Run(pos, (pos + Len(queued)) - pos)
        BY DEF Words, Run
      <4> QED BY <3>5, <3>6, <4>1
    <3>8. in_block => ~Emty
      <4>1. in_block => AtOutput(Left)
        BY <2>0, <2>4 DEF FlowInv, BlockWordsInv
      <4>2. Left > 0
        <5>1. block_len \in Nat \ {0}
          BY <2>0, AhblAssumption DEF Types, CpTypes
        <5> QED BY <2>1, <5>1 DEF Left
      <4> QED BY <4>1, <4>2 DEF AtOutput
    <3>9. pos + Len(queued) <= Total /\ (emmc_req_done => pos + Len(queued) = Total)
      <4> HIDE DEF queued
      <4> QED BY <3>2, <3>6 DEF emmc_req_done
    <3> HIDE DEF queued
    <3> QED BY <2>4, <3>0, <3>7, <3>8, <3>9 DEF WordsDelivered, queued, flying
  <2>5. CASE ~MemRd /\ ~MemWr
    <3>1. dir = "none"
      BY <2>0, <2>5 DEF MemRd, MemWr, Kinds
    <3>2. Contents = <<>> /\ fifo_wr = <<>>
      BY <2>0, <3>1 DEF FlowInv, PlanInv
    <3>3. dphase = <<>>
      BY <2>0, <3>1 DEF BurstInv, IdleInv, WaitInv, AddressInv, DoneInv, Addressing,
                         Types, BusTypes
    <3>4. queued = <<>>
      BY <3>2, <3>3 DEF Writes
    <3> HIDE DEF queued
    <3> QED BY <2>5, <3>4 DEF WordsDelivered, queued, flying
  <2> QED BY <2>3, <2>4, <2>5
<1> QED BY <1>1, AhblInvariant, PTL
=============================================================================
