------------------------ MODULE Axi4Manager_proofs ------------------------
(* Proofs about Axi4Manager, for words that are named by natural numbers:  *)
(* first its types and the counter of the FIFO, for any use of it; then    *)
(* the words, bursts and blocks of a request, in the use that it is made   *)
(* for (InUse).                                                            *)
EXTENDS Axi4Manager, EmmcFifo_proofs

Kinds == {"none", "read", "write"}

(* The types that the proofs need beyond AxiTypeOK.  A burst is under way  *)
(* exactly while the FSM waits for its beats.                              *)
SideTypeOK ==
  /\ wdatq \in Seq([data : Nat, last : BOOLEAN]) /\ fifo_wr \in Seq(Nat)
  /\ dir \in Kinds /\ plan \in Kinds /\ in_block \in BOOLEAN
  /\ pos \in Nat /\ gap \in Nat
  /\ block_len \in BLOCK_WORDS /\ num_blocks \in NUM_BLOCKS
  /\ busreq_cs = "DONE" <=> burst # <<>>
  /\ burst # <<>> =>
       burst \in [kind : {"READ", "WRITE"}, addr : Nat, len : 0..(MAX_BURST - 1), beat : Nat]

(* There is room for a block of a read before it starts, and for what is   *)
(* left of it while it comes: mem_free, which is two edges late, is looked *)
(* at only when the last block is in the memory and counted.               *)
RoomInv ==
  /\ in_block => dir # "none"
  /\ plan # "none" /\ dir = "none" => fifo_wr = <<>>
  /\ dir = "read" =>
       /\ in_block =>
            Len(Contents) + Len(fifo_wr) + (block_len - (pos % block_len)) <= 2 * block_len
       /\ ~in_block /\ gap < GAP => fifo_wr = <<>>
       /\ ~in_block /\ gap + 1 < GAP /\ mem_free => Len(Contents) <= block_len

(* All of it: an inductive invariant.                                      *)
AxiInv == AxiTypeOK /\ FifoInv /\ FifoCounted /\ SideTypeOK /\ RoomInv

----------------------------------------------------------------------------
(* The FIFO, its word counter and its write register.                      *)

(* A register that holds at most one word.                                 *)
LEMMA OneWord ==
  ASSUME NEW S, NEW s \in Seq(S)
  PROVE  /\ Len(s) \in Nat /\ (Len(s) = 0 <=> s = <<>>)
         /\ s # <<>> => s[1] \in S /\ Head(s) = s[1]
<1>1. Len(s) \in Nat /\ (Len(s) = 0 <=> s = <<>>)
  OBVIOUS
<1>2. s # <<>> => Len(s) >= 1
  BY <1>1
<1>3. s # <<>> => s[1] \in S /\ Head(s) = s[1]
  BY <1>2
<1> QED BY <1>1, <1>3

(* What an edge does to the contents of the FIFO and to their count.       *)
LEMMA FifoMoves ==
  ASSUME Data = Nat, AxiInv, NEW beat \in BOOLEAN, NEW word \in BOOLEAN,
         FifoSide(beat, word)
  PROVE  /\ FifoInv'
         /\ Len(Contents) \in Nat /\ Len(fifo_wr) \in 0..1
         /\ Len(Contents') \in Nat /\ Len(mem') <= Len(Contents')
         /\ Len(Contents') <= Len(Contents) + Len(fifo_wr)
         /\ Len(mem') <= Len(mem) + Len(fifo_wr)
         /\ fifo_cntr' = Len(Contents')
         /\ Len(Contents') <= SIZE + 2
         /\ Len(mem) \in Nat /\ Len(mem') \in Nat
<1> DEFINE rden == FifoRden(beat, word)
           wren == fifo_wr # <<>>
           wdat == IF wren THEN fifo_wr[1] ELSE 0
           left == IF rden THEN Tail(Contents) ELSE Contents
           c == Len(Contents)
           w == Len(fifo_wr)
           cc == Len(Contents')
<1>1. /\ FifoInv /\ fifo_cntr = c /\ fifo_wr \in Seq(Nat) /\ w <= 1
      /\ fifo_wr # <<>> => ~Full
  BY DEF AxiInv, FifoCounted, SideTypeOK, AxiTypeOK
<1>2. /\ rden \in BOOLEAN /\ (rden => ~Emty)
      /\ wren \in BOOLEAN /\ (wren => ~Full) /\ wdat \in Data
      /\ w = (IF wren THEN 1 ELSE 0)
  <2>1. rden \in BOOLEAN /\ (rden => ~Emty)
    BY DEF FifoRden
  <2>2. /\ w \in Nat /\ (w = 0 <=> fifo_wr = <<>>)
        /\ fifo_wr # <<>> => fifo_wr[1] \in Nat
    BY <1>1, OneWord
  <2>3. wdat \in Data
    BY <2>2
  <2>4. w = (IF wren THEN 1 ELSE 0)
    <3> HIDE DEF w
    <3> QED BY <1>1, <2>2
  <2> QED BY <1>1, <2>1, <2>3, <2>4
<1>3. Edge(wren, wdat, rden)
  BY <1>1 DEF FifoSide
<1>4. FifoInv'
  BY <1>2, <1>3, <1>1, EdgeCounts
<1>5. /\ Contents' = IF wren THEN Append(left, wdat) ELSE left
      /\ rden => Contents # <<>>
  BY <1>2, <1>3, <1>1, EdgeQueue
<1>6. Contents \in Seq(Data)
  BY <1>1 DEF FifoInv, FifoTypeOK, Contents
<1>7. left \in Seq(Data) /\ Len(left) = c - (IF rden THEN 1 ELSE 0) /\ c \in Nat
  BY <1>5, <1>6
<1>8. cc = c + w - (IF rden THEN 1 ELSE 0) /\ cc \in Nat
  <2>1. cc = Len(left) + (IF wren THEN 1 ELSE 0)
    <3>1. /\ wren \in BOOLEAN /\ wdat \in Data /\ left \in Seq(Data)
          /\ Contents' = IF wren THEN Append(left, wdat) ELSE left
      BY <1>2, <1>5, <1>7
    <3> HIDE DEF wren, wdat, left
    <3> QED BY <3>1
  <2>2. rden => c >= 1
    BY <1>5, <1>6
  <2> HIDE DEF c, cc, left, w, wren, rden
  <2> QED BY <1>2, <1>7, <2>1, <2>2
<1>9. fifo_cntr' = cc
  BY <1>1, <1>2, <1>8 DEF FifoSide
<1>10. Len(mem') <= cc /\ Len(mem') \in Nat /\ cc <= SIZE + 2
  <2> DEFINE m == Len(mem')  l == Len(latch')  p == Len(pipe')
  <2>1. /\ m \in Nat /\ l \in Nat /\ p \in Nat /\ m <= SIZE /\ l + p = adv' /\ adv' <= 2
    BY <1>4 DEF FifoInv, FifoTypeOK, AdvCounts
  <2>2. cc = p + l + m
    BY <1>4 DEF FifoInv, FifoTypeOK, Contents
  <2> QED BY <2>1, <2>2, FifoAssumption
<1>11. Len(mem') <= Len(mem) + w /\ Len(mem) \in Nat
  <2> DEFINE rest == IF RdenW(rden) THEN Tail(mem) ELSE mem
  <2>1. mem \in Seq(Data) /\ (RdenW(rden) => mem # <<>>)
    BY <1>1 DEF FifoInv, FifoTypeOK, RdenW
  <2>2. rest \in Seq(Data) /\ Len(rest) <= Len(mem)
    BY <2>1
  <2>3. mem' = IF wren THEN Append(rest, wdat) ELSE rest
    BY <1>3 DEF Edge
  <2> QED BY <1>2, <2>1, <2>2, <2>3
<1>12. cc <= c + w /\ w \in 0..1
  <2> HIDE DEF c, cc, w, wren, rden
  <2> QED BY <1>2, <1>7, <1>8
<1> QED BY <1>4, <1>7, <1>8, <1>9, <1>10, <1>11, <1>12

(* What is put into the write register, and when.                          *)
LEMMA WriteRegister ==
  ASSUME AxiInv, NEW beat \in BOOLEAN, NEW word \in BOOLEAN, FifoSide(beat, word)
  PROVE  /\ fifo_wr' \in Seq(Nat) /\ Len(fifo_wr') \in 0..1
         /\ dir = "none" => fifo_wr' = <<>>
         /\ dir = "read" /\ ~word => fifo_wr' = <<>>
         /\ fifo_wr' # <<>> =>
              (dir = "read" /\ word) \/ (dir = "write" /\ ~Aful)
<1>1. fifo_wr' = FifoWrite(beat, word)
  BY DEF FifoSide
<1>2. CASE MemRd /\ ~Full /\ word
  <2>1. fifo_wr' = <<pos>> /\ pos \in Nat
    BY <1>1, <1>2 DEF FifoWrite, MemRd, MemWr, AxiInv, SideTypeOK
  <2>2. fifo_wr' \in Seq(Nat) /\ Len(fifo_wr') = 1
    BY <2>1
  <2>3. dir = "read" /\ word
    BY <1>2 DEF MemRd
  <2>4. Len(fifo_wr') \in 0..1
    BY <2>2
  <2>5. dir # "none"
    BY <2>3
  <2> QED BY <2>2, <2>3, <2>4, <2>5, Zenon
<1>3. CASE MemWr /\ ~Full /\ RdDatVld(beat)
  <2>1. fifo_wr' = <<burst.addr + burst.beat>> /\ dir = "write" /\ ~Aful
    BY <1>1, <1>3 DEF FifoWrite, MemRd, MemWr, RdDatVld
  <2>2. burst.addr + burst.beat \in Nat
    BY <1>3 DEF AxiInv, SideTypeOK, RdDatVld
  <2> QED BY <2>1, <2>2
<1>4. CASE ~(MemRd /\ ~Full /\ word) /\ ~(MemWr /\ ~Full /\ RdDatVld(beat))
  BY <1>1, <1>4 DEF FifoWrite
<1> QED BY <1>2, <1>3, <1>4

----------------------------------------------------------------------------
(* The bus side.                                                           *)

(* A step of the bus FSM keeps its types, and starts and ends a burst      *)
(* together with the subordinate.                                          *)
LEMMA BusTyped ==
  ASSUME AxiInv, NEW aready \in BOOLEAN, NEW beat \in BOOLEAN,
         BusFsm(aready, beat)
  PROVE  /\ busreq_cs' \in {"IDLE", "WAIT", "READ", "WRITE", "DONE"}
         /\ axaddr' \in Nat /\ axlen_p1' \in 0..MAX_BURST /\ axlen' \in 0..MAX_BURST - 1
         /\ wcntr' \in 0..MAX_BURST - 1 /\ wlast' \in BOOLEAN
         /\ blk_cntr' \in Nat /\ all_blocks_done' \in BOOLEAN
         /\ busreq_cs' = "DONE" <=>
              ReqDone(aready) \/ (busreq_cs = "DONE" /\ ~DatDone(beat))
<1>1. /\ busreq_cs \in {"IDLE", "WAIT", "READ", "WRITE", "DONE"}
      /\ axaddr \in Nat /\ axlen_p1 \in 0..MAX_BURST /\ axlen \in 0..MAX_BURST - 1
      /\ wcntr \in 0..MAX_BURST - 1 /\ blk_cntr \in Nat
      /\ block_len \in Nat /\ MAX_BURST \in Nat \ {0}
  BY AxiAssumption DEF AxiInv, AxiTypeOK, SideTypeOK
<1>2. axlen' \in 0..MAX_BURST - 1 /\ all_blocks_done' \in BOOLEAN
  BY <1>1 DEF BusFsm
<1>3. WcntrD(beat) \in 0..MAX_BURST - 1
  BY <1>1 DEF WcntrD
<1>4. BurstOf(block_len) \in 0..MAX_BURST
  BY <1>1 DEF BurstOf
<1>5. CASE BusIdle
  <2>1. busreq_cs = "IDLE" /\ busreq_cs' \in {"IDLE", "WAIT"}
    BY <1>5 DEF BusIdle
  <2>2. /\ axaddr' = 0 /\ wcntr' = 0 /\ blk_cntr' = 0 /\ wlast' = FALSE
        /\ axlen_p1' \in 0..MAX_BURST
    BY <1>4, <1>5 DEF BusIdle
  <2>3. 0 \in 0..MAX_BURST - 1
    BY <1>1
  <2> QED BY <1>2, <2>1, <2>2, <2>3 DEF ReqDone
<1>6. CASE BusWait(aready, beat)
  <2>1. WaitNext \in {"IDLE", "WAIT", "READ", "WRITE"}
    <3>1. CASE all_blocks_done BY <3>1 DEF WaitNext
    <3>2. CASE ~all_blocks_done /\ MemWr BY <3>2 DEF WaitNext, MemWr, MemRd
    <3>3. CASE ~all_blocks_done /\ ~MemWr /\ MemRd /\ gteq_axlen BY <3>3 DEF WaitNext
    <3>4. CASE ~all_blocks_done /\ ~MemWr /\ ~(MemRd /\ gteq_axlen) BY <3>4 DEF WaitNext
    <3> QED BY <3>1, <3>2, <3>3, <3>4
  <2> QED BY <1>1, <1>2, <1>6, <2>1 DEF BusWait, ReqDone
<1>7. CASE BusBurst(aready, beat)
  <2>1. /\ axaddr' \in Nat /\ axlen_p1' \in 0..MAX_BURST /\ wcntr' \in 0..MAX_BURST - 1
        /\ wlast' \in BOOLEAN /\ blk_cntr' \in Nat
    BY <1>1, <1>3, <1>7 DEF BusBurst
  <2>2. busreq_cs \in {"READ", "WRITE"} => ~DatDone(beat)
    BY DEF AxiInv, SideTypeOK, DatDone, WrDatDone, WrDatVld, RdDatDone, RdDatVld
  <2>3. busreq_cs = "DONE" => ~ReqDone(aready)
    BY DEF ReqDone
  <2> QED BY <1>2, <1>7, <2>1, <2>2, <2>3 DEF BusBurst, ReqDone
<1> QED BY <1>5, <1>6, <1>7 DEF BusFsm

(* The subordinate has a burst as long as the FSM waits for beats.         *)
LEMMA BurstTyped ==
  ASSUME AxiInv, NEW aready \in BOOLEAN, NEW beat \in BOOLEAN, NEW bvalid \in BOOLEAN,
         BusFsm(aready, beat), Subordinate(aready, beat, bvalid)
  PROVE  /\ busreq_cs' = "DONE" <=> burst' # <<>>
         /\ burst' # <<>> =>
              burst' \in [kind : {"READ", "WRITE"}, addr : Nat, len : 0..(MAX_BURST - 1),
                          beat : Nat]
<1> DEFINE T == [kind : {"READ", "WRITE"}, addr : Nat, len : 0..(MAX_BURST - 1), beat : Nat]
<1>0. \A b \in T : b # <<>>
  OBVIOUS
<1>1. /\ busreq_cs' = "DONE" <=>
           ReqDone(aready) \/ (busreq_cs = "DONE" /\ ~DatDone(beat))
      /\ busreq_cs = "DONE" <=> burst # <<>>
      /\ burst # <<>> => burst \in T
      /\ axaddr \in Nat /\ axlen \in 0..(MAX_BURST - 1)
  BY BusTyped DEF AxiInv, AxiTypeOK, SideTypeOK
<1>2. CASE ReqDone(aready)
  <2>1. burst' = [kind |-> busreq_cs, addr |-> axaddr, len |-> axlen, beat |-> 0]
    BY <1>2 DEF Subordinate
  <2>2. burst' \in T
    BY <2>1, <1>1, <1>2 DEF ReqDone
  <2> QED BY <1>0, <1>1, <1>2, <2>2
<1>3. CASE ~ReqDone(aready) /\ DatDone(beat)
  <2>1. burst' = <<>>
    BY <1>3 DEF Subordinate
  <2> QED BY <1>1, <1>3, <2>1
<1>4. CASE ~ReqDone(aready) /\ ~DatDone(beat) /\ (WrDatVld(beat) \/ RdDatVld(beat))
  <2>1. burst' = [burst EXCEPT !.beat = @ + 1]
    BY <1>4 DEF Subordinate
  <2>2. burst \in T /\ busreq_cs = "DONE"
    BY <1>1, <1>4 DEF WrDatVld, RdDatVld
  <2>3. burst' \in T
    BY <2>1, <2>2
  <2> QED BY <1>0, <1>1, <1>4, <2>2, <2>3
<1>5. CASE ~ReqDone(aready) /\ ~DatDone(beat) /\ ~(WrDatVld(beat) \/ RdDatVld(beat))
  <2>1. burst' = burst
    BY <1>5 DEF Subordinate
  <2> QED BY <1>1, <1>5, <2>1
<1> QED BY <1>2, <1>3, <1>4, <1>5

(* The write queue holds a beat at most.                                   *)
LEMMA QueueTyped ==
  ASSUME Data = Nat, AxiInv, NEW aready \in BOOLEAN, NEW beat \in BOOLEAN,
         BusFsm(aready, beat)
  PROVE  wdatq' \in Seq([data : Nat, last : BOOLEAN]) /\ Len(wdatq') <= 1
<1>1. /\ wdatq \in Seq([data : Nat, last : BOOLEAN]) /\ Len(wdatq) <= 1
      /\ wlast \in BOOLEAN /\ pipe \in Seq(Nat)
  BY DEF AxiInv, AxiTypeOK, SideTypeOK, FifoTypeOK
<1>2. CASE WdatqWren(beat)
  <2>1. Rdat \in Nat
    BY <1>1, <1>2 DEF WdatqWren, Emty, Rdat
  <2>2. wdatq' = <<[data |-> Rdat, last |-> wlast]>>
    BY <1>2 DEF BusFsm
  <2> QED BY <1>1, <2>1, <2>2
<1>3. CASE ~WdatqWren(beat)
  BY <1>1, <1>3 DEF BusFsm
<1> QED BY <1>2, <1>3

(* The count of bursts in a block keeps its type.                          *)
LEMMA PartTyped ==
  ASSUME AxiInv, NEW aready \in BOOLEAN, PartialBlocks(aready)
  PROVE  partial_bcnt' \in 0..1 /\ block_last' \in BOOLEAN
<1>1. partial_bcnt \in 0..1 /\ block_last \in BOOLEAN
  BY DEF AxiInv, AxiTypeOK
<1>2. CASE ~BIG_BLOCKS
  BY <1>1, <1>2 DEF PartialBlocks, partVars
<1>3. CASE BIG_BLOCKS /\ busreq_cs = "IDLE"
  BY <1>1, <1>3 DEF PartialBlocks
<1>4. CASE BIG_BLOCKS /\ busreq_cs # "IDLE" /\ ReqDone(aready)
  BY <1>1, <1>4 DEF PartialBlocks
<1>5. CASE BIG_BLOCKS /\ busreq_cs # "IDLE" /\ ~ReqDone(aready)
  BY <1>1, <1>5 DEF PartialBlocks
<1> QED BY <1>2, <1>3, <1>4, <1>5, AxiAssumption

----------------------------------------------------------------------------
(* The command processor's side: room for what is still to come.           *)

(* What is left of a block when a word of it has come.                     *)
LEMMA LeftOfBlock ==
  ASSUME NEW b \in Nat \ {0}, NEW p \in Nat
  PROVE  /\ p % b \in 0..(b - 1)
         /\ (p + 1) % b # 0 => (p + 1) % b = (p % b) + 1
OBVIOUS

(* What the command processor does in an edge.                             *)
CpStep(beat, word) ==
  \/ ~word /\ (\/ CpProgram \/ CpRaise \/ CpStart(beat) \/ CpRest(beat)
               \/ CpFinish(beat) \/ CpAbandon(beat))
  \/ word /\ CpWord(beat)

(* The command processor keeps its types.                                  *)
LEMMA CpTyped ==
  ASSUME AxiInv, NEW beat \in BOOLEAN, NEW word \in BOOLEAN, CpStep(beat, word)
  PROVE  /\ dir' \in Kinds /\ plan' \in Kinds /\ in_block' \in BOOLEAN
         /\ pos' \in Nat /\ gap' \in Nat
         /\ block_len' \in BLOCK_WORDS /\ num_blocks' \in NUM_BLOCKS
<1> USE AxiAssumption DEF AxiInv, SideTypeOK, Kinds, CpSame
<1>1. CASE CpProgram BY <1>1 DEF CpProgram
<1>2. CASE CpRaise BY <1>2 DEF CpRaise
<1>3. CASE CpStart(beat) BY <1>3 DEF CpStart
<1>4. CASE CpRest(beat) BY <1>4 DEF CpRest
<1>5. CASE CpFinish(beat) BY <1>5 DEF CpFinish
<1>6. CASE CpAbandon(beat) BY <1>6 DEF CpAbandon
<1>7. CASE CpWord(beat) BY <1>7 DEF CpWord
<1> QED BY <1>1, <1>2, <1>3, <1>4, <1>5, <1>6, <1>7 DEF CpStep

(* There stays room.  One case for each thing that the command processor   *)
(* can do.                                                                 *)
LEMMA RoomKept ==
  ASSUME Data = Nat, AxiInv, NEW beat \in BOOLEAN, NEW word \in BOOLEAN,
         FifoSide(beat, word), CpStep(beat, word)
  PROVE  RoomInv' /\ (fifo_wr' # <<>> => ~Full')
<1> DEFINE c == Len(Contents)
           w == Len(fifo_wr)
           cc == Len(Contents')
           ww == Len(fifo_wr')
           left == block_len - (pos % block_len)
<1>1. /\ c \in Nat /\ w \in 0..1 /\ cc \in Nat /\ Len(mem') <= cc /\ cc <= c + w
      /\ Len(mem') <= Len(mem) + w /\ Len(mem) \in Nat /\ Len(mem') \in Nat
  BY FifoMoves
<1>2. /\ fifo_wr' \in Seq(Nat) /\ ww \in 0..1
      /\ dir = "none" => fifo_wr' = <<>>
      /\ dir = "read" /\ ~word => fifo_wr' = <<>>
      /\ fifo_wr' # <<>> => (dir = "read" /\ word) \/ (dir = "write" /\ ~Aful)
      /\ (ww = 0 <=> fifo_wr' = <<>>) /\ (w = 0 <=> fifo_wr = <<>>)
  BY WriteRegister, OneWord DEF AxiInv, SideTypeOK
<1>3. /\ block_len \in Nat \ {0} /\ pos \in Nat /\ gap \in Nat /\ GAP \in Nat /\ GAP >= 2
      /\ 2 * block_len <= SIZE /\ SIZE \in Nat /\ SIZE >= 3
      /\ dir \in Kinds /\ in_block \in BOOLEAN /\ plan \in Kinds
  BY AxiAssumption, RoomAssumption, FifoAssumption DEF AxiInv, SideTypeOK
<1>4. /\ left \in 1..block_len
      /\ (pos + 1) % block_len # 0 =>
           block_len - ((pos + 1) % block_len) = left - 1
  <2> DEFINE r == pos % block_len
             q == (pos + 1) % block_len
  <2>1. r \in 0..(block_len - 1) /\ (q # 0 => q = r + 1)
    BY <1>3, LeftOfBlock
  <2> HIDE DEF r, q
  <2>2. block_len - r \in 1..block_len /\ (q # 0 => block_len - q = (block_len - r) - 1)
    BY <1>3, <2>1
  <2> QED BY <2>2 DEF r, q
<1>5. /\ fifo_cntr = c
      /\ in_block => dir # "none"
      /\ plan # "none" /\ dir = "none" => w = 0
      /\ dir = "read" =>
           /\ in_block => c + w + left <= 2 * block_len
           /\ ~in_block /\ gap < GAP => w = 0
           /\ ~in_block /\ gap + 1 < GAP /\ mem_free => c <= block_len
      /\ mem_free' = (c <= block_len)
  BY <1>2 DEF AxiInv, RoomInv, FifoCounted, FifoSide
(* A word that has been put on its way into the FIFO finds room.           *)
<1>6. fifo_wr' # <<>> => ~Full'
  <2> SUFFICES ASSUME fifo_wr' # <<>> PROVE Len(mem') < SIZE
    BY <1>1 DEF Full
  <2>1. CASE dir = "read" /\ word
    <3>1. in_block
      BY <2>1 DEF CpStep, CpWord
    <3>2. c + w + left <= 2 * block_len
      BY <1>5, <2>1, <3>1
    <3> HIDE DEF c, w, cc, left
    <3> QED BY <1>1, <1>3, <1>4, <3>2
  <2>2. CASE dir = "write" /\ ~Aful
    <3>1. Len(mem) < SIZE - 2
      BY <1>1, <1>3, <2>2 DEF Aful
    <3> HIDE DEF c, w, cc, left
    <3> QED BY <1>1, <1>3, <3>1
  <2> QED BY <1>2, <2>1, <2>2
<1> DEFINE leftNow == block_len' - (pos' % block_len')
           Goal ==
      /\ in_block' => dir' # "none"
      /\ plan' # "none" /\ dir' = "none" => fifo_wr' = <<>>
      /\ dir' = "read" =>
           /\ in_block' =>
                cc + ww + leftNow <= 2 * block_len'
           /\ ~in_block' /\ gap' < GAP => fifo_wr' = <<>>
           /\ ~in_block' /\ gap' + 1 < GAP /\ mem_free' => cc <= block_len'
<1> SUFFICES Goal
  BY <1>6 DEF RoomInv
<1>7. CASE ~word /\ CpProgram
  <2>1. dir = "none" /\ dir' = "none" /\ in_block' = in_block
    BY <1>7 DEF CpProgram
  <2>2. fifo_wr' = <<>> /\ ~in_block
    BY <2>1, <1>2, <1>5
  <2> HIDE DEF cc, ww, leftNow
  <2> QED BY <2>1, <2>2, <1>3
<1>8. CASE ~word /\ CpRaise
  <2>1. /\ dir = "none" /\ plan # "none" /\ ~in_block /\ in_block' = in_block
        /\ block_len' = block_len
    BY <1>8, <1>5 DEF CpRaise
  <2>2. ww = 0 /\ w = 0 /\ fifo_wr' = <<>>
    BY <1>2, <1>5, <2>1
  <2>3. mem_free' => cc <= block_len
    <3> HIDE DEF c, w, cc
    <3> QED BY <1>1, <1>3, <1>5, <2>1, <2>2
  <2> HIDE DEF cc, ww, leftNow
  <2> QED BY <2>1, <2>2, <2>3, <1>3
<1>9. CASE ~word /\ CpStart(beat)
  <2>1. /\ dir # "none" /\ dir' = dir /\ ~in_block /\ in_block' = TRUE /\ gap = 0
        /\ pos' = pos /\ block_len' = block_len /\ (dir = "read" => mem_free)
    BY <1>9, <1>5 DEF CpStart, CpSame, MemRd
  <2>2. dir = "read" => ww = 0 /\ w = 0 /\ c <= block_len
    BY <1>2, <1>3, <1>5, <1>9, <2>1
  <2>3. dir = "read" => cc + ww + left <= 2 * block_len
    <3> HIDE DEF c, w, cc, ww, left
    <3> QED BY <1>1, <1>3, <1>4, <2>2
  <2>4. leftNow = left
    BY <2>1
  <2> HIDE DEF cc, ww, left, leftNow
  <2> QED BY <2>1, <2>3, <2>4
<1>10. CASE ~word /\ CpRest(beat)
  <2>1. /\ dir' = dir /\ in_block' = in_block /\ pos' = pos /\ block_len' = block_len
        /\ plan' = plan /\ gap' = IF gap > 0 THEN gap - 1 ELSE 0
    BY <1>10 DEF CpRest, CpSame
  <2>2. dir = "read" => ww = 0 /\ fifo_wr' = <<>>
    BY <1>2, <1>10
  <2>3. dir = "read" /\ in_block => cc + ww + left <= 2 * block_len
    <3>1. dir = "read" /\ in_block => c + w + left <= 2 * block_len
      BY <1>5
    <3> HIDE DEF c, w, cc, ww, left
    <3> QED BY <1>1, <1>3, <1>4, <2>2, <3>1
  <2>4. dir = "read" /\ ~in_block /\ gap' + 1 < GAP /\ mem_free' => cc <= block_len
    <3>1. dir = "read" /\ ~in_block /\ gap < GAP => w = 0
      BY <1>5
    <3> HIDE DEF c, w, cc, ww, left
    <3> QED BY <1>1, <1>3, <1>5, <2>1, <3>1
  <2>5. dir = "none" => fifo_wr' = <<>>
    BY <1>2
  <2>6. leftNow = left
    BY <2>1
  <2> HIDE DEF c, w, cc, ww, left, leftNow
  <2> QED BY <1>5, <2>1, <2>2, <2>3, <2>4, <2>5, <2>6
<1>11. CASE ~word /\ (CpFinish(beat) \/ CpAbandon(beat))
  <2>1. dir' = "none" /\ plan' = "none" /\ in_block' = FALSE
    BY <1>11 DEF CpFinish, CpAbandon
  <2> HIDE DEF cc, ww, leftNow
  <2> QED BY <2>1
<1>12. CASE word /\ CpWord(beat)
  <2>1. /\ dir' = dir /\ dir # "none" /\ in_block /\ pos' = pos + 1 /\ block_len' = block_len
        /\ in_block' = ((pos + 1) % block_len # 0)
        /\ gap' = IF (pos + 1) % block_len = 0 THEN GAP ELSE 0
    BY <1>12 DEF CpWord, CpSame
  <2>2. dir = "read" /\ in_block' =>
          cc + ww + (block_len - ((pos + 1) % block_len)) <= 2 * block_len
    <3>1. dir = "read" => c + w + left <= 2 * block_len
      BY <1>5, <2>1
    <3>2. in_block' => block_len - ((pos + 1) % block_len) = left - 1
      BY <1>4, <2>1
    <3> SUFFICES ASSUME dir = "read", in_block' PROVE cc + ww + (left - 1) <= 2 * block_len
      BY <3>2
    <3> HIDE DEF c, w, cc, ww, left
    <3> QED BY <1>1, <1>2, <1>3, <1>4, <3>1
  <2>3. leftNow = block_len - ((pos + 1) % block_len)
    BY <2>1
  <2>4. ~in_block' => gap' = GAP
    BY <2>1
  <2>5. dir = "read" /\ in_block' => cc + ww + leftNow <= 2 * block_len
    BY <2>2, <2>3
  <2>6. dir' = dir /\ dir # "none" /\ block_len' = block_len
    BY <2>1
  <2> HIDE DEF cc, ww, leftNow
  <2> QED BY <1>3, <2>4, <2>5, <2>6
<1> HIDE DEF Goal
<1> QED BY <1>7, <1>8, <1>9, <1>10, <1>11, <1>12 DEF CpStep

----------------------------------------------------------------------------
(* An edge keeps the invariant: manager and command processor together.    *)
LEMMA EdgeKeeps ==
  ASSUME Data = Nat, AxiInv, NEW aready \in BOOLEAN, NEW beat \in BOOLEAN,
         NEW bvalid \in BOOLEAN, NEW word \in BOOLEAN,
         Manager(aready, beat, word, bvalid), CpStep(beat, word)
  PROVE  AxiInv'
<1>1. /\ BusFsm(aready, beat) /\ PartialBlocks(aready) /\ FifoSide(beat, word)
      /\ Subordinate(aready, beat, bvalid)
  BY DEF Manager
<1>2. FifoInv' /\ fifo_cntr' = Len(Contents') /\ fifo_cntr' \in 0..SIZE + 2
  <2> DEFINE cc == Len(Contents')
  <2>1. FifoInv' /\ cc \in Nat /\ fifo_cntr' = cc /\ cc <= SIZE + 2
    BY <1>1, FifoMoves
  <2> HIDE DEF cc
  <2>2. fifo_cntr' \in 0..SIZE + 2
    BY <2>1, FifoAssumption
  <2> QED BY <2>1, <2>2 DEF cc
<1>3. RoomInv' /\ (fifo_wr' # <<>> => ~Full')
  BY <1>1, RoomKept
<1>4. FifoCounted'
  BY <1>2, <1>3 DEF FifoCounted, Contents, Full
<1>5. fifo_wr' \in Seq(Nat) /\ Len(fifo_wr') <= 1
  <2> DEFINE ww == Len(fifo_wr')
  <2>1. fifo_wr' \in Seq(Nat) /\ ww \in 0..1
    BY <1>1, WriteRegister
  <2> HIDE DEF ww
  <2>2. ww <= 1
    BY <2>1
  <2> QED BY <2>1, <2>2 DEF ww
<1>6. wdatq' \in Seq([data : Nat, last : BOOLEAN]) /\ Len(wdatq') <= 1
  BY <1>1, QueueTyped
<1>7. SideTypeOK'
  BY <1>1, <1>5, <1>6, CpTyped, BurstTyped DEF SideTypeOK
<1>8. AxiTypeOK'
  BY <1>1, <1>2, <1>5, <1>6, BusTyped, PartTyped DEF AxiTypeOK, FifoInv
<1> QED BY <1>2, <1>3, <1>4, <1>7, <1>8 DEF AxiInv

(* Nothing is queued, and everything is zero.                              *)
LEMMA NothingYet ==
  /\ \A S : <<>> \in Seq(S)
  /\ Len(<<>>) = 0
  /\ 0 \in 0..MAX_BURST /\ 0 \in 0..MAX_BURST - 1 /\ 0 \in 0..1 /\ 0 \in 0..SIZE + 2
  /\ 0 \in Nat /\ 0 <= 1
BY AxiAssumption, FifoAssumption

(* Power-on reset establishes the invariant.                               *)
LEMMA InitKeeps == AxiInit => AxiInv
<1> SUFFICES ASSUME AxiInit PROVE AxiInv
  OBVIOUS
<1>1. mem = <<>> /\ latch = <<>> /\ pipe = <<>> /\ adv = 0
  BY DEF AxiInit, FifoInit
<1>2. FifoInv
  BY <1>1, FifoAssumption DEF FifoInv, FifoTypeOK, AdvCounts
<1>3. Contents = <<>> /\ fifo_wr = <<>> /\ fifo_cntr = 0 /\ wdatq = <<>>
  BY <1>1 DEF Contents, AxiInit
<1>4. AxiTypeOK
  BY <1>2, <1>3, NothingYet DEF AxiInit, AxiTypeOK, FifoInv
<1>5. SideTypeOK
  BY <1>3, NothingYet DEF AxiInit, SideTypeOK, Kinds
<1>6. FifoCounted /\ RoomInv
  BY <1>3 DEF AxiInit, FifoCounted, RoomInv
<1> QED BY <1>2, <1>4, <1>5, <1>6 DEF AxiInv

(* So does the core reset, whatever the manager was doing.                 *)
LEMMA ResetKeeps == ASSUME AxiInv, SoftReset PROVE AxiInv'
<1>1. mem' = <<>> /\ latch' = <<>> /\ pipe' = <<>> /\ adv' = 0
  BY DEF SoftReset, ManagerReset, FifoReset
<1>2. FifoInv'
  BY <1>1, FifoAssumption DEF FifoInv, FifoTypeOK, AdvCounts
<1>3. Contents' = <<>> /\ fifo_wr' = <<>> /\ fifo_cntr' = 0 /\ wdatq' = <<>>
  BY <1>1 DEF Contents, SoftReset, ManagerReset
<1>4. AxiTypeOK'
  BY <1>2, <1>3, NothingYet DEF SoftReset, ManagerReset, AxiTypeOK, FifoInv
<1>5. SideTypeOK'
  BY <1>3, NothingYet DEF AxiInv, SoftReset, ManagerReset, SideTypeOK, Kinds
<1>6. FifoCounted' /\ RoomInv'
  BY <1>3 DEF SoftReset, ManagerReset, FifoCounted, RoomInv
<1> QED BY <1>2, <1>4, <1>5, <1>6 DEF AxiInv

(* So does every step of the specification.                                *)
LEMMA AxiNextKeeps ==
  ASSUME Data = Nat, AxiInv, [AxiNext]_axiVars PROVE AxiInv'
<1>1. CASE Edges
  <2>1. PICK aready \in BOOLEAN, beat \in BOOLEAN, bvalid \in BOOLEAN :
          Tick(aready, beat, bvalid)
    BY <1>1 DEF Edges
  <2>2. \E word \in BOOLEAN : Manager(aready, beat, word, bvalid) /\ CpStep(beat, word)
    BY <2>1 DEF Tick, CpStep
  <2> QED BY <2>2, EdgeKeeps
<1>2. CASE Timeouts
  <2>1. PICK aready \in BOOLEAN, beat \in BOOLEAN, bvalid \in BOOLEAN :
          Manager(aready, beat, FALSE, bvalid) /\ CpAbandon(beat)
    BY <1>2 DEF Timeouts
  <2>2. CpStep(beat, FALSE)
    BY <2>1 DEF CpStep
  <2> QED BY <2>1, <2>2, EdgeKeeps
<1>3. CASE SoftReset
  BY <1>3, ResetKeeps
<1>4. CASE UNCHANGED axiVars
  BY <1>4 DEF axiVars, fifoVars, busVars, partVars, cntVars, cpVars, subVars, AxiInv,
     AxiTypeOK, FifoInv, FifoTypeOK, AdvCounts, FifoCounted, SideTypeOK, RoomInv,
     Contents, Full
<1> QED BY <1>1, <1>2, <1>3, <1>4 DEF AxiNext

(* The manager's registers and counters keep their types, and what is on   *)
(* its way into the FIFO fits: inductive.                                  *)
THEOREM AxiInvariant == ASSUME Data = Nat PROVE AxiSpec => []AxiInv
<1>1. AxiInit => AxiInv
  BY InitKeeps
<1>2. AxiInv /\ [AxiNext]_axiVars => AxiInv'
  BY AxiNextKeeps
<1> QED BY <1>1, <1>2, PTL DEF AxiSpec

(* The registers and counters of the manager keep their types: no burst    *)
(* or word counter wraps, for every block and burst size.                  *)
THEOREM AxiTypes == ASSUME Data = Nat PROVE AxiSpec => []AxiTypeOK
<1>1. AxiInv => AxiTypeOK
  BY DEF AxiInv
<1> QED BY <1>1, AxiInvariant, PTL

(* fifo_cntr, which mem_avail, mem_free and the start of a write burst are *)
(* taken from, is the number of words in the FIFO, and the FIFO never      *)
(* overflows, for every block size, number of blocks and timing of the bus *)
(* and the data lines, timeouts included.                                  *)
THEOREM AxiCounts == ASSUME Data = Nat PROVE AxiSpec => []FifoCounted
<1>1. AxiInv => FifoCounted
  BY DEF AxiInv
<1> QED BY <1>1, AxiInvariant, PTL

----------------------------------------------------------------------------
(* The words of a request.                                                 *)

(* A flag as a number, to add it to a counter.                             *)
Bit(b) == IF b THEN 1 ELSE 0

(* What the manager is made for: a card that does not run ahead of a burst *)
(* (see CardReady); blocks that are one burst; with the delayed block      *)
(* counter of gen_blk_gt1KB, of some length; and registers that are        *)
(* programmed before the request comes.                                    *)
InUse ==
  /\ PATIENT /\ SETTLE > 0
  /\ \A w \in BLOCK_WORDS : BurstOf(w) = w /\ (BIG_BLOCKS => w >= 3)

(* From a burst's request to its last beat, and the beats that have been.  *)
Active == busreq_cs \in {"READ", "WRITE", "DONE"}
Beat == IF busreq_cs = "DONE" THEN burst.beat ELSE 0

(* The word whose beat is on the bus, or comes next.                       *)
Taken == axaddr + Beat

(* A burst is as long as awlen announced, and flagged last where it ends:  *)
(* also when its request has been withdrawn.                               *)
ShapeInv ==
  /\ wdatq # <<>> => /\ busreq_cs = "WRITE" \/ (busreq_cs = "DONE" /\ burst.kind = "WRITE")
                     /\ wdatq[1].last <=> Beat = axlen
  /\ Active => axlen_p1 > 0 /\ axlen = axlen_p1 - 1
  /\ busreq_cs = "DONE" => burst.len = axlen /\ burst.beat <= axlen

(* With the delayed block counter: the burst that is not yet counted.      *)
Uncounted == BIG_BLOCKS /\ (req_done_dly[1] \/ req_done_dly[2])
Short == MaxPartial = 0
PartInv == BIG_BLOCKS =>
  /\ req_done_dly[1] => busreq_cs = "DONE" /\ Beat = 0 /\ ~req_done_dly[2]
  /\ req_done_dly[2] => busreq_cs = "DONE" /\ Beat <= 1
  /\ busreq_cs # "IDLE" \/ dir # "none" =>
       /\ Short => partial_bcnt = 0 /\ (Active => block_last)
       /\ ~Short =>
            /\ partial_bcnt = Bit(req_done_dly[1] \/ req_done_dly[2])
            /\ busreq_cs # "DONE" \/ req_done_dly[1] => ~block_last
            /\ req_done_dly[2] => block_last

(* How far the FSM is with the burst of block number blk_cntr.             *)
IdleInv == busreq_cs = "IDLE" =>
  /\ plan # "none" /\ dir = "none" /\ settle < SETTLE =>
       axlen_p1 = block_len /\ axaddr = 0 /\ blk_cntr = 0
  /\ dir # "none" =>
       /\ axlen_p1 = block_len /\ axlen = block_len - 1 /\ axaddr = 0 /\ blk_cntr = 0
       /\ ~all_blocks_done /\ pos = 0 /\ ~in_block
WaitInv == busreq_cs = "WAIT" =>
  /\ axlen_p1 = block_len /\ axlen = block_len - 1
  /\ axaddr = blk_cntr * block_len /\ blk_cntr <= num_blocks
  /\ all_blocks_done <=> blk_cntr = num_blocks
  /\ dir = "none" => all_blocks_done
AddressInv == busreq_cs \in {"READ", "WRITE"} =>
  /\ dir # "none" /\ (busreq_cs = "WRITE" <=> MemRd)
  /\ axlen_p1 = block_len
  /\ axaddr = blk_cntr * block_len /\ blk_cntr < num_blocks
DoneInv == busreq_cs = "DONE" =>
  /\ dir # "none" /\ (burst.kind = "WRITE" <=> MemRd)
  /\ axlen_p1 = block_len /\ burst.addr = axaddr
  /\ axaddr + block_len = (blk_cntr + Bit(Uncounted)) * block_len
  /\ blk_cntr + Bit(Uncounted) \in 1..num_blocks
BusInv == IdleInv /\ WaitInv /\ AddressInv /\ DoneInv

(* Registers are programmed for an empty manager, before the request.      *)
PlanInv ==
  /\ plan # "none" => settle <= SETTLE
  /\ dir # "none" => plan = dir
  /\ dir = "none" => Contents = <<>> /\ fifo_wr = <<>> /\ ~in_block
  /\ dir = "none" /\ plan # "none" => busreq_cs = "IDLE" /\ pos = 0 /\ gap = 0 /\ ram = {}

(* What is left of the block that the card delivers or takes.              *)
Left == block_len - (pos % block_len)
BlockInv == dir # "none" =>
  /\ ~in_block => pos % block_len = 0 /\ pos <= Total
  /\ in_block => pos + Left <= Total

(* A read: the words, in order, are in the memory, in the write queue, in  *)
(* the FIFO.                                                               *)
ReadWords == MemRd =>
  /\ pos = Taken + Len(wdatq) + Len(Contents) + Len(fifo_wr)
  /\ Contents = Run(pos - Len(fifo_wr) - Len(Contents), Len(Contents))
  /\ fifo_wr # <<>> => fifo_wr[1] = pos - 1
  /\ wdatq # <<>> => wdatq[1].data = Taken
  /\ ram = {<<k, k>> : k \in 0..Taken - 1}

(* The card does not run ahead of a burst, so that the word counter of the *)
(* burst is right.                                                         *)
AheadInv == MemRd =>
  /\ busreq_cs # "IDLE" => pos <= axaddr + block_len
  /\ Active => /\ wcntr = IF Beat + Len(wdatq) <= axlen
                          THEN axlen - (Beat + Len(wdatq)) ELSE 0
               /\ wlast <=> wcntr = 0
  /\ busreq_cs = "WAIT" =>
       /\ gteq_axlen => (wcntr = 0 <=> axlen = 0)
       /\ pos = axaddr + block_len =>
            ~in_block /\ (gap = GAP \/ (gteq_axlen /\ gap + 1 >= GAP))

(* A write: what has been fetched is in the FIFO, in order, but for what   *)
(* the card has taken.                                                     *)
WriteWords == MemWr =>
  /\ Taken = pos + Len(Contents) + Len(fifo_wr)
  /\ Contents = Run(pos, Len(Contents))
  /\ fifo_wr # <<>> => fifo_wr[1] = pos + Len(Contents)

(* A block to the card finds every one of its words at the FIFO's output.  *)
BlockWordsInv == MemWr =>
  /\ ~in_block /\ gap < GAP /\ mem_avail => AlmostAtOutput(block_len)
  /\ in_block => AtOutput(Left)

FlowInv == /\ PartInv /\ BusInv /\ PlanInv /\ BlockInv
           /\ ReadWords /\ AheadInv /\ WriteWords /\ BlockWordsInv

(* The registers and the history variables of the card's side.             *)
CpTypes ==
  /\ settle \in Nat /\ gap <= GAP /\ dirty \in BOOLEAN
  /\ req_done_dly[1] \in BOOLEAN /\ req_done_dly[2] \in BOOLEAN
  /\ mem_avail \in BOOLEAN /\ mem_free \in BOOLEAN /\ gteq_axlen \in BOOLEAN

(* All of it: an inductive invariant.  After a withdrawn request nothing   *)
(* but the shape of its burst is claimed, and none follows before a reset. *)
WordsInv == /\ AxiInv /\ CpTypes /\ ShapeInv
            /\ dirty => dir = "none" /\ plan = "none"
            /\ ~dirty => FlowInv

----------------------------------------------------------------------------
(* One edge of the manager.                                                *)

(* awlen and arlen: one less than the beats of the burst.                  *)
LEMMA AxlenIs ==
  ASSUME NEW m \in Nat \ {0}, NEW a \in 1..m
  PROVE  (a + m - 1) % m = a - 1
<1>1. a - 1 \in 0..(m - 1)
  OBVIOUS
<1>2. \A k \in 0..(m - 1) : (k + m) % m = k
  OBVIOUS
<1>3. a + m - 1 = (a - 1) + m
  OBVIOUS
<1> QED BY <1>1, <1>2, <1>3

(* The types that the lemmas below share.                                  *)
LEMMA Typed ==
  ASSUME WordsInv, InUse
  PROVE  /\ busreq_cs \in {"IDLE", "WAIT", "READ", "WRITE", "DONE"}
         /\ axaddr \in Nat /\ axlen_p1 \in 0..MAX_BURST /\ axlen \in Nat /\ wcntr \in Nat
         /\ blk_cntr \in Nat /\ all_blocks_done \in BOOLEAN
         /\ MAX_BURST \in Nat \ {0} /\ SETTLE \in Nat \ {0} /\ GAP \in Nat /\ GAP >= 2
         /\ block_len \in 1..MAX_BURST /\ block_len \in Nat \ {0}
         /\ num_blocks \in Nat \ {0}
         /\ BurstOf(block_len) = block_len /\ (BIG_BLOCKS => block_len >= 3)
         /\ 2 * block_len <= SIZE /\ SIZE \in Nat
         /\ pos \in Nat /\ gap \in 0..GAP /\ in_block \in BOOLEAN
         /\ dir \in Kinds /\ plan \in Kinds /\ BIG_BLOCKS \in BOOLEAN
         /\ busreq_cs = "DONE" <=> burst # <<>>
         /\ busreq_cs = "DONE" => burst.beat \in Nat /\ burst.kind \in {"READ", "WRITE"}
         /\ Beat \in Nat /\ Taken \in Nat
         /\ dirty => dir = "none" /\ plan = "none"
<1>1. block_len \in BLOCK_WORDS /\ num_blocks \in NUM_BLOCKS /\ gap \in Nat /\ gap <= GAP
  BY DEF WordsInv, CpTypes, AxiInv, SideTypeOK
<1>2. BurstOf(block_len) = block_len /\ (BIG_BLOCKS => block_len >= 3)
  BY <1>1 DEF InUse
<1>3. MAX_BURST \in Nat \ {0} /\ block_len \in Nat \ {0} /\ GAP \in Nat
  BY <1>1, AxiAssumption
<1>4. block_len \in 1..MAX_BURST
  BY <1>2, <1>3 DEF BurstOf
<1>5. 2 * block_len <= SIZE /\ GAP >= 2 /\ SIZE \in Nat
  BY <1>1, RoomAssumption, FifoAssumption
<1>6. SETTLE \in Nat \ {0} /\ BIG_BLOCKS \in BOOLEAN /\ num_blocks \in Nat \ {0}
  BY <1>1, AxiAssumption DEF InUse
<1>7. /\ busreq_cs \in {"IDLE", "WAIT", "READ", "WRITE", "DONE"}
      /\ axaddr \in Nat /\ axlen_p1 \in 0..MAX_BURST /\ axlen \in Nat /\ wcntr \in Nat
      /\ blk_cntr \in Nat /\ all_blocks_done \in BOOLEAN
      /\ pos \in Nat /\ in_block \in BOOLEAN /\ dir \in Kinds /\ plan \in Kinds
      /\ busreq_cs = "DONE" <=> burst # <<>>
      /\ dirty => dir = "none" /\ plan = "none"
  BY <1>3 DEF WordsInv, AxiInv, AxiTypeOK, SideTypeOK
<1>8. busreq_cs = "DONE" => burst.beat \in Nat /\ burst.kind \in {"READ", "WRITE"}
  BY DEF WordsInv, AxiInv, SideTypeOK
<1>9. Beat \in Nat /\ Taken \in Nat
  BY <1>7, <1>8 DEF Beat, Taken
<1>10. gap \in 0..GAP
  BY <1>1, <1>3
<1> QED BY <1>2, <1>3, <1>4, <1>5, <1>6, <1>7, <1>8, <1>9, <1>10

(* The wires of a state without a burst.                                   *)
LEMMA NoBeat ==
  ASSUME WordsInv, InUse, NEW beat \in BOOLEAN
  PROVE  /\ busreq_cs # "DONE" =>
              ~WrDatVld(beat) /\ ~RdDatVld(beat) /\ ~DatDone(beat)
         /\ busreq_cs \in {"IDLE", "WAIT"} => wdatq = <<>> /\ ~WdatqWren(beat)
         /\ RdDatVld(beat) => busreq_cs = "DONE" /\ burst.kind = "READ" /\ wdatq = <<>>
         /\ WrDatVld(beat) => busreq_cs = "DONE" /\ burst.kind = "WRITE"
         /\ ~(RdDatVld(beat) /\ WrDatVld(beat))
         /\ DatDone(beat) => Beat = axlen /\ (WrDatVld(beat) \/ RdDatVld(beat))
         /\ (WrDatVld(beat) \/ RdDatVld(beat)) /\ ~DatDone(beat) => Beat # axlen
<1>1. busreq_cs = "DONE" <=> burst # <<>>
  BY Typed
<1>2. busreq_cs # "DONE" => ~WrDatVld(beat) /\ ~RdDatVld(beat) /\ ~DatDone(beat)
  BY <1>1 DEF WrDatVld, RdDatVld, DatDone, WrDatDone, RdDatDone
<1>3. busreq_cs \in {"IDLE", "WAIT"} => wdatq = <<>> /\ ~WdatqWren(beat)
  BY DEF WordsInv, ShapeInv, WdatqWren
<1>4. RdDatVld(beat) => busreq_cs = "DONE" /\ burst.kind = "READ" /\ wdatq = <<>>
  BY <1>1 DEF RdDatVld, WordsInv, ShapeInv
<1>5. WrDatVld(beat) => busreq_cs = "DONE" /\ burst.kind = "WRITE"
  BY DEF WrDatVld, WordsInv, ShapeInv
<1>6. busreq_cs = "DONE" => Beat = burst.beat /\ burst.len = axlen
  BY DEF Beat, WordsInv, ShapeInv
<1>7. wdatq # <<>> => (wdatq[1].last <=> Beat = axlen)
  BY DEF WordsInv, ShapeInv
<1>8. WrDatVld(beat) => wdatq # <<>>
  BY DEF WrDatVld
<1> QED BY <1>2, <1>3, <1>4, <1>5, <1>6, <1>7, <1>8 DEF DatDone, WrDatDone, RdDatDone

(* The edge of a state with a burst, be its address taken or not.          *)
LEMMA BurstStep ==
  ASSUME WordsInv, InUse, Active,
         NEW aready \in BOOLEAN, NEW beat \in BOOLEAN, NEW bvalid \in BOOLEAN,
         BusFsm(aready, beat), Subordinate(aready, beat, bvalid)
  PROVE  /\ busreq_cs' = IF DatDone(beat) THEN "WAIT"
                         ELSE IF ReqDone(aready) THEN "DONE" ELSE busreq_cs
         /\ axaddr' = IF DatDone(beat) THEN axaddr + axlen_p1 ELSE axaddr
         /\ wcntr' = WcntrD(beat) /\ (wlast' <=> WcntrD(beat) = 0)
         /\ blk_cntr' = IF IncrBlkCnt(aready) THEN blk_cntr + 1 ELSE blk_cntr
         /\ axlen_p1' = axlen_p1 /\ axlen' = axlen
         /\ ReqDone(aready) =>
              burst' = [kind |-> busreq_cs, addr |-> axaddr, len |-> axlen, beat |-> 0]
         /\ busreq_cs = "DONE" /\ ~DatDone(beat) =>
              /\ burst'.kind = burst.kind /\ burst'.addr = burst.addr
              /\ burst'.len = burst.len
              /\ burst'.beat = burst.beat + Bit(WrDatVld(beat) \/ RdDatVld(beat))
         /\ Beat' = IF DatDone(beat) THEN 0
                    ELSE Beat + Bit(WrDatVld(beat) \/ RdDatVld(beat))
         /\ Taken' = Taken + Bit(WrDatVld(beat) \/ RdDatVld(beat))
<1> DEFINE v == WrDatVld(beat) \/ RdDatVld(beat)
<1>1. BusBurst(aready, beat)
  BY DEF BusFsm, BusIdle, BusWait, Active
<1>2. axlen' = axlen
  <2>1. axlen_p1 \in 1..MAX_BURST /\ axlen = axlen_p1 - 1 /\ MAX_BURST \in Nat \ {0}
    BY Typed DEF WordsInv, ShapeInv
  <2>2. axlen' = (axlen_p1 + MAX_BURST - 1) % MAX_BURST
    BY DEF BusFsm
  <2> QED BY <2>1, <2>2, AxlenIs
<1>3. /\ busreq_cs' = IF DatDone(beat) THEN "WAIT"
                      ELSE IF ReqDone(aready) THEN "DONE" ELSE busreq_cs
      /\ axaddr' = IF DatDone(beat) THEN axaddr + axlen_p1 ELSE axaddr
      /\ wcntr' = WcntrD(beat) /\ (wlast' <=> WcntrD(beat) = 0)
      /\ blk_cntr' = IF IncrBlkCnt(aready) THEN blk_cntr + 1 ELSE blk_cntr
      /\ axlen_p1' = axlen_p1
  BY <1>1 DEF BusBurst
<1>4. ReqDone(aready) =>
        burst' = [kind |-> busreq_cs, addr |-> axaddr, len |-> axlen, beat |-> 0]
  BY DEF Subordinate
<1>5. busreq_cs = "DONE" <=> ~ReqDone(aready) /\ busreq_cs = "DONE"
  BY DEF ReqDone
<1>6. /\ axaddr \in Nat /\ axlen_p1 \in Nat /\ axlen \in Nat /\ Beat \in Nat
      /\ axlen_p1 = axlen + 1
  BY Typed DEF WordsInv, ShapeInv
<1>7. busreq_cs = "DONE" =>
        burst \in [kind : {"READ", "WRITE"}, addr : Nat, len : 0..(MAX_BURST - 1), beat : Nat]
  BY DEF WordsInv, AxiInv, SideTypeOK
<1>8. busreq_cs = "DONE" /\ ~DatDone(beat) =>
        /\ burst'.kind = burst.kind /\ burst'.addr = burst.addr
        /\ burst'.len = burst.len
        /\ burst'.beat = burst.beat + Bit(v)
  <2> SUFFICES ASSUME busreq_cs = "DONE", ~DatDone(beat)
               PROVE  /\ burst'.kind = burst.kind /\ burst'.addr = burst.addr
                      /\ burst'.len = burst.len
                      /\ burst'.beat = burst.beat + Bit(v)
    OBVIOUS
  <2>1. CASE v
    <3>1. burst' = [burst EXCEPT !.beat = @ + 1]
      BY <1>5, <2>1 DEF Subordinate
    <3>2. Bit(v) = 1
      BY <2>1 DEF Bit
    <3> QED BY <1>7, <3>1, <3>2
  <2>2. CASE ~v
    <3>1. burst' = burst
      BY <1>5, <2>2 DEF Subordinate
    <3>2. Bit(v) = 0
      BY <2>2 DEF Bit
    <3> QED BY <1>7, <3>1, <3>2
  <2> QED BY <2>1, <2>2
<1>9. Bit(v) \in 0..1 /\ (DatDone(beat) => Bit(v) = 1 /\ Beat = axlen /\ busreq_cs = "DONE")
      /\ (busreq_cs # "DONE" => Bit(v) = 0 /\ Beat = 0)
  <2>1. DatDone(beat) => v /\ Beat = axlen /\ busreq_cs = "DONE"
    BY NoBeat
  <2>2. busreq_cs # "DONE" => ~v /\ Beat = 0
    BY NoBeat DEF Beat
  <2> HIDE DEF v
  <2> QED BY <2>1, <2>2 DEF Bit
<1>10. Beat' = IF DatDone(beat) THEN 0 ELSE Beat + Bit(v)
  <2>1. CASE DatDone(beat) BY <1>3, <2>1 DEF Beat
  <2>2. CASE ~DatDone(beat) /\ busreq_cs = "DONE"
    BY <1>3, <1>5, <1>8, <2>2 DEF Beat
  <2>3. CASE ~DatDone(beat) /\ busreq_cs # "DONE" /\ ReqDone(aready)
    <3>1. burst'.beat = 0 /\ busreq_cs' = "DONE"
      BY <1>3, <1>4, <2>3
    <3> HIDE DEF v
    <3> QED BY <1>9, <2>3, <3>1 DEF Beat
  <2>4. CASE ~DatDone(beat) /\ busreq_cs # "DONE" /\ ~ReqDone(aready)
    <3>1. busreq_cs' # "DONE"
      BY <1>3, <2>4
    <3> HIDE DEF v
    <3> QED BY <1>9, <2>4, <3>1 DEF Beat
  <2> QED BY <2>1, <2>2, <2>3, <2>4
<1>11. Taken' = Taken + Bit(v)
  <2>1. Taken' = axaddr' + Beat' /\ Taken = axaddr + Beat
    BY DEF Taken
  <2> HIDE DEF v
  <2>2. CASE DatDone(beat) BY <1>3, <1>6, <1>9, <1>10, <2>1, <2>2
  <2>3. CASE ~DatDone(beat) BY <1>3, <1>6, <1>9, <1>10, <2>1, <2>3
  <2> QED BY <2>2, <2>3
<1> QED BY <1>2, <1>3, <1>4, <1>8, <1>10, <1>11

(* The edge of a state without a burst.                                    *)
LEMMA IdleStep ==
  ASSUME WordsInv, InUse, busreq_cs = "IDLE",
         NEW aready \in BOOLEAN, NEW beat \in BOOLEAN, NEW bvalid \in BOOLEAN,
         BusFsm(aready, beat), Subordinate(aready, beat, bvalid)
  PROVE  /\ busreq_cs' = IF MemRd \/ MemWr THEN "WAIT" ELSE "IDLE"
         /\ blk_cntr' = 0 /\ wcntr' = 0 /\ axaddr' = 0
         /\ axlen_p1' = block_len
         /\ axlen_p1 > 0 => axlen' = axlen_p1 - 1
         /\ all_blocks_done' = (blk_cntr = num_blocks)
         /\ wdatq' = <<>> /\ Beat' = 0
<1>1. BusIdle
  BY DEF BusFsm, BusWait, BusBurst
<1>2. axlen_p1 > 0 => axlen' = axlen_p1 - 1
  <2> SUFFICES ASSUME axlen_p1 > 0 PROVE axlen' = axlen_p1 - 1
    OBVIOUS
  <2>1. axlen_p1 \in 1..MAX_BURST /\ MAX_BURST \in Nat \ {0}
    BY Typed
  <2>2. axlen' = (axlen_p1 + MAX_BURST - 1) % MAX_BURST
    BY DEF BusFsm
  <2> QED BY <2>1, <2>2, AxlenIs
<1>3. wdatq' = <<>>
  BY NoBeat DEF BusFsm
<1>4. busreq_cs' # "DONE"
  BY <1>1 DEF BusIdle
<1> QED BY <1>1, <1>2, <1>3, <1>4, Typed DEF BusIdle, BusFsm, Beat

(* The edge of the state that waits for the next block.                    *)
LEMMA WaitStep ==
  ASSUME WordsInv, InUse, busreq_cs = "WAIT",
         NEW aready \in BOOLEAN, NEW beat \in BOOLEAN, NEW bvalid \in BOOLEAN,
         BusFsm(aready, beat), Subordinate(aready, beat, bvalid)
  PROVE  /\ all_blocks_done => busreq_cs' = IF MemRd \/ MemWr THEN "WAIT" ELSE "IDLE"
         /\ ~all_blocks_done /\ MemWr => busreq_cs' = "READ"
         /\ ~all_blocks_done /\ MemRd =>
              busreq_cs' = IF gteq_axlen THEN "WRITE" ELSE "WAIT"
         /\ ~all_blocks_done /\ ~MemRd /\ ~MemWr => busreq_cs' = "WAIT"
         /\ axaddr' = axaddr /\ axlen_p1' = axlen_p1
         /\ wcntr' = axlen /\ (wlast' <=> wcntr = 0)
         /\ blk_cntr' = IF IncrBlkCnt(aready) THEN blk_cntr + 1 ELSE blk_cntr
         /\ axlen_p1 > 0 => axlen' = axlen_p1 - 1
         /\ all_blocks_done' = (blk_cntr = num_blocks)
         /\ wdatq' = <<>> /\ Beat' = 0 /\ ~ReqDone(aready)
<1>1. BusWait(aready, beat)
  BY DEF BusFsm, BusIdle, BusBurst
<1>2. axlen_p1 > 0 => axlen' = axlen_p1 - 1
  <2> SUFFICES ASSUME axlen_p1 > 0 PROVE axlen' = axlen_p1 - 1
    OBVIOUS
  <2>1. axlen_p1 \in 1..MAX_BURST /\ MAX_BURST \in Nat \ {0}
    BY Typed
  <2>2. axlen' = (axlen_p1 + MAX_BURST - 1) % MAX_BURST
    BY DEF BusFsm
  <2> QED BY <2>1, <2>2, AxlenIs
<1>3. wdatq' = <<>> /\ WcntrD(beat) = wcntr
  BY NoBeat DEF BusFsm, WcntrD
<1>4. all_blocks_done \in BOOLEAN /\ gteq_axlen \in BOOLEAN /\ ~(MemRd /\ MemWr)
  BY DEF WordsInv, AxiInv, AxiTypeOK, CpTypes, MemRd, MemWr
<1>5. /\ all_blocks_done => busreq_cs' = IF MemRd \/ MemWr THEN "WAIT" ELSE "IDLE"
      /\ ~all_blocks_done /\ MemWr => busreq_cs' = "READ"
      /\ ~all_blocks_done /\ MemRd =>
           busreq_cs' = IF gteq_axlen THEN "WRITE" ELSE "WAIT"
      /\ ~all_blocks_done /\ ~MemRd /\ ~MemWr => busreq_cs' = "WAIT"
  <2> USE <1>1, <1>4 DEF BusWait, WaitNext
  <2>1. CASE all_blocks_done BY <2>1
  <2>2. CASE ~all_blocks_done /\ MemWr BY <2>2
  <2>3. CASE ~all_blocks_done /\ MemRd /\ gteq_axlen BY <2>3
  <2>4. CASE ~all_blocks_done /\ MemRd /\ ~gteq_axlen BY <2>4
  <2>5. CASE ~all_blocks_done /\ ~MemRd /\ ~MemWr BY <2>5
  <2> QED BY <2>1, <2>2, <2>3, <2>4, <2>5
<1>6. busreq_cs' # "DONE"
  BY <1>4, <1>5
<1> QED BY <1>1, <1>2, <1>3, <1>5, <1>6 DEF BusWait, BusFsm, Beat, ReqDone

(* With its last beat on the bus, a burst to memory has used up all the    *)
(* words that the card was allowed to send.                                *)
LEMMA LastBeat ==
  ASSUME Data = Nat, WordsInv, InUse, NEW beat \in BOOLEAN, MemRd, DatDone(beat)
  PROVE  /\ Contents = <<>> /\ fifo_wr = <<>> /\ ~WdatqWren(beat)
         /\ WrDatVld(beat) /\ pos = axaddr + block_len
         /\ Taken + 1 = pos /\ Len(wdatq) = 1
<1> DEFINE q == Len(wdatq)  n == Len(Contents)  w == Len(fifo_wr)
<1>1. /\ busreq_cs = "DONE" /\ Beat = axlen /\ dir # "none"
      /\ WrDatVld(beat) \/ RdDatVld(beat)
  BY NoBeat, Typed DEF MemRd, DatDone, WrDatDone, WrDatVld, RdDatDone, RdDatVld
<1>2. FlowInv /\ ~dirty
  BY <1>1, Typed DEF WordsInv, CpTypes
<1>3. burst.kind = "WRITE"
  BY <1>1, <1>2 DEF FlowInv, BusInv, DoneInv
<1>4. WrDatVld(beat) /\ wdatq # <<>>
  BY <1>1, <1>3, NoBeat DEF WrDatVld
<1>5. /\ pos = Taken + q + n + w /\ pos <= axaddr + block_len
      /\ axlen_p1 = block_len /\ axlen = axlen_p1 - 1 /\ Taken = axaddr + axlen
  BY <1>1, <1>2 DEF FlowInv, ReadWords, AheadInv, BusInv, DoneInv, WordsInv, ShapeInv,
                    Active, Taken
<1>6. /\ q \in Nat /\ n \in Nat /\ w \in Nat /\ q # 0 /\ q <= 1
      /\ (n = 0 => Contents = <<>>) /\ (w = 0 => fifo_wr = <<>>)
      /\ Contents \in Seq(Nat)
  <2>1. /\ wdatq \in Seq([data : Nat, last : BOOLEAN]) /\ fifo_wr \in Seq(Nat) /\ q <= 1
        /\ Contents \in Seq(Nat)
    BY DEF WordsInv, AxiInv, SideTypeOK, AxiTypeOK, FifoTypeOK, Contents
  <2> QED BY <1>4, <2>1
<1>7. axaddr \in Nat /\ axlen \in Nat /\ block_len \in Nat /\ pos \in Nat
  BY Typed
<1>8. n = 0 /\ w = 0 /\ pos = axaddr + block_len /\ Taken + 1 = pos /\ q = 1
  <2> HIDE DEF q, n, w
  <2> QED BY <1>5, <1>6, <1>7
<1>9. Emty
  <2>1. pipe \in Seq(Nat) /\ latch \in Seq(Nat) /\ mem \in Seq(Nat)
    BY DEF WordsInv, AxiInv, AxiTypeOK, FifoTypeOK
  <2>2. Contents = <<>>
    BY <1>6, <1>8
  <2>3. Len(pipe \o latch \o mem) = Len(pipe) + Len(latch) + Len(mem)
    BY <2>1
  <2>4. Len(pipe \o latch \o mem) = 0
    BY <2>2 DEF Contents
  <2> DEFINE a == Len(pipe)  b == Len(latch)  c == Len(mem)
  <2>5. a \in Nat /\ b \in Nat /\ c \in Nat /\ a + b + c = 0 /\ (a = 0 => pipe = <<>>)
    BY <2>1, <2>3, <2>4
  <2> HIDE DEF a, b, c
  <2>6. a = 0
    BY <2>5
  <2> QED BY <2>5, <2>6 DEF Emty
<1> QED BY <1>4, <1>6, <1>8, <1>9 DEF WdatqWren

(* What the write queue gets on an edge of a burst to memory.              *)
LEMMA QueueStep ==
  ASSUME Data = Nat, WordsInv, InUse, Active,
         NEW aready \in BOOLEAN, NEW beat \in BOOLEAN,
         BusFsm(aready, beat)
  PROVE  /\ WdatqWren(beat) =>
              /\ MemRd /\ ~Emty /\ (wdatq = <<>> \/ WrDatVld(beat))
              /\ wdatq' = <<[data |-> Rdat, last |-> wlast]>>
         /\ ~WdatqWren(beat) => wdatq' = IF WrDatVld(beat) THEN <<>> ELSE wdatq
         /\ Len(wdatq') = Len(wdatq) + Bit(WdatqWren(beat)) - Bit(WrDatVld(beat))
         /\ Len(wdatq) \in 0..1 /\ (Len(wdatq) = 0 <=> wdatq = <<>>)
         /\ WrDatVld(beat) => Len(wdatq) = 1
<1> DEFINE q == Len(wdatq)  v == WrDatVld(beat)  f == WdatqWren(beat)
<1>1. q \in 0..1 /\ (q = 0 <=> wdatq = <<>>) /\ (v => q = 1)
  <2>1. wdatq \in Seq([data : Nat, last : BOOLEAN]) /\ q <= 1
    BY DEF WordsInv, AxiInv, SideTypeOK, AxiTypeOK
  <2>2. q \in Nat /\ (q = 0 <=> wdatq = <<>>)
    BY <2>1
  <2>3. v => wdatq # <<>>
    BY DEF WrDatVld
  <2> HIDE DEF q, v
  <2> QED BY <2>1, <2>2, <2>3
<1>2. /\ f => /\ MemRd /\ ~Emty /\ (wdatq = <<>> \/ v)
              /\ wdatq' = <<[data |-> Rdat, last |-> wlast]>>
      /\ ~f => wdatq' = IF v THEN <<>> ELSE wdatq
  BY DEF BusFsm, WdatqWren
<1>3. Len(<<>>) = 0 /\ Len(<<[data |-> Rdat, last |-> wlast]>>) = 1
  OBVIOUS
<1> HIDE DEF v, f
<1>4. Len(wdatq') = q + Bit(f) - Bit(v)
  <2> HIDE DEF q
  <2>1. CASE f /\ v BY <1>1, <1>2, <1>3, <2>1 DEF Bit
  <2>2. CASE f /\ ~v BY <1>1, <1>2, <1>3, <2>2 DEF Bit
  <2>3. CASE ~f /\ v BY <1>1, <1>2, <1>3, <2>3 DEF Bit
  <2>4. CASE ~f /\ ~v
    <3>1. wdatq' = wdatq /\ Bit(f) = 0 /\ Bit(v) = 0
      BY <1>2, <2>4 DEF Bit
    <3> QED BY <1>1, <3>1 DEF q
  <2> QED BY <2>1, <2>2, <2>3, <2>4
<1> QED BY <1>1, <1>2, <1>4 DEF v, f

(* The write queue in any state: it is empty without a burst.              *)
LEMMA QueueMoves ==
  ASSUME Data = Nat, WordsInv, InUse,
         NEW aready \in BOOLEAN, NEW beat \in BOOLEAN,
         BusFsm(aready, beat)
  PROVE  /\ WdatqWren(beat) =>
              /\ MemRd /\ ~Emty /\ (wdatq = <<>> \/ WrDatVld(beat))
              /\ wdatq' = <<[data |-> Rdat, last |-> wlast]>>
         /\ ~WdatqWren(beat) => wdatq' = IF WrDatVld(beat) THEN <<>> ELSE wdatq
         /\ Len(wdatq') = Len(wdatq) + Bit(WdatqWren(beat)) - Bit(WrDatVld(beat))
         /\ Len(wdatq) \in 0..1 /\ (Len(wdatq) = 0 <=> wdatq = <<>>)
         /\ WrDatVld(beat) => Len(wdatq) = 1
<1>1. CASE Active
  BY <1>1, QueueStep
<1>2. CASE ~Active
  <2>1. busreq_cs \in {"IDLE", "WAIT"}
    BY <1>2, Typed DEF Active
  <2>2. wdatq = <<>> /\ ~WdatqWren(beat) /\ ~WrDatVld(beat)
    BY <2>1, NoBeat
  <2>3. wdatq' = <<>>
    BY <2>2 DEF BusFsm
  <2>4. Len(<<>>) = 0 /\ 0 \in 0..1
    OBVIOUS
  <2>5. Bit(WdatqWren(beat)) = 0 /\ Bit(WrDatVld(beat)) = 0
    BY <2>2 DEF Bit
  <2> QED BY <2>2, <2>3, <2>4, <2>5
<1> QED BY <1>1, <1>2

(* The registers of the command processor's side keep their types.         *)
LEMMA CpTypesKept ==
  ASSUME WordsInv, InUse, NEW aready \in BOOLEAN, NEW beat \in BOOLEAN,
         NEW word \in BOOLEAN, PartialBlocks(aready), FifoSide(beat, word),
         CpStep(beat, word)
  PROVE  CpTypes' /\ (dirty' => dir' = "none" /\ plan' = "none")
<1>0. /\ CpTypes /\ (dirty => dir = "none" /\ plan = "none")
      /\ SETTLE \in Nat /\ GAP \in Nat /\ gap \in 0..GAP
  BY Typed DEF WordsInv
<1>1. req_done_dly'[1] \in BOOLEAN /\ req_done_dly'[2] \in BOOLEAN
  <2>1. CASE ~BIG_BLOCKS
    BY <1>0, <2>1 DEF PartialBlocks, partVars, CpTypes
  <2>2. CASE BIG_BLOCKS
    <3>1. req_done_dly' = <<ReqDone(aready), req_done_dly[1]>>
      BY <2>2 DEF PartialBlocks
    <3>2. ReqDone(aready) \in BOOLEAN
      BY DEF ReqDone
    <3> QED BY <1>0, <3>1, <3>2 DEF CpTypes
  <2> QED BY <2>1, <2>2
<1>2. mem_avail' \in BOOLEAN /\ mem_free' \in BOOLEAN /\ gteq_axlen' \in BOOLEAN
  BY DEF FifoSide, Avail
<1>3. /\ settle' \in Nat /\ gap' <= GAP /\ dirty' \in BOOLEAN
      /\ (dirty' => dir' = "none" /\ plan' = "none")
  <2> USE <1>0 DEF CpTypes, CpSame
  <2>1. CASE CpProgram BY <2>1 DEF CpProgram
  <2>2. CASE CpRaise BY <2>2 DEF CpRaise
  <2>3. CASE CpStart(beat) BY <2>3 DEF CpStart
  <2>4. CASE CpRest(beat) BY <2>4 DEF CpRest
  <2>5. CASE CpFinish(beat) BY <2>5 DEF CpFinish
  <2>6. CASE CpAbandon(beat) BY <2>6 DEF CpAbandon
  <2>7. CASE CpWord(beat) BY <2>7 DEF CpWord
  <2> QED BY <2>1, <2>2, <2>3, <2>4, <2>5, <2>6, <2>7 DEF CpStep
<1> QED BY <1>1, <1>2, <1>3 DEF CpTypes

(* Every burst keeps its shape, also one whose request is withdrawn.       *)
LEMMA ShapeKept ==
  ASSUME Data = Nat, WordsInv, InUse,
         NEW aready \in BOOLEAN, NEW beat \in BOOLEAN, NEW bvalid \in BOOLEAN,
         BusFsm(aready, beat), Subordinate(aready, beat, bvalid)
  PROVE  ShapeInv'
<1> DEFINE q == Len(wdatq)  v == WrDatVld(beat)  f == WdatqWren(beat)
           r == RdDatVld(beat)
<1>0. /\ busreq_cs \in {"IDLE", "WAIT", "READ", "WRITE", "DONE"}
      /\ dirty => dir = "none"
      /\ block_len \in Nat \ {0} /\ axlen \in Nat /\ Beat \in Nat /\ wcntr \in Nat
  BY Typed
<1>1. CASE busreq_cs = "IDLE"
  <2>1. wdatq' = <<>> /\ busreq_cs' \in {"IDLE", "WAIT"}
    BY <1>1, IdleStep
  <2> QED BY <2>1 DEF ShapeInv, Active
<1>2. CASE busreq_cs = "WAIT"
  <2>1. wdatq' = <<>> /\ axlen_p1' = axlen_p1 /\ (axlen_p1 > 0 => axlen' = axlen_p1 - 1)
    BY <1>2, WaitStep
  <2>2. busreq_cs' \in {"IDLE", "WAIT", "READ", "WRITE"}
        /\ (busreq_cs' \in {"READ", "WRITE"} => MemRd \/ MemWr)
    BY <1>2, WaitStep, Typed
  <2>3. MemRd \/ MemWr => axlen_p1 = block_len
    <3>1. MemRd \/ MemWr => ~dirty
      BY <1>0 DEF MemRd, MemWr, WordsInv, CpTypes
    <3> QED BY <1>2, <3>1 DEF WordsInv, FlowInv, BusInv, WaitInv
  <2> QED BY <1>0, <2>1, <2>2, <2>3 DEF ShapeInv, Active
<1>3. CASE Active /\ DatDone(beat)
  <2>1. busreq_cs' = "WAIT"
    BY <1>3, BurstStep
  <2>2. ~f
    BY <1>3, LastBeat DEF WdatqWren
  <2>3. ~v => wdatq = <<>>
    BY <1>3, NoBeat
  <2>4. wdatq' = <<>>
    BY <2>2, <2>3, QueueMoves
  <2> QED BY <2>1, <2>4 DEF ShapeInv, Active
<1>4. CASE Active /\ ~DatDone(beat)
  <2>1. /\ busreq_cs' = IF ReqDone(aready) THEN "DONE" ELSE busreq_cs
        /\ axlen_p1' = axlen_p1 /\ axlen' = axlen
        /\ ReqDone(aready) => burst'.kind = busreq_cs /\ burst'.len = axlen /\ burst'.beat = 0
        /\ busreq_cs = "DONE" =>
             burst'.kind = burst.kind /\ burst'.len = burst.len
             /\ burst'.beat = burst.beat + Bit(v \/ r)
        /\ Beat' = Beat + Bit(v \/ r)
    BY <1>4, BurstStep
  <2>2. axlen_p1' > 0 /\ axlen' = axlen_p1' - 1
    BY <1>4, <2>1 DEF WordsInv, ShapeInv
  <2>3. busreq_cs' = "DONE" => burst'.len = axlen' /\ burst'.beat <= axlen'
    <3>1. CASE busreq_cs = "DONE"
      <4>1. burst.beat \in Nat /\ burst.beat <= axlen /\ burst.len = axlen /\ Beat = burst.beat
        BY <3>1, Typed DEF WordsInv, ShapeInv, Beat
      <4>2. v \/ r => Beat # axlen
        BY <1>4, NoBeat
      <4>3. CASE v \/ r
        <5>1. Bit(v \/ r) = 1
          BY <4>3 DEF Bit
        <5> QED BY <1>0, <2>1, <3>1, <4>1, <4>2, <4>3, <5>1
      <4>4. CASE ~(v \/ r)
        <5>1. Bit(v \/ r) = 0
          BY <4>4 DEF Bit
        <5> QED BY <1>0, <2>1, <3>1, <4>1, <5>1
      <4> QED BY <4>3, <4>4
    <3>2. CASE busreq_cs # "DONE"
      BY <1>0, <2>1, <3>2
    <3> QED BY <3>1, <3>2
  <2>4. ASSUME wdatq' # <<>>
        PROVE  /\ busreq_cs' = "WRITE" \/ (busreq_cs' = "DONE" /\ burst'.kind = "WRITE")
               /\ wdatq'[1].last <=> Beat' = axlen'
    <3>1. CASE f
      <4>1. MemRd /\ (wdatq = <<>> \/ v) /\ wdatq' = <<[data |-> Rdat, last |-> wlast]>>
        BY <3>1, QueueMoves
      <4>2. ~dirty
        BY <1>0, <4>1 DEF MemRd, WordsInv, CpTypes
      <4>3. FlowInv
        BY <4>2 DEF WordsInv
      <4>4. busreq_cs = "WRITE" \/ (busreq_cs = "DONE" /\ burst.kind = "WRITE")
        BY <1>0, <1>4, <4>1, <4>3 DEF FlowInv, BusInv, AddressInv, DoneInv, Active
      <4>5. ~r
        BY <4>4, NoBeat
      <4>6. /\ wcntr = IF Beat + q <= axlen THEN axlen - (Beat + q) ELSE 0
            /\ wlast <=> wcntr = 0
        BY <1>4, <4>1, <4>3 DEF FlowInv, AheadInv
      <4>7. Beat <= axlen /\ (v => Beat # axlen)
        <5>1. Beat <= axlen
          BY <1>0, <1>4, Typed DEF WordsInv, ShapeInv, Beat, Active
        <5>2. v => Beat # axlen
          BY <1>4, NoBeat
        <5> QED BY <5>1, <5>2
      <4>8. q = Bit(v \/ r)
        <5>1. q \in 0..1 /\ (q = 0 <=> wdatq = <<>>) /\ (v => q = 1) /\ (v => wdatq # <<>>)
          BY QueueMoves DEF WrDatVld
        <5>2. CASE v
          BY <5>1, <5>2 DEF Bit
        <5>3. CASE ~v
          BY <4>1, <4>5, <5>1, <5>3 DEF Bit
        <5> QED BY <5>2, <5>3
      <4>9. Bit(v \/ r) \in 0..1 /\ (Bit(v \/ r) = 1 => v)
        BY <4>5 DEF Bit
      <4>10. wlast <=> Beat + Bit(v \/ r) = axlen
        <5> DEFINE k == Bit(v \/ r)
        <5>1. k \in 0..1 /\ (k = 1 => Beat # axlen) /\ q = k
          BY <4>7, <4>8, <4>9
        <5> HIDE DEF k, q
        <5>2. wcntr = 0 <=> Beat + q = axlen
          <6>1. CASE Beat + q <= axlen
            BY <1>0, <4>6, <5>1, <6>1
          <6>2. CASE ~(Beat + q <= axlen)
            BY <1>0, <4>7, <5>1, <6>2
          <6> QED BY <6>1, <6>2
        <5>3. wlast <=> Beat + k = axlen
          BY <4>6, <5>1, <5>2
        <5> QED BY <5>3 DEF k
      <4>11. wdatq'[1].last = wlast
        BY <4>1
      <4> QED BY <2>1, <4>4, <4>10, <4>11 DEF ReqDone
    <3>2. CASE ~f
      <4>1. ~v /\ wdatq' = wdatq
        BY <2>4, <3>2, QueueMoves
      <4>2. wdatq # <<>>
        BY <2>4, <4>1
      <4>3. ~r
        BY <4>2, NoBeat
      <4>4. Beat' = Beat
        BY <1>0, <2>1, <4>1, <4>3 DEF Bit
      <4>5. /\ busreq_cs = "WRITE" \/ (busreq_cs = "DONE" /\ burst.kind = "WRITE")
            /\ wdatq[1].last <=> Beat = axlen
        BY <4>2 DEF WordsInv, ShapeInv
      <4> QED BY <2>1, <4>1, <4>4, <4>5 DEF ReqDone
    <3> QED BY <3>1, <3>2
  <2> QED BY <2>2, <2>3, <2>4 DEF ShapeInv
<1> QED BY <1>0, <1>1, <1>2, <1>3, <1>4 DEF Active

----------------------------------------------------------------------------
(* A request that goes on.                                                 *)

(* The same request on both sides of an edge.                              *)
Goes == /\ dir # "none" /\ dir' = dir /\ plan' = plan /\ settle' = settle
        /\ block_len' = block_len /\ num_blocks' = num_blocks

(* What the command processor does while a request goes on.                *)
LEMMA CpGoes ==
  ASSUME WordsInv, InUse, NEW beat \in BOOLEAN, NEW word \in BOOLEAN,
         CpStep(beat, word), dir # "none", dir' # "none"
  PROVE  /\ Goes /\ Store(beat) /\ pos' = pos + Bit(word) /\ FlowInv /\ plan = dir
         /\ \/ ~word /\ CpStart(beat)
            \/ ~word /\ CpRest(beat)
            \/ word /\ CpWord(beat)
<1>0. pos \in Nat
  BY Typed
<1>1. /\ Store(beat)
      /\ \/ ~word /\ CpStart(beat)
         \/ ~word /\ CpRest(beat)
         \/ word /\ CpWord(beat)
  BY DEF CpStep, CpProgram, CpRaise, CpFinish, CpAbandon, CpStart, CpRest, CpWord
<1>2. FlowInv /\ plan = dir
  <2>1. ~dirty
    BY Typed DEF WordsInv, CpTypes
  <2> QED BY <2>1 DEF WordsInv, FlowInv, PlanInv
<1>3. CASE ~word /\ CpStart(beat)
  BY <1>0, <1>1, <1>2, <1>3 DEF CpStart, CpSame, Goes, Bit
<1>4. CASE ~word /\ CpRest(beat)
  BY <1>0, <1>1, <1>2, <1>4 DEF CpRest, CpSame, Goes, Bit
<1>5. CASE word /\ CpWord(beat)
  BY <1>0, <1>1, <1>2, <1>5 DEF CpWord, CpSame, Goes, Bit
<1> QED BY <1>1, <1>3, <1>4, <1>5

(* The bus goes from word to word.                                         *)
LEMMA TakenMoves ==
  ASSUME WordsInv, InUse, FlowInv, dir # "none",
         NEW aready \in BOOLEAN, NEW beat \in BOOLEAN, NEW bvalid \in BOOLEAN,
         BusFsm(aready, beat), Subordinate(aready, beat, bvalid)
  PROVE  /\ Taken' = Taken + Bit(WrDatVld(beat) \/ RdDatVld(beat))
         /\ MemRd => ~RdDatVld(beat)
         /\ MemWr => ~WrDatVld(beat) /\ ~WdatqWren(beat)
<1>0. Taken \in Nat /\ axaddr \in Nat /\ busreq_cs \in {"IDLE", "WAIT", "READ", "WRITE", "DONE"}
  BY Typed
<1>1. Taken' = Taken + Bit(WrDatVld(beat) \/ RdDatVld(beat))
  <2>1. CASE Active
    BY <2>1, BurstStep
  <2>2. CASE busreq_cs = "IDLE"
    <3>1. axaddr = 0 /\ axaddr' = 0 /\ Beat' = 0 /\ Beat = 0
      BY <2>2, IdleStep DEF FlowInv, BusInv, IdleInv, Beat
    <3>2. Bit(WrDatVld(beat) \/ RdDatVld(beat)) = 0
      BY <2>2, NoBeat DEF Bit
    <3> QED BY <3>1, <3>2 DEF Taken
  <2>3. CASE busreq_cs = "WAIT"
    <3>1. axaddr' = axaddr /\ Beat' = 0 /\ Beat = 0
      BY <2>3, WaitStep DEF Beat
    <3>2. Bit(WrDatVld(beat) \/ RdDatVld(beat)) = 0
      BY <2>3, NoBeat DEF Bit
    <3> QED BY <1>0, <3>1, <3>2 DEF Taken
  <2> QED BY <1>0, <2>1, <2>2, <2>3 DEF Active
<1>2. busreq_cs = "DONE" => (burst.kind = "WRITE" <=> MemRd)
  BY DEF FlowInv, BusInv, DoneInv
<1>3. MemRd => ~RdDatVld(beat)
  BY <1>2, NoBeat
<1>4. MemWr => ~WrDatVld(beat) /\ ~WdatqWren(beat)
  BY <1>2, NoBeat DEF MemRd, MemWr, WdatqWren
<1> QED BY <1>1, <1>3, <1>4

(* No word beyond the request is asked for.                                *)
LEMMA TakenBounds ==
  ASSUME WordsInv, InUse, FlowInv, dir # "none"
  PROVE  /\ Taken \in Nat /\ Total \in Nat /\ Total # 0 /\ Taken <= Total
         /\ busreq_cs = "WAIT" => (all_blocks_done <=> Taken = Total)
         /\ busreq_cs # "WAIT" => Taken < Total
         /\ Active => axaddr + block_len <= Total
<1>0. /\ block_len \in Nat \ {0} /\ num_blocks \in Nat \ {0} /\ axaddr \in Nat
      /\ blk_cntr \in Nat /\ Beat \in Nat /\ axlen \in Nat
      /\ busreq_cs \in {"IDLE", "WAIT", "READ", "WRITE", "DONE"}
      /\ Taken = axaddr + Beat /\ (busreq_cs # "DONE" => Beat = 0)
  BY Typed DEF Taken, Beat
<1>1. \A b, m \in Nat \ {0}, k \in Nat :
        /\ b * m \in Nat /\ b * m # 0 /\ m * b = b * m /\ k * b \in Nat
        /\ k <= m => k * b <= b * m
        /\ k < m => k * b + b <= b * m
        /\ k * b = b * m <=> k = m
  <2> SUFFICES ASSUME NEW b \in Nat \ {0}, NEW m \in Nat \ {0}, NEW k \in Nat
               PROVE  /\ b * m \in Nat /\ b * m # 0 /\ m * b = b * m /\ k * b \in Nat
                      /\ k <= m => k * b <= b * m
                      /\ k < m => k * b + b <= b * m
                      /\ k * b = b * m <=> k = m
    OBVIOUS
  <2>1. b * m \in Nat /\ b * m # 0 /\ m * b = b * m /\ k * b \in Nat
    OBVIOUS
  <2>2. \A x, y \in Nat : x <= y => x * b <= y * b
    OBVIOUS
  <2>3. k <= m => k * b <= b * m
    BY <2>1, <2>2
  <2>4. k < m => k * b + b <= b * m
    <3>1. (k + 1) * b = k * b + b
      OBVIOUS
    <3>2. k < m => k + 1 <= m
      OBVIOUS
    <3> QED BY <2>1, <2>2, <3>1, <3>2
  <2>5. k * b = b * m <=> k = m
    <3>1. CASE k = m BY <2>1, <3>1
    <3>2. CASE k < m BY <2>1, <2>4, <3>2
    <3>3. CASE m < k
      <4>1. m + 1 <= k
        BY <3>3
      <4>2. (m + 1) * b <= k * b /\ (m + 1) * b = m * b + b
        BY <2>2, <4>1
      <4> QED BY <2>1, <3>3, <4>2
    <3> QED BY <3>1, <3>2, <3>3
  <2> QED BY <2>1, <2>3, <2>4, <2>5
<1>2. /\ Total \in Nat /\ Total # 0
      /\ blk_cntr <= num_blocks => blk_cntr * block_len <= Total
      /\ blk_cntr < num_blocks => blk_cntr * block_len + block_len <= Total
      /\ blk_cntr * block_len = Total <=> blk_cntr = num_blocks
      /\ blk_cntr * block_len \in Nat
  BY <1>0, <1>1 DEF Total
<1>3. CASE busreq_cs = "IDLE"
  <2>1. axaddr = 0
    BY <1>3 DEF FlowInv, BusInv, IdleInv
  <2> QED BY <1>0, <1>2, <1>3, <2>1 DEF Active
<1>4. CASE busreq_cs = "WAIT"
  <2>1. axaddr = blk_cntr * block_len /\ blk_cntr <= num_blocks
        /\ (all_blocks_done <=> blk_cntr = num_blocks)
    BY <1>4 DEF FlowInv, BusInv, WaitInv
  <2> QED BY <1>0, <1>2, <1>4, <2>1 DEF Active
<1>5. CASE busreq_cs \in {"READ", "WRITE"}
  <2>1. axaddr = blk_cntr * block_len /\ blk_cntr < num_blocks
    BY <1>5 DEF FlowInv, BusInv, AddressInv
  <2> QED BY <1>0, <1>2, <1>5, <2>1
<1>6. CASE busreq_cs = "DONE"
  <2> DEFINE k == blk_cntr + Bit(Uncounted)
  <2>1. /\ axaddr + block_len = k * block_len /\ k \in 1..num_blocks
        /\ axlen = block_len - 1 /\ Beat <= axlen
    BY <1>6 DEF FlowInv, BusInv, DoneInv, WordsInv, ShapeInv, Active, Beat
  <2> HIDE DEF k
  <2>2. k * block_len <= Total
    BY <1>0, <1>1, <2>1 DEF Total
  <2>3. axaddr + block_len <= Total
    BY <2>1, <2>2
  <2> QED BY <1>0, <1>2, <1>6, <2>1, <2>3
<1> QED BY <1>0, <1>3, <1>4, <1>5, <1>6

(* The delayed count of bursts is over before the next burst can end, for  *)
(* blocks that are one burst, be it a full one or not.                     *)
LEMMA PartKept ==
  ASSUME WordsInv, InUse, FlowInv,
         NEW aready \in BOOLEAN, NEW beat \in BOOLEAN, NEW bvalid \in BOOLEAN,
         BusFsm(aready, beat), Subordinate(aready, beat, bvalid), PartialBlocks(aready),
         \/ block_len' = block_len
         \/ busreq_cs = "IDLE"
         \/ busreq_cs' = "IDLE" /\ dir' = "none"
  PROVE  PartInv'
<1> SUFFICES ASSUME BIG_BLOCKS PROVE PartInv'
  BY DEF PartInv
<1> DEFINE d1 == req_done_dly[1]  d2 == req_done_dly[2]  R == ReqDone(aready)
<1>0. /\ busreq_cs \in {"IDLE", "WAIT", "READ", "WRITE", "DONE"}
      /\ block_len \in 1..MAX_BURST /\ MAX_BURST \in Nat \ {0} /\ block_len >= 3
      /\ axlen \in Nat /\ Beat \in Nat
  BY Typed
<1>1. /\ d1 \in BOOLEAN /\ d2 \in BOOLEAN /\ R \in BOOLEAN
      /\ block_last \in BOOLEAN /\ partial_bcnt \in 0..1
      /\ req_done_dly' = <<R, d1>>
      /\ block_last' = (busreq_cs # "IDLE" /\ partial_bcnt = MaxPartial)
  BY DEF PartialBlocks, WordsInv, CpTypes, ReqDone, AxiInv, AxiTypeOK
<1>2. req_done_dly'[1] = R /\ req_done_dly'[2] = d1
  BY <1>1
<1>3. MaxPartial \in 0..1
  <2>1. \A b \in 1..MAX_BURST : b \div MAX_BURST \in 0..1
    BY <1>0
  <2> QED BY <1>0, <2>1 DEF MaxPartial
<1>4. /\ d1 => busreq_cs = "DONE" /\ Beat = 0 /\ ~d2
      /\ d2 => busreq_cs = "DONE" /\ Beat <= 1
      /\ busreq_cs # "IDLE" =>
           /\ Short => partial_bcnt = 0 /\ (Active => block_last)
           /\ ~Short =>
                /\ partial_bcnt = Bit(d1 \/ d2)
                /\ busreq_cs # "DONE" \/ d1 => ~block_last
                /\ d2 => block_last
  BY DEF FlowInv, PartInv
<1>5. CASE busreq_cs = "IDLE"
  <2>1. /\ ~d1 /\ ~R /\ busreq_cs' \in {"IDLE", "WAIT"} /\ ~block_last'
    BY <1>1, <1>4, <1>5, IdleStep DEF ReqDone
  <2>2. partial_bcnt' = 0
    BY <1>5 DEF PartialBlocks
  <2>3. (~Active)' /\ Bit(FALSE) = 0
    BY <2>1 DEF Active, Bit
  <2> HIDE DEF d1, R
  <2>4. ~req_done_dly'[1] /\ ~req_done_dly'[2] /\ Bit(req_done_dly'[1] \/ req_done_dly'[2]) = 0
    BY <1>2, <2>1 DEF Bit
  <2> QED BY <2>1, <2>2, <2>3, <2>4 DEF PartInv
<1>6. CASE busreq_cs # "IDLE"
  <2>1. /\ block_last' = (partial_bcnt = MaxPartial)
        /\ partial_bcnt' = IF R THEN (IF block_last THEN 0 ELSE 1)
                           ELSE IF d2 /\ block_last THEN 0 ELSE partial_bcnt
    <3>1. CASE R
      BY <1>1, <1>6, <3>1 DEF PartialBlocks
    <3>2. CASE ~R
      BY <1>1, <1>6, <3>2 DEF PartialBlocks, IncrBlkCnt
    <3> QED BY <3>1, <3>2
  <2>2. MaxPartial' = MaxPartial \/ (busreq_cs' = "IDLE" /\ dir' = "none")
    BY <1>6 DEF MaxPartial
  <2>3. /\ busreq_cs = "DONE" => axlen >= 2
        /\ DatDone(beat) => Beat = axlen /\ busreq_cs = "DONE"
    <3>1. busreq_cs = "DONE" => axlen = block_len - 1
      BY DEF FlowInv, BusInv, DoneInv, WordsInv, ShapeInv, Active
    <3> QED BY <1>0, <3>1, NoBeat
  <2>4. Active =>
          /\ busreq_cs' = IF DatDone(beat) THEN "WAIT" ELSE IF R THEN "DONE" ELSE busreq_cs
          /\ ~DatDone(beat) => Beat' = Beat + Bit(WrDatVld(beat) \/ RdDatVld(beat))
    BY BurstStep
  <2>5. busreq_cs = "WAIT" => busreq_cs' # "DONE" /\ ~R
    <3>1. busreq_cs = "WAIT" => busreq_cs' \in {"IDLE", "WAIT", "READ", "WRITE"} /\ ~R
      BY WaitStep, Typed DEF MemRd, MemWr
    <3> QED BY <3>1
  <2>6. Bit(WrDatVld(beat) \/ RdDatVld(beat)) \in 0..1 /\ Bit(TRUE) = 1 /\ Bit(FALSE) = 0
    BY DEF Bit
  <2> DEFINE t1 == req_done_dly'[1]  t2 == req_done_dly'[2]
             Shape(P) == /\ Short => P = 0 /\ block_last'
                         /\ ~Short => /\ P = Bit(t1 \/ t2)
                                      /\ busreq_cs' # "DONE" \/ t1 => ~block_last'
                                      /\ t2 => block_last'
             Goal == /\ t1 => busreq_cs' = "DONE" /\ Beat' = 0 /\ ~t2
                     /\ t2 => busreq_cs' = "DONE" /\ Beat' <= 1
                     /\ Shape(partial_bcnt')
  <2>7. ASSUME R PROVE Goal
    <3>1. busreq_cs \in {"READ", "WRITE"} /\ Active
      BY <2>7 DEF ReqDone, Active
    <3>2. ~d1 /\ ~d2 /\ ~DatDone(beat)
      BY <1>4, <2>3, <3>1
    <3>3. busreq_cs' = "DONE" /\ Beat' = 0
      <4>1. Beat = 0 /\ ~(WrDatVld(beat) \/ RdDatVld(beat))
        BY <3>1, NoBeat DEF Beat
      <4> QED BY <2>4, <2>7, <3>1, <3>2, <4>1 DEF Bit
    <3>4. t1 /\ ~t2
      BY <1>2, <2>7, <3>2
    <3> HIDE DEF t1, t2, d1, d2, R
    <3>5. Shape(partial_bcnt')
      BY <1>3, <1>4, <1>6, <2>1, <2>6, <2>7, <3>1, <3>2, <3>4 DEF Short, Bit
    <3> QED BY <3>3, <3>4, <3>5
  <2>8. ASSUME ~R /\ d1 PROVE Goal
    <3>1. busreq_cs = "DONE" /\ Beat = 0 /\ ~d2 /\ Active
      BY <1>4, <2>8 DEF Active
    <3>2. ~DatDone(beat)
      BY <2>3, <3>1
    <3>3. busreq_cs' = "DONE" /\ Beat' <= 1
      BY <2>4, <2>6, <2>8, <3>1, <3>2
    <3>4. ~t1 /\ t2
      BY <1>2, <2>8
    <3> HIDE DEF t1, t2, d1, d2, R
    <3>6. Bit(d1 \/ d2) = 1 /\ Bit(t1 \/ t2) = 1
      BY <2>8, <3>4 DEF Bit
    <3>7. partial_bcnt' = partial_bcnt
      BY <2>1, <2>8, <3>1
    <3>8. /\ Short => partial_bcnt = 0
          /\ ~Short => partial_bcnt = 1
          /\ block_last' = (partial_bcnt = MaxPartial)
      BY <1>4, <1>6, <2>1, <3>6
    <3>10. partial_bcnt = MaxPartial
      <4>1. Short => MaxPartial = 0
        BY DEF Short
      <4>2. ~Short => MaxPartial = 1
        BY <1>3 DEF Short
      <4> QED BY <3>8, <4>1, <4>2
    <3>9. block_last'
      BY <3>8, <3>10
    <3>5. Shape(partial_bcnt')
      BY <3>3, <3>4, <3>6, <3>7, <3>8, <3>9
    <3> QED BY <3>3, <3>4, <3>5
  <2>9. ASSUME ~R /\ ~d1 /\ d2 PROVE Goal
    <3>1. busreq_cs = "DONE" /\ Beat <= 1 /\ Active
      BY <1>4, <2>9 DEF Active
    <3>2. ~DatDone(beat)
      BY <1>0, <2>3, <3>1
    <3>3. busreq_cs' = "DONE"
      BY <2>4, <2>9, <3>1, <3>2
    <3>4. ~t1 /\ ~t2
      BY <1>2, <2>9
    <3> HIDE DEF t1, t2, d1, d2, R
    <3>5. Shape(partial_bcnt')
      BY <1>3, <1>4, <1>6, <2>1, <2>6, <2>9, <3>1, <3>3, <3>4 DEF Short, Bit
    <3> QED BY <3>3, <3>4, <3>5
  <2>10. ASSUME ~R /\ ~d1 /\ ~d2 PROVE Goal
    <3>4. ~t1 /\ ~t2
      BY <1>2, <2>10
    <3> HIDE DEF t1, t2, d1, d2, R
    <3>5. Shape(partial_bcnt')
      BY <1>3, <1>4, <1>6, <2>1, <2>6, <2>10, <3>4 DEF Short, Bit
    <3> QED BY <3>4, <3>5
  <2>11. Goal
    BY <1>1, <2>7, <2>8, <2>9, <2>10
  <2>12. Short' = Short \/ (busreq_cs' = "IDLE" /\ dir' = "none")
    BY <2>2 DEF Short
  <2> QED BY <2>11, <2>12 DEF PartInv
<1> QED BY <1>5, <1>6

(* Counted or not yet counted, a burst is one from the edge on which its   *)
(* address is taken.                                                       *)
LEMMA CountMoves ==
  ASSUME WordsInv, InUse, FlowInv, busreq_cs # "IDLE",
         NEW aready \in BOOLEAN, NEW beat \in BOOLEAN, NEW bvalid \in BOOLEAN,
         BusFsm(aready, beat), Subordinate(aready, beat, bvalid), PartialBlocks(aready)
  PROVE  /\ blk_cntr' + Bit(Uncounted') = blk_cntr + Bit(Uncounted) + Bit(ReqDone(aready))
         /\ busreq_cs # "DONE" => ~Uncounted
         /\ DatDone(beat) => ~Uncounted /\ ~Uncounted' /\ ~ReqDone(aready)
         /\ ReqDone(aready) \/ busreq_cs = "DONE" \/ ~Uncounted'
<1> DEFINE d1 == req_done_dly[1]  d2 == req_done_dly[2]  R == ReqDone(aready)
           I == IncrBlkCnt(aready)
<1>0. /\ blk_cntr \in Nat /\ axlen \in Nat /\ Beat \in Nat /\ BIG_BLOCKS \in BOOLEAN
      /\ busreq_cs \in {"IDLE", "WAIT", "READ", "WRITE", "DONE"}
  BY Typed
<1>1. blk_cntr' = IF I THEN blk_cntr + 1 ELSE blk_cntr
  <2>1. CASE Active
    BY <2>1, BurstStep
  <2>2. CASE busreq_cs = "WAIT"
    BY <2>2, WaitStep
  <2> QED BY <1>0, <2>1, <2>2 DEF Active
<1>2. /\ DatDone(beat) => Beat = axlen /\ busreq_cs = "DONE"
      /\ R => busreq_cs \in {"READ", "WRITE"}
  BY NoBeat DEF ReqDone
<1>3. Bit(TRUE) = 1 /\ Bit(FALSE) = 0
  BY DEF Bit
<1>4. CASE ~BIG_BLOCKS
  <2>1. ~Uncounted /\ ~Uncounted' /\ I = R
    BY <1>4 DEF Uncounted, IncrBlkCnt
  <2>2. R \in BOOLEAN
    BY DEF ReqDone
  <2> HIDE DEF d1, d2, R, I
  <2>3. CASE R
    <3>1. Bit(R) = 1 /\ Bit(Uncounted) = 0 /\ Bit(Uncounted') = 0
      BY <2>1, <2>3 DEF Bit
    <3>2. blk_cntr' = blk_cntr + 1
      BY <1>1, <2>1, <2>3
    <3>3. blk_cntr' + Bit(Uncounted') = blk_cntr + Bit(Uncounted) + Bit(R)
      BY <1>0, <3>1, <3>2
    <3> QED BY <1>2, <2>1, <2>3, <3>3 DEF R
  <2>4. CASE ~R
    <3>1. Bit(R) = 0 /\ Bit(Uncounted) = 0 /\ Bit(Uncounted') = 0
      BY <2>1, <2>4 DEF Bit
    <3>2. blk_cntr' = blk_cntr
      BY <1>1, <2>1, <2>4
    <3>3. blk_cntr' + Bit(Uncounted') = blk_cntr + Bit(Uncounted) + Bit(R)
      BY <1>0, <3>1, <3>2
    <3> QED BY <2>1, <2>4, <3>3 DEF R
  <2> QED BY <2>2, <2>3, <2>4
<1>5. CASE BIG_BLOCKS
  <2>1. /\ d1 \in BOOLEAN /\ d2 \in BOOLEAN /\ R \in BOOLEAN
        /\ req_done_dly' = <<R, d1>>
    BY <1>5 DEF PartialBlocks, WordsInv, CpTypes, ReqDone
  <2>2. req_done_dly'[1] = R /\ req_done_dly'[2] = d1
    BY <2>1
  <2>3. /\ d1 => busreq_cs = "DONE" /\ Beat = 0 /\ ~d2
        /\ d2 => busreq_cs = "DONE" /\ Beat <= 1 /\ block_last
    BY <1>5 DEF FlowInv, PartInv, Active
  <2>4. I <=> d2
    BY <1>5, <2>3 DEF IncrBlkCnt
  <2>5. (Uncounted <=> d1 \/ d2) /\ (Uncounted' <=> R \/ d1)
    BY <1>5, <2>2 DEF Uncounted
  <2>6. busreq_cs = "DONE" => axlen >= 2
    <3>1. busreq_cs = "DONE" => axlen = block_len - 1 /\ block_len \in Nat /\ block_len >= 3
      BY <1>5, Typed DEF FlowInv, BusInv, DoneInv, WordsInv, ShapeInv, Active
    <3> QED BY <3>1
  <2>7. DatDone(beat) => ~d1 /\ ~d2 /\ ~R
    BY <1>0, <1>2, <2>3, <2>6
  <2> HIDE DEF d1, d2, R, I
  <2>8. blk_cntr' + Bit(Uncounted') = blk_cntr + Bit(Uncounted) + Bit(R)
    <3>1. CASE R
      <4>1. ~d1 /\ ~d2 /\ ~I
        BY <1>2, <2>3, <2>4, <3>1
      <4>2. Bit(R) = 1 /\ Bit(Uncounted) = 0 /\ Bit(Uncounted') = 1 /\ blk_cntr' = blk_cntr
        BY <1>1, <2>5, <3>1, <4>1 DEF Bit
      <4> QED BY <1>0, <4>2
    <3>2. CASE ~R /\ d1
      <4>1. ~d2 /\ ~I
        BY <2>3, <2>4, <3>2
      <4>2. Bit(R) = 0 /\ Bit(Uncounted) = 1 /\ Bit(Uncounted') = 1 /\ blk_cntr' = blk_cntr
        BY <1>1, <2>5, <3>2, <4>1 DEF Bit
      <4> QED BY <1>0, <4>2
    <3>3. CASE ~R /\ ~d1 /\ d2
      <4>2. Bit(R) = 0 /\ Bit(Uncounted) = 1 /\ Bit(Uncounted') = 0 /\ blk_cntr' = blk_cntr + 1
        BY <1>1, <2>4, <2>5, <3>3 DEF Bit
      <4> QED BY <1>0, <4>2
    <3>4. CASE ~R /\ ~d1 /\ ~d2
      <4>2. Bit(R) = 0 /\ Bit(Uncounted) = 0 /\ Bit(Uncounted') = 0 /\ blk_cntr' = blk_cntr
        BY <1>1, <2>4, <2>5, <3>4 DEF Bit
      <4> QED BY <1>0, <4>2
    <3> QED BY <2>1, <3>1, <3>2, <3>3, <3>4
  <2>9. R \/ busreq_cs = "DONE" \/ ~Uncounted'
    BY <2>3, <2>5
  <2> QED BY <2>3, <2>5, <2>7, <2>8, <2>9 DEF R
<1> QED BY <1>0, <1>4, <1>5

(* The FSM and its block counter go from block to block.                   *)
LEMMA BusKept ==
  ASSUME WordsInv, InUse, FlowInv, Goes, dir # "none",
         NEW aready \in BOOLEAN, NEW beat \in BOOLEAN, NEW bvalid \in BOOLEAN,
         BusFsm(aready, beat), Subordinate(aready, beat, bvalid), PartialBlocks(aready)
  PROVE  BusInv'
<1> DEFINE b == block_len  m == num_blocks  u == Bit(Uncounted)  uu == Bit(Uncounted')
<1>0. b \in Nat \ {0} /\ m \in Nat \ {0} /\ axaddr \in Nat /\ blk_cntr \in Nat
  BY Typed
<1>7. busreq_cs \in {"IDLE", "WAIT", "READ", "WRITE", "DONE"} /\ dir \in Kinds
  BY Typed
<1>1. /\ b' = b /\ m' = m /\ dir' # "none" /\ (MemRd' <=> MemRd) /\ (MemWr' <=> MemWr)
      /\ ~(MemRd /\ MemWr) /\ (MemRd \/ MemWr)
  BY <1>7 DEF Goes, MemRd, MemWr, Kinds
<1>2. u \in 0..1 /\ uu \in 0..1 /\ (~Uncounted => u = 0) /\ (~Uncounted' => uu = 0)
      /\ Bit(Uncounted)' = uu
  BY DEF Bit
<1>3. \A k \in Nat : (k + 1) * b = k * b + b
  BY <1>0
<1>4. CASE busreq_cs = "IDLE"
  <2>1. /\ busreq_cs' = "WAIT" /\ blk_cntr' = 0 /\ axaddr' = 0 /\ axlen_p1' = b
        /\ axlen_p1 > 0 => axlen' = axlen_p1 - 1
        /\ all_blocks_done' = (blk_cntr = m)
    BY <1>1, <1>4, IdleStep
  <2>2. axlen_p1 = b /\ blk_cntr = 0
    BY <1>4 DEF FlowInv, BusInv, IdleInv
  <2>3. 0 * b = 0
    BY <1>0
  <2>4. axlen' = b - 1 /\ ~all_blocks_done' /\ blk_cntr' <= m /\ blk_cntr' # m
    <3>1. 0 <= m /\ 0 # m /\ axlen_p1 > 0
      BY <1>0, <2>2
    <3> QED BY <2>1, <2>2, <3>1
  <2>5. WaitInv'
    BY <1>1, <2>1, <2>3, <2>4 DEF WaitInv
  <2> QED BY <2>1, <2>5 DEF BusInv, IdleInv, AddressInv, DoneInv
<1>5. CASE busreq_cs = "WAIT"
  <2>1. /\ all_blocks_done => busreq_cs' = "WAIT"
        /\ ~all_blocks_done => \/ MemWr /\ busreq_cs' = "READ"
                               \/ MemRd /\ busreq_cs' \in {"WRITE", "WAIT"}
        /\ axaddr' = axaddr /\ axlen_p1' = axlen_p1
        /\ axlen_p1 > 0 => axlen' = axlen_p1 - 1
        /\ all_blocks_done' = (blk_cntr = m) /\ ~ReqDone(aready)
    BY <1>1, <1>5, WaitStep
  <2>2. /\ axlen_p1 = b /\ axaddr = blk_cntr * b /\ blk_cntr <= m
        /\ all_blocks_done <=> blk_cntr = m
    BY <1>5 DEF FlowInv, BusInv, WaitInv
  <2>3. blk_cntr' = blk_cntr
    <3>1. /\ blk_cntr' + uu = blk_cntr + u + Bit(ReqDone(aready))
          /\ ~Uncounted /\ ~Uncounted'
      BY <1>5, <2>1, CountMoves
    <3>2. Bit(ReqDone(aready)) = 0 /\ u = 0 /\ uu = 0
      BY <1>2, <2>1, <3>1 DEF Bit
    <3>3. blk_cntr' \in Nat
      BY BusTyped DEF WordsInv
    <3> DEFINE c == blk_cntr'
    <3>4. c \in Nat /\ c + uu = blk_cntr + u + Bit(ReqDone(aready))
      BY <3>1, <3>3
    <3> HIDE DEF c, u, uu
    <3>5. c = blk_cntr
      BY <1>0, <3>2, <3>4
    <3> QED BY <3>5 DEF c
  <2>4. axlen' = b - 1 /\ axlen_p1' = b
    BY <1>0, <2>1, <2>2
  <2>5. WaitInv'
    BY <1>1, <2>1, <2>2, <2>3, <2>4 DEF WaitInv
  <2>6. AddressInv'
    <3>1. ~all_blocks_done => blk_cntr < m
      BY <1>0, <2>2
    <3> QED BY <1>1, <2>1, <2>2, <2>3, <2>4, <3>1 DEF AddressInv
  <2> QED BY <2>1, <2>5, <2>6 DEF BusInv, IdleInv, DoneInv
<1>6. CASE Active
  <2>1. /\ busreq_cs' = IF DatDone(beat) THEN "WAIT"
                        ELSE IF ReqDone(aready) THEN "DONE" ELSE busreq_cs
        /\ axaddr' = IF DatDone(beat) THEN axaddr + axlen_p1 ELSE axaddr
        /\ axlen_p1' = axlen_p1 /\ axlen' = axlen
        /\ ReqDone(aready) =>
             burst' = [kind |-> busreq_cs, addr |-> axaddr, len |-> axlen, beat |-> 0]
        /\ busreq_cs = "DONE" /\ ~DatDone(beat) =>
             burst'.kind = burst.kind /\ burst'.addr = burst.addr
    BY <1>6, BurstStep
  <2>2. /\ blk_cntr' + uu = blk_cntr + u + Bit(ReqDone(aready))
        /\ busreq_cs # "DONE" => ~Uncounted
        /\ DatDone(beat) => ~Uncounted /\ ~Uncounted' /\ ~ReqDone(aready)
        /\ ReqDone(aready) \/ busreq_cs = "DONE" \/ ~Uncounted'
    BY <1>6, CountMoves DEF Active
  <2>3. blk_cntr' \in Nat
    BY BusTyped DEF WordsInv
  <2>4. DatDone(beat) => busreq_cs = "DONE"
    BY NoBeat
  <2>5. CASE busreq_cs # "DONE"
    <3>1. busreq_cs \in {"READ", "WRITE"}
      BY <1>6, <2>5 DEF Active
    <3>2. /\ busreq_cs = "WRITE" <=> MemRd
          /\ axlen_p1 = b /\ axaddr = blk_cntr * b /\ blk_cntr < m
      BY <3>1 DEF FlowInv, BusInv, AddressInv
    <3>3. CASE ReqDone(aready)
      <4>1. Bit(ReqDone(aready)) = 1 /\ u = 0
        BY <1>2, <2>2, <2>5, <3>3 DEF Bit
      <4>2. busreq_cs' = "DONE" /\ axaddr' = axaddr /\ axlen_p1' = b
            /\ burst'.kind = busreq_cs /\ burst'.addr = axaddr
        BY <2>1, <2>4, <2>5, <3>2, <3>3
      <4>3. blk_cntr' + uu = blk_cntr + 1 /\ blk_cntr + 1 \in 1..m
        <5>1. blk_cntr + 1 \in 1..m
          BY <1>0, <3>2
        <5> HIDE DEF u, uu
        <5> QED BY <1>0, <2>2, <4>1, <5>1
      <4>4. axaddr' + b' = (blk_cntr' + uu) * b'
        BY <1>0, <1>1, <1>3, <3>2, <4>2, <4>3
      <4> HIDE DEF uu
      <4>5. DoneInv'
        BY <1>1, <1>2, <3>2, <4>2, <4>3, <4>4 DEF DoneInv
      <4> QED BY <4>2, <4>5 DEF BusInv, IdleInv, WaitInv, AddressInv
    <3>4. CASE ~ReqDone(aready)
      <4>1. Bit(ReqDone(aready)) = 0 /\ u = 0 /\ uu = 0
        BY <1>2, <2>2, <2>5, <3>4 DEF Bit
      <4>2. busreq_cs' = busreq_cs /\ axaddr' = axaddr
        BY <2>1, <2>4, <2>5, <3>4
      <4>3. blk_cntr' = blk_cntr
        <5> DEFINE c == blk_cntr'
        <5>1. c \in Nat /\ c + uu = blk_cntr + u + Bit(ReqDone(aready))
          BY <2>2, <2>3
        <5> HIDE DEF c, u, uu
        <5>2. c = blk_cntr
          BY <1>0, <4>1, <5>1
        <5> QED BY <5>2 DEF c
      <4>4. AddressInv'
        BY <1>1, <2>1, <3>2, <4>2, <4>3 DEF AddressInv
      <4> QED BY <3>1, <4>2, <4>4 DEF BusInv, IdleInv, WaitInv, DoneInv
    <3> QED BY <3>3, <3>4
  <2>6. CASE busreq_cs = "DONE"
    <3>1. /\ burst.kind = "WRITE" <=> MemRd
          /\ axlen_p1 = b /\ burst.addr = axaddr
          /\ axaddr + b = (blk_cntr + u) * b /\ blk_cntr + u \in 1..m
      BY <2>6 DEF FlowInv, BusInv, DoneInv
    <3>2. ~ReqDone(aready)
      BY <2>6 DEF ReqDone
    <3>3. Bit(ReqDone(aready)) = 0
      BY <3>2 DEF Bit
    <3>4. blk_cntr' + uu = blk_cntr + u
      <4>1. blk_cntr' + uu = blk_cntr + u + Bit(ReqDone(aready))
        BY <2>2
      <4>2. blk_cntr \in Nat /\ u \in 0..1
        BY <1>0, <1>2
      <4> HIDE DEF u, uu
      <4> QED BY <3>3, <4>1, <4>2
    <3>5. CASE ~DatDone(beat)
      <4>1. busreq_cs' = "DONE" /\ axaddr' = axaddr /\ axlen_p1' = b
            /\ burst'.kind = burst.kind /\ burst'.addr = burst.addr
        BY <2>1, <2>6, <3>1, <3>2, <3>5
      <4> HIDE DEF u, uu
      <4>2. DoneInv'
        BY <1>1, <1>2, <3>1, <3>4, <4>1 DEF DoneInv
      <4> QED BY <4>1, <4>2 DEF BusInv, IdleInv, WaitInv, AddressInv
    <3>6. CASE DatDone(beat)
      <4>1. u = 0 /\ uu = 0
        BY <1>2, <2>2, <3>6
      <4>2. /\ busreq_cs' = "WAIT" /\ axaddr' = axaddr + b /\ axlen_p1' = b /\ axlen' = axlen
            /\ axlen = b - 1
        BY <2>1, <3>1, <3>6, <2>6 DEF WordsInv, ShapeInv, Active
      <4>3. blk_cntr' = blk_cntr /\ axaddr + b = blk_cntr * b /\ blk_cntr <= m
        <5> DEFINE c == blk_cntr'
        <5>1. c \in Nat /\ c + uu = blk_cntr + u
          BY <2>3, <3>4
        <5> HIDE DEF c, u, uu
        <5>2. c = blk_cntr /\ blk_cntr + u = blk_cntr
          BY <1>0, <4>1, <5>1
        <5>3. blk_cntr' = blk_cntr /\ axaddr + b = blk_cntr * b /\ blk_cntr \in 1..m
          BY <3>1, <5>2 DEF c
        <5> QED BY <1>0, <5>3
      <4>4. all_blocks_done' <=> blk_cntr = m
        BY DEF BusFsm
      <4>5. WaitInv'
        BY <1>1, <4>2, <4>3, <4>4 DEF WaitInv
      <4> QED BY <4>2, <4>5 DEF BusInv, IdleInv, AddressInv, DoneInv
    <3> QED BY <3>5, <3>6
  <2> QED BY <2>5, <2>6
<1> QED BY <1>4, <1>5, <1>6, <1>7 DEF Active

----------------------------------------------------------------------------
(* The words, through the FIFO.                                            *)

(* What the write register offers the FIFO.                                *)
Wren == fifo_wr # <<>>
Wdat == IF Wren THEN fifo_wr[1] ELSE 0

(* The edge that the FIFO sees, and what it leaves of its words.           *)
LEMMA SideStep ==
  ASSUME Data = Nat, WordsInv, NEW beat \in BOOLEAN, NEW word \in BOOLEAN,
         FifoSide(beat, word)
  PROVE  LET rden == FifoRden(beat, word) IN
         /\ rden \in BOOLEAN /\ (rden => ~Emty)
         /\ Wren \in BOOLEAN /\ (Wren => ~Full) /\ Wdat \in Data
         /\ Edge(Wren, Wdat, rden) /\ FifoInv
         /\ Len(Contents) \in Nat /\ Len(Contents') \in Nat
         /\ Len(Contents) >= Bit(rden)
         /\ Len(Contents') = Len(Contents) + Len(fifo_wr) - Bit(rden)
         /\ Len(fifo_wr) = Bit(Wren) /\ fifo_cntr = Len(Contents)
         /\ Len(mem) <= Len(Contents) /\ Len(mem) \in Nat
<1> DEFINE rden == FifoRden(beat, word)
           n == Len(Contents)
           nn == Len(Contents')
<1>1. rden \in BOOLEAN /\ (rden => ~Emty)
  BY DEF FifoRden
<1>2. Wren \in BOOLEAN /\ (Wren => ~Full) /\ fifo_cntr = n
  BY DEF WordsInv, AxiInv, FifoCounted, Wren
<1>3. fifo_wr \in Seq(Nat) /\ Len(fifo_wr) <= 1 /\ FifoInv
  BY DEF WordsInv, AxiInv, SideTypeOK, AxiTypeOK
<1>4. Wdat \in Data
  BY <1>3, OneWord DEF Wdat, Wren
<1>5. Edge(Wren, Wdat, rden)
  <2>1. CASE Wren
    BY <1>2, <2>1 DEF FifoSide, Wren, Wdat
  <2>2. CASE ~Wren
    BY <2>2 DEF FifoSide, Wren, Wdat
  <2> QED BY <2>1, <2>2
<1>6. n \in Nat /\ nn \in Nat /\ n >= Bit(rden) /\ nn = n + Bit(Wren) - Bit(rden)
  BY <1>1, <1>2, <1>3, <1>4, <1>5, EdgeLengths DEF Bit
<1>7. Len(fifo_wr) = Bit(Wren)
  <2> DEFINE l == Len(fifo_wr)
  <2>1. l \in Nat /\ (l = 0 <=> fifo_wr = <<>>) /\ l <= 1
    BY <1>3
  <2> HIDE DEF l
  <2>2. l = IF fifo_wr = <<>> THEN 0 ELSE 1
    BY <2>1
  <2> QED BY <2>2 DEF l, Bit, Wren
<1>8. Len(mem) <= n /\ Len(mem) \in Nat
  <2>1. mem \in Seq(Data) /\ latch \in Seq(Data) /\ pipe \in Seq(Data)
    BY <1>3 DEF FifoInv, FifoTypeOK
  <2>2. Len(Contents) = Len(pipe) + Len(latch) + Len(mem)
    BY <2>1, ConcatProperties DEF Contents
  <2> QED BY <2>1, <2>2, LenProperties
<1> HIDE DEF n, nn, rden
<1>9. nn = n + Len(fifo_wr) - Bit(rden)
  BY <1>6, <1>7
<1> QED BY <1>1, <1>2, <1>3, <1>4, <1>5, <1>6, <1>7, <1>8, <1>9 DEF n, nn, rden

(* The FIFO is read as often as the write queue, or the card, takes a word.*)
LEMMA ReadsAre ==
  ASSUME WordsInv, InUse, FlowInv, NEW beat \in BOOLEAN, NEW word \in BOOLEAN,
         CpStep(beat, word), dir # "none", dir' # "none"
  PROVE  /\ MemRd => (FifoRden(beat, word) <=> WdatqWren(beat))
         /\ MemWr => (FifoRden(beat, word) <=> word)
<1>1. WdatqWren(beat) => ~Emty
  BY DEF WdatqWren
<1>2. MemWr /\ word => ~Emty
  <2> SUFFICES ASSUME MemWr, word PROVE ~Emty
    OBVIOUS
  <2>1. in_block
    BY CpGoes DEF CpWord
  <2>2. AtOutput(Left)
    BY <2>1 DEF FlowInv, BlockWordsInv
  <2>3. Left > 0
    <3>1. pos \in Nat /\ block_len \in Nat \ {0}
      BY Typed
    <3> QED BY <3>1 DEF Left
  <2> QED BY <2>2, <2>3 DEF AtOutput
<1>3. ~(MemRd /\ MemWr) /\ (MemWr => ~WdatqWren(beat))
  BY DEF MemRd, MemWr, WdatqWren
<1> QED BY <1>1, <1>2, <1>3 DEF FifoRden

(* The word on its way into the FIFO: of a read, the card's; of a write,   *)
(* the bus's.                                                              *)
LEMMA RegisterHolds ==
  ASSUME Data = Nat, WordsInv, InUse, FlowInv, NEW beat \in BOOLEAN, NEW word \in BOOLEAN,
         FifoSide(beat, word), CpStep(beat, word), dir # "none", dir' # "none"
  PROVE  /\ MemRd => fifo_wr' = IF word THEN <<pos>> ELSE <<>>
         /\ MemWr => fifo_wr' = IF RdDatVld(beat) THEN <<Taken>> ELSE <<>>
<1> DEFINE n == Len(Contents)  w == Len(fifo_wr)
<1>0. /\ block_len \in Nat \ {0} /\ pos \in Nat /\ SIZE \in Nat /\ 2 * block_len <= SIZE
  BY Typed
<1>1. n \in Nat /\ w \in 0..1 /\ Len(mem) <= n /\ Len(mem) \in Nat
  <2>1. n \in Nat /\ w = Bit(Wren) /\ Len(mem) <= n /\ Len(mem) \in Nat
    BY SideStep
  <2> QED BY <2>1 DEF Bit
<1>2. fifo_wr' = FifoWrite(beat, word)
  BY DEF FifoSide
<1>3. ~(MemRd /\ MemWr)
  BY DEF MemRd, MemWr
<1>4. CASE MemRd
  <2>1. word => ~Full
    <3> SUFFICES ASSUME word PROVE Len(mem) < SIZE
      BY <1>1 DEF Full
    <3>1. in_block
      BY CpGoes DEF CpWord
    <3>2. n + w + Left <= 2 * block_len
      BY <1>4, <3>1 DEF WordsInv, AxiInv, RoomInv, MemRd, Left
    <3>3. Left \in Nat \ {0}
      BY <1>0, LeftOfBlock DEF Left
    <3> HIDE DEF n, w
    <3> QED BY <1>0, <1>1, <3>2, <3>3
  <2> QED BY <1>2, <1>3, <1>4, <2>1 DEF FifoWrite
<1>5. CASE MemWr
  <2>1. RdDatVld(beat) => ~Full
    BY <1>1, FifoAssumption DEF RdDatVld, Aful, Full
  <2>2. RdDatVld(beat) => burst.addr + burst.beat = Taken
    <3>1. RdDatVld(beat) => busreq_cs = "DONE"
      BY NoBeat
    <3> QED BY <3>1 DEF FlowInv, BusInv, DoneInv, Taken, Beat
  <2> QED BY <1>2, <1>3, <1>5, <2>1, <2>2 DEF FifoWrite
<1> QED BY <1>4, <1>5

(* The words of a read stay in order.                                      *)
LEMMA ReadWordsKept ==
  ASSUME Data = Nat, WordsInv, InUse,
         NEW aready \in BOOLEAN, NEW beat \in BOOLEAN, NEW word \in BOOLEAN,
         NEW bvalid \in BOOLEAN,
         Manager(aready, beat, word, bvalid), CpStep(beat, word),
         dir # "none", dir' # "none"
  PROVE  ReadWords'
<1> SUFFICES ASSUME MemRd PROVE ReadWords'
  BY CpGoes DEF Goes, MemRd, ReadWords
<1> DEFINE n == Len(Contents)  w == Len(fifo_wr)  q == Len(wdatq)
           nn == Len(Contents')  ww == Len(fifo_wr')  qq == Len(wdatq')
           rden == FifoRden(beat, word)
           v == WrDatVld(beat)
           f == Bit(rden)
           x == Bit(v)
           a == Bit(word)
           tt == Taken'
           first == pos - w - n
<1>1. /\ BusFsm(aready, beat) /\ Subordinate(aready, beat, bvalid) /\ FifoSide(beat, word)
      /\ pos \in Nat /\ FlowInv /\ (rden <=> WdatqWren(beat))
  <2>1. FlowInv
    BY CpGoes
  <2> QED BY <2>1, Typed, ReadsAre DEF Manager
<1>2. /\ pos = Taken + q + n + w /\ Contents = Run(first, n)
      /\ fifo_wr # <<>> => fifo_wr[1] = pos - 1
      /\ wdatq # <<>> => wdatq[1].data = Taken
      /\ ram = {<<k, k>> : k \in 0..Taken - 1}
  BY <1>1 DEF FlowInv, ReadWords
<1>3. /\ n \in Nat /\ nn \in Nat /\ nn = n + w - f /\ w = Bit(Wren)
      /\ rden \in BOOLEAN /\ (rden => ~Emty)
      /\ Wren \in BOOLEAN /\ (Wren => ~Full) /\ Wdat \in Data
      /\ Edge(Wren, Wdat, rden) /\ FifoInv
  BY <1>1, SideStep
<1>4. Bit(rden) \in 0..1 /\ Bit(v) \in 0..1 /\ Bit(word) \in 0..1 /\ w \in 0..1
  <2> HIDE DEF rden, v
  <2> QED BY <1>3 DEF Bit
<1>5. /\ Taken \in Nat /\ tt = Taken + x
  <2>1. Taken' = Taken + Bit(WrDatVld(beat) \/ RdDatVld(beat)) /\ ~RdDatVld(beat)
    BY <1>1, TakenMoves
  <2>2. Bit(WrDatVld(beat) \/ RdDatVld(beat)) = Bit(WrDatVld(beat))
    BY <2>1 DEF Bit
  <2> QED BY <2>1, <2>2, Typed
<1>6. /\ rden => /\ wdatq = <<>> \/ v
                 /\ wdatq' = <<[data |-> Rdat, last |-> wlast]>>
      /\ ~rden => wdatq' = IF v THEN <<>> ELSE wdatq
      /\ q \in 0..1 /\ (q = 0 <=> wdatq = <<>>) /\ (v => q = 1)
  BY <1>1, QueueMoves
<1>7. qq = q + f - x
  <2>1. qq = q + Bit(WdatqWren(beat)) - x
    BY <1>1, QueueMoves
  <2>2. Bit(WdatqWren(beat)) = f
    BY <1>1 DEF Bit
  <2> QED BY <2>1, <2>2
<1>8. first \in Nat /\ first = Taken + q /\ (Wren => Wdat = first + n)
  <2>1. Wren => w = 1 /\ Wdat = pos - 1
    BY <1>2, <1>3 DEF Bit, Wren, Wdat
  <2> HIDE DEF n, w, q
  <2>2. /\ n \in Nat /\ w \in 0..1 /\ q \in 0..1 /\ Taken \in Nat
        /\ pos = Taken + q + n + w
    BY <1>2, <1>3, <1>4, <1>5, <1>6
  <2> QED BY <2>1, <2>2
<1>9. /\ Contents' = Run(IF rden THEN first + 1 ELSE first, nn)
      /\ rden => Rdat = first
  <2>1. Contents = Run(first, Len(Contents)) /\ (Wren => Wdat = first + Len(Contents))
    BY <1>2, <1>8
  <2> HIDE DEF first, rden, n, nn
  <2>2. /\ Contents' = Run(IF rden THEN first + 1 ELSE first, Len(Contents'))
        /\ rden => Rdat = first
    BY <1>3, <1>8, <2>1, EdgeRun
  <2> QED BY <2>2 DEF nn
<1>10. pos' = pos + a /\ fifo_wr' = (IF word THEN <<pos>> ELSE <<>>) /\ ww = a
  <2>1. pos' = pos + a /\ fifo_wr' = (IF word THEN <<pos>> ELSE <<>>)
    BY <1>1, CpGoes, RegisterHolds
  <2>2. CASE word
    BY <2>1, <2>2 DEF Bit
  <2>3. CASE ~word
    BY <2>1, <2>3 DEF Bit
  <2> QED BY <2>1, <2>2, <2>3
<1>11. /\ f \in 0..1 /\ x \in 0..1 /\ a \in 0..1
       /\ (rden => f = 1) /\ (~rden => f = 0) /\ (v => x = 1) /\ (~v => x = 0)
  BY <1>4 DEF Bit
<1> DEFINE pp == pos'
<1>12. pp = tt + qq + nn + ww
  <2>1. pp = pos + a
    BY <1>10
  <2> HIDE DEF n, w, nn, ww, q, qq, rden, v, f, x, a, first, pp, tt
  <2>2. /\ n \in Nat /\ w \in 0..1 /\ q \in 0..1 /\ Taken \in Nat
        /\ f \in 0..1 /\ x \in 0..1 /\ a \in 0..1
    BY <1>3, <1>4, <1>5, <1>6, <1>11
  <2>3. /\ pos = Taken + q + n + w /\ tt = Taken + x
        /\ qq = q + f - x /\ nn = n + w - f /\ ww = a
    BY <1>2, <1>3, <1>5, <1>7, <1>10
  <2> QED BY <2>1, <2>2, <2>3
<1>13. Contents' = Run(pos' - ww - nn, nn)
  <2>1. pp = pos + a
    BY <1>10
  <2> HIDE DEF n, w, nn, ww, rden, f, a, first, pp, v, x
  <2>2. pos - w - n = first
    BY DEF first
  <2>3. pp - ww - nn = first + f
    BY <1>1, <1>3, <1>4, <1>8, <1>10, <1>11, <2>1, <2>2
  <2>4. first + f = IF rden THEN first + 1 ELSE first
    BY <1>8, <1>11
  <2> QED BY <1>9, <2>3, <2>4 DEF pp
<1>14. fifo_wr' # <<>> => fifo_wr'[1] = pos' - 1
  BY <1>1, <1>10 DEF Bit
<1>15. wdatq' # <<>> => wdatq'[1].data = Taken'
  <2>1. CASE rden
    <3>1. wdatq'[1].data = first
      BY <1>6, <1>9, <2>1
    <3>2. q = x
      <4> HIDE DEF q, x, v
      <4>1. CASE v BY <1>6, <1>11, <4>1
      <4>2. CASE ~v BY <1>6, <1>11, <2>1, <4>2
      <4> QED BY <4>1, <4>2
    <3>3. first = Taken + x /\ Taken' = Taken + x
      BY <1>5, <1>8, <3>2
    <3> QED BY <3>1, <3>3
  <2>2. CASE ~rden
    <3> SUFFICES ASSUME wdatq' # <<>> PROVE wdatq'[1].data = Taken'
      OBVIOUS
    <3>1. ~v /\ wdatq' = wdatq
      BY <1>6, <2>2
    <3> HIDE DEF v, x
    <3>2. Taken' = Taken
      BY <1>5, <1>11, <3>1
    <3> QED BY <1>2, <3>1, <3>2
  <2> QED BY <2>1, <2>2
<1>16. ram' = {<<k, k>> : k \in 0..Taken' - 1}
  <2>1. Store(beat)
    BY CpGoes
  <2>2. CASE ~v
    <3>1. ram' = ram
      BY <2>1, <2>2 DEF Store
    <3> HIDE DEF v, x
    <3>2. Taken' = Taken
      BY <1>5, <1>11, <2>2
    <3> QED BY <1>2, <3>1, <3>2
  <2>3. CASE v
    <3>1. burst.addr + burst.beat = Taken /\ wdatq[1].data = Taken
      <4>1. busreq_cs = "DONE" /\ wdatq # <<>>
        BY <2>3 DEF WrDatVld
      <4> QED BY <1>1, <1>2, <4>1 DEF FlowInv, BusInv, DoneInv, Taken, Beat
    <3>2. ram' = ram \cup {<<Taken, Taken>>}
      BY <2>1, <2>3, <3>1 DEF Store
    <3> HIDE DEF v, x
    <3>3. Taken' = Taken + 1
      BY <1>5, <1>11, <2>3
    <3>4. 0..(Taken + 1) - 1 = (0..Taken - 1) \cup {Taken}
      BY <1>5
    <3> QED BY <1>2, <3>2, <3>3, <3>4
  <2> QED BY <2>2, <2>3
<1> QED BY <1>12, <1>13, <1>14, <1>15, <1>16 DEF ReadWords

(* The words of a write stay in order.                                     *)
LEMMA WriteWordsKept ==
  ASSUME Data = Nat, WordsInv, InUse,
         NEW aready \in BOOLEAN, NEW beat \in BOOLEAN, NEW word \in BOOLEAN,
         NEW bvalid \in BOOLEAN,
         Manager(aready, beat, word, bvalid), CpStep(beat, word),
         dir # "none", dir' # "none"
  PROVE  WriteWords'
<1> SUFFICES ASSUME MemWr PROVE WriteWords'
  BY CpGoes DEF Goes, MemWr, WriteWords
<1> DEFINE n == Len(Contents)  w == Len(fifo_wr)
           nn == Len(Contents')  ww == Len(fifo_wr')
           rden == FifoRden(beat, word)
           r == RdDatVld(beat)
           f == Bit(rden)
           x == Bit(r)
           tt == Taken'
           pp == pos'
<1>1. /\ BusFsm(aready, beat) /\ Subordinate(aready, beat, bvalid) /\ FifoSide(beat, word)
      /\ pos \in Nat /\ FlowInv /\ (rden <=> word)
  <2>1. FlowInv
    BY CpGoes
  <2> QED BY <2>1, Typed, ReadsAre DEF Manager
<1>2. /\ Taken = pos + n + w /\ Contents = Run(pos, n)
      /\ fifo_wr # <<>> => fifo_wr[1] = pos + n
  BY <1>1 DEF FlowInv, WriteWords
<1>3. /\ n \in Nat /\ nn \in Nat /\ nn = n + w - f /\ w = Bit(Wren)
      /\ rden \in BOOLEAN /\ (rden => ~Emty)
      /\ Wren \in BOOLEAN /\ (Wren => ~Full) /\ Wdat \in Data
      /\ Edge(Wren, Wdat, rden) /\ FifoInv
  BY <1>1, SideStep
<1>4. f \in 0..1 /\ x \in 0..1 /\ w \in 0..1 /\ Bit(word) = f
      /\ (rden => f = 1) /\ (~rden => f = 0) /\ (r => x = 1) /\ (~r => x = 0)
  <2>1. w \in 0..1
    BY <1>3 DEF Bit
  <2>2. Bit(word) = f
    BY <1>1 DEF Bit
  <2> HIDE DEF rden, r
  <2> QED BY <1>3, <2>1, <2>2 DEF Bit
<1>5. Taken \in Nat /\ tt = Taken + x
  <2>1. Taken' = Taken + Bit(WrDatVld(beat) \/ RdDatVld(beat)) /\ ~WrDatVld(beat)
    BY <1>1, TakenMoves
  <2>2. Bit(WrDatVld(beat) \/ RdDatVld(beat)) = x
    BY <2>1 DEF Bit
  <2> QED BY <2>1, <2>2, Typed
<1>6. Contents' = Run(IF rden THEN pos + 1 ELSE pos, nn)
  <2>1. Contents = Run(pos, Len(Contents)) /\ (Wren => Wdat = pos + Len(Contents))
    BY <1>2 DEF Wren, Wdat
  <2> HIDE DEF rden, n, nn
  <2>2. Contents' = Run(IF rden THEN pos + 1 ELSE pos, Len(Contents'))
    BY <1>1, <1>3, <2>1, EdgeRun
  <2> QED BY <2>2 DEF nn
<1>7. pp = pos + f /\ fifo_wr' = (IF r THEN <<Taken>> ELSE <<>>) /\ ww = x
  <2>1. pp = pos + Bit(word)
    BY CpGoes
  <2>2. fifo_wr' = IF r THEN <<Taken>> ELSE <<>>
    BY <1>1, RegisterHolds
  <2>3. ww = x
    <3>1. CASE r
      BY <2>2, <3>1 DEF Bit
    <3>2. CASE ~r
      BY <2>2, <3>2 DEF Bit
    <3> QED BY <3>1, <3>2
  <2> QED BY <1>4, <2>1, <2>2, <2>3
<1>8. tt = pp + nn + ww
  <2> HIDE DEF n, w, nn, ww, rden, r, f, x, tt, pp
  <2>1. /\ n \in Nat /\ w \in 0..1 /\ pos \in Nat /\ f \in 0..1 /\ x \in 0..1
    BY <1>1, <1>3, <1>4
  <2>2. /\ Taken = pos + n + w /\ tt = Taken + x /\ pp = pos + f
        /\ nn = n + w - f /\ ww = x
    BY <1>2, <1>3, <1>5, <1>7
  <2> QED BY <2>1, <2>2
<1>9. Contents' = Run(pos', nn)
  <2>1. pos + f = IF rden THEN pos + 1 ELSE pos
    <3> HIDE DEF rden, f
    <3> QED BY <1>1, <1>3, <1>4
  <2> QED BY <1>6, <1>7, <2>1
<1>10. fifo_wr' # <<>> => fifo_wr'[1] = pos' + nn
  <2>1. fifo_wr' # <<>> => fifo_wr'[1] = Taken
    BY <1>7
  <2>2. Taken = pp + nn
    <3> HIDE DEF n, w, nn, ww, rden, r, f, x, tt, pp
    <3> QED BY <1>1, <1>2, <1>3, <1>4, <1>7
  <2> QED BY <2>1, <2>2
<1> QED BY <1>8, <1>9, <1>10 DEF WriteWords

(* From one block's start there is a whole block to the end.               *)
LEMMA RoomForBlock ==
  ASSUME NEW b \in Nat \ {0}, NEW m \in Nat, NEW p \in Nat, p % b = 0, p < b * m
  PROVE  p + b <= b * m
<1> DEFINE k == p \div b
<1>1. k \in Nat /\ p = b * k
  <2>1. k \in Nat /\ p = b * (p \div b) + (p % b)
    OBVIOUS
  <2> HIDE DEF k
  <2> QED BY <2>1 DEF k
<1> HIDE DEF k
<1>2. \A x, y \in Nat : x <= y => b * x <= b * y
  OBVIOUS
<1>3. k < m
  <2> SUFFICES ASSUME m <= k PROVE FALSE
    BY <1>1
  <2>1. b * m <= b * k
    BY <1>1, <1>2
  <2>2. b * m \in Nat
    OBVIOUS
  <2> QED BY <1>1, <2>1, <2>2
<1>4. k + 1 <= m /\ k + 1 \in Nat
  BY <1>1, <1>3
<1>5. b * (k + 1) <= b * m
  BY <1>2, <1>4
<1>6. b * (k + 1) = b * k + b
  BY <1>1
<1> QED BY <1>1, <1>5, <1>6

(* What is left of the block after a word, and where the blocks end.       *)
LEMMA BlockKept ==
  ASSUME WordsInv, InUse, NEW beat \in BOOLEAN, NEW word \in BOOLEAN,
         CpStep(beat, word), dir # "none", dir' # "none"
  PROVE  /\ BlockInv'
         /\ Left \in 1..block_len /\ (~in_block => Left = block_len)
         /\ word /\ in_block' => Left' = Left - 1
         /\ ~word => Left' = Left
<1> DEFINE b == block_len  left == Left  T == Total  pp == pos'  ll == Left'
           h == pos % b  g == (pos + 1) % b
<1>1. /\ Goes /\ FlowInv
      /\ \/ ~word /\ CpStart(beat)
         \/ ~word /\ CpRest(beat)
         \/ word /\ CpWord(beat)
  BY CpGoes
<1>2. /\ b \in Nat \ {0} /\ pos \in Nat /\ in_block \in BOOLEAN /\ num_blocks \in Nat \ {0}
  BY Typed
<1>3. b' = b /\ Total' = T /\ dir # "none" /\ dir' # "none"
  BY <1>1 DEF Goes, Total
<1>4. /\ ~in_block => pos % b = 0 /\ pos <= T
      /\ in_block => pos + left <= T
  BY <1>1, <1>3 DEF FlowInv, BlockInv
<1>5. left \in 1..b /\ (~in_block => left = b) /\ (g # 0 => b - g = left - 1)
      /\ h = pos % b /\ (~in_block => h = 0)
  <2>1. h \in 0..(b - 1) /\ (g # 0 => g = h + 1)
    BY <1>2, LeftOfBlock
  <2>2. left = b - h /\ (~in_block => h = 0)
    BY <1>4 DEF Left
  <2> HIDE DEF h, g, left
  <2>3. left \in 1..b /\ (g # 0 => b - g = left - 1) /\ (~in_block => left = b)
    BY <1>2, <2>1, <2>2
  <2> QED BY <2>2, <2>3 DEF h
<1>6. T \in Nat
  BY <1>2 DEF Total
<1>7. CASE ~word /\ CpStart(beat)
  <2>1. ~in_block /\ in_block' = TRUE /\ pos' = pos /\ pos < T
    BY <1>7 DEF CpStart
  <2>2. Left' = left
    BY <1>3, <2>1 DEF Left
  <2>3. pos + b <= T
    <3>1. pos % b = 0 /\ pos < b * num_blocks
      BY <1>4, <2>1 DEF Total
    <3>2. pos + b <= b * num_blocks
      BY <1>2, <3>1, RoomForBlock
    <3> QED BY <3>2 DEF Total
  <2>4. BlockInv'
    BY <1>3, <1>5, <2>1, <2>2, <2>3 DEF BlockInv
  <2> QED BY <1>5, <1>7, <2>2, <2>4
<1>8. CASE ~word /\ CpRest(beat)
  <2>1. in_block' = in_block /\ pos' = pos
    BY <1>8 DEF CpRest
  <2>2. Left' = left
    BY <1>3, <2>1 DEF Left
  <2>3. BlockInv'
    BY <1>3, <1>4, <2>1, <2>2 DEF BlockInv
  <2> QED BY <1>5, <1>8, <2>2, <2>3
<1>9. CASE word /\ CpWord(beat)
  <2>1. in_block /\ pos' = pos + 1 /\ in_block' = (g # 0)
    BY <1>9 DEF CpWord
  <2>2. in_block' => Left' = left - 1
    <3>1. Left' = b - g
      BY <1>3, <2>1 DEF Left
    <3> QED BY <1>5, <2>1, <3>1
  <2>3. /\ ~in_block' => pos' % b' = 0 /\ pos' <= Total'
    <3>1. pos + 1 <= T
      <4> HIDE DEF left, T, b, h, g
      <4> QED BY <1>2, <1>4, <1>5, <1>6, <2>1
    <3> QED BY <1>3, <2>1, <3>1
  <2>4. in_block' => pos' + Left' <= Total'
    <3>1. (pos + 1) + (left - 1) <= T
      <4> HIDE DEF left, T, b, h, g
      <4> QED BY <1>2, <1>4, <1>5, <1>6, <2>1
    <3> QED BY <1>3, <2>1, <2>2, <3>1
  <2> QED BY <1>5, <1>9, <2>2, <2>3, <2>4 DEF BlockInv
<1> QED BY <1>1, <1>7, <1>8, <1>9

(* The words of a block to the card are at the FIFO's output in time.      *)
LEMMA BlockWordsKept ==
  ASSUME Data = Nat, WordsInv, InUse,
         NEW beat \in BOOLEAN, NEW word \in BOOLEAN,
         FifoSide(beat, word), CpStep(beat, word), dir # "none", dir' # "none"
  PROVE  BlockWordsInv'
<1> SUFFICES ASSUME MemWr PROVE BlockWordsInv'
  BY CpGoes DEF Goes, MemWr, BlockWordsInv
<1> DEFINE rden == FifoRden(beat, word)
           b == block_len
           left == Left
<1>1. /\ Goes /\ FlowInv
      /\ \/ ~word /\ CpStart(beat)
         \/ ~word /\ CpRest(beat)
         \/ word /\ CpWord(beat)
  BY CpGoes
<1>2. /\ b \in Nat \ {0} /\ pos \in Nat /\ gap \in 0..GAP
      /\ GAP \in Nat /\ GAP >= 2 /\ in_block \in BOOLEAN
  BY Typed
<1>3. (rden <=> word) /\ ~MemRd
  BY <1>1, ReadsAre DEF MemRd, MemWr
<1>4. \A k \in Nat :
         /\ ~rden /\ k <= Len(Contents) => AlmostAtOutput(k)'
         /\ ~rden /\ AlmostAtOutput(k) => AtOutput(k)'
         /\ ~rden /\ AtOutput(k) => AtOutput(k)'
         /\ rden /\ AtOutput(k + 1) => AtOutput(k)'
  <2>1. /\ rden \in BOOLEAN /\ (rden => ~Emty)
        /\ Wren \in BOOLEAN /\ (Wren => ~Full) /\ Wdat \in Data
        /\ Edge(Wren, Wdat, rden) /\ FifoInv
    BY SideStep
  <2> HIDE DEF rden
  <2> QED BY <2>1, ReadAhead
<1>5. mem_avail' => b <= Len(Contents)
  BY DEF FifoSide, Avail, WordsInv, AxiInv, FifoCounted
<1>6. /\ ~in_block /\ gap < GAP /\ mem_avail => AlmostAtOutput(b)
      /\ in_block => AtOutput(left)
  BY <1>1 DEF FlowInv, BlockWordsInv
<1>7. /\ left \in 1..b /\ left - 1 \in Nat /\ left = (left - 1) + 1
      /\ ~in_block => left = b
      /\ word /\ in_block' => Left' = left - 1
      /\ ~word => Left' = left
  <2>1. /\ left \in 1..b /\ (~in_block => left = b)
        /\ word /\ in_block' => Left' = left - 1
        /\ ~word => Left' = left
    BY BlockKept
  <2> HIDE DEF left
  <2>2. left - 1 \in Nat /\ left = (left - 1) + 1
    BY <1>2, <2>1
  <2> QED BY <2>1, <2>2
<1>8. block_len' = b
  BY <1>1 DEF Goes
<1>9. CASE ~word /\ CpStart(beat)
  <2>1. ~in_block /\ in_block' = TRUE /\ gap = 0 /\ mem_avail
    BY <1>3, <1>9 DEF CpStart
  <2>2. Left' = b
    BY <1>7, <1>9, <2>1
  <2>3. AlmostAtOutput(b)
    BY <1>2, <1>6, <2>1
  <2> HIDE DEF b, rden
  <2>4. b > 0 => ~Emty' /\ b <= Len(Contents)' /\ (b > 1 => adv' = 2)
    BY <1>2, <1>3, <1>4, <1>9, <2>3 DEF AtOutput
  <2> QED BY <2>1, <2>2, <2>4 DEF BlockWordsInv, AtOutput
<1>10. CASE ~word /\ CpRest(beat)
  <2>1. in_block' = in_block
    BY <1>10 DEF CpRest
  <2>2. Left' = left
    BY <1>7, <1>10
  <2> HIDE DEF b, rden, left
  <2>3. CASE in_block
    <3>1. left > 0 => ~Emty' /\ left <= Len(Contents)' /\ (left > 1 => adv' = 2)
      <4>1. left \in Nat /\ AtOutput(left)
        BY <1>2, <1>6, <1>7, <2>3
      <4> QED BY <1>3, <1>4, <1>10, <4>1 DEF AtOutput
    <3> QED BY <2>1, <2>2, <2>3, <3>1 DEF BlockWordsInv, AtOutput
  <2>4. CASE ~in_block
    <3>1. mem_avail' => (b > 0 => b <= Len(Contents)' /\ adv' > 0)
      BY <1>2, <1>3, <1>4, <1>5, <1>10 DEF AlmostAtOutput
    <3> QED BY <1>8, <2>1, <2>4, <3>1 DEF BlockWordsInv, AlmostAtOutput
  <2> QED BY <2>3, <2>4, <1>2
<1>11. CASE word /\ CpWord(beat)
  <2>1. in_block /\ gap' = IF in_block' THEN 0 ELSE GAP
    BY <1>11 DEF CpWord
  <2>2. AtOutput((left - 1) + 1)
    BY <1>6, <1>7, <2>1
  <2> DEFINE k == left - 1
  <2>3. k \in Nat /\ AtOutput(k + 1)
    BY <1>7, <2>2
  <2> HIDE DEF b, rden, left, k
  <2>4. k > 0 => ~Emty' /\ k <= Len(Contents)' /\ (k > 1 => adv' = 2)
    BY <1>3, <1>4, <1>11, <2>3 DEF AtOutput
  <2>5. in_block' => Left' = k
    BY <1>7, <1>11 DEF k
  <2>6. ~in_block' => ~(gap' < GAP)
    BY <1>2, <2>1
  <2> QED BY <2>4, <2>5, <2>6 DEF BlockWordsInv, AtOutput
<1> QED BY <1>1, <1>9, <1>10, <1>11

(* What a whole number of blocks leaves of a block.                        *)
LEMMA WholeBlocks ==
  ASSUME NEW b \in Nat \ {0}, NEW k \in Nat
  PROVE  (k * b) % b = 0
<1> DEFINE p == k * b  d == p \div b  h == p % b
<1>1. p \in Nat
  OBVIOUS
<1>2. d \in Nat /\ h \in 0..(b - 1) /\ p = d * b + h
  <2> HIDE DEF p
  <2> QED BY <1>1
<1>3. \A x, y \in Nat : x < y => x * b + b <= y * b
  <2> SUFFICES ASSUME NEW x \in Nat, NEW y \in Nat, x < y PROVE x * b + b <= y * b
    OBVIOUS
  <2>1. \A i, j \in Nat : i <= j => i * b <= j * b
    OBVIOUS
  <2>2. x + 1 <= y /\ x + 1 \in Nat
    OBVIOUS
  <2>3. (x + 1) * b <= y * b
    BY <2>1, <2>2
  <2>4. (x + 1) * b = x * b + b
    OBVIOUS
  <2> QED BY <2>3, <2>4
<1>4. d * b \in Nat
  BY <1>2
<1>5. CASE d < k
  <2>1. d * b + b <= p
    BY <1>2, <1>3, <1>5
  <2> HIDE DEF p, d, h
  <2> QED BY <1>1, <1>2, <1>4, <2>1
<1>6. CASE k < d
  <2>1. p + b <= d * b
    BY <1>2, <1>3, <1>6
  <2> HIDE DEF p, d, h
  <2> QED BY <1>1, <1>2, <1>4, <2>1
<1>7. CASE d = k
  <2>1. d * b = p
    BY <1>7
  <2>2. h = 0
    <3> HIDE DEF p, d, h
    <3> QED BY <1>1, <1>2, <1>4, <2>1
  <2> QED BY <2>2
<1>8. d < k \/ k < d \/ d = k
  <2> HIDE DEF d
  <2> QED BY <1>2
<1> QED BY <1>5, <1>6, <1>7, <1>8

(* The card keeps within the burst at hand; the word counter counts its    *)
(* words down.                                                             *)
LEMMA AheadKept ==
  ASSUME Data = Nat, WordsInv, InUse,
         NEW aready \in BOOLEAN, NEW beat \in BOOLEAN, NEW word \in BOOLEAN,
         NEW bvalid \in BOOLEAN,
         Manager(aready, beat, word, bvalid), CpStep(beat, word),
         dir # "none", dir' # "none"
  PROVE  AheadInv'
<1> SUFFICES ASSUME MemRd PROVE AheadInv'
  BY CpGoes DEF Goes, MemRd, AheadInv
<1> DEFINE n == Len(Contents)  w == Len(fifo_wr)  q == Len(wdatq)  b == block_len
           qq == Len(wdatq')  v == WrDatVld(beat)  f == WdatqWren(beat)
           Near == busreq_cs' # "IDLE" => pos' <= axaddr' + b
           Counts == (Active => /\ wcntr = IF Beat + Len(wdatq) <= axlen
                                           THEN axlen - (Beat + Len(wdatq)) ELSE 0
                                /\ wlast <=> wcntr = 0)'
           Waits == busreq_cs' = "WAIT" =>
                      /\ gteq_axlen' => (wcntr' = 0 <=> axlen' = 0)
                      /\ pos' = axaddr' + b =>
                           ~in_block' /\ (gap' = GAP \/ (gteq_axlen' /\ gap' + 1 >= GAP))
<1>1. /\ BusFsm(aready, beat) /\ Subordinate(aready, beat, bvalid) /\ FifoSide(beat, word)
      /\ PartialBlocks(aready)
  BY DEF Manager
<1>2. /\ Goes /\ FlowInv /\ pos' = pos + Bit(word)
      /\ \/ ~word /\ CpStart(beat)
         \/ ~word /\ CpRest(beat)
         \/ word /\ CpWord(beat)
  BY CpGoes
<1>3. /\ b \in Nat \ {0} /\ pos \in Nat /\ axaddr \in Nat /\ axlen \in Nat /\ wcntr \in Nat
      /\ Beat \in Nat /\ Taken \in Nat /\ GAP \in Nat /\ GAP >= 2 /\ gap \in 0..GAP
      /\ blk_cntr \in Nat
  BY Typed
<1>4. busreq_cs \in {"IDLE", "WAIT", "READ", "WRITE", "DONE"} /\ in_block \in BOOLEAN
  BY Typed
<1>5. b' = b /\ ~MemWr /\ MemRd'
  BY <1>2 DEF Goes, MemRd, MemWr
<1>6. /\ busreq_cs # "IDLE" => pos <= axaddr + b
      /\ Active => /\ wcntr = IF Beat + q <= axlen THEN axlen - (Beat + q) ELSE 0
                   /\ wlast <=> wcntr = 0
      /\ busreq_cs = "WAIT" =>
           /\ gteq_axlen => (wcntr = 0 <=> axlen = 0)
           /\ pos = axaddr + b =>
                ~in_block /\ (gap = GAP \/ (gteq_axlen /\ gap + 1 >= GAP))
  BY <1>2 DEF FlowInv, AheadInv
<1>7. n \in Nat /\ w \in 0..1 /\ (gteq_axlen' <=> n >= axlen)
  <2>1. n \in Nat /\ w = Bit(Wren) /\ fifo_cntr = n
    BY <1>1, SideStep
  <2>2. gteq_axlen' = (fifo_cntr >= axlen)
    BY <1>1 DEF FifoSide
  <2>3. w \in 0..1
    BY <2>1 DEF Bit
  <2> QED BY <2>1, <2>2, <2>3
<1>8. /\ pos = Taken + q + n + w
      /\ q \in 0..1 /\ (q = 0 <=> wdatq = <<>>)
      /\ qq = q + Bit(f) - Bit(v)
  BY <1>1, <1>2, QueueMoves DEF FlowInv, ReadWords
<1>9. word => in_block
  BY <1>2 DEF CpWord
<1>10. Bit(f) \in 0..1 /\ Bit(v) \in 0..1 /\ Bit(word) \in 0..1 /\ (~word => Bit(word) = 0)
       /\ (word => Bit(word) = 1)
  BY DEF Bit
<1> SUFFICES Near /\ Counts /\ Waits
  BY <1>5 DEF AheadInv
<1>11. ASSUME busreq_cs = "IDLE" PROVE Near /\ Counts /\ Waits
  <2>1. /\ busreq_cs' = "WAIT" /\ wcntr' = 0 /\ axaddr' = 0
        /\ axlen_p1 > 0 => axlen' = axlen_p1 - 1
    BY <1>1, <1>11, IdleStep
  <2>2. /\ axlen_p1 = b /\ axlen = b - 1 /\ axaddr = 0 /\ pos = 0 /\ ~in_block
    BY <1>2, <1>11 DEF FlowInv, BusInv, IdleInv
  <2>3. pos' = 0 /\ axlen' = axlen
    BY <1>2, <1>3, <1>9, <1>10, <2>1, <2>2
  <2>4. n = 0
    <3> HIDE DEF n, w, q
    <3> QED BY <1>3, <1>7, <1>8, <2>2
  <2>5. gteq_axlen' => axlen = 0
    <3> HIDE DEF n
    <3> QED BY <1>3, <1>7, <2>4
  <2>6. Counts
    BY <2>1 DEF Active
  <2> QED BY <1>3, <2>1, <2>3, <2>5, <2>6
<1>12. ASSUME busreq_cs = "WAIT" PROVE Near /\ Counts /\ Waits
  <2>1. /\ all_blocks_done => busreq_cs' = "WAIT"
        /\ ~all_blocks_done => busreq_cs' = IF gteq_axlen THEN "WRITE" ELSE "WAIT"
        /\ axaddr' = axaddr /\ wcntr' = axlen /\ (wlast' <=> wcntr = 0)
        /\ axlen_p1 > 0 => axlen' = axlen_p1 - 1
        /\ wdatq' = <<>> /\ Beat' = 0
    BY <1>1, <1>5, <1>12, WaitStep
  <2>2. axlen_p1 = b /\ axlen = b - 1 /\ axaddr = blk_cntr * b
    BY <1>2, <1>12 DEF FlowInv, BusInv, WaitInv
  <2>3. axlen' = axlen
    BY <1>3, <2>1, <2>2
  <2>4. Near
    <3>1. word => pos # axaddr + b
      BY <1>6, <1>9, <1>12
    <3>2. pos + Bit(word) <= axaddr + b
      <4>1. pos <= axaddr + b
        BY <1>6, <1>12
      <4> QED BY <1>3, <1>10, <3>1, <4>1
    <3> QED BY <1>2, <2>1, <3>2
  <2>5. Counts
    <3> SUFFICES ASSUME busreq_cs' # "WAIT" PROVE Counts
      BY DEF Active
    <3>1. gteq_axlen
      BY <2>1
    <3>2. Len(wdatq') = 0
      BY <2>1
    <3>3. 0 + 0 <= axlen /\ axlen - (0 + 0) = axlen
      BY <1>3
    <3> QED BY <1>6, <1>12, <2>1, <2>3, <3>1, <3>2, <3>3
  <2>6. ASSUME busreq_cs' = "WAIT", pos' = axaddr + b
        PROVE  ~in_block' /\ (gap' = GAP \/ (gteq_axlen' /\ gap' + 1 >= GAP))
    <3>1. CASE word /\ CpWord(beat)
      <4>1. /\ in_block' = ((pos + 1) % b # 0) /\ pos' = pos + 1
            /\ gap' = IF (pos + 1) % b = 0 THEN GAP ELSE 0
        BY <3>1 DEF CpWord
      <4>2. pos + 1 = (blk_cntr + 1) * b
        <5>1. (blk_cntr + 1) * b = blk_cntr * b + b
          BY <1>3
        <5> QED BY <2>2, <2>6, <4>1, <5>1
      <4>3. ((blk_cntr + 1) * b) % b = 0
        <5>1. blk_cntr + 1 \in Nat
          BY <1>3
        <5> QED BY <1>3, <5>1, WholeBlocks
      <4> QED BY <4>1, <4>2, <4>3
    <3>2. CASE ~word /\ CpStart(beat)
      <4>1. pos' = pos /\ gap = 0
        BY <3>2 DEF CpStart
      <4>2. gap = GAP \/ gap + 1 >= GAP
        BY <1>6, <1>12, <2>6, <4>1
      <4> QED BY <1>3, <4>1, <4>2
    <3>3. CASE ~word /\ CpRest(beat)
      <4>1. pos' = pos /\ in_block' = in_block /\ gap' = IF gap > 0 THEN gap - 1 ELSE 0
        BY <3>3 DEF CpRest
      <4>2. ~in_block /\ (gap = GAP \/ (gteq_axlen /\ gap + 1 >= GAP))
        BY <1>6, <1>12, <2>6, <4>1
      <4>3. CASE gap = GAP
        <5>1. gap' + 1 = GAP
          BY <1>3, <4>1, <4>3
        <5>2. q = 0 /\ Taken = axaddr
          <6>1. wdatq = <<>>
            BY <1>12, NoBeat
          <6> QED BY <1>3, <1>8, <1>12, <6>1 DEF Taken, Beat
        <5>3. n >= axlen
          <6>1. pos = axaddr + b
            BY <2>6, <4>1
          <6> HIDE DEF n, w, q
          <6> QED BY <1>3, <1>7, <1>8, <2>2, <5>2, <6>1
        <5>4. gap' + 1 >= GAP
          BY <1>3, <5>1
        <5> QED BY <1>7, <4>1, <4>2, <5>3, <5>4
      <4>4. CASE gteq_axlen
        <5>1. all_blocks_done
          BY <2>1, <2>6, <4>4
        <5>2. Taken = Total /\ Taken = axaddr /\ Total \in Nat
          BY <1>2, <1>3, <1>12, <5>1, TakenBounds DEF Taken, Beat, Goes
        <5>3. pos <= Total
          BY <1>2, <4>2 DEF FlowInv, BlockInv
        <5> QED BY <1>3, <2>6, <4>1, <5>2, <5>3
      <4> QED BY <4>2, <4>3, <4>4
    <3> QED BY <1>2, <3>1, <3>2, <3>3
  <2> QED BY <2>1, <2>3, <2>4, <2>5, <2>6
<1>13. ASSUME Active, ~DatDone(beat) PROVE Near /\ Counts /\ Waits
  <2>1. /\ busreq_cs' = IF ReqDone(aready) THEN "DONE" ELSE busreq_cs
        /\ axaddr' = axaddr /\ axlen' = axlen
        /\ wcntr' = WcntrD(beat) /\ (wlast' <=> WcntrD(beat) = 0)
        /\ Beat' = Beat + Bit(v \/ RdDatVld(beat))
    BY <1>1, <1>13, BurstStep
  <2>2. Beat' = Beat + Bit(v)
    <3>1. ~RdDatVld(beat)
      BY <1>1, <1>2, TakenMoves DEF Goes
    <3> QED BY <2>1, <3>1 DEF Bit
  <2>3. busreq_cs \in {"WRITE", "DONE"} /\ axlen_p1 = b
    BY <1>2, <1>4, <1>13 DEF FlowInv, BusInv, AddressInv, DoneInv, Active
  <2>4. Near
    <3>1. word => pos < axaddr + b
      BY <1>2, <2>3 DEF CpWord, CardReady, InUse
    <3>2. pos + Bit(word) <= axaddr + b
      <4>1. pos <= axaddr + b
        BY <1>6, <2>3
      <4> QED BY <1>3, <1>10, <3>1, <4>1
    <3> QED BY <1>2, <2>1, <3>2
  <2>5. Counts
    <3>1. wcntr = (IF Beat + q <= axlen THEN axlen - (Beat + q) ELSE 0) /\ (wlast <=> wcntr = 0)
      BY <1>6, <1>13
    <3>2. wcntr' = IF wcntr # 0 /\ f THEN wcntr - 1 ELSE wcntr
      BY <2>1 DEF WcntrD
    <3> DEFINE t == Beat + q  tt == Beat' + qq
    <3>3. t \in Nat /\ tt = t + Bit(f)
      <4> DEFINE bb == Beat'
      <4>1. bb = Beat + Bit(v)
        BY <2>2
      <4> HIDE DEF bb, q, qq, v, f
      <4> QED BY <1>3, <1>8, <1>10, <4>1 DEF bb
    <3>4. wcntr' = IF tt <= axlen THEN axlen - tt ELSE 0
      <4>0. wcntr = IF t <= axlen THEN axlen - t ELSE 0
        BY <3>1
      <4>1. CASE f
        <5>1. tt = t + 1
          BY <3>3, <4>1 DEF Bit
        <5>2. wcntr' = IF wcntr # 0 THEN wcntr - 1 ELSE wcntr
          BY <3>2, <4>1
        <5> DEFINE c == wcntr'
        <5>3. c = IF wcntr # 0 THEN wcntr - 1 ELSE wcntr
          BY <5>2
        <5> HIDE DEF t, tt, f, c
        <5>4. c = IF tt <= axlen THEN axlen - tt ELSE 0
          BY <1>3, <3>3, <4>0, <5>1, <5>3
        <5> QED BY <5>4 DEF c
      <4>2. CASE ~f
        <5>1. tt = t
          <6>1. Bit(f) = 0
            BY <4>2 DEF Bit
          <6> HIDE DEF t, tt, f
          <6> QED BY <3>3, <6>1
        <5> HIDE DEF t, tt, f
        <5> QED BY <1>3, <3>2, <3>3, <4>0, <4>2, <5>1
      <4> QED BY <4>1, <4>2
    <3>5. wlast' <=> wcntr' = 0
      BY <2>1
    <3> QED BY <2>1, <3>4, <3>5
  <2>6. busreq_cs' # "WAIT"
    BY <2>1, <2>3
  <2> QED BY <2>4, <2>5, <2>6
<1>14. ASSUME DatDone(beat) PROVE Near /\ Counts /\ Waits
  <2>1. /\ n = 0 /\ pos = axaddr + b /\ q = 1
    <3>1. Contents = <<>> /\ pos = axaddr + b /\ q = 1
      BY <1>14, LastBeat
    <3> QED BY <3>1
  <2>2. busreq_cs = "DONE" /\ Beat = axlen /\ Active
    BY <1>14, NoBeat DEF Active
  <2>3. /\ busreq_cs' = "WAIT" /\ axaddr' = axaddr + axlen_p1 /\ axlen' = axlen
        /\ wcntr' = WcntrD(beat)
    BY <1>1, <1>14, <2>2, BurstStep
  <2>4. axlen_p1 = b
    BY <1>2, <2>2 DEF FlowInv, BusInv, DoneInv
  <2>5. ~word
    BY <1>2, <1>3, <2>1, <2>2, <2>4 DEF CpWord, CardReady, InUse
  <2>6. pos' = axaddr + b /\ axaddr' = axaddr + b
    BY <1>2, <1>3, <1>10, <2>1, <2>3, <2>4, <2>5
  <2>7. Near
    BY <1>3, <2>6
  <2>8. Counts
    BY <2>3 DEF Active
  <2>9. wcntr' = 0
    <3>1. wcntr = 0
      <4> HIDE DEF q
      <4> QED BY <1>3, <1>6, <2>1, <2>2
    <3> QED BY <2>3, <3>1 DEF WcntrD
  <2>10. gteq_axlen' => axlen' = 0
    <3> HIDE DEF n
    <3> QED BY <1>3, <1>7, <2>1, <2>3
  <2>11. pos' # axaddr' + b
    <3>1. axaddr + b # (axaddr + b) + b
      BY <1>3
    <3> QED BY <2>6, <3>1
  <2> QED BY <2>7, <2>8, <2>9, <2>10, <2>11
<1> QED BY <1>4, <1>11, <1>12, <1>13, <1>14 DEF Active

----------------------------------------------------------------------------
(* A request from its start to its end.                                    *)

(* A request that goes on keeps everything in order.                       *)
LEMMA FlowGoesOn ==
  ASSUME Data = Nat, WordsInv, InUse,
         NEW aready \in BOOLEAN, NEW beat \in BOOLEAN, NEW word \in BOOLEAN,
         NEW bvalid \in BOOLEAN,
         Manager(aready, beat, word, bvalid), CpStep(beat, word),
         dir # "none", dir' # "none"
  PROVE  FlowInv'
<1>1. /\ BusFsm(aready, beat) /\ Subordinate(aready, beat, bvalid) /\ FifoSide(beat, word)
      /\ PartialBlocks(aready)
  BY DEF Manager
<1>2. Goes /\ FlowInv /\ plan = dir
  BY CpGoes
<1>3. PartInv'
  <2>1. block_len' = block_len
    BY <1>2 DEF Goes
  <2> QED BY <1>1, <1>2, <2>1, PartKept
<1>4. BusInv'
  BY <1>1, <1>2, BusKept
<1>5. PlanInv'
  BY <1>2 DEF Goes, PlanInv, FlowInv
<1>6. BlockInv' /\ BlockWordsInv'
  BY <1>1, BlockKept, BlockWordsKept
<1>7. ReadWords' /\ AheadInv' /\ WriteWords'
  BY ReadWordsKept, AheadKept, WriteWordsKept
<1> QED BY <1>3, <1>4, <1>5, <1>6, <1>7 DEF FlowInv

(* Without a burst and without words, an edge leaves the FIFO empty.       *)
LEMMA StaysEmpty ==
  ASSUME Data = Nat, WordsInv, InUse, NEW beat \in BOOLEAN, FifoSide(beat, FALSE),
         busreq_cs \in {"IDLE", "WAIT"}, Contents = <<>>, fifo_wr = <<>>
  PROVE  Contents' = <<>> /\ fifo_wr' = <<>> /\ ~mem_avail'
<1> DEFINE rden == FifoRden(beat, FALSE)
<1>1. /\ rden \in BOOLEAN /\ (rden => ~Emty)
      /\ Wren \in BOOLEAN /\ (Wren => ~Full) /\ Wdat \in Data
      /\ Edge(Wren, Wdat, rden) /\ FifoInv /\ fifo_cntr = Len(Contents)
  BY SideStep
<1>2. /\ Contents' = IF Wren THEN Append(IF rden THEN Tail(Contents) ELSE Contents, Wdat)
                     ELSE IF rden THEN Tail(Contents) ELSE Contents
      /\ rden => Contents # <<>>
  <2> HIDE DEF rden
  <2> QED BY <1>1, EdgeQueue
<1>3. Contents' = <<>>
  BY <1>2 DEF Wren
<1>4. fifo_wr' = <<>>
  <2>1. ~RdDatVld(beat)
    BY NoBeat
  <2> QED BY <2>1 DEF FifoSide, FifoWrite
<1>5. ~mem_avail'
  <2>1. fifo_cntr = 0
    BY <1>1
  <2> QED BY <2>1 DEF FifoSide, Avail
<1> QED BY <1>3, <1>4, <1>5

(* Between requests the manager is empty, and is made ready for the next.  *)
LEMMA FlowWaits ==
  ASSUME Data = Nat, WordsInv, InUse,
         NEW aready \in BOOLEAN, NEW beat \in BOOLEAN, NEW word \in BOOLEAN,
         NEW bvalid \in BOOLEAN,
         Manager(aready, beat, word, bvalid), CpStep(beat, word), AxiInv',
         FlowInv, dir = "none"
  PROVE  FlowInv'
<1>1. /\ BusFsm(aready, beat) /\ Subordinate(aready, beat, bvalid) /\ FifoSide(beat, word)
      /\ PartialBlocks(aready)
  BY DEF Manager
<1>2. /\ SETTLE \in Nat \ {0} /\ settle \in Nat /\ plan \in Kinds
      /\ busreq_cs \in {"IDLE", "WAIT", "READ", "WRITE", "DONE"}
      /\ num_blocks \in Nat \ {0} /\ block_len \in Nat \ {0}
  BY Typed DEF WordsInv, CpTypes
<1>3. /\ Contents = <<>> /\ fifo_wr = <<>> /\ ~in_block
      /\ plan # "none" => /\ busreq_cs = "IDLE" /\ pos = 0 /\ gap = 0 /\ ram = {}
                          /\ settle <= SETTLE
  BY DEF FlowInv, PlanInv
<1>4. ~word /\ (CpProgram \/ CpRaise \/ (CpRest(beat) /\ plan = "none"))
  BY DEF CpStep, CpStart, CpRest, CpFinish, CpAbandon, CpWord
<1>5. /\ busreq_cs \in {"IDLE", "WAIT"} /\ ~MemRd /\ ~MemWr
      /\ busreq_cs = "WAIT" => all_blocks_done
  BY <1>2 DEF FlowInv, BusInv, WaitInv, AddressInv, DoneInv, MemRd, MemWr
<1>6. Contents' = <<>> /\ fifo_wr' = <<>> /\ ~mem_avail'
  <2>1. FifoSide(beat, FALSE)
    BY <1>1, <1>4
  <2> QED BY <1>3, <1>5, <2>1, StaysEmpty
<1>7. /\ busreq_cs' = "IDLE" /\ wdatq' = <<>> /\ Beat' = 0
      /\ busreq_cs = "IDLE" =>
           /\ blk_cntr' = 0 /\ axaddr' = 0 /\ axlen_p1' = block_len
           /\ axlen_p1 > 0 => axlen' = axlen_p1 - 1
           /\ all_blocks_done' = (blk_cntr = num_blocks)
  <2>1. CASE busreq_cs = "IDLE"
    BY <1>1, <1>5, <2>1, IdleStep
  <2>2. CASE busreq_cs = "WAIT"
    BY <1>1, <1>5, <2>2, WaitStep
  <2> QED BY <1>5, <2>1, <2>2
<1>8. in_block' = FALSE
  BY <1>3, <1>4 DEF CpProgram, CpRaise, CpRest, WordsInv, AxiInv, SideTypeOK
<1>9. plan' # "none" =>
        /\ pos' = 0 /\ gap' = 0 /\ ram' = {} /\ settle' \in Nat /\ settle' <= SETTLE
        /\ settle' = SETTLE \/ plan # "none"
  <2>1. CASE CpProgram
    <3>1. SETTLE <= SETTLE
      BY <1>2
    <3> QED BY <1>2, <2>1, <3>1 DEF CpProgram
  <2>2. CASE CpRaise
    <3>1. /\ plan # "none" /\ pos' = pos /\ gap' = gap /\ ram' = ram
          /\ settle' = IF settle > 0 THEN settle - 1 ELSE 0
      BY <2>2 DEF CpRaise
    <3>2. settle' \in Nat /\ settle' <= SETTLE
      BY <1>2, <1>3, <3>1
    <3> QED BY <1>3, <3>1, <3>2
  <2>3. CASE CpRest(beat) /\ plan = "none"
    BY <2>3 DEF CpRest, CpSame
  <2> QED BY <1>4, <2>1, <2>2, <2>3
<1>10. plan' # "none" /\ plan # "none" =>
         /\ CpRaise /\ block_len' = block_len /\ num_blocks' = num_blocks
         /\ busreq_cs = "IDLE"
  BY <1>3, <1>4 DEF CpProgram, CpRaise, CpRest, CpSame
<1>11. dir' # "none" =>
         /\ CpRaise /\ plan # "none" /\ plan' = dir' /\ settle = 0
         /\ block_len' = block_len /\ num_blocks' = num_blocks
  BY <1>4 DEF CpProgram, CpRaise, CpRest
<1>12. dir' # "none" =>
         /\ axlen_p1' = block_len' /\ axlen' = block_len' - 1 /\ axaddr' = 0 /\ blk_cntr' = 0
         /\ ~all_blocks_done' /\ pos' = 0 /\ gap' = 0 /\ ram' = {}
  <2> SUFFICES ASSUME dir' # "none"
               PROVE  /\ axlen_p1' = block_len' /\ axlen' = block_len' - 1 /\ axaddr' = 0
                      /\ blk_cntr' = 0
                      /\ ~all_blocks_done' /\ pos' = 0 /\ gap' = 0 /\ ram' = {}
    OBVIOUS
  <2>1. busreq_cs = "IDLE" /\ settle < SETTLE
    BY <1>2, <1>3, <1>11
  <2>2. axlen_p1 = block_len /\ blk_cntr = 0
    BY <1>11, <2>1 DEF FlowInv, BusInv, IdleInv
  <2>3. axlen_p1 > 0 /\ 0 # num_blocks
    BY <1>2, <2>2
  <2>4. plan' # "none"
    BY <1>11
  <2>5. pos' = 0 /\ gap' = 0 /\ ram' = {}
    BY <1>9, <2>4
  <2> QED BY <1>7, <1>11, <2>1, <2>2, <2>3, <2>5
<1>13. PartInv'
  <2>1. busreq_cs = "IDLE" \/ (busreq_cs' = "IDLE" /\ dir' = "none")
    BY <1>3, <1>7, <1>11
  <2> QED BY <1>1, <2>1, PartKept
<1>14. BusInv'
  <2>1. plan' # "none" /\ dir' = "none" /\ settle' < SETTLE =>
          axlen_p1' = block_len' /\ axaddr' = 0 /\ blk_cntr' = 0
    <3> SUFFICES ASSUME plan' # "none", settle' < SETTLE
                 PROVE  axlen_p1' = block_len' /\ axaddr' = 0 /\ blk_cntr' = 0
      OBVIOUS
    <3>1. settle' # SETTLE
      <4> DEFINE s == settle'
      <4>1. s \in Nat /\ s < SETTLE
        BY <1>9
      <4> HIDE DEF s
      <4>2. s # SETTLE
        BY <1>2, <4>1
      <4> QED BY <4>2 DEF s
    <3>2. block_len' = block_len /\ busreq_cs = "IDLE"
      BY <1>9, <1>10, <3>1
    <3> QED BY <1>7, <3>2
  <2>2. IdleInv'
    BY <1>8, <1>12, <2>1 DEF IdleInv
  <2> QED BY <1>7, <2>2 DEF BusInv, WaitInv, AddressInv, DoneInv
<1>15. PlanInv'
  BY <1>6, <1>7, <1>8, <1>9, <1>11 DEF PlanInv
<1>16. 0 <= Total' /\ 0 % block_len' = 0
  <2>1. block_len' \in Nat \ {0} /\ num_blocks' \in Nat \ {0}
    BY AxiAssumption DEF AxiInv, SideTypeOK
  <2>2. \A b, m \in Nat \ {0} : 0 <= b * m /\ 0 % b = 0
    OBVIOUS
  <2> QED BY <2>1, <2>2 DEF Total
<1>17. BlockInv'
  <2>1. dir' # "none" => pos' % block_len' = 0 /\ pos' <= Total'
    BY <1>12, <1>16
  <2> QED BY <1>8, <2>1 DEF BlockInv
<1>18. /\ Len(Contents') = 0 /\ Len(fifo_wr') = 0 /\ Len(wdatq') = 0
       /\ Contents' = Run(0, 0)
  BY <1>6, <1>7, RunMoves
<1>19. dir' # "none" => Taken' = 0
  BY <1>7, <1>12 DEF Taken
<1>20. ReadWords'
  <2>1. (0..0 - 1) = {}
    OBVIOUS
  <2> QED BY <1>6, <1>7, <1>12, <1>18, <1>19, <2>1 DEF ReadWords, MemRd
<1>21. WriteWords'
  BY <1>6, <1>12, <1>18, <1>19 DEF WriteWords, MemWr
<1>22. AheadInv' /\ BlockWordsInv'
  BY <1>6, <1>7, <1>8 DEF AheadInv, BlockWordsInv, Active
<1> QED BY <1>13, <1>14, <1>15, <1>17, <1>20, <1>21, <1>22 DEF FlowInv

(* A request is not ended before all of its words are where they belong.   *)
LEMMA FlowEnds ==
  ASSUME Data = Nat, WordsInv, InUse,
         NEW aready \in BOOLEAN, NEW beat \in BOOLEAN, NEW word \in BOOLEAN,
         NEW bvalid \in BOOLEAN,
         Manager(aready, beat, word, bvalid), CpStep(beat, word),
         dir # "none", dir' = "none", ~dirty'
  PROVE  FlowInv'
<1> DEFINE n == Len(Contents)  w == Len(fifo_wr)  q == Len(wdatq)
<1>1. /\ BusFsm(aready, beat) /\ Subordinate(aready, beat, bvalid) /\ FifoSide(beat, word)
      /\ PartialBlocks(aready)
  BY DEF Manager
<1>2. /\ ~word /\ plan' = "none" /\ in_block' = FALSE
      /\ pos = Total /\ (MemRd => emmc_req_done)
      /\ UNCHANGED <<block_len, num_blocks>>
  BY DEF CpStep, CpProgram, CpRaise, CpStart, CpRest, CpFinish, CpAbandon, CpWord, CpSame
<1>3. FlowInv /\ (MemRd \/ MemWr) /\ all_blocks_done \in BOOLEAN
  <2>1. ~dirty /\ dir \in Kinds /\ all_blocks_done \in BOOLEAN
    BY Typed DEF WordsInv, CpTypes
  <2> QED BY <2>1 DEF WordsInv, MemRd, MemWr, Kinds
<1>4. /\ Taken \in Nat /\ Total \in Nat /\ Taken <= Total
      /\ busreq_cs = "WAIT" => (all_blocks_done <=> Taken = Total)
      /\ busreq_cs # "WAIT" => Taken < Total
  BY <1>3, TakenBounds
<1>5. n \in Nat /\ w \in Nat /\ q \in Nat
  <2>1. n \in Nat /\ w = Bit(Wren) /\ q \in 0..1
    BY <1>1, SideStep, QueueMoves
  <2>2. w \in Nat
    BY <2>1 DEF Bit
  <2> HIDE DEF q
  <2> QED BY <2>1, <2>2
<1>6. n = 0 /\ w = 0 /\ Taken = Total
  <2>1. CASE MemRd
    <3>1. Taken = Total /\ pos = Taken + q + n + w
      BY <1>2, <1>3, <1>4, <2>1 DEF emmc_req_done, FlowInv, ReadWords
    <3> HIDE DEF n, w, q
    <3> QED BY <1>2, <1>4, <1>5, <3>1
  <2>2. CASE MemWr
    <3>1. Taken = pos + n + w
      BY <1>3, <2>2 DEF FlowInv, WriteWords
    <3> HIDE DEF n, w
    <3> QED BY <1>2, <1>4, <1>5, <3>1
  <2> QED BY <1>3, <2>1, <2>2
<1>7. busreq_cs = "WAIT" /\ all_blocks_done
  <2>1. busreq_cs = "WAIT"
    BY <1>4, <1>6
  <2> QED BY <1>4, <1>6, <2>1
<1>8. Contents' = <<>> /\ fifo_wr' = <<>>
  <2>1. Contents = <<>> /\ fifo_wr = <<>>
    <3>1. Contents \in Seq(Nat) /\ fifo_wr \in Seq(Nat)
      BY DEF WordsInv, AxiInv, AxiTypeOK, SideTypeOK, FifoTypeOK, Contents
    <3> QED BY <1>6, <3>1
  <2>2. FifoSide(beat, FALSE)
    BY <1>1, <1>2
  <2> QED BY <1>7, <2>1, <2>2, StaysEmpty
<1>9. /\ busreq_cs' = "WAIT" /\ axaddr' = axaddr /\ axlen_p1' = axlen_p1
      /\ axlen_p1 > 0 => axlen' = axlen_p1 - 1
      /\ all_blocks_done' = (blk_cntr = num_blocks) /\ ~ReqDone(aready)
  BY <1>1, <1>3, <1>7, WaitStep
<1>10. /\ axlen_p1 = block_len /\ axaddr = blk_cntr * block_len /\ blk_cntr <= num_blocks
       /\ blk_cntr = num_blocks
  BY <1>3, <1>7 DEF FlowInv, BusInv, WaitInv
<1>11. axlen' = block_len - 1
  <2>1. axlen_p1 > 0
    BY <1>10, Typed
  <2> QED BY <1>9, <1>10, <2>1
<1>12. blk_cntr' = blk_cntr
  <2> DEFINE c == blk_cntr'
  <2>1. /\ c + Bit(Uncounted') = blk_cntr + Bit(Uncounted) + Bit(ReqDone(aready))
        /\ ~Uncounted /\ ~Uncounted'
    BY <1>1, <1>3, <1>7, <1>9, CountMoves
  <2>2. Bit(Uncounted') = 0 /\ Bit(Uncounted) = 0 /\ Bit(ReqDone(aready)) = 0
    BY <1>9, <2>1 DEF Bit
  <2>3. c \in Nat /\ blk_cntr \in Nat
    BY <1>1, BusTyped, Typed DEF WordsInv
  <2> HIDE DEF c
  <2>4. c = blk_cntr
    BY <2>1, <2>2, <2>3
  <2> QED BY <2>4 DEF c
<1>13. WaitInv'
  <2>1. blk_cntr' <= num_blocks'
    BY <1>2, <1>10, <1>12
  <2> QED BY <1>2, <1>9, <1>10, <1>11, <1>12, <2>1 DEF WaitInv
<1>14. BusInv'
  BY <1>9, <1>13 DEF BusInv, IdleInv, AddressInv, DoneInv
<1>15. PartInv'
  BY <1>1, <1>2, <1>3, PartKept
<1>16. PlanInv' /\ BlockInv'
  BY <1>2, <1>8 DEF PlanInv, BlockInv
<1> QED BY <1>14, <1>15, <1>16
        DEF FlowInv, ReadWords, AheadInv, WriteWords, BlockWordsInv, MemRd, MemWr

----------------------------------------------------------------------------
(* The theorems.                                                           *)

(* An edge keeps the invariant.                                            *)
LEMMA EdgeKeepsWords ==
  ASSUME Data = Nat, WordsInv, InUse,
         NEW aready \in BOOLEAN, NEW beat \in BOOLEAN, NEW word \in BOOLEAN,
         NEW bvalid \in BOOLEAN,
         Manager(aready, beat, word, bvalid), CpStep(beat, word)
  PROVE  WordsInv'
<1>1. /\ BusFsm(aready, beat) /\ Subordinate(aready, beat, bvalid) /\ FifoSide(beat, word)
      /\ PartialBlocks(aready) /\ AxiInv
  BY DEF Manager, WordsInv
<1>2. AxiInv'
  BY <1>1, EdgeKeeps
<1>3. CpTypes' /\ (dirty' => dir' = "none" /\ plan' = "none")
  BY <1>1, CpTypesKept
<1>4. ShapeInv'
  BY <1>1, ShapeKept
<1>5. ASSUME ~dirty' PROVE FlowInv'
  <2>1. ~dirty
    BY <1>5 DEF CpStep, CpProgram, CpRaise, CpStart, CpRest, CpFinish, CpAbandon, CpWord,
                CpSame
  <2>2. FlowInv
    BY <2>1 DEF WordsInv
  <2>3. CASE dir = "none"
    BY <1>2, <2>2, <2>3, FlowWaits
  <2>4. CASE dir # "none" /\ dir' = "none"
    BY <1>5, <2>4, FlowEnds
  <2>5. CASE dir # "none" /\ dir' # "none"
    BY <2>5, FlowGoesOn
  <2> QED BY <2>3, <2>4, <2>5
<1> QED BY <1>2, <1>3, <1>4, <1>5 DEF WordsInv

(* What both resets leave behind.                                          *)
NothingHere ==
  /\ busreq_cs = "IDLE" /\ wdatq = <<>> /\ Contents = <<>> /\ fifo_wr = <<>>
  /\ req_done_dly = <<FALSE, FALSE>> /\ dirty = FALSE
  /\ mem_avail = FALSE /\ mem_free = FALSE /\ gteq_axlen = FALSE
  /\ settle = 0 /\ gap = 0 /\ dir = "none" /\ plan = "none" /\ in_block = FALSE

(* An empty manager satisfies the invariant.                               *)
LEMMA NothingIsRight == AxiInv /\ NothingHere => WordsInv
<1> SUFFICES ASSUME AxiInv, NothingHere PROVE WordsInv
  OBVIOUS
<1> USE DEF NothingHere
<1>1. CpTypes
  <2>1. 0 \in Nat /\ 0 <= GAP
    BY AxiAssumption
  <2> QED BY <2>1 DEF CpTypes
<1>2. ShapeInv
  BY DEF ShapeInv, Active
<1>3. PartInv
  BY DEF PartInv
<1>4. BusInv
  BY DEF BusInv, IdleInv, WaitInv, AddressInv, DoneInv
<1>5. PlanInv /\ BlockInv
  BY DEF PlanInv, BlockInv
<1>6. ReadWords /\ AheadInv /\ WriteWords /\ BlockWordsInv
  BY DEF ReadWords, AheadInv, WriteWords, BlockWordsInv, MemRd, MemWr
<1> QED BY <1>1, <1>2, <1>3, <1>4, <1>5, <1>6 DEF WordsInv, FlowInv

(* Every step of the manager keeps the invariant.                          *)
LEMMA WordsKept ==
  ASSUME Data = Nat, InUse, WordsInv, [AxiNext]_axiVars
  PROVE  WordsInv'
<1>1. CASE Edges \/ Timeouts
  <2>1. PICK aready \in BOOLEAN, beat \in BOOLEAN, bvalid \in BOOLEAN, word \in BOOLEAN :
          Manager(aready, beat, word, bvalid) /\ CpStep(beat, word)
    BY <1>1 DEF Edges, Timeouts, Tick, CpStep
  <2> QED BY <2>1, EdgeKeepsWords
<1>2. CASE SoftReset
  <2>1. AxiInv'
    BY <1>2, ResetKeeps DEF WordsInv
  <2>2. NothingHere'
    <3>1. Contents' = <<>>
      BY <1>2 DEF SoftReset, ManagerReset, FifoReset, Contents
    <3> QED BY <1>2, <3>1 DEF SoftReset, ManagerReset, NothingHere
  <2> QED BY <2>1, <2>2, NothingIsRight, PTL
<1>3. CASE UNCHANGED axiVars
  <2> USE <1>3 DEF axiVars, fifoVars, busVars, partVars, cntVars, cpVars, subVars
  <2>1. AxiInv'
    BY AxiNextKeeps DEF WordsInv
  <2>2. /\ Contents' = Contents /\ MemRd' = MemRd /\ MemWr' = MemWr /\ Beat' = Beat
        /\ Active' = Active /\ Total' = Total /\ Left' = Left /\ Emty' = Emty
        /\ Short' = Short /\ Uncounted' = Uncounted
    BY DEF Contents, MemRd, MemWr, Beat, Active, Total, Left, Emty, Short, MaxPartial,
           Uncounted
  <2>3. Taken' = Taken
    BY <2>2 DEF Taken
  <2>4. CpTypes' = CpTypes /\ ShapeInv' = ShapeInv
    BY <2>2 DEF CpTypes, ShapeInv
  <2>5. PartInv' = PartInv
    BY <2>2 DEF PartInv
  <2>6. BusInv' = BusInv
    BY <2>2 DEF BusInv, IdleInv, WaitInv, AddressInv, DoneInv
  <2>7. PlanInv' = PlanInv /\ BlockInv' = BlockInv
    BY <2>2 DEF PlanInv, BlockInv
  <2>8. ReadWords' = ReadWords /\ WriteWords' = WriteWords
    BY <2>2, <2>3 DEF ReadWords, WriteWords
  <2>9. AheadInv' = AheadInv
    BY <2>2 DEF AheadInv
  <2>10. BlockWordsInv' = BlockWordsInv
    BY <2>2 DEF BlockWordsInv, AtOutput, AlmostAtOutput
  <2> QED BY <2>1, <2>4, <2>5, <2>6, <2>7, <2>8, <2>9, <2>10 DEF WordsInv, FlowInv
<1> QED BY <1>1, <1>2, <1>3 DEF AxiNext

(* With words that are named by numbers, and in the use that the manager   *)
(* is made for: what the bus FSM, its burst, word and block counters, the  *)
(* write queue, the FIFO and the card's side know of each other.           *)
THEOREM WordsInvariant ==
  ASSUME Data = Nat, InUse
  PROVE  AxiSpec => []WordsInv
<1>1. AxiInit => WordsInv
  <2> SUFFICES ASSUME AxiInit PROVE WordsInv
    OBVIOUS
  <2>1. AxiInv
    BY InitKeeps
  <2>2. NothingHere
    <3>1. Contents = <<>>
      BY DEF AxiInit, FifoInit, Contents
    <3> QED BY <3>1 DEF AxiInit, NothingHere
  <2> QED BY <2>1, <2>2, NothingIsRight
<1>2. WordsInv /\ [AxiNext]_axiVars => WordsInv'
  BY WordsKept
<1> QED BY <1>1, <1>2, PTL DEF AxiSpec

(* A write burst is flagged last on the beat that awlen announced, and on  *)
(* no other, be its request withdrawn or not (emmc_axi4_m.v 208-262,       *)
(* 401-413).  InUse is assumed here and below as for the invariant.        *)
THEOREM BurstsEndInTime ==
  ASSUME Data = Nat, InUse
  PROVE  AxiSpec => []BurstShape
<1>1. WordsInv => BurstShape
  BY DEF WordsInv, ShapeInv, BurstShape, Beat, Active
<1> QED BY <1>1, WordsInvariant, PTL

(* No burst touches memory outside the blocks of its request, whatever     *)
(* their size and number (emmc_axi4_m.v 196-262, 301-345).                 *)
THEOREM BurstsStayInBuffer ==
  ASSUME Data = Nat, InUse
  PROVE  AxiSpec => []BurstInBuffer
<1>1. WordsInv => BurstInBuffer
  <2> SUFFICES ASSUME WordsInv, burst # <<>>, ~dirty
               PROVE  burst.addr + burst.len < Total
    BY DEF BurstInBuffer
  <2>1. busreq_cs = "DONE" /\ FlowInv
    BY Typed DEF WordsInv
  <2>2. /\ dir # "none" /\ axlen_p1 = block_len /\ burst.addr = axaddr
        /\ burst.len = axlen /\ axlen = block_len - 1
    BY <2>1 DEF FlowInv, BusInv, DoneInv, WordsInv, ShapeInv, Active
  <2>3. axaddr + block_len <= Total /\ Total \in Nat
    BY <2>1, <2>2, TakenBounds DEF Active
  <2>4. axaddr \in Nat /\ block_len \in Nat
    BY Typed
  <2> QED BY <2>2, <2>3, <2>4
<1> QED BY <1>1, WordsInvariant, PTL

(* When a read's end is reported to the command processor, all its words   *)
(* are in memory, each in its place (emmc_axi4_m.v 330, 376-399).          *)
THEOREM AllIsStored ==
  ASSUME Data = Nat, InUse
  PROVE  AxiSpec => []StoredWhenDone
<1>1. WordsInv => StoredWhenDone
  <2> SUFFICES ASSUME WordsInv, emmc_req_done, MemRd, ~dirty
               PROVE  ram = {<<k, k>> : k \in 0..Total - 1}
    BY DEF StoredWhenDone
  <2>1. FlowInv /\ dir # "none"
    BY DEF WordsInv, MemRd
  <2>2. Taken = Total
    BY <2>1, TakenBounds DEF emmc_req_done
  <2> QED BY <2>1, <2>2 DEF FlowInv, ReadWords
<1> QED BY <1>1, WordsInvariant, PTL

(* Every word of a request is in one place and in order: the memory, the   *)
(* write queue, the FIFO, the write register, or still to come; and the    *)
(* FIFO is never empty when the card needs a word (emmc_axi4_m.v 347-399). *)
THEOREM WordsStayInOrder ==
  ASSUME Data = Nat, InUse
  PROVE  AxiSpec => []WordsInOrder
<1>1. WordsInv => WordsInOrder
  <2> DEFINE n == Len(Contents)  w == Len(fifo_wr)  q == Len(wdatq)
             queued == [i \in 1..Len(wdatq) |-> wdatq[i].data]
             stored == pos - Len(wdatq \o Contents \o fifo_wr)
  <2> SUFFICES ASSUME WordsInv, ~dirty PROVE WordsInOrder
    BY DEF WordsInOrder
  <2>0. FlowInv /\ dir \in Kinds /\ (MemRd \/ MemWr => dir # "none") /\ ~(MemRd /\ MemWr)
    BY Typed DEF WordsInv, MemRd, MemWr
  <2>1. /\ n \in Nat /\ w \in 0..1 /\ q \in 0..1 /\ pos \in Nat /\ Taken \in Nat
        /\ Contents \in Seq(Nat) /\ fifo_wr \in Seq(Nat)
        /\ wdatq \in Seq([data : Nat, last : BOOLEAN])
        /\ w = 0 => fifo_wr = <<>>
        /\ w = 1 => fifo_wr # <<>> /\ fifo_wr = <<fifo_wr[1]>>
        /\ q = 0 => wdatq = <<>>
        /\ q = 1 => wdatq # <<>>
    <3>1. /\ Contents \in Seq(Nat) /\ fifo_wr \in Seq(Nat) /\ w <= 1 /\ q <= 1
          /\ wdatq \in Seq([data : Nat, last : BOOLEAN])
      BY DEF WordsInv, AxiInv, AxiTypeOK, SideTypeOK, FifoTypeOK, Contents
    <3>2. /\ n \in Nat /\ w \in Nat /\ q \in Nat
          /\ w = 0 => fifo_wr = <<>>
          /\ w = 1 => fifo_wr # <<>> /\ fifo_wr = <<fifo_wr[1]>>
          /\ q = 0 => wdatq = <<>>
          /\ q = 1 => wdatq # <<>>
      BY <3>1
    <3>3. w \in 0..1 /\ q \in 0..1
      <4> HIDE DEF w, q
      <4> QED BY <3>1, <3>2
    <3>4. pos \in Nat /\ Taken \in Nat
      BY Typed
    <3> HIDE DEF n, w, q
    <3> QED BY <3>1, <3>2, <3>3, <3>4
  <2>2. n \in Nat /\ w \in Nat /\ q \in Nat /\ w \in 0..1 /\ q \in 0..1 /\ pos \in Nat
        /\ Taken \in Nat
    <3> HIDE DEF n, w, q
    <3> QED BY <2>1
  <2>3. \A a \in Nat : /\ Run(a, 0) = <<>> /\ Run(a, 1) = <<a>>
    BY RunMoves
  <2>4. CASE MemRd
    <3>1. /\ pos = Taken + q + n + w /\ Contents = Run(pos - w - n, n)
          /\ fifo_wr # <<>> => fifo_wr[1] = pos - 1
          /\ wdatq # <<>> => wdatq[1].data = Taken
          /\ ram = {<<k, k>> : k \in 0..Taken - 1}
      BY <2>0, <2>4 DEF FlowInv, ReadWords
    <3>2. queued = Run(Taken, q)
      <4>1. CASE q = 0
        <5>1. queued = <<>>
          BY <4>1
        <5> QED BY <2>2, <2>3, <4>1, <5>1
      <4>2. CASE q = 1
        <5>1. queued = <<wdatq[1].data>>
          BY <4>2
        <5>2. queued = <<Taken>>
          BY <2>1, <3>1, <4>2, <5>1
        <5> QED BY <2>2, <2>3, <4>2, <5>2
      <4>3. q = 0 \/ q = 1
        <5> HIDE DEF q
        <5> QED BY <2>2
      <4> QED BY <4>1, <4>2, <4>3
    <3>3. /\ Contents = Run(Taken + q, n) /\ fifo_wr = Run(Taken + q + n, w)
          /\ Taken + q + n \in Nat
      <4>0. pos = Taken + q + n + w
        BY <3>1
      <4>1. pos - w - n = Taken + q /\ (w = 1 => pos - 1 = Taken + q + n)
            /\ Taken + q + n \in Nat
        <5> HIDE DEF n, w, q
        <5> QED BY <2>2, <4>0
      <4>2. CASE w = 0
        <5>1. fifo_wr = <<>>
          BY <2>1, <4>2
        <5> HIDE DEF n, w, q
        <5> QED BY <2>3, <3>1, <4>1, <4>2, <5>1
      <4>3. CASE w = 1
        <5>1. fifo_wr # <<>> /\ fifo_wr = <<fifo_wr[1]>>
          BY <2>1, <4>3
        <5> HIDE DEF n, w, q
        <5> QED BY <2>3, <3>1, <4>1, <4>3, <5>1
      <4>4. w = 0 \/ w = 1
        <5> HIDE DEF w
        <5> QED BY <2>2
      <4> QED BY <4>2, <4>3, <4>4
    <3>4. queued \o Contents \o fifo_wr = Run(Taken, q + n + w)
      <4> HIDE DEF n, w, q, queued
      <4>1. Run(Taken, q) \o Run(Taken + q, n) = Run(Taken, q + n)
        BY <2>2, RunsJoin
      <4>2. q + n \in Nat /\ Taken + q + n = Taken + (q + n)
        BY <2>2
      <4>3. Run(Taken, q + n) \o Run(Taken + (q + n), w) = Run(Taken, (q + n) + w)
        BY <2>2, <4>2, RunsJoin
      <4> QED BY <3>2, <3>3, <4>1, <4>2, <4>3
    <3>5. Len(wdatq \o Contents \o fifo_wr) = q + n + w
      BY <2>1
    <3>6. stored = Taken /\ pos - Taken = q + n + w
      <4>0. pos = Taken + q + n + w
        BY <3>1
      <4> DEFINE l == Len(wdatq \o Contents \o fifo_wr)
      <4>1. l = q + n + w /\ stored = pos - l
        BY <3>5
      <4> HIDE DEF n, w, q, l, stored
      <4> QED BY <2>2, <4>0, <4>1
    <3>7. queued \o Contents \o fifo_wr = Words(stored, pos)
      <4>1. Words(Taken, pos) = Run(Taken, pos - Taken)
        BY DEF Words, Run
      <4> HIDE DEF queued, stored
      <4> QED BY <3>4, <3>6, <4>1
    <3>8. ram = {<<k, k>> : k \in 0..stored - 1}
      BY <3>1, <3>6
    <3> HIDE DEF queued, stored
    <3> QED BY <2>0, <2>4, <3>7, <3>8 DEF WordsInOrder, queued, stored
  <2>5. CASE MemWr
    <3>1. /\ Taken = pos + n + w /\ Contents = Run(pos, n)
          /\ fifo_wr # <<>> => fifo_wr[1] = pos + n
      BY <2>0, <2>5 DEF FlowInv, WriteWords
    <3>2. fifo_wr = Run(pos + n, w) /\ pos + n \in Nat
      <4>1. pos + n \in Nat
        BY <2>2
      <4>2. CASE w = 0
        <5>1. fifo_wr = <<>>
          BY <2>1, <4>2
        <5> HIDE DEF n, w
        <5> QED BY <2>3, <4>1, <4>2, <5>1
      <4>3. CASE w = 1
        <5>1. fifo_wr # <<>> /\ fifo_wr = <<fifo_wr[1]>>
          BY <2>1, <4>3
        <5> HIDE DEF n, w
        <5> QED BY <2>3, <3>1, <4>1, <4>3, <5>1
      <4>4. w = 0 \/ w = 1
        <5> HIDE DEF w
        <5> QED BY <2>2
      <4> QED BY <4>1, <4>2, <4>3, <4>4
    <3>3. Contents \o fifo_wr = Words(pos, Taken)
      <4>1. Words(pos, Taken) = Run(pos, Taken - pos)
        BY DEF Words, Run
      <4> HIDE DEF n, w
      <4>2. Run(pos, n) \o Run(pos + n, w) = Run(pos, n + w)
        BY <2>2, RunsJoin
      <4>3. Taken - pos = n + w
        BY <2>2, <3>1
      <4> QED BY <3>1, <3>2, <4>1, <4>2, <4>3
    <3>4. in_block => ~Emty
      <4>1. in_block => AtOutput(Left)
        BY <2>0, <2>5 DEF FlowInv, BlockWordsInv
      <4>2. Left > 0
        <5>1. pos \in Nat /\ block_len \in Nat \ {0}
          BY Typed
        <5> QED BY <5>1 DEF Left
      <4> QED BY <4>1, <4>2 DEF AtOutput
    <3>5. Taken = axaddr + (IF busreq_cs = "DONE" THEN burst.beat ELSE 0)
      BY DEF Taken, Beat
    <3> QED BY <2>0, <2>5, <3>3, <3>4, <3>5 DEF WordsInOrder
  <2>6. CASE ~MemRd /\ ~MemWr
    <3>1. dir = "none"
      BY <2>0, <2>6 DEF MemRd, MemWr, Kinds
    <3>2. Contents = <<>> /\ fifo_wr = <<>>
      BY <2>0, <3>1 DEF FlowInv, PlanInv
    <3>3. wdatq = <<>>
      <4>1. busreq_cs \in {"IDLE", "WAIT"}
        BY <2>0, <3>1, Typed DEF FlowInv, BusInv, AddressInv, DoneInv
      <4> QED BY <4>1 DEF WordsInv, ShapeInv
    <3>4. Contents \o wdatq \o fifo_wr = <<>>
      BY <3>2, <3>3
    <3> QED BY <2>6, <3>4 DEF WordsInOrder
  <2> QED BY <2>4, <2>5, <2>6
<1> QED BY <1>1, WordsInvariant, PTL
=============================================================================
