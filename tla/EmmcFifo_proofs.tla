-------------------------- MODULE EmmcFifo_proofs --------------------------
(* Proofs about EmmcFifo, for every word type and every memory size.       *)
EXTENDS EmmcFifo, SequenceTheorems, TLAPS

(* What an edge does to the three stages, while no stage overflows.        *)
LEMMA EdgeStages ==
  ASSUME FifoInv, NEW wren \in BOOLEAN, NEW wdat \in Data, NEW rden \in BOOLEAN,
         rden => ~Emty, Edge(wren, wdat, rden),
         NEW rest, rest = IF RdenW(rden) THEN Tail(mem) ELSE mem,
         NEW kept, kept = IF rden THEN Tail(pipe) ELSE pipe
  PROVE  /\ RdenW(rden) \in BOOLEAN
         /\ RdenW(rden) => mem # <<>> /\ (rden \/ adv < 2)
         /\ rest \in Seq(Data)
         /\ Len(rest) = Len(mem) - (IF RdenW(rden) THEN 1 ELSE 0)
         /\ kept \in Seq(Data)
         /\ Len(kept) = Len(pipe) - (IF rden THEN 1 ELSE 0)
         /\ mem' = IF wren THEN Append(rest, wdat) ELSE rest
         /\ latch' = IF RdenW(rden) THEN <<Head(mem)>> ELSE <<>>
         /\ pipe' = kept \o latch
<1> USE DEF FifoInv, FifoTypeOK
<1>1. /\ RdenW(rden) \in BOOLEAN
      /\ RdenW(rden) => mem # <<>> /\ (rden \/ adv < 2)
  BY DEF RdenW
<1>2. rest \in Seq(Data) /\ Len(rest) = Len(mem) - (IF RdenW(rden) THEN 1 ELSE 0)
  <2>1. CASE RdenW(rden)
    BY <1>1, <2>1, HeadTailProperties
  <2>2. CASE ~RdenW(rden)
    <3>1. rest = mem
      BY <2>2
    <3>2. Len(mem) \in Nat
      BY LenProperties
    <3> QED BY <2>2, <3>1, <3>2
  <2> QED BY <2>1, <2>2
<1>3. kept \in Seq(Data) /\ Len(kept) = Len(pipe) - (IF rden THEN 1 ELSE 0)
  <2>1. CASE rden
    BY <2>1, HeadTailProperties DEF Emty
  <2>2. CASE ~rden
    <3>1. Len(pipe) \in Nat
      BY LenProperties
    <3> QED BY <2>2, <3>1
  <2> QED BY <2>1, <2>2
<1>4. pipe' = kept \o latch
  <2>1. Len(kept) < 2 \/ Len(latch) = 0
    BY <1>3, LenProperties DEF AdvCounts
  <2>2. CASE Len(kept) < 2
    BY <2>2 DEF Edge, PipeNext
  <2>3. CASE Len(latch) = 0 /\ ~(Len(kept) < 2)
    <3>1. latch = <<>>
      BY <2>3, EmptySeq
    <3>2. pipe' = kept
      BY <2>3 DEF Edge, PipeNext
    <3> QED BY <1>3, <3>1, <3>2, ConcatEmptySeq
  <2> QED BY <2>1, <2>2, <2>3
<1>5. /\ mem' = IF wren THEN Append(rest, wdat) ELSE rest
      /\ latch' = IF RdenW(rden) THEN <<Head(mem)>> ELSE <<>>
  BY DEF Edge
<1> QED BY <1>1, <1>2, <1>3, <1>4, <1>5

(* The thermometer code keeps counting the words of the read-ahead.        *)
LEMMA EdgeCounts ==
  ASSUME FifoInv, NEW wren \in BOOLEAN, NEW wdat \in Data, NEW rden \in BOOLEAN,
         rden => ~Emty, wren => ~Full, Edge(wren, wdat, rden)
  PROVE  FifoInv'
<1> DEFINE rest == IF RdenW(rden) THEN Tail(mem) ELSE mem
           kept == IF rden THEN Tail(pipe) ELSE pipe
           f == IF RdenW(rden) THEN 1 ELSE 0
           r == IF rden THEN 1 ELSE 0
<1>1. /\ RdenW(rden) \in BOOLEAN
      /\ RdenW(rden) => mem # <<>> /\ (rden \/ adv < 2)
      /\ rest \in Seq(Data) /\ Len(rest) = Len(mem) - f
      /\ kept \in Seq(Data) /\ Len(kept) = Len(pipe) - r
      /\ mem' = IF wren THEN Append(rest, wdat) ELSE rest
      /\ latch' = IF RdenW(rden) THEN <<Head(mem)>> ELSE <<>>
      /\ pipe' = kept \o latch
  <2>1. /\ rest = IF RdenW(rden) THEN Tail(mem) ELSE mem
        /\ kept = IF rden THEN Tail(pipe) ELSE pipe
    OBVIOUS
  <2> HIDE DEF rest, kept, f, r
  <2>2. /\ RdenW(rden) \in BOOLEAN
        /\ RdenW(rden) => mem # <<>> /\ (rden \/ adv < 2)
        /\ rest \in Seq(Data)
        /\ Len(rest) = Len(mem) - (IF RdenW(rden) THEN 1 ELSE 0)
        /\ kept \in Seq(Data)
        /\ Len(kept) = Len(pipe) - (IF rden THEN 1 ELSE 0)
        /\ mem' = IF wren THEN Append(rest, wdat) ELSE rest
        /\ latch' = IF RdenW(rden) THEN <<Head(mem)>> ELSE <<>>
        /\ pipe' = kept \o latch
    BY <2>1, EdgeStages, ZenonT(60)
  <2> QED BY <2>2 DEF f, r
<1>2. /\ mem \in Seq(Data) /\ latch \in Seq(Data) /\ pipe \in Seq(Data)
      /\ Len(mem) \in Nat /\ Len(latch) \in Nat /\ Len(pipe) \in Nat
      /\ adv = Len(latch) + Len(pipe) /\ adv \in 0..2 /\ Len(mem) <= SIZE
      /\ Len(latch) <= 1 /\ Len(pipe) <= 2
      /\ wren => Len(mem) # SIZE
  BY LenProperties DEF FifoInv, FifoTypeOK, AdvCounts, Full
<1>3. mem' \in Seq(Data) /\ Len(mem') = Len(mem) - f + (IF wren THEN 1 ELSE 0)
  <2>1. CASE wren
    BY <1>1, <1>2, <2>1, AppendProperties
  <2>2. CASE ~wren
    BY <1>1, <1>2, <2>2
  <2> QED BY <2>1, <2>2
<1>4. latch' \in Seq(Data) /\ Len(latch') = f
  <2>1. CASE RdenW(rden)
    <3>1. Head(mem) \in Data
      BY <1>1, <1>2, <2>1, HeadTailProperties
    <3> QED BY <1>1, <2>1, <3>1
  <2>2. CASE ~RdenW(rden)
    BY <1>1, <2>2
  <2> QED BY <1>1, <2>1, <2>2
<1>5. pipe' \in Seq(Data) /\ Len(pipe') = Len(pipe) - r + Len(latch)
  BY <1>1, <1>2, ConcatProperties
<1>6. adv' = adv + f - r
  <2>1. CASE RdenW(rden) /\ rden
    BY <1>2, <2>1 DEF Edge, AdvNext
  <2>2. CASE RdenW(rden) /\ ~rden
    BY <1>2, <2>2 DEF Edge, AdvNext
  <2>3. CASE ~RdenW(rden) /\ rden
    BY <1>2, <2>3 DEF Edge, AdvNext
  <2>4. CASE ~RdenW(rden) /\ ~rden
    BY <1>2, <2>4 DEF Edge, AdvNext
  <2> QED BY <1>1, <2>1, <2>2, <2>3, <2>4
<1>7. f \in 0..1 /\ r \in 0..1 /\ (f = 1 => r = 1 \/ adv < 2) /\ Len(pipe) - r >= 0
  <2>1. Len(kept) \in Nat
    BY <1>1, LenProperties
  <2> QED BY <1>1, <1>2, <2>1
<1>8. adv' \in 0..2 /\ adv' = Len(latch') + Len(pipe')
  <2> HIDE DEF f, r
  <2> QED BY <1>2, <1>4, <1>5, <1>6, <1>7
<1>9. Len(latch') <= 1 /\ Len(pipe') <= 2 /\ Len(mem') <= SIZE
  <2>1. SIZE \in Nat
    BY FifoAssumption
  <2> HIDE DEF f, r
  <2>2. Len(latch') <= 1 /\ Len(pipe') <= 2
    BY <1>2, <1>4, <1>5, <1>7
  <2>3. f \in Nat /\ Len(mem) \in Nat /\ Len(mem) <= SIZE
    BY <1>2, <1>7
  <2>4. CASE wren
    <3>1. Len(mem') = Len(mem) - f + 1 /\ Len(mem) # SIZE
      BY <1>2, <1>3, <2>4
    <3> QED BY <2>1, <2>2, <2>3, <3>1
  <2>5. CASE ~wren
    <3>1. Len(mem') = Len(mem) - f
      BY <1>3, <2>3, <2>5
    <3> QED BY <2>1, <2>2, <2>3, <3>1
  <2> QED BY <2>2, <2>4, <2>5
<1> QED BY <1>3, <1>4, <1>5, <1>8, <1>9 DEF FifoInv, FifoTypeOK, AdvCounts

(* No register of the read-ahead is ever overwritten and the thermometer   *)
(* code always counts it: FifoInv, for every memory size.                  *)
THEOREM FifoCounts == FifoSpec => []FifoInv
<1>1. FifoInit => FifoInv
  BY FifoAssumption DEF FifoInit, FifoInv, FifoTypeOK, AdvCounts
<1>2. FifoInv /\ [Clock]_fifoVars => FifoInv'
  <2> SUFFICES ASSUME FifoInv, [Clock]_fifoVars PROVE FifoInv'
    OBVIOUS
  <2>1. CASE Clock
    <3>1. PICK wren \in BOOLEAN, wdat \in Data, rden \in BOOLEAN :
            (wren => ~Full) /\ (rden => ~Emty) /\ Edge(wren, wdat, rden)
      BY <2>1 DEF Clock
    <3> QED BY <3>1, EdgeCounts
  <2>2. CASE UNCHANGED fifoVars
    BY <2>2 DEF fifoVars, FifoInv, FifoTypeOK, AdvCounts
  <2> QED BY <2>1, <2>2
<1> QED BY <1>1, <1>2, PTL DEF FifoSpec

(* What an edge does to the queue that the three stages make up.           *)
LEMMA EdgeQueue ==
  ASSUME FifoInv, NEW wren \in BOOLEAN, NEW wdat \in Data, NEW rden \in BOOLEAN,
         rden => ~Emty, wren => ~Full, Edge(wren, wdat, rden)
  PROVE  LET left == IF rden THEN Tail(Contents) ELSE Contents IN
         /\ Contents' = IF wren THEN Append(left, wdat) ELSE left
         /\ rden => Contents # <<>>
<1> DEFINE rest == IF RdenW(rden) THEN Tail(mem) ELSE mem
           kept == IF rden THEN Tail(pipe) ELSE pipe
           left == IF rden THEN Tail(Contents) ELSE Contents
<1>1. /\ RdenW(rden) \in BOOLEAN
      /\ RdenW(rden) => mem # <<>>
      /\ rest \in Seq(Data) /\ kept \in Seq(Data)
      /\ mem' = IF wren THEN Append(rest, wdat) ELSE rest
      /\ latch' = IF RdenW(rden) THEN <<Head(mem)>> ELSE <<>>
      /\ pipe' = kept \o latch
  <2>1. /\ rest = IF RdenW(rden) THEN Tail(mem) ELSE mem
        /\ kept = IF rden THEN Tail(pipe) ELSE pipe
    OBVIOUS
  <2> HIDE DEF rest, kept
  <2> QED BY <2>1, EdgeStages
<1>2. mem \in Seq(Data) /\ latch \in Seq(Data) /\ pipe \in Seq(Data)
  BY DEF FifoInv, FifoTypeOK
<1>3. latch' \in Seq(Data) /\ latch' \o rest = mem
  <2>1. CASE RdenW(rden)
    <3>1. Head(mem) \in Data /\ mem = <<Head(mem)>> \o Tail(mem)
      BY <1>1, <1>2, <2>1
    <3> QED BY <1>1, <2>1, <3>1
  <2>2. CASE ~RdenW(rden)
    BY <1>1, <1>2, <2>2, ConcatEmptySeq
  <2> QED BY <1>1, <2>1, <2>2
<1>4. left = kept \o latch \o mem
  <2>1. CASE rden
    BY <1>2, <2>1 DEF Emty, Contents
  <2>2. CASE ~rden
    BY <2>2 DEF Contents
  <2> QED BY <2>1, <2>2
<1>5. kept \o latch \in Seq(Data) /\ left \in Seq(Data)
  <2>1. kept \o latch \in Seq(Data)
    BY <1>1, <1>2, ConcatProperties
  <2> HIDE DEF left
  <2> QED BY <1>2, <1>4, <2>1, ConcatProperties
<1>6. ((kept \o latch) \o latch') \o rest = left
  <2> HIDE DEF left, rest, kept
  <2>1. rest \in Seq(Data) /\ latch' \in Seq(Data) /\ kept \o latch \in Seq(Data)
    BY <1>1, <1>3, <1>5
  <2>2. \A a, b, c \in Seq(Data) : (a \o b) \o c = a \o (b \o c)
    BY ConcatAssociative
  <2>3. ((kept \o latch) \o latch') \o rest = (kept \o latch) \o (latch' \o rest)
    BY ONLY <2>1, <2>2, Zenon
  <2>4. left = (kept \o latch) \o mem
    BY <1>4
  <2> QED BY <1>3, <2>3, <2>4
<1>7. Contents' = IF wren THEN Append(left, wdat) ELSE left
  <2> HIDE DEF left, rest, kept
  <2>1. CASE wren
    <3> DEFINE front == (kept \o latch) \o latch'
    <3>1. front \in Seq(Data) /\ <<wdat>> \in Seq(Data)
      BY <1>3, <1>5, ConcatProperties
    <3>2. mem' = rest \o <<wdat>>
      BY <1>1, <2>1, AppendIsConcat
    <3>3. Contents' = front \o (rest \o <<wdat>>)
      BY <1>1, <3>2 DEF Contents
    <3>4. left = front \o rest
      BY <1>6
    <3> HIDE DEF front
    <3>5. (front \o rest) \o <<wdat>> = front \o (rest \o <<wdat>>)
      BY <1>1, <3>1, ConcatAssociative
    <3>6. Append(left, wdat) = left \o <<wdat>>
      BY <1>5, AppendIsConcat
    <3> QED BY <2>1, <3>3, <3>4, <3>5, <3>6
  <2>2. CASE ~wren
    <3>1. mem' = rest
      BY <1>1, <2>2
    <3>2. Contents' = ((kept \o latch) \o latch') \o rest
      BY <1>1, <3>1 DEF Contents
    <3> QED BY <1>6, <2>2, <3>2
  <2> QED BY <2>1, <2>2
<1>8. rden => Contents # <<>>
  BY <1>2, ConcatProperties DEF Contents, Emty
<1> QED BY <1>7, <1>8

(* Memory, output register and read-ahead are one queue of SIZE + 2 words: *)
(* words leave in the order in which they came, none lost or repeated.     *)
THEOREM ImplementsQueue == FifoSpec => IsQueue
<1>1. FifoInit => Queue!QueueInit
  BY DEF FifoInit, Queue!QueueInit, Contents
<1>2. FifoInv /\ [Clock]_fifoVars => [Queue!QueueNext]_Contents
  <2> SUFFICES ASSUME FifoInv, [Clock]_fifoVars PROVE [Queue!QueueNext]_Contents
    OBVIOUS
  <2>1. CASE Clock
    <3>1. PICK wren \in BOOLEAN, wdat \in Data, rden \in BOOLEAN :
            (wren => ~Full) /\ (rden => ~Emty) /\ Edge(wren, wdat, rden)
      BY <2>1 DEF Clock
    <3>2. Contents' = (LET left == IF rden THEN Tail(Contents) ELSE Contents IN
                       IF wren THEN Append(left, wdat) ELSE left)
          /\ (rden => Contents # <<>>)
      BY <3>1, EdgeQueue
    <3>3. wren => Len(Contents) < SIZE + 2
      <4>1. /\ pipe \in Seq(Data) /\ latch \in Seq(Data) /\ mem \in Seq(Data)
            /\ pipe \o latch \in Seq(Data)
            /\ Len(pipe \o latch) = Len(pipe) + Len(latch)
            /\ Len(Contents) = Len(pipe \o latch) + Len(mem)
        BY ConcatProperties DEF FifoInv, FifoTypeOK, Contents
      <4>2. Len(mem) \in Nat /\ Len(latch) \in Nat /\ Len(pipe) \in Nat
        BY <4>1, LenProperties
      <4> QED BY <3>1, <4>1, <4>2, FifoAssumption
              DEF FifoInv, FifoTypeOK, AdvCounts, Full
    <3>4. CASE wren /\ rden
      BY <3>2, <3>4 DEF Queue!QueueNext, Queue!PutGet
    <3>5. CASE wren /\ ~rden
      BY <3>2, <3>3, <3>5 DEF Queue!QueueNext, Queue!Put
    <3>6. CASE ~wren /\ rden
      BY <3>2, <3>6 DEF Queue!QueueNext, Queue!Get
    <3>7. CASE ~wren /\ ~rden
      BY <3>2, <3>7
    <3> QED BY <3>4, <3>5, <3>6, <3>7
  <2>2. CASE UNCHANGED fifoVars
    BY <2>2 DEF fifoVars, Contents
  <2> QED BY <2>1, <2>2
<1> QED BY <1>1, <1>2, FifoCounts, PTL DEF FifoSpec, IsQueue, Queue!QueueSpec

----------------------------------------------------------------------------
(* What the users of the FIFO need of it: the bus managers name a word by  *)
(* its index in the transfer, so that words in order are a run of numbers; *)
(* and they read without a look at the FIFO's empty flag.                  *)

(* n words in order, from the one with index a.                            *)
Run(a, n) == [i \in 1..n |-> a + i - 1]

(* What is read from a run, put into it, or joined to it.                  *)
LEMMA RunMoves ==
  ASSUME NEW a \in Nat, NEW n \in Nat
  PROVE  /\ Run(a, n) \in Seq(Nat) /\ Len(Run(a, n)) = n
         /\ Run(a, 0) = <<>>
         /\ Run(a, 1) = <<a>>
         /\ Append(Run(a, n), a + n) = Run(a, n + 1)
         /\ n # 0 => Head(Run(a, n)) = a /\ Tail(Run(a, n)) = Run(a + 1, n - 1)
<1> DEFINE s == Run(a, n)
<1>1. s \in Seq(Nat) /\ Len(s) = n /\ \A i \in 1..n : s[i] = a + i - 1
  BY DEF Run
<1>2. Run(a, 0) = <<>>
  BY DEF Run
<1>3. Run(a, 1) = <<a>>
  BY DEF Run
<1>4. Append(s, a + n) = Run(a, n + 1)
  <2> DEFINE l == Append(s, a + n)  r == Run(a, n + 1)
  <2>1. /\ l \in Seq(Nat) /\ Len(l) = n + 1 /\ l[n + 1] = a + n
        /\ \A i \in 1..n : l[i] = s[i]
    BY <1>1, AppendProperties
  <2>2. r \in Seq(Nat) /\ Len(r) = n + 1 /\ \A i \in 1..(n + 1) : r[i] = a + i - 1
    BY DEF Run
  <2>3. \A i \in 1..(n + 1) : l[i] = r[i]
    BY <1>1, <2>1, <2>2
  <2> HIDE DEF l, r
  <2>4. l = r
    BY <2>1, <2>2, <2>3, SeqEqual
  <2> QED BY <2>4 DEF l, r
<1>5. n # 0 => Head(s) = a /\ Tail(s) = Run(a + 1, n - 1)
  <2> SUFFICES ASSUME n # 0 PROVE Head(s) = a /\ Tail(s) = Run(a + 1, n - 1)
    OBVIOUS
  <2> DEFINE l == Tail(s)  r == Run(a + 1, n - 1)
  <2>1. s # <<>> /\ n - 1 \in Nat
    BY <1>1
  <2>2. Head(s) = a
    BY <1>1, <2>1
  <2>3. l \in Seq(Nat) /\ Len(l) = n - 1 /\ \A i \in 1..(n - 1) : l[i] = s[i + 1]
    BY <1>1, <2>1, HeadTailProperties
  <2>4. r \in Seq(Nat) /\ Len(r) = n - 1 /\ \A i \in 1..(n - 1) : r[i] = (a + 1) + i - 1
    BY <2>1 DEF Run
  <2>5. \A i \in 1..(n - 1) : l[i] = r[i]
    BY <1>1, <2>1, <2>3, <2>4
  <2> HIDE DEF l, r
  <2>6. l = r
    BY <2>3, <2>4, <2>5, SeqEqual
  <2> QED BY <2>2, <2>6 DEF l, r
<1> QED BY <1>1, <1>2, <1>3, <1>4, <1>5

(* Two runs, one after the other.                                          *)
LEMMA RunsJoin ==
  ASSUME NEW a \in Nat, NEW n \in Nat, NEW m \in Nat
  PROVE  Run(a, n) \o Run(a + n, m) = Run(a, n + m)
<1> DEFINE p == Run(a, n)  q == Run(a + n, m)  l == p \o q  r == Run(a, n + m)
<1>1. /\ p \in Seq(Nat) /\ Len(p) = n /\ \A i \in 1..n : p[i] = a + i - 1
      /\ q \in Seq(Nat) /\ Len(q) = m /\ \A i \in 1..m : q[i] = (a + n) + i - 1
  BY DEF Run
<1>2. /\ l \in Seq(Nat) /\ Len(l) = n + m
      /\ \A i \in 1..(n + m) : l[i] = IF i <= n THEN p[i] ELSE q[i - n]
  <2> HIDE DEF p, q
  <2> QED BY <1>1, ConcatProperties
<1>3. r \in Seq(Nat) /\ Len(r) = n + m /\ \A i \in 1..(n + m) : r[i] = a + i - 1
  BY DEF Run
<1>4. \A i \in 1..(n + m) : l[i] = r[i]
  <2> SUFFICES ASSUME NEW i \in 1..(n + m) PROVE l[i] = r[i]
    OBVIOUS
  <2> HIDE DEF l, r, p, q
  <2>1. CASE i <= n
    BY <1>1, <1>2, <1>3, <2>1
  <2>2. CASE ~(i <= n)
    <3>1. i - n \in 1..m
      BY <2>2
    <3> QED BY <1>1, <1>2, <1>3, <2>2, <3>1
  <2> QED BY <2>1, <2>2
<1> HIDE DEF l, r, p, q
<1>5. l = r
  BY <1>2, <1>3, <1>4, SeqEqual
<1> QED BY <1>5 DEF l, r, p, q

(* How many words an edge leaves in the FIFO, and which is at the output.  *)
LEMMA EdgeLengths ==
  ASSUME FifoInv, NEW wren \in BOOLEAN, NEW wdat \in Data, NEW rden \in BOOLEAN,
         rden => ~Emty, wren => ~Full, Edge(wren, wdat, rden)
  PROVE  LET r == IF rden THEN 1 ELSE 0
             w == IF wren THEN 1 ELSE 0 IN
         /\ Len(Contents) \in Nat /\ Len(Contents') \in Nat
         /\ Len(Contents) >= r
         /\ Len(Contents') = Len(Contents) + w - r
<1> DEFINE left == IF rden THEN Tail(Contents) ELSE Contents
<1>1. /\ Contents' = IF wren THEN Append(left, wdat) ELSE left
      /\ rden => Contents # <<>>
  BY EdgeQueue
<1>2. Contents \in Seq(Data)
  BY DEF FifoInv, FifoTypeOK, Contents
<1>3. /\ left \in Seq(Data) /\ Len(left) = Len(Contents) - (IF rden THEN 1 ELSE 0)
      /\ Len(Contents) \in Nat /\ (rden => Len(Contents) >= 1)
  <2>1. CASE rden
    BY <1>1, <1>2, <2>1, HeadTailProperties
  <2>2. CASE ~rden
    BY <1>2, <2>2
  <2> QED BY <2>1, <2>2
<1>4. Len(Contents') = Len(left) + (IF wren THEN 1 ELSE 0)
  <2> HIDE DEF left
  <2>1. CASE wren
    BY <1>1, <1>3, <2>1, AppendProperties
  <2>2. CASE ~wren
    BY <1>1, <1>3, <2>2, LenProperties
  <2> QED BY <2>1, <2>2
<1> HIDE DEF left
<1> QED BY <1>3, <1>4

(* A FIFO that holds a run still does after an edge that puts in the next  *)
(* word.                                                                   *)
LEMMA EdgeRun ==
  ASSUME FifoInv, Data = Nat, NEW wren \in BOOLEAN, NEW wdat \in Data,
         NEW rden \in BOOLEAN,
         rden => ~Emty, wren => ~Full, Edge(wren, wdat, rden),
         NEW a \in Nat, Contents = Run(a, Len(Contents)),
         wren => wdat = a + Len(Contents)
  PROVE  /\ Contents' = Run(IF rden THEN a + 1 ELSE a, Len(Contents'))
         /\ rden => Rdat = a
<1> DEFINE left == IF rden THEN Tail(Contents) ELSE Contents
           n == Len(Contents)
           b == IF rden THEN a + 1 ELSE a
           m == IF rden THEN n - 1 ELSE n
<1>1. /\ Contents' = IF wren THEN Append(left, wdat) ELSE left
      /\ rden => Contents # <<>>
  BY EdgeQueue
<1>2. /\ n \in Nat /\ (rden => n # 0) /\ Len(Contents') = m + (IF wren THEN 1 ELSE 0)
  <2>1. /\ n \in Nat /\ Len(Contents') \in Nat /\ n >= (IF rden THEN 1 ELSE 0)
        /\ Len(Contents') = n + (IF wren THEN 1 ELSE 0) - (IF rden THEN 1 ELSE 0)
    BY EdgeLengths
  <2> HIDE DEF n
  <2> QED BY <2>1
<1>3. b \in Nat /\ m \in Nat /\ b + m = a + n
  BY <1>2
<1>4. left = Run(b, m)
  <2>0. Contents = Run(a, n)
    OBVIOUS
  <2> HIDE DEF n
  <2>1. CASE rden
    BY <1>2, <2>0, <2>1, RunMoves
  <2>2. CASE ~rden
    BY <2>0, <2>2
  <2> QED BY <2>1, <2>2
<1>5. Contents' = Run(b, Len(Contents'))
  <2> HIDE DEF left, n, b, m
  <2>1. CASE wren
    <3>1. wdat = b + m
      BY <2>1, <1>3 DEF n
    <3>2. Append(Run(b, m), b + m) = Run(b, m + 1)
      BY <1>3, RunMoves
    <3>3. Contents' = Append(left, wdat) /\ Len(Contents') = m + 1
      BY <1>1, <1>2, <2>1
    <3> QED BY <1>4, <3>1, <3>2, <3>3
  <2>2. CASE ~wren
    BY <1>1, <1>2, <1>3, <1>4, <2>2
  <2> QED BY <2>1, <2>2
<1>6. rden => Rdat = a
  <2> SUFFICES ASSUME rden PROVE Rdat = a
    OBVIOUS
  <2>1. pipe \in Seq(Data) /\ latch \in Seq(Data) /\ mem \in Seq(Data) /\ pipe # <<>>
    BY DEF FifoInv, FifoTypeOK, Emty
  <2>2. Head(pipe) = Contents[1]
    <3>1. Len(pipe) >= 1 /\ Head(pipe) = pipe[1]
      BY <2>1
    <3>2. (pipe \o latch) \in Seq(Data) /\ (pipe \o latch)[1] = pipe[1]
          /\ Len(pipe \o latch) >= 1
      BY <2>1, <3>1, ConcatProperties
    <3> QED BY <2>1, <3>1, <3>2, ConcatProperties DEF Contents
  <2>3. Contents[1] = a
    <3> HIDE DEF n
    <3>1. n # 0 /\ Run(a, n)[1] = a
      BY <1>2 DEF Run
    <3> QED BY <3>1 DEF n
  <2> QED BY <2>2, <2>3 DEF Rdat
<1> QED BY <1>5, <1>6

(* k words can be read on k edges, at once, or from the next edge on.      *)
AtOutput(k) == k > 0 => /\ ~Emty /\ k <= Len(Contents)
                        /\ k > 1 => adv = 2
AlmostAtOutput(k) == k > 0 => k <= Len(Contents) /\ adv > 0

(* The read-ahead keeps up: it has k words at the output two edges after   *)
(* they are in the FIFO, and still has the others when one is read.        *)
LEMMA ReadAhead ==
  ASSUME FifoInv, NEW wren \in BOOLEAN, NEW wdat \in Data, NEW rden \in BOOLEAN,
         rden => ~Emty, wren => ~Full, Edge(wren, wdat, rden), NEW k \in Nat
  PROVE  /\ ~rden /\ k <= Len(Contents) => AlmostAtOutput(k)'
         /\ ~rden /\ AlmostAtOutput(k) => AtOutput(k)'
         /\ ~rden /\ AtOutput(k) => AtOutput(k)'
         /\ rden /\ AtOutput(k + 1) => AtOutput(k)'
<1> DEFINE n == Len(Contents)  nn == Len(Contents')
           m == Len(mem)  l == Len(latch)  p == Len(pipe)
           pp == Len(pipe')  f == RdenW(rden)
<1>1. nn = n + (IF wren THEN 1 ELSE 0) - (IF rden THEN 1 ELSE 0) /\ n \in Nat /\ nn \in Nat
  BY EdgeLengths
<1>2. /\ m \in Nat /\ l \in Nat /\ p \in Nat /\ n = p + l + m
      /\ adv = l + p /\ adv \in 0..2 /\ (m = 0 <=> mem = <<>>) /\ (p = 0 <=> pipe = <<>>)
  <2>1. mem \in Seq(Data) /\ latch \in Seq(Data) /\ pipe \in Seq(Data)
    BY DEF FifoInv, FifoTypeOK
  <2>2. n = p + l + m
    BY <2>1, ConcatProperties DEF Contents
  <2>3. (m = 0 <=> mem = <<>>) /\ (p = 0 <=> pipe = <<>>)
    BY <2>1, EmptySeq
  <2>4. adv = l + p /\ adv \in 0..2
    BY DEF FifoInv, FifoTypeOK, AdvCounts
  <2> QED BY <2>1, <2>2, <2>3, <2>4, LenProperties
<1>3. f <=> m # 0 /\ (rden \/ adv < 2)
  BY <1>2 DEF RdenW
<1>4. adv' = IF f /\ ~rden THEN adv + 1 ELSE IF ~f /\ rden THEN adv - 1 ELSE adv
  <2>1. f \in BOOLEAN
    BY DEF RdenW
  <2> QED BY <2>1 DEF Edge, AdvNext
<1>5. pp = p + l - (IF rden THEN 1 ELSE 0) /\ pp \in Nat /\ (pp = 0 <=> pipe' = <<>>)
  <2> DEFINE kept == IF rden THEN Tail(pipe) ELSE pipe
             rest == IF RdenW(rden) THEN Tail(mem) ELSE mem
  <2>1. /\ kept \in Seq(Data) /\ Len(kept) = p - (IF rden THEN 1 ELSE 0)
        /\ pipe' = kept \o latch
    <3>1. /\ rest = IF RdenW(rden) THEN Tail(mem) ELSE mem
          /\ kept = IF rden THEN Tail(pipe) ELSE pipe
      OBVIOUS
    <3> HIDE DEF rest, kept
    <3>2. /\ kept \in Seq(Data) /\ Len(kept) = Len(pipe) - (IF rden THEN 1 ELSE 0)
          /\ pipe' = kept \o latch
      BY <3>1, EdgeStages, ZenonT(60)
    <3> QED BY <3>2
  <2>2. latch \in Seq(Data)
    BY DEF FifoInv, FifoTypeOK
  <2>3. pipe' \in Seq(Data) /\ pp = Len(kept) + l
    <3> HIDE DEF kept
    <3> QED BY <2>1, <2>2, ConcatProperties
  <2> HIDE DEF kept
  <2> QED BY <1>2, <2>1, <2>3, EmptySeq, LenProperties
<1>6. /\ Emty <=> p = 0
      /\ Emty' <=> pp = 0
  BY <1>2, <1>5 DEF Emty
<1>7. rden => p # 0
  BY <1>6
<1> HIDE DEF n, nn, m, l, p, pp, f
<1>8. ~rden /\ k <= n => (k > 0 => k <= nn /\ adv' > 0)
  BY <1>1, <1>2, <1>3, <1>4
<1>9. ~rden /\ (k > 0 => k <= n /\ adv > 0)
        => (k > 0 => pp # 0 /\ k <= nn /\ (k > 1 => adv' = 2))
  BY <1>1, <1>2, <1>3, <1>4, <1>5
<1>10. ~rden /\ (k > 0 => p # 0 /\ k <= n /\ (k > 1 => adv = 2))
        => (k > 0 => pp # 0 /\ k <= nn /\ (k > 1 => adv' = 2))
  BY <1>1, <1>2, <1>3, <1>4, <1>5
<1>11. rden /\ (k + 1 > 0 => p # 0 /\ k + 1 <= n /\ (k + 1 > 1 => adv = 2))
        => (k > 0 => pp # 0 /\ k <= nn /\ (k > 1 => adv' = 2))
  BY <1>1, <1>2, <1>3, <1>4, <1>5
<1>12. /\ AtOutput(k) <=> (k > 0 => p # 0 /\ k <= n /\ (k > 1 => adv = 2))
       /\ AtOutput(k + 1) <=> (k + 1 > 0 => p # 0 /\ k + 1 <= n /\ (k + 1 > 1 => adv = 2))
       /\ AlmostAtOutput(k) <=> (k > 0 => k <= n /\ adv > 0)
  BY <1>6 DEF AtOutput, AlmostAtOutput, n
<1>13. /\ AtOutput(k)' <=> (k > 0 => pp # 0 /\ k <= nn /\ (k > 1 => adv' = 2))
       /\ AlmostAtOutput(k)' <=> (k > 0 => k <= nn /\ adv' > 0)
  BY <1>6 DEF AtOutput, AlmostAtOutput, nn
<1> QED BY <1>8, <1>9, <1>10, <1>11, <1>12, <1>13 DEF n
=============================================================================
