------------------------------ MODULE EmmcFifo ------------------------------
(* The data FIFO (rtl/emmc_fifo.v, gen_pmi with CLKDOMAIN "SYNC"): a       *)
(* vendor memory FIFO whose read data come one clock late, and the read-   *)
(* ahead that hides the latency behind two registers.  A step is an edge   *)
(* of the clock.  The vendor FIFO is a queue of SIZE words.                *)
EXTENDS Naturals, Sequences

CONSTANTS Data, SIZE

ASSUME FifoAssumption == SIZE \in Nat /\ SIZE >= 3

VARIABLES
  mem,     \* pmi_fifo: the words in the memory
  latch,   \* its output, while rdtlatency says that it is fresh
  pipe,    \* u_rdat_pipeline, a shreg_fifo of two registers
  adv      \* adv_pipe_stt: words on their way to, or in, the pipeline

fifoVars == <<mem, latch, pipe, adv>>

Emty == pipe = <<>>
Full == Len(mem) = SIZE
(* Mutant: almost full only when full.                                    *)
AfulLate == Len(mem) >= SIZE
Aful == Len(mem) >= SIZE - 2
Rdat == Head(pipe)

(* Mutant: the read-ahead fetches a third word.                            *)
RdenWDeep(rden) == mem # <<>> /\ (rden \/ adv < 3)
(* Fetch a word from the memory when the pipeline has, or gets, room.      *)
RdenW(rden) == mem # <<>> /\ (rden \/ adv < 2)

(* Mutant: a read that finds the memory empty is not counted.              *)
AdvNextNoDrain(rden) == IF RdenW(rden) /\ ~rden THEN adv + 1 ELSE adv
AdvNext(rden) ==
  CASE RdenW(rden) /\ ~rden -> adv + 1
    [] ~RdenW(rden) /\ rden -> adv - 1
    [] OTHER -> adv

(* shreg_fifo: two registers, a word put into full ones overwrites one.    *)
PipeNext(rden) ==
  LET rest == IF rden THEN Tail(pipe) ELSE pipe IN
  IF Len(rest) < 2 THEN rest \o latch ELSE rest

Edge(wren, wdat, rden) ==
  LET rest == IF RdenW(rden) THEN Tail(mem) ELSE mem IN
  /\ mem' = IF wren THEN Append(rest, wdat) ELSE rest
  /\ latch' = IF RdenW(rden) THEN <<Head(mem)>> ELSE <<>>
  /\ pipe' = PipeNext(rden)
  /\ adv' = AdvNext(rden)

FifoInit == mem = <<>> /\ latch = <<>> /\ pipe = <<>> /\ adv = 0

(* rst_n, for the modules that own the FIFO.                               *)
FifoReset == mem' = <<>> /\ latch' = <<>> /\ pipe' = <<>> /\ adv' = 0

(* The users never write when Full nor read when Emty.                     *)
Clock ==
  \E wren \in {b \in BOOLEAN : b => ~Full}, wdat \in Data,
     rden \in {b \in BOOLEAN : b => ~Emty} : Edge(wren, wdat, rden)

FifoSpec == FifoInit /\ [][Clock]_fifoVars

FifoFair == FifoSpec /\ WF_fifoVars(Clock)

----------------------------------------------------------------------------
FifoTypeOK ==
  /\ mem \in Seq(Data) /\ latch \in Seq(Data) /\ pipe \in Seq(Data)
  /\ adv \in 0..2

(* The thermometer code counts the words that left the memory, and never   *)
(* more of them than the pipeline has registers: no word is overwritten.   *)
AdvCounts ==
  /\ adv = Len(latch) + Len(pipe)
  /\ Len(latch) <= 1 /\ Len(pipe) <= 2
  /\ Len(mem) <= SIZE

(* Types and count: inductive.                                             *)
FifoInv == FifoTypeOK /\ AdvCounts

(* Memory, latch and pipeline together are one queue: every word put in    *)
(* comes out once and in order, whatever the interleaving of writes, reads *)
(* and fetches.                                                            *)
Contents == pipe \o latch \o mem

Queue == INSTANCE WordQueue WITH queue <- Contents, CAP <- SIZE + 2

IsQueue == Queue!QueueSpec

(* A word put in shows at the output: the read-ahead does not wait for a   *)
(* read that Emty holds off.                                               *)
Visible == (Contents # <<>>) ~> (~Emty \/ Contents = <<>>)
=============================================================================
