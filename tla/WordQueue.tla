----------------------------- MODULE WordQueue -----------------------------
(* What a data FIFO promises: the words leave in the order in which they   *)
(* came, none is lost or duplicated, and it never holds more than CAP.     *)
EXTENDS Naturals, Sequences

CONSTANTS Data, CAP

VARIABLE queue

QueueInit == queue = <<>>

Put(w) == Len(queue) < CAP /\ queue' = Append(queue, w)

Get == queue # <<>> /\ queue' = Tail(queue)

PutGet(w) == queue # <<>> /\ queue' = Append(Tail(queue), w)

QueueNext == (\E w \in Data : Put(w) \/ PutGet(w)) \/ Get

QueueSpec == QueueInit /\ [][QueueNext]_queue
=============================================================================
