----------------------------- MODULE TaskQueue -----------------------------
(* What the ring buffer of the thread pool promises: a bounded FIFO queue.  *)
EXTENDS Naturals, Sequences

CONSTANTS Task, Capacity

VARIABLE queue

Init == queue = << >>

Put(t) == Len(queue) < Capacity /\ queue' = Append(queue, t)

Get == queue # << >> /\ queue' = Tail(queue)

Next == Get \/ \E t \in Task : Put(t)

Spec == Init /\ [][Next]_queue

=============================================================================
