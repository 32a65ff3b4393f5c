------------------------------ MODULE JobQueue ------------------------------
(***************************************************************************)
(* What kernel/smp_work.inc promises its callers: a bounded first-in       *)
(* first-out queue.  A job leaves it once, in the order it was queued, and *)
(* a push is refused only when the queue is full.                          *)
(***************************************************************************)
EXTENDS Naturals, Sequences

CONSTANTS Jobs, Capacity

VARIABLES queue,         \* jobs waiting, oldest first
          taken          \* every job handed out so far, in order

Init == queue = <<>> /\ taken = <<>>

Push(j) ==
  /\ Len(queue) < Capacity
  /\ queue' = Append(queue, j) /\ UNCHANGED taken

Pop ==
  /\ queue # <<>>
  /\ taken' = Append(taken, Head(queue)) /\ queue' = Tail(queue)

Next == Pop \/ \E j \in Jobs : Push(j)

Spec == Init /\ [][Next]_<<queue, taken>>

=============================================================================
