------------------------------- MODULE Mutex -------------------------------
(***************************************************************************)
(* What kernel/lock.inc promises: each lock has at most one holder, and    *)
(* only the holder lets go.  SpinLock implements it; SmpWork uses it.      *)
(***************************************************************************)
CONSTANTS Cpus, Locks, NoCpu

VARIABLE holder          \* the processor inside each lock's critical section

Init == holder = [l \in Locks |-> NoCpu]

Acquire(c, l) ==
  /\ holder[l] = NoCpu
  /\ holder' = [holder EXCEPT ![l] = c]

Release(c, l) ==
  /\ holder[l] = c
  /\ holder' = [holder EXCEPT ![l] = NoCpu]

Next == \E c \in Cpus, l \in Locks : Acquire(c, l) \/ Release(c, l)

Spec == Init /\ [][Next]_holder

=============================================================================
