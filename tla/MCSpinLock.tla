----------------------------- MODULE MCSpinLock -----------------------------
(* Two processors and two locks: callers that may call anything, and callers *)
(* that keep the rules and make a bounded number of acquisitions.            *)
EXTENDS SpinLock, TLC

CONSTANTS c0, c1, la, lb,
          MaxCalls          \* acquisitions a processor that keeps the rules makes

\* RANK_SMP_WORK and RANK_PMM.
RankAB == (la :> 50) @@ (lb :> 400)

VARIABLES rules,            \* the callers keep the rules
          calls             \* acquisitions each of them has begun

MCInit == Init /\ rules \in BOOLEAN /\ calls = [c \in Cpus |-> 0]

AnyNext == ~rules /\ Next /\ UNCHANGED <<rules, calls>>

RulesNext ==
  /\ rules /\ UNCHANGED rules
  /\ \E c \in Cpus :
       \/ Continues(c) /\ UNCHANGED calls
       \/ /\ calls[c] < MaxCalls /\ calls' = [calls EXCEPT ![c] = @ + 1]
          /\ \E l \in Locks : WantsLock(c, l)

\* A processor inside spin_lock, spin_unlock or a critical section keeps
\* executing; nothing is assumed of interrupts, of new calls or of who wins a
\* contended cmpxchg.
MCSpec ==
  /\ MCInit /\ [][AnyNext \/ RulesNext]_<<vars, rules, calls>>
  /\ \A c \in Cpus : WF_vars(rules /\ Step(c)) /\ WF_vars(rules /\ Releases(c))

\* spin_unlock gives back what spin_lock took: with callers that keep the rules every
\* lock that is held is freed again, interrupts and contention notwithstanding.
EveryLockFreed == \A l \in Locks : (rules /\ locked[l] = 1) ~> (locked[l] = 0)

=============================================================================
