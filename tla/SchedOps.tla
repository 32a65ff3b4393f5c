------------------------------ MODULE SchedOps ------------------------------
(***************************************************************************)
(* What each operation of Sched does to a task table, for any number of    *)
(* slots and any workload: whom it ends, that it counts them out, whom it  *)
(* wakes, and that it keeps the table sound.                               *)
(***************************************************************************)
EXTENDS Sched, FiniteSetTheorems, WellFoundedInduction, TLAPS

Fatal == {SIGKILL, SIGALRM, SIGTERM}
Alive == {"READY", "RUNNING", "BLOCKED", "STOPPED"}

\* No signal that ends the task is pending or about to be.
Harmless(k) == ~k.alarm /\ k.pend \cap Fatal = {}

Quiet(t) == ~Deadly => \A i \in Slots : Harmless(t[i])

\* Without threads a task is its own group.
Solo(t) == ~Does("clone") => \A i \in Slots : t[i].state # "FREE" => t[i].tgid = i

\* With threads a live task has a live leader.
Groups(t) ==
  Does("clone") /\ ~Deadly =>
    \A i \in Live(t) : t[i].tgid \in Live(t) /\ t[t[i].tgid].tgid = t[i].tgid

Machines == [t : [Slots -> Task], n : Int]

Sound(m) ==
  /\ m \in Machines /\ m.n = Cardinality(Live(m.t))
  /\ Quiet(m.t) /\ Solo(m.t) /\ Groups(m.t)

\* A slot that an operation leaves a task in as it was, wakes, stops or ends: it
\* blocks nothing, and gives nothing a signal that ends it.
Mild(k, l) ==
  /\ l \in Task /\ l.tgid = k.tgid
  /\ l.state # "FREE" => k.state # "FREE"
  /\ l.state = "BLOCKED" =>
       k.state = "BLOCKED" /\ l.wait_pid = k.wait_pid /\ l.wakeup = k.wakeup
  /\ ~Deadly /\ Harmless(k) => Harmless(l)

\* The operation that makes r of m ends the tasks of D, counts them out, and is
\* mild with every slot.
Calm(m, r, D) ==
  /\ r \in Machines /\ \A j \in Slots : Mild(m.t[j], r.t[j])
  /\ D \subseteq Live(m.t) /\ Live(r.t) = Live(m.t) \ D
  /\ r.n = m.n - Cardinality(D)

\* Whoever waited for a task of D waits no more.
Released(m, r, D) ==
  \A j \in Slots : m.t[j].state = "BLOCKED" /\ m.t[j].wait_pid \in D => r.t[j].state # "BLOCKED"

-----------------------------------------------------------------------------
(* Sets of slots *)

LEMMA SlotsFinite == IsFiniteSet(Slots) /\ Slots \subseteq Nat /\ 0 \notin Slots /\ -1 \notin Slots
<1>1. MAX_TASKS - 1 \in Int
  BY SchedAssumption
<1>2. IsFiniteSet(Slots)
  BY <1>1, FS_Interval DEF Slots
<1> QED  BY <1>1, <1>2 DEF Slots

LEMMA SlotCount ==
  ASSUME NEW S \in SUBSET Slots
  PROVE  IsFiniteSet(S) /\ Cardinality(S) \in 0 .. MAX_TASKS - 1
<1>1. MAX_TASKS - 1 \in Nat
  BY SchedAssumption
<1>2. Cardinality(Slots) = MAX_TASKS - 1
  BY <1>1, FS_Interval DEF Slots
<1>3. IsFiniteSet(S) /\ Cardinality(S) <= Cardinality(Slots)
  BY SlotsFinite, FS_Subset, Zenon
<1>4. Cardinality(S) \in Nat
  BY <1>3, FS_CardinalityType
<1> QED  BY <1>1, <1>2, <1>3, <1>4

\* A set of naturals has a least member.
LEMMA MinIn ==
  ASSUME NEW S \in SUBSET Nat, S # {}
  PROVE  Min(S) \in S
<1>1. PICK x \in S : \A y \in S : ~(<<y, x>> \in OpToRel(<, Nat))
  BY NatLessThanWellFounded, WFMin, ZenonT(60)
<1>2. \A y \in S : ~(y < x)
  BY <1>1, ZenonT(60) DEF OpToRel
<1>3. \A y \in S : x <= y
  BY <1>2
<1> QED  BY <1>3, Zenon DEF Min

LEMMA LowestIn ==
  ASSUME NEW S \in SUBSET Slots
  PROVE  IF S = {} THEN Lowest(S) = 0 ELSE Lowest(S) \in S
BY SlotsFinite, MinIn DEF Lowest

LEMMA AfterIn ==
  ASSUME NEW S \in SUBSET Slots, NEW c
  PROVE  IF S = {} THEN After(S, c) = 0 ELSE After(S, c) \in S
<1>1. CASE \E i \in S : i > c
  <2>1. {i \in S : i > c} \in SUBSET Nat /\ {i \in S : i > c} # {}
    BY <1>1, SlotsFinite, Zenon
  <2>2. Min({i \in S : i > c}) \in {i \in S : i > c}
    BY <2>1, MinIn, Zenon
  <2> QED  BY <1>1, <2>2, Zenon DEF After
<1>2. CASE ~ \E i \in S : i > c
  BY <1>2, LowestIn, Zenon DEF After
<1> QED  BY <1>1, <1>2, Zenon

LEMMA Sets ==
  ASSUME NEW t
  PROVE  /\ \A s : In(t, s) \in SUBSET Slots
         /\ Live(t) \in SUBSET Slots
         /\ \A i : Mates(t, i) \in SUBSET Slots
BY Zenon DEF In, Live, Mates

\* The scans for the RUNNING task find one, and if there is none say so.
LEMMA FirstRunningIn ==
  ASSUME NEW t
  PROVE  IF In(t, "RUNNING") = {} THEN FirstRunning(t) = 0 ELSE FirstRunning(t) \in In(t, "RUNNING")
BY Sets, LowestIn, Zenon DEF FirstRunning

LEMMA CurrentIn ==
  ASSUME NEW t
  PROVE  IF In(t, "RUNNING") = {} THEN Current(t) = 0 ELSE Current(t) \in In(t, "RUNNING")
BY FirstRunningIn, Zenon DEF Current

-----------------------------------------------------------------------------
(* Calm operations *)

LEMMA SignalsKnown ==
  /\ SIGCHLD \in Signals /\ SIGALRM \in Signals
  /\ SIGCHLD \notin Fatal /\ NoHandlers \in [Signals -> Dispositions]
BY SchedAssumption DEF SIGCHLD, SIGALRM, SIGTERM, SIGKILL, Fatal, NoHandlers, Dispositions

LEMMA MachineParts ==
  ASSUME NEW m \in Machines
  PROVE  /\ m.t \in [Slots -> Task] /\ m.n \in Int
         /\ \A j \in Slots : m.t[j] \in Task
         /\ \A j \in Slots : (m.t[j].state \in Alive <=> j \in Live(m.t))
<1>1. m.t \in [Slots -> Task] /\ m.n \in Int
  BY DEF Machines
<1>2. \A j \in Slots : m.t[j] \in Task
  BY <1>1, Zenon
<1>3. \A k \in Task : k.state \in Alive <=> k.state \notin {"FREE", "ZOMBIE"}
  BY DEF Task, States, Alive
<1> QED  BY <1>1, <1>2, <1>3, Zenon DEF Live

LEMMA MildRefl ==
  ASSUME NEW k \in Task
  PROVE  Mild(k, k)
BY Zenon DEF Mild

LEMMA MildTrans ==
  ASSUME NEW k, NEW l, NEW h, Mild(k, l), Mild(l, h)
  PROVE  Mild(k, h)
BY Zenon DEF Mild

LEMMA CalmTrans ==
  ASSUME NEW m \in Machines, NEW q, NEW r, NEW D, NEW E, Calm(m, q, D), Calm(q, r, E)
  PROVE  Calm(m, r, D \cup E)
<1>1. \A j \in Slots : Mild(m.t[j], r.t[j])
  BY MildTrans, Zenon DEF Calm
<1>2. D \cup E \subseteq Live(m.t) /\ D \cap E = {} /\ Live(r.t) = Live(m.t) \ (D \cup E)
  BY Zenon DEF Calm
<1>3. D \in SUBSET Slots /\ E \in SUBSET Slots
  BY <1>2, Sets, Zenon
<1>4. Cardinality(D \cup E) = Cardinality(D) + Cardinality(E)
  <2>1. IsFiniteSet(D) /\ IsFiniteSet(E) /\ Cardinality(D) \in Int /\ Cardinality(E) \in Int
    BY <1>3, SlotCount
  <2>2. Cardinality(D \cap E) = 0
    BY <1>2, FS_EmptySet, Zenon
  <2> QED  BY <2>1, <2>2, FS_Union
<1>5. r.n = m.n - Cardinality(D \cup E)
  <2>1. Cardinality(D) \in Int /\ Cardinality(E) \in Int /\ m.n \in Int
    BY <1>3, SlotCount, MachineParts
  <2>2. q.n = m.n - Cardinality(D) /\ r.n = q.n - Cardinality(E)
    BY Zenon DEF Calm
  <2> QED  BY <1>4, <2>1, <2>2
<1> QED  BY <1>1, <1>2, <1>5, Zenon DEF Calm

LEMMA CalmThen ==
  ASSUME NEW m \in Machines, NEW q, NEW r, NEW D, Calm(m, q, {}), Calm(q, r, D)
  PROVE  Calm(m, r, D)
<1>1. {} \cup D = D
  BY Zenon
<1>2. Calm(m, r, {} \cup D)
  BY CalmTrans, Zenon
<1> QED  BY <1>1, <1>2

LEMMA CalmBefore ==
  ASSUME NEW m \in Machines, NEW q, NEW r, NEW D, Calm(m, q, D), Calm(q, r, {})
  PROVE  Calm(m, r, D)
<1>1. D \cup {} = D
  BY Zenon
<1>2. Calm(m, r, D \cup {})
  BY CalmTrans, Zenon
<1> QED  BY <1>1, <1>2

\* An operation that ends whole groups, or no leader, keeps the table sound.
LEMMA CalmSound ==
  ASSUME NEW m, NEW r, NEW D, Sound(m), Calm(m, r, D),
         Does("clone") /\ ~Deadly => \A j \in Live(m.t) \ D : m.t[j].tgid \notin D
  PROVE  Sound(r)
<1>1. r \in Machines
  BY Zenon DEF Calm
<1>2. r.n = Cardinality(Live(r.t))
  <2>1. Live(m.t) \in SUBSET Slots /\ D \in SUBSET Slots /\ Live(m.t) \cap D = D
    BY Sets, Zenon DEF Calm
  <2>2. IsFiniteSet(Live(m.t)) /\ Cardinality(Live(m.t)) \in Int /\ Cardinality(D) \in Int
    BY <2>1, SlotCount
  <2>3. Cardinality(Live(m.t) \ D) = Cardinality(Live(m.t)) - Cardinality(D)
    BY <2>1, <2>2, FS_Difference, Zenon
  <2> QED  BY <2>3, Zenon DEF Calm, Sound
<1>3. Quiet(r.t)
  BY Zenon DEF Sound, Calm, Mild, Quiet
<1>4. Solo(r.t)
  BY Zenon DEF Sound, Calm, Mild, Solo
<1>5. Groups(r.t)
  <2> SUFFICES ASSUME Does("clone"), ~Deadly, NEW i \in Live(r.t)
               PROVE  r.t[i].tgid \in Live(r.t) /\ r.t[r.t[i].tgid].tgid = r.t[i].tgid
    BY Zenon DEF Groups
  <2>1. Live(r.t) = Live(m.t) \ D /\ \A j \in Slots : r.t[j].tgid = m.t[j].tgid
    BY Zenon DEF Calm, Mild
  <2>2. m.t[i].tgid \in Live(m.t) /\ m.t[m.t[i].tgid].tgid = m.t[i].tgid /\ m.t[i].tgid \notin D
    BY <2>1, Zenon DEF Sound, Groups
  <2> QED  BY <2>1, <2>2, Sets, Zenon
<1> QED  BY <1>1, <1>2, <1>3, <1>4, <1>5, Zenon DEF Sound

\* An operation that ends nothing.
LEMMA CalmIntro ==
  ASSUME NEW m \in Machines, NEW r \in Machines, r.n = m.n,
         \A j \in Slots : /\ Mild(m.t[j], r.t[j])
                          /\ r.t[j].state \in Alive <=> m.t[j].state \in Alive
  PROVE  Calm(m, r, {})
<1>1. Live(r.t) = Live(m.t) \ {}
  BY MachineParts, Sets, ZenonT(60)
<1>2. r.n = m.n - Cardinality({})
  BY FS_EmptySet, MachineParts
<1> QED  BY <1>1, <1>2, Zenon DEF Calm

LEMMA CalmRefl ==
  ASSUME NEW m \in Machines
  PROVE  Calm(m, m, {})
BY MachineParts, MildRefl, CalmIntro, Zenon

\* One that ends one task.
LEMMA CalmEnds ==
  ASSUME NEW m \in Machines, NEW r \in Machines, NEW i \in Live(m.t), r.n = m.n - 1,
         \A j \in Slots : /\ Mild(m.t[j], r.t[j])
                          /\ r.t[j].state \in Alive <=> m.t[j].state \in Alive /\ j # i
  PROVE  Calm(m, r, {i})
<1>1. Live(r.t) = Live(m.t) \ {i}
  BY MachineParts, Sets, ZenonT(60)
<1>2. r.n = m.n - Cardinality({i})
  BY FS_Singleton, MachineParts, Zenon
<1> QED  BY <1>1, <1>2, Zenon DEF Calm

-----------------------------------------------------------------------------
(* The operations.  Each is calm; what it does to the RUNNING tasks and whom *)
(* it releases from waitpid is said beside.                                  *)

\* l is k in the state s.
InState(k, l, s) ==
  /\ l \in Task /\ l.state = s /\ l.tgid = k.tgid /\ l.ppid = k.ppid /\ l.hand = k.hand
  /\ l.wait_pid = k.wait_pid /\ l.wakeup = k.wakeup /\ l.alarm = k.alarm /\ l.pend = k.pend

LEMMA InStateMild ==
  ASSUME NEW k \in Task, NEW l, NEW s \in States, InState(k, l, s), s # "BLOCKED",
         k.state # "FREE" \/ s = "FREE"
  PROVE  Mild(k, l)
BY Zenon DEF Mild, InState, Harmless

LEMMA SetStateMachine ==
  ASSUME NEW m \in Machines, NEW i \in Slots, NEW s \in States
  PROVE  /\ SetState(m, i, s) \in Machines /\ SetState(m, i, s).n = m.n
         /\ InState(m.t[i], SetState(m, i, s).t[i], s)
         /\ \A j \in Slots \ {i} : SetState(m, i, s).t[j] = m.t[j]
<1>1. \A k \in Task : [k EXCEPT !.state = s] \in Task /\ InState(k, [k EXCEPT !.state = s], s)
  BY DEF Task, InState
<1>2. m.t \in [Slots -> Task] /\ m.t[i] \in Task /\ m = [t |-> m.t, n |-> m.n] /\ m.n \in Int
  BY MachineParts DEF Machines
<1>3. SetState(m, i, s) = [t |-> [m.t EXCEPT ![i].state = s], n |-> m.n]
  BY <1>2 DEF SetState
<1>4. [m.t EXCEPT ![i].state = s] \in [Slots -> Task]
  BY <1>1, <1>2
<1>5. SetState(m, i, s) \in Machines
  BY <1>2, <1>3, <1>4 DEF Machines
<1>6. SetState(m, i, s).t = [m.t EXCEPT ![i].state = s] /\ SetState(m, i, s).n = m.n
  BY <1>3
<1>7. SetState(m, i, s).t[i] = [m.t[i] EXCEPT !.state = s]
  BY <1>2, <1>6
<1>8. \A j \in Slots \ {i} : SetState(m, i, s).t[j] = m.t[j]
  BY <1>2, <1>6
<1>9. InState(m.t[i], [m.t[i] EXCEPT !.state = s], s)
  BY <1>1, <1>2, Zenon
<1> QED  BY <1>5, <1>6, <1>7, <1>8, <1>9, Zenon

\* A task is made ready, stopped or given the processor.
LEMMA SetLive ==
  ASSUME NEW m \in Machines, NEW i \in Live(m.t), NEW s \in {"READY", "RUNNING", "STOPPED"}
  PROVE  /\ Calm(m, SetState(m, i, s), {})
         /\ In(SetState(m, i, s).t, "RUNNING") =
              IF s = "RUNNING" THEN In(m.t, "RUNNING") \cup {i} ELSE In(m.t, "RUNNING") \ {i}
         /\ In(SetState(m, i, s).t, "READY") =
              IF s = "READY" THEN In(m.t, "READY") \cup {i} ELSE In(m.t, "READY") \ {i}
<1> DEFINE r == SetState(m, i, s)
<1>1. i \in Slots /\ s \in States /\ s \in Alive /\ m.t[i].state \in Alive
  BY Sets, MachineParts, Zenon DEF States, Alive
<1>2. /\ r \in Machines /\ r.n = m.n /\ InState(m.t[i], r.t[i], s)
      /\ \A j \in Slots \ {i} : r.t[j] = m.t[j]
  BY <1>1, SetStateMachine, Zenon
<1>3. m.t[i] \in Task /\ m.t[i].state # "FREE" /\ s # "BLOCKED"
  BY <1>1, MachineParts, Zenon DEF Alive
<1>4. Mild(m.t[i], r.t[i])
  BY <1>1, <1>2, <1>3, InStateMild, ZenonT(60)
<1>5. r.t[i].state = s
  BY <1>2, Zenon DEF InState
<1>6. \A j \in Slots : /\ Mild(m.t[j], r.t[j])
                       /\ r.t[j].state \in Alive <=> m.t[j].state \in Alive
  BY <1>1, <1>2, <1>4, <1>5, MachineParts, MildRefl, ZenonT(60)
<1>7. Calm(m, r, {})
  BY <1>2, <1>6, CalmIntro, Zenon
<1> HIDE DEF r
<1>8. In(r.t, "RUNNING") = IF s = "RUNNING" THEN In(m.t, "RUNNING") \cup {i} ELSE In(m.t, "RUNNING") \ {i}
  BY <1>1, <1>2, <1>5, Zenon DEF In
<1>9. In(r.t, "READY") = IF s = "READY" THEN In(m.t, "READY") \cup {i} ELSE In(m.t, "READY") \ {i}
  BY <1>1, <1>2, <1>5, Zenon DEF In
<1> QED  BY <1>7, <1>8, <1>9, Zenon DEF r

\* A zombie is reaped.
LEMMA Reaped ==
  ASSUME NEW m \in Machines, NEW i \in Slots, m.t[i].state = "ZOMBIE"
  PROVE  /\ Calm(m, SetState(m, i, "FREE"), {})
         /\ In(SetState(m, i, "FREE").t, "RUNNING") = In(m.t, "RUNNING")
<1> DEFINE r == SetState(m, i, "FREE")
<1>1. "FREE" \in States /\ "FREE" \notin Alive /\ "ZOMBIE" \notin Alive
  BY Zenon DEF States, Alive
<1>2. /\ r \in Machines /\ r.n = m.n /\ InState(m.t[i], r.t[i], "FREE")
      /\ \A j \in Slots \ {i} : r.t[j] = m.t[j]
  BY <1>1, SetStateMachine, Zenon
<1>3. m.t[i] \in Task
  BY MachineParts, Zenon
<1>4. Mild(m.t[i], r.t[i])
  BY <1>1, <1>2, <1>3, InStateMild, Zenon
<1>5. r.t[i].state = "FREE"
  BY <1>2, Zenon DEF InState
<1>6. \A j \in Slots : /\ Mild(m.t[j], r.t[j])
                       /\ r.t[j].state \in Alive <=> m.t[j].state \in Alive
  BY <1>1, <1>2, <1>4, <1>5, MachineParts, MildRefl, ZenonT(60)
<1>7. Calm(m, r, {})
  BY <1>2, <1>6, CalmIntro, Zenon
<1> HIDE DEF r
<1>8. In(r.t, "RUNNING") = In(m.t, "RUNNING")
  BY <1>2, <1>5, Zenon DEF In
<1> QED  BY <1>7, <1>8, Zenon DEF r

LEMMA MatesGo ==
  ASSUME NEW m \in Machines, NEW i \in Slots
  PROVE  /\ Calm(m, KillGroupMates(m, i), Mates(m.t, i) \cap Live(m.t))
         /\ In(KillGroupMates(m, i).t, "RUNNING") = In(m.t, "RUNNING") \ Mates(m.t, i)
         /\ KillGroupMates(m, i).t[i] = m.t[i]
<1> DEFINE r == KillGroupMates(m, i)
           D == Mates(m.t, i) \cap Live(m.t)
           Gone(j) == [m.t[j] EXCEPT !.state = "FREE"]
<1>1. \A k \in Task : InState(k, [k EXCEPT !.state = "FREE"], "FREE")
  BY DEF Task, InState, States
<1>2. \A j \in Slots : m.t[j] \in Task /\ InState(m.t[j], Gone(j), "FREE")
  BY <1>1, MachineParts, Zenon
<1>3. \A j \in Slots : Gone(j) \in Task /\ Gone(j).state = "FREE" /\ Mild(m.t[j], Gone(j))
  <2>1. "FREE" \in States /\ "FREE" # "BLOCKED"
    BY Zenon DEF States
  <2>2. \A j \in Slots : Mild(m.t[j], Gone(j))
    BY <1>2, <2>1, InStateMild, Zenon
  <2> QED  BY <1>2, <2>2, Zenon DEF InState
<1> HIDE DEF Gone
<1>4. /\ r.t = [j \in Slots |-> IF j \in Mates(m.t, i) THEN Gone(j) ELSE m.t[j]]
      /\ r.n = m.n - Cardinality(D)
      /\ r = [t |-> r.t, n |-> r.n]
  BY DEF KillGroupMates, Gone
<1> HIDE DEF r
<1>5. \A j \in Slots : r.t[j] = IF j \in Mates(m.t, i) THEN Gone(j) ELSE m.t[j]
  BY <1>4, Zenon
<1>6. D \in SUBSET Slots /\ Cardinality(D) \in Int
  BY Sets, SlotCount
<1>7. r \in Machines
  <2>1. r.t \in [Slots -> Task]
    BY <1>2, <1>3, <1>4, Zenon
  <2>2. r.n \in Int
    BY <1>4, <1>6, MachineParts
  <2> QED  BY <1>4, <2>1, <2>2 DEF Machines
<1>8. \A j \in Slots : Mild(m.t[j], r.t[j])
  BY <1>2, <1>3, <1>5, MildRefl, Zenon
<1>9. Live(r.t) = Live(m.t) \ D
  BY <1>3, <1>5, Zenon DEF Live
<1>10. Calm(m, r, D)
  BY <1>4, <1>7, <1>8, <1>9, Zenon DEF Calm
<1>11. In(r.t, "RUNNING") = In(m.t, "RUNNING") \ Mates(m.t, i)
  BY <1>3, <1>5, Zenon DEF In
<1>12. r.t[i] = m.t[i]
  BY <1>5, Zenon DEF Mates
<1> QED  BY <1>10, <1>11, <1>12, Zenon DEF r

\* Waiters are woken, mildly.
LEMMA WaitersWake ==
  ASSUME NEW t \in [Slots -> Task], NEW i \in Slots, NEW code \in Statuses
  PROVE  LET u == WakeWaiters(t, i, code)
         IN  /\ u \in [Slots -> Task]
             /\ \A j \in Slots : /\ Mild(t[j], u[j])
                                 /\ u[j].state \in Alive <=> t[j].state \in Alive
                                 /\ u[j].state = "RUNNING" <=> t[j].state = "RUNNING"
                                 /\ t[j].state # "BLOCKED" => u[j] = t[j]
                                 /\ u[j].state = "BLOCKED" => t[j].wait_pid # i
<1> DEFINE u == WakeWaiters(t, i, code)
           Woken(j) == [t[j] EXCEPT !.wait_pid = 0, !.state = "READY", !.eax = code]
<1>1. ASSUME NEW k \in Task, NEW l, l = [k EXCEPT !.wait_pid = 0, !.state = "READY", !.eax = code]
      PROVE  l \in Task /\ l.state = "READY" /\ l.tgid = k.tgid /\ l.alarm = k.alarm /\ l.pend = k.pend
  BY <1>1, Zenon DEF Task, States
<1>2. \A j \in Slots : t[j] \in Task
  BY Zenon
<1>3. \A j \in Slots : /\ Woken(j) \in Task /\ Woken(j).state = "READY" /\ Woken(j).tgid = t[j].tgid
                       /\ Woken(j).alarm = t[j].alarm /\ Woken(j).pend = t[j].pend
  BY <1>1, <1>2, Zenon
<1> HIDE DEF Woken
<1>4. u = [j \in Slots |-> IF j \in WaitersFor(t, i) THEN Woken(j) ELSE t[j]]
  BY Zenon DEF WakeWaiters, Woken
<1> HIDE DEF u
<1>5. \A j \in Slots : u[j] = IF j \in WaitersFor(t, i) THEN Woken(j) ELSE t[j]
  BY <1>4, Zenon
<1>6. u \in [Slots -> Task]
  BY <1>2, <1>3, <1>4, Zenon
<1>7. ASSUME NEW j \in Slots
      PROVE  /\ Mild(t[j], u[j])
             /\ u[j].state \in Alive <=> t[j].state \in Alive
             /\ u[j].state = "RUNNING" <=> t[j].state = "RUNNING"
             /\ t[j].state # "BLOCKED" => u[j] = t[j]
             /\ u[j].state = "BLOCKED" => t[j].wait_pid # i
  <2>1. CASE j \in WaitersFor(t, i)
    <3>1. t[j].state = "BLOCKED" /\ u[j] = Woken(j)
      BY <1>5, <2>1, Zenon DEF WaitersFor, In
    <3> QED  BY <1>3, <3>1, Zenon DEF Mild, Harmless, Alive
  <2>2. CASE j \notin WaitersFor(t, i)
    <3>1. u[j] = t[j]
      BY <1>5, <2>2, Zenon
    <3>2. t[j].state = "BLOCKED" => t[j].wait_pid # i
      BY <2>2, Zenon DEF WaitersFor, In
    <3> QED  BY <1>2, <3>1, <3>2, MildRefl, Zenon
  <2> QED  BY <2>1, <2>2, Zenon
<1> QED  BY <1>6, <1>7, Zenon DEF u

\* u is the table t after the death of i.
Dying(t, i, u) ==
  /\ u \in [Slots -> Task]
  /\ \A j \in Slots : /\ Mild(t[j], u[j])
                      /\ u[j].state \in Alive <=> t[j].state \in Alive /\ j # i
                      /\ u[j].state = "RUNNING" <=> t[j].state = "RUNNING" /\ j # i
                      /\ u[j].state = "BLOCKED" => t[j].wait_pid # i

LEMMA Zombie ==
  ASSUME NEW m \in Machines, NEW i \in Live(m.t), NEW code \in Statuses
  PROVE  Dying(m.t, i, WakeWaiters([m.t EXCEPT ![i].state = "ZOMBIE", ![i].exit_code = code], i, code))
<1> DEFINE z == [m.t[i] EXCEPT !.state = "ZOMBIE", !.exit_code = code]
           d == [m.t EXCEPT ![i].state = "ZOMBIE", ![i].exit_code = code]
           u == WakeWaiters(d, i, code)
<1>1. i \in Slots /\ m.t \in [Slots -> Task] /\ m.t[i] \in Task /\ m.t[i].state \in Alive
  BY Sets, MachineParts, Zenon
<1>2. ASSUME NEW k \in Task, NEW l, l = [k EXCEPT !.state = "ZOMBIE", !.exit_code = code]
      PROVE  l \in Task /\ l.state = "ZOMBIE" /\ l.tgid = k.tgid /\ l.alarm = k.alarm /\ l.pend = k.pend
  BY <1>2, Zenon DEF Task, States
<1>3. z \in Task /\ z.state = "ZOMBIE" /\ z.tgid = m.t[i].tgid /\ z.alarm = m.t[i].alarm /\ z.pend = m.t[i].pend
  BY <1>1, <1>2, Zenon
<1>4. d = [m.t EXCEPT ![i] = z]
  BY <1>1, Zenon
<1> HIDE DEF z
<1>5. /\ d \in [Slots -> Task] /\ d[i] = z
      /\ \A j \in Slots \ {i} : d[j] = m.t[j]
  BY <1>1, <1>3, <1>4, Zenon
<1> HIDE DEF d
<1>6. /\ u \in [Slots -> Task]
      /\ \A j \in Slots : /\ Mild(d[j], u[j])
                          /\ u[j].state \in Alive <=> d[j].state \in Alive
                          /\ u[j].state = "RUNNING" <=> d[j].state = "RUNNING"
                          /\ d[j].state # "BLOCKED" => u[j] = d[j]
                          /\ u[j].state = "BLOCKED" => d[j].wait_pid # i
  BY <1>1, <1>5, WaitersWake, Zenon
<1> HIDE DEF u
<1>7. Mild(m.t[i], z)
  BY <1>1, <1>3, Zenon DEF Mild, Harmless, Alive
<1>8. u[i] = z /\ z.state \notin Alive /\ z.state # "RUNNING" /\ z.state # "BLOCKED"
  BY <1>1, <1>3, <1>5, <1>6, Zenon DEF Alive
<1> QED  BY <1>5, <1>6, <1>7, <1>8, ZenonT(60) DEF Dying, u, d

LEMMA ReapedAtOnce ==
  ASSUME NEW t \in [Slots -> Task], NEW i \in Slots, NEW u, Dying(t, i, u)
  PROVE  Dying(t, i, [u EXCEPT ![i].state = "FREE"])
<1> DEFINE v == [u EXCEPT ![i].state = "FREE"]
           z == [u[i] EXCEPT !.state = "FREE"]
<1>1. u \in [Slots -> Task] /\ u[i] \in Task
  BY Zenon DEF Dying
<1>2. \A k \in Task : InState(k, [k EXCEPT !.state = "FREE"], "FREE")
  BY DEF Task, InState, States
<1>3. InState(u[i], z, "FREE") /\ v = [u EXCEPT ![i] = z]
  BY <1>1, <1>2, Zenon
<1> HIDE DEF z
<1>4. z \in Task /\ z.state = "FREE"
  BY <1>3, Zenon DEF InState
<1>5. Mild(u[i], z)
  BY <1>1, <1>3, InStateMild, Zenon DEF States
<1>6. v \in [Slots -> Task] /\ v[i] = z /\ \A j \in Slots \ {i} : v[j] = u[j]
  BY <1>1, <1>3, <1>4, Zenon
<1> HIDE DEF v
<1>7. Mild(t[i], z)
  BY <1>5, MildTrans, Zenon DEF Dying
<1> QED  BY <1>4, <1>6, <1>7, Zenon DEF Dying, Alive, v

LEMMA ParentNotified ==
  ASSUME NEW t \in [Slots -> Task], NEW i \in Slots, NEW u, Dying(t, i, u), NEW p
  PROVE  Dying(t, i, NotifyParent(u, p))
<1> DEFINE v == NotifyParent(u, p)
           st == IF u[p].state = "BLOCKED" /\ u[p].wait_pid = 0 THEN "READY" ELSE u[p].state
           z == [u[p] EXCEPT !.pend = @ \cup {SIGCHLD}, !.state = st]
<1>1. CASE ~(p \in Slots /\ u[p].state # "FREE" /\ u[p].hand[SIGCHLD] # "IGN")
  BY <1>1, Zenon DEF NotifyParent
<1>2. CASE p \in Slots /\ u[p].state # "FREE" /\ u[p].hand[SIGCHLD] # "IGN"
  <2>1. u \in [Slots -> Task] /\ u[p] \in Task
    BY <1>2, Zenon DEF Dying
  <2>2. v = [u EXCEPT ![p] = z]
    BY <1>2, <2>1, ZenonT(60) DEF NotifyParent
  <2>3. st \in States
    BY <2>1 DEF Task, States
  <2> HIDE DEF st
  <2>4. ASSUME NEW k \in Task, NEW l, l = [k EXCEPT !.pend = @ \cup {SIGCHLD}, !.state = st]
        PROVE  /\ l \in Task /\ l.state = st /\ l.tgid = k.tgid /\ l.alarm = k.alarm
               /\ l.wait_pid = k.wait_pid /\ l.wakeup = k.wakeup /\ l.pend = k.pend \cup {SIGCHLD}
    BY <2>3, <2>4, SignalsKnown, ZenonT(60) DEF Task
  <2>5. /\ z \in Task /\ z.state = st /\ z.tgid = u[p].tgid /\ z.alarm = u[p].alarm
        /\ z.wait_pid = u[p].wait_pid /\ z.wakeup = u[p].wakeup /\ z.pend = u[p].pend \cup {SIGCHLD}
    BY <2>1, <2>4, Zenon
  <2> HIDE DEF z
  <2>6. /\ v \in [Slots -> Task] /\ v[p] = z
        /\ \A j \in Slots \ {p} : v[j] = u[j]
    BY <1>2, <2>1, <2>2, <2>5, Zenon
  <2> HIDE DEF v
  <2>7. /\ st = "BLOCKED" => u[p].state = "BLOCKED"
        /\ st \in Alive <=> u[p].state \in Alive
        /\ st = "RUNNING" <=> u[p].state = "RUNNING"
    BY Zenon DEF st, Alive
  <2>8. Harmless(u[p]) => Harmless(z)
    BY <2>5, SignalsKnown, Zenon DEF Harmless
  <2>9. Mild(u[p], z)
    BY <1>2, <2>5, <2>7, <2>8, ZenonT(60) DEF Mild
  <2>10. Mild(t[p], z)
    BY <1>2, <2>9, MildTrans, Zenon DEF Dying
  <2> QED  BY <1>2, <2>5, <2>6, <2>7, <2>10, ZenonT(60) DEF Dying, v
<1> QED  BY <1>1, <1>2, Zenon

\* What a death does to the machine.
LEMMA DyingCalm ==
  ASSUME NEW m \in Machines, NEW i \in Live(m.t), NEW r, r = [t |-> r.t, n |-> r.n],
         r.n = m.n - 1, Dying(m.t, i, r.t)
  PROVE  /\ Calm(m, r, {i}) /\ Released(m, r, {i})
         /\ In(r.t, "RUNNING") = In(m.t, "RUNNING") \ {i}
<1>1. r \in Machines
  BY MachineParts DEF Machines, Dying
<1>2. Calm(m, r, {i})
  BY <1>1, CalmEnds, Zenon DEF Dying
<1>3. Released(m, r, {i})
  BY Zenon DEF Dying, Released
<1>4. In(r.t, "RUNNING") = In(m.t, "RUNNING") \ {i}
  BY Zenon DEF Dying, In
<1> QED  BY <1>2, <1>3, <1>4, ZenonT(60)

LEMMA DeathPublished ==
  ASSUME NEW m \in Machines, NEW i \in Live(m.t), NEW code \in Statuses
  PROVE  /\ Calm(m, PublishDeath(m, i, code), {i}) /\ Released(m, PublishDeath(m, i, code), {i})
         /\ In(PublishDeath(m, i, code).t, "RUNNING") = In(m.t, "RUNNING") \ {i}
<1> DEFINE r == PublishDeath(m, i, code)
           w == WakeWaiters([m.t EXCEPT ![i].state = "ZOMBIE", ![i].exit_code = code], i, code)
<1>1. Dying(m.t, i, w)
  BY Zombie, Zenon
<1> HIDE DEF w
<1>2. /\ r = [t |-> r.t, n |-> r.n] /\ r.n = m.n - 1
      /\ r.t = IF ~Leader(m.t, i) THEN w
               ELSE IF m.t[i].ppid = NoParent THEN [w EXCEPT ![i].state = "FREE"]
               ELSE NotifyParent(w, m.t[i].ppid)
  BY DEF PublishDeath, w
<1> HIDE DEF r
<1>3. m.t \in [Slots -> Task] /\ i \in Slots
  BY MachineParts, Sets, Zenon
<1>4. Dying(m.t, i, [w EXCEPT ![i].state = "FREE"]) /\ Dying(m.t, i, NotifyParent(w, m.t[i].ppid))
  BY <1>1, <1>3, ReapedAtOnce, ParentNotified, Zenon
<1>5. Dying(m.t, i, r.t)
  BY <1>1, <1>2, <1>4, Zenon
<1> QED  BY <1>2, <1>5, DyingCalm, Zenon DEF r

LEMMA ThreadExits ==
  ASSUME NEW m \in Machines, NEW i \in Live(m.t), NEW code \in Statuses
  PROVE  /\ Calm(m, ExitThread(m, i, code), {i}) /\ Released(m, ExitThread(m, i, code), {i})
         /\ In(ExitThread(m, i, code).t, "RUNNING") = In(m.t, "RUNNING") \ {i}
<1> DEFINE r == ExitThread(m, i, code)
           w == WakeWaiters([m.t EXCEPT ![i].state = "ZOMBIE", ![i].exit_code = code], i, code)
<1>1. Dying(m.t, i, w)
  BY Zombie, Zenon
<1> HIDE DEF w
<1>2. r = [t |-> r.t, n |-> r.n] /\ r.n = m.n - 1 /\ r.t = w
  BY DEF ExitThread, w
<1> HIDE DEF r
<1> QED  BY <1>1, <1>2, DyingCalm, ZenonT(60) DEF r

\* The group of a live task, itself included, ends with it.
Group(t, i) == (Mates(t, i) \cap Live(t)) \cup {i}

LEMMA GroupClosed ==
  ASSUME NEW m, Sound(m), NEW i \in Live(m.t)
  PROVE  /\ Does("clone") /\ ~Deadly => \A j \in Live(m.t) \ Group(m.t, i) : m.t[j].tgid \notin Group(m.t, i)
         /\ ~Does("clone") => Mates(m.t, i) = {}
<1>1. \A j \in Live(m.t) : j \in Slots /\ m.t[j].state # "FREE"
  BY Zenon DEF Live
<1>2. \A j \in Live(m.t) : j \in Group(m.t, i) <=> m.t[j].tgid = m.t[i].tgid
  BY <1>1, Zenon DEF Group, Mates
<1>3. ASSUME Does("clone"), ~Deadly, NEW j \in Live(m.t) \ Group(m.t, i)
      PROVE  m.t[j].tgid \notin Group(m.t, i)
  <2>1. m.t[j].tgid \in Live(m.t) /\ m.t[m.t[j].tgid].tgid = m.t[j].tgid
    BY <1>3, Zenon DEF Sound, Groups
  <2> QED  BY <1>2, <1>3, <2>1, Zenon
<1>4. ASSUME ~Does("clone")
      PROVE  Mates(m.t, i) = {}
  <2>1. \A j \in Slots : m.t[j].state # "FREE" => m.t[j].tgid = j
    BY <1>4, Zenon DEF Sound, Solo
  <2> QED  BY <1>1, <2>1, ZenonT(60) DEF Mates
<1> QED  BY <1>3, <1>4, Zenon

LEMMA GroupEnds ==
  ASSUME NEW m, Sound(m), NEW i \in Live(m.t), NEW code \in Statuses
  PROVE  LET r == ExitTask(m, i, code)
         IN  /\ Sound(r) /\ Calm(m, r, Group(m.t, i)) /\ Released(m, r, {i})
             /\ In(r.t, "RUNNING") = In(m.t, "RUNNING") \ (Mates(m.t, i) \cup {i})
<1> DEFINE q == KillGroupMates(m, i)
           r == ExitTask(m, i, code)
           D == Mates(m.t, i) \cap Live(m.t)
<1>1. m \in Machines /\ i \in Slots
  BY Sets, Zenon DEF Sound
<1>2. Calm(m, q, D) /\ In(q.t, "RUNNING") = In(m.t, "RUNNING") \ Mates(m.t, i)
  BY <1>1, MatesGo, Zenon
<1>3. q \in Machines /\ i \in Live(q.t)
  BY <1>2, Zenon DEF Calm, Mates
<1>4. r = PublishDeath(q, i, code)
  BY Zenon DEF ExitTask
<1> HIDE DEF q, r
<1>5. Calm(q, r, {i}) /\ Released(q, r, {i}) /\ In(r.t, "RUNNING") = In(q.t, "RUNNING") \ {i}
  BY <1>3, <1>4, DeathPublished, Zenon
<1>6. Calm(m, r, Group(m.t, i))
  BY <1>1, <1>2, <1>5, CalmTrans, ZenonT(60) DEF Group
<1>7. Sound(r)
  BY <1>6, GroupClosed, CalmSound, ZenonT(60)
<1>8. Released(m, r, {i})
  <2>1. \A j \in Slots : r.t[j].state = "BLOCKED" =>
          q.t[j].state = "BLOCKED" /\ q.t[j].wait_pid = m.t[j].wait_pid
    BY <1>2, <1>5, Zenon DEF Calm, Mild
  <2> QED  BY <1>5, <2>1, Zenon DEF Released
<1> QED  BY <1>2, <1>5, <1>6, <1>7, <1>8, ZenonT(60) DEF r

\* .sst_kill is the same death for a task that has lost its handlers.
LEMMA KillEnds ==
  ASSUME NEW m, Sound(m), NEW i \in Live(m.t)
  PROVE  LET r == KillTask(m, i)
         IN  /\ Sound(r) /\ Calm(m, r, Group(m.t, i))
             /\ In(r.t, "RUNNING") = In(m.t, "RUNNING") \ (Mates(m.t, i) \cup {i})
<1> DEFINE q == [m EXCEPT !.t[i].hand = NoHandlers]
           z == [m.t[i] EXCEPT !.hand = NoHandlers]
<1>1. /\ m \in Machines /\ i \in Slots /\ m.t[i] \in Task /\ m.t \in [Slots -> Task] /\ m.n \in Int
      /\ \A j \in Slots : m.t[j] \in Task
  BY Sets, MachineParts, Zenon DEF Sound
<1>2. ASSUME NEW k \in Task, NEW l, l = [k EXCEPT !.hand = NoHandlers]
      PROVE  /\ l \in Task /\ l.state = k.state /\ l.tgid = k.tgid /\ l.alarm = k.alarm
             /\ l.wait_pid = k.wait_pid /\ l.wakeup = k.wakeup /\ l.pend = k.pend
  BY <1>2, SignalsKnown, Zenon DEF Task
<1>3. /\ z \in Task /\ z.state = m.t[i].state /\ z.tgid = m.t[i].tgid /\ z.alarm = m.t[i].alarm
      /\ z.wait_pid = m.t[i].wait_pid /\ z.wakeup = m.t[i].wakeup /\ z.pend = m.t[i].pend
  BY <1>1, <1>2, Zenon
<1>4. m = [t |-> m.t, n |-> m.n]
  BY <1>1 DEF Machines
<1>5. q = [t |-> [m.t EXCEPT ![i] = z], n |-> m.n]
  BY <1>1, <1>4
<1> HIDE DEF z, q
<1>6. /\ q \in Machines /\ q.n = m.n
      /\ q.t[i] = z /\ \A j \in Slots \ {i} : q.t[j] = m.t[j]
  BY <1>1, <1>3, <1>5 DEF Machines
<1>7. Mild(m.t[i], z)
  BY <1>3, Zenon DEF Mild, Harmless
<1>8. \A j \in Slots : /\ Mild(m.t[j], q.t[j]) /\ q.t[j].state = m.t[j].state /\ q.t[j].tgid = m.t[j].tgid
  BY <1>1, <1>3, <1>6, <1>7, MildRefl, ZenonT(60)
<1>9. Calm(m, q, {})
  BY <1>1, <1>6, <1>8, CalmIntro, Zenon
<1>10. Sound(q)
  BY <1>9, CalmSound, Zenon
<1>11. Live(q.t) = Live(m.t) /\ Mates(q.t, i) = Mates(m.t, i) /\ In(q.t, "RUNNING") = In(m.t, "RUNNING")
  BY <1>1, <1>8, Zenon DEF Live, Mates, In
<1> DEFINE r == KillTask(m, i)
<1>12. r = ExitTask(q, i, "signal")
  BY Zenon DEF KillTask, ExitTask, q
<1> HIDE DEF r
<1>13. /\ Sound(r) /\ Calm(q, r, Group(q.t, i))
       /\ In(r.t, "RUNNING") = In(q.t, "RUNNING") \ (Mates(q.t, i) \cup {i})
  BY <1>10, <1>11, <1>12, GroupEnds, ZenonT(60) DEF Statuses
<1>14. Group(q.t, i) = Group(m.t, i)
  BY <1>11, Zenon DEF Group
<1>15. Calm(m, r, Group(m.t, i))
  BY <1>1, <1>9, <1>13, <1>14, CalmThen, ZenonT(60)
<1> QED  BY <1>11, <1>13, <1>15, Zenon DEF r

LEMMA SignalQueued ==
  ASSUME NEW m \in Machines, NEW i \in Live(m.t), NEW s \in Signals, Deadly \/ s \notin Fatal
  PROVE  /\ Calm(m, QueueSignal(m, i, s), {})
         /\ In(QueueSignal(m, i, s).t, "RUNNING") = In(m.t, "RUNNING")
<1> DEFINE r == QueueSignal(m, i, s)
           st == IF m.t[i].state = "BLOCKED" THEN "READY" ELSE m.t[i].state
           z == [m.t[i] EXCEPT !.pend = @ \cup {s}, !.state = st]
<1>1. /\ i \in Slots /\ m.t[i] \in Task /\ m.t \in [Slots -> Task] /\ m.n \in Int
      /\ \A j \in Slots : m.t[j] \in Task
      /\ m.t[i].state \in Alive
  BY Sets, MachineParts, Zenon
<1>2. m = [t |-> m.t, n |-> m.n]
  BY DEF Machines
<1>3. r = [t |-> [m.t EXCEPT ![i] = z], n |-> m.n]
  <2> DEFINE k == [m.t[i] EXCEPT !.pend = @ \cup {s}]
             u == [m.t EXCEPT ![i] = k]
             q == [m EXCEPT !.t = u]
  <2>1. r = [q EXCEPT !.t = [q.t EXCEPT ![i] = [q.t[i] EXCEPT !.state = st]]]
    BY Zenon DEF QueueSignal
  <2>2. z = [k EXCEPT !.state = st]
    BY Zenon
  <2> HIDE DEF k, st, z, r
  <2>3. u[i] = k /\ u \in [Slots -> {u[j] : j \in Slots}] /\ [u EXCEPT ![i] = z] = [m.t EXCEPT ![i] = z]
    BY <1>1
  <2>4. q = [t |-> u, n |-> m.n]
    <3> HIDE DEF u
    <3> QED  BY <1>2
  <2> HIDE DEF u, q
  <2> QED  BY <2>1, <2>2, <2>3, <2>4, ZenonT(60)
<1>4. st \in States /\ st \in Alive /\ st # "BLOCKED" /\ (st = "RUNNING" <=> m.t[i].state = "RUNNING")
  BY <1>1, Zenon DEF States, Alive
<1> HIDE DEF st
<1>5. ASSUME NEW k \in Task, NEW l, l = [k EXCEPT !.pend = @ \cup {s}, !.state = st]
      PROVE  l \in Task /\ l.state = st /\ l.tgid = k.tgid /\ l.alarm = k.alarm /\ l.pend = k.pend \cup {s}
  BY <1>4, <1>5, Zenon DEF Task
<1>6. z \in Task /\ z.state = st /\ z.tgid = m.t[i].tgid /\ z.alarm = m.t[i].alarm /\ z.pend = m.t[i].pend \cup {s}
  BY <1>1, <1>5, Zenon
<1> HIDE DEF z, r
<1>7. /\ r \in Machines /\ r.n = m.n
      /\ r.t[i] = z /\ \A j \in Slots \ {i} : r.t[j] = m.t[j]
  BY <1>1, <1>3, <1>6 DEF Machines
<1>8. ~Deadly /\ Harmless(m.t[i]) => Harmless(z)
  BY <1>6, Zenon DEF Harmless
<1>9. Mild(m.t[i], z)
  BY <1>1, <1>4, <1>6, <1>8, Zenon DEF Mild, Alive
<1>10. \A j \in Slots : /\ Mild(m.t[j], r.t[j])
                        /\ r.t[j].state \in Alive <=> m.t[j].state \in Alive
                        /\ r.t[j].state = "RUNNING" <=> m.t[j].state = "RUNNING"
  BY <1>1, <1>4, <1>6, <1>7, <1>9, MildRefl, Zenon
<1>11. Calm(m, r, {})
  BY <1>7, <1>10, CalmIntro, Zenon
<1>12. In(r.t, "RUNNING") = In(m.t, "RUNNING")
  BY <1>10, Zenon DEF In
<1> QED  BY <1>11, <1>12, Zenon DEF r

\* A signal ends nothing, or a task that is not running with its group, and that
\* only if the workload has such signals.
LEMMA Signalled ==
  ASSUME NEW m, Sound(m), NEW i \in Slots, m.t[i].state # "FREE",
         load \in Workloads, NEW s \in load.sigs
  PROVE  LET r == SignalTask(m, i, s)
         IN  /\ Sound(r)
             /\ \E D : Calm(m, r, D) /\ (D # {} => Deadly)
             /\ ~(Deadly /\ Does("clone")) => In(r.t, "RUNNING") = In(m.t, "RUNNING")
<1> DEFINE r == SignalTask(m, i, s)
           st == m.t[i].state
           h == m.t[i].hand[s]
           Goal(x) == /\ Sound(x) /\ \E D : Calm(m, x, D) /\ (D # {} => Deadly)
                      /\ ~(Deadly /\ Does("clone")) => In(x.t, "RUNNING") = In(m.t, "RUNNING")
<1> SUFFICES Goal(r)
  BY Zenon
<1>1. m \in Machines /\ m.t[i] \in Task /\ s \in Signals
  BY SchedAssumption, MachineParts, ZenonT(60) DEF Sound
<1>2. s \in {SIGKILL, SIGALRM, SIGTERM, SIGCHLD, SIGTSTP, SIGCONT} /\ h \in Dispositions /\ st \in States
  BY <1>1, SchedAssumption DEF Task
<1>3. Deadly \/ s \notin Fatal
  BY Zenon DEF Deadly, Fatal
<1>4. ASSUME NEW x, Calm(m, x, {}), In(x.t, "RUNNING") = In(m.t, "RUNNING")
      PROVE  Goal(x)
  BY <1>4, CalmSound, Zenon
<1>5. Goal(m)
  BY <1>1, <1>4, CalmRefl, Zenon
<1>6. CASE st = "ZOMBIE"
  <2>1. r = m
    BY <1>6, Zenon DEF SignalTask
  <2> QED  BY <1>5, <2>1
<1>7. ASSUME st # "ZOMBIE"
      PROVE  Goal(QueueSignal(m, i, s))
  <2>1. i \in Live(m.t)
    BY <1>7, Zenon DEF Live
  <2> QED  BY <1>1, <1>3, <1>4, <2>1, SignalQueued, Zenon
<1>8. CASE st = "RUNNING"
  <2>1. r = QueueSignal(m, i, s)
    BY <1>8, Zenon DEF SignalTask
  <2> QED  BY <1>7, <1>8, <2>1
<1>9. ASSUME st \notin {"ZOMBIE", "RUNNING"}, s \in Fatal
      PROVE  Goal(KillTask(m, i))
  <2>1. i \in Live(m.t) /\ i \notin In(m.t, "RUNNING")
    BY <1>9, Zenon DEF Live, In
  <2> DEFINE x == KillTask(m, i)
  <2>2. /\ Sound(x) /\ Calm(m, x, Group(m.t, i))
        /\ In(x.t, "RUNNING") = In(m.t, "RUNNING") \ (Mates(m.t, i) \cup {i})
    BY <2>1, KillEnds, Zenon
  <2> HIDE DEF x
  <2>3. Deadly
    BY <1>3, <1>9, Zenon
  <2>4. ~Does("clone") => Mates(m.t, i) = {}
    BY <2>1, GroupClosed, Zenon
  <2>5. ~Does("clone") => In(x.t, "RUNNING") = In(m.t, "RUNNING")
    BY <2>1, <2>2, <2>4, Zenon
  <2> QED  BY <2>2, <2>3, <2>5, Zenon DEF x
<1>10. ASSUME st \notin {"ZOMBIE", "RUNNING"}, NEW w \in {"READY", "STOPPED"}
       PROVE  Goal(SetState(m, i, w))
  <2>1. i \in Live(m.t) /\ i \notin In(m.t, "RUNNING")
    BY <1>10, Zenon DEF Live, In
  <2>2. /\ Calm(m, SetState(m, i, w), {}) /\ w # "RUNNING"
        /\ In(SetState(m, i, w).t, "RUNNING") =
             IF w = "RUNNING" THEN In(m.t, "RUNNING") \cup {i} ELSE In(m.t, "RUNNING") \ {i}
    BY <1>1, <2>1, SetLive, Zenon
  <2>3. In(m.t, "RUNNING") \ {i} = In(m.t, "RUNNING")
    BY <2>1, Zenon
  <2> QED  BY <1>4, <2>2, <2>3, Zenon
<1> HIDE DEF Goal
<1>11. CASE st \notin {"ZOMBIE", "RUNNING"}
  <2>1. r \in {m, KillTask(m, i), QueueSignal(m, i, s), SetState(m, i, "READY"), SetState(m, i, "STOPPED")}
    BY <1>2, <1>11 DEF SignalTask, SIGKILL, SIGALRM, SIGTERM, SIGCHLD, SIGTSTP, SIGCONT, Dispositions
  <2>2. r = KillTask(m, i) => s \in Fatal \/ Goal(r)
    <3>1. CASE s \in {SIGCONT, SIGTSTP, SIGCHLD}
      <4>1. r \in {m, QueueSignal(m, i, s), SetState(m, i, "READY"), SetState(m, i, "STOPPED")}
        BY <1>11, <3>1 DEF SignalTask, SIGKILL, SIGALRM, SIGTERM, SIGCHLD, SIGTSTP, SIGCONT
      <4> QED  BY <1>5, <1>7, <1>10, <1>11, <4>1, ZenonT(60)
    <3> QED  BY <1>2, <3>1, Zenon DEF Fatal
  <2> QED  BY <1>5, <1>7, <1>9, <1>10, <1>11, <2>1, <2>2, ZenonT(60)
<1> QED  BY <1>6, <1>8, <1>11, Zenon

\* sched_deliver_signals on one task: it goes on, is stopped or ends, and ends
\* only of a signal that ends it.
LEMMA DeliveredMild ==
  ASSUME NEW k \in Task, k.state \in {"READY", "RUNNING"}
  PROVE  /\ Mild(k, Delivered(k)) /\ Delivered(k).state \in {k.state, "STOPPED", "FREE"}
         /\ Delivered(k).state = "FREE" <=> Ends(k)
         /\ Harmless(k) => ~Ends(k)
<1> DEFINE st == IF Stops(k) THEN "STOPPED" ELSE IF Ends(k) THEN "FREE" ELSE k.state
           pd == k.pend \ Consumed(k)
           hd == IF Ends(k) THEN NoHandlers ELSE k.hand
           l == [k EXCEPT !.pend = pd, !.state = st, !.hand = hd]
<1>1. k.pend \in SUBSET Signals /\ k.hand \in [Signals -> Dispositions]
  BY DEF Task
<1>2. st \in States /\ pd \in SUBSET Signals /\ hd \in [Signals -> Dispositions]
  BY <1>1, SignalsKnown, Zenon DEF States
<1>3. ~(Stops(k) /\ Ends(k))
  BY Zenon DEF Stops, Ends
<1>4. st \in {k.state, "STOPPED", "FREE"} /\ (st = "FREE" <=> Ends(k)) /\ st # "BLOCKED" /\ pd \subseteq k.pend
  BY <1>3, Zenon
<1>5. Delivered(k) = l
  BY Zenon DEF Delivered
<1> HIDE DEF st, pd, hd
<1>6. l \in Task /\ l.state = st /\ l.tgid = k.tgid /\ l.alarm = k.alarm /\ l.pend = pd
  BY <1>2, Zenon DEF Task
<1> HIDE DEF l
<1>7. Mild(k, l)
  BY <1>4, <1>6, Zenon DEF Mild, Harmless
<1>8. ASSUME Harmless(k), Ends(k)
      PROVE  FALSE
  <2>1. \A s \in Acts(k) : s = SIGTSTP
    BY <1>1, <1>8, SchedAssumption DEF Acts, Open, Harmless, Fatal
  <2>2. Acts(k) # {} /\ Min(Acts(k)) # SIGTSTP
    BY <1>8, Zenon DEF Ends
  <2>3. Acts(k) \in SUBSET Nat
    BY <2>1 DEF SIGTSTP
  <2>4. Min(Acts(k)) \in Acts(k)
    BY <2>2, <2>3, MinIn, Zenon
  <2> QED  BY <2>1, <2>2, <2>4, Zenon
<1> QED  BY <1>4, <1>5, <1>6, <1>7, <1>8, ZenonT(60)

LEMMA AllDelivered ==
  ASSUME NEW m, Sound(m), NEW S \in SUBSET (In(m.t, "READY") \cup In(m.t, "RUNNING"))
  PROVE  LET r == DeliverAll(m, S)
             D == {i \in S : Ends(m.t[i])}
         IN  /\ Sound(r) /\ Calm(m, r, D) /\ (D # {} => Deadly)
             /\ \A j \in S : /\ r.t[j].state \in {m.t[j].state, "STOPPED", "FREE"}
                             /\ r.t[j].state = "FREE" <=> j \in D
             /\ \A j \in Slots \ S : r.t[j] = m.t[j]
<1> DEFINE r == DeliverAll(m, S)
           D == {i \in S : Ends(m.t[i])}
<1>1. /\ m \in Machines /\ \A j \in Slots : m.t[j] \in Task
      /\ S \in SUBSET Slots /\ D \in SUBSET Slots
      /\ \A j \in S : m.t[j].state \in {"READY", "RUNNING"}
  BY MachineParts, Zenon DEF Sound, In
<1>2. /\ r.t = [j \in Slots |-> IF j \in S THEN Delivered(m.t[j]) ELSE m.t[j]]
      /\ r.n = m.n - Cardinality(D) /\ r = [t |-> r.t, n |-> r.n]
  BY DEF DeliverAll
<1> HIDE DEF r
<1>3. \A j \in Slots : r.t[j] = IF j \in S THEN Delivered(m.t[j]) ELSE m.t[j]
  BY <1>2, Zenon
<1>4. \A j \in S : /\ Mild(m.t[j], r.t[j]) /\ r.t[j].state \in {m.t[j].state, "STOPPED", "FREE"}
                   /\ r.t[j].state = "FREE" <=> Ends(m.t[j])
                   /\ Harmless(m.t[j]) => ~Ends(m.t[j])
  <2> SUFFICES ASSUME NEW j \in S
               PROVE  /\ Mild(m.t[j], r.t[j]) /\ r.t[j].state \in {m.t[j].state, "STOPPED", "FREE"}
                      /\ r.t[j].state = "FREE" <=> Ends(m.t[j])
                      /\ Harmless(m.t[j]) => ~Ends(m.t[j])
    BY Zenon
  <2>1. m.t[j] \in Task /\ m.t[j].state \in {"READY", "RUNNING"} /\ r.t[j] = Delivered(m.t[j])
    BY <1>1, <1>3, Zenon
  <2> QED  BY <2>1, DeliveredMild, Zenon
<1>5. \A j \in Slots : Mild(m.t[j], r.t[j])
  BY <1>1, <1>3, <1>4, MildRefl, Zenon
<1>6. r \in Machines
  <2>1. \A j \in Slots : r.t[j] \in Task
    BY <1>5, Zenon DEF Mild
  <2>2. r.t \in [Slots -> Task]
    BY <1>2, <2>1, ZenonT(60)
  <2>3. r.n \in Int
    BY <1>1, <1>2, SlotCount, MachineParts
  <2> QED  BY <1>2, <2>2, <2>3 DEF Machines
<1>7. D \subseteq Live(m.t) /\ Live(r.t) = Live(m.t) \ D
  <2>1. \A j \in S : m.t[j].state \notin {"FREE", "ZOMBIE"}
    BY <1>1, Zenon
  <2>2. \A j \in S : r.t[j].state \notin {"FREE", "ZOMBIE"} <=> j \notin D
    BY <1>1, <1>4, Zenon
  <2> QED  BY <1>1, <1>3, <2>1, <2>2, ZenonT(60) DEF Live
<1>8. Calm(m, r, D)
  BY <1>2, <1>5, <1>6, <1>7, ZenonT(60) DEF Calm
<1>9. ~Deadly => D = {}
  BY <1>1, <1>4, Zenon DEF Sound, Quiet
<1> HIDE DEF D
<1>10. Sound(r)
  BY <1>8, <1>9, CalmSound, Zenon
<1> QED  BY <1>3, <1>4, <1>8, <1>9, <1>10, Zenon DEF r, D

\* The scan for the next task gives one survivor the processor, or there is none.
LEMMA NextPicked ==
  ASSUME NEW m, Sound(m), NEW c
  PROVE  LET r == PickNext(m, c)
             p == Picked(m, c)
         IN  /\ Sound(r) /\ \E D : Calm(m, r, D) /\ (D # {} => Deadly)
             /\ p \in Slots \cup {0} /\ (~Deadly /\ In(m.t, "READY") # {} => p # 0)
             /\ In(r.t, "RUNNING") = In(m.t, "RUNNING") \cup ({p} \ {0})
<1> DEFINE p == Picked(m, c)
           F == {i \in In(m.t, "READY") : ~Ends(m.t[i])}
           S == {i \in In(m.t, "READY") : p = 0 \/ i = p \/ Before(c, i, p)}
           q == DeliverAll(m, S)
           D == {i \in S : Ends(m.t[i])}
           r == PickNext(m, c)
<1>1. F \in SUBSET Slots /\ m \in Machines /\ 0 \notin Slots
  BY SlotsFinite, Zenon DEF In, Sound
<1>2. IF F = {} THEN p = 0 ELSE p \in F
  BY <1>1, AfterIn, Zenon DEF Picked
<1>3. r = IF p = 0 THEN q ELSE SetState(q, p, "RUNNING")
  BY Zenon DEF PickNext
<1> HIDE DEF p, r
<1>4. /\ Sound(q) /\ Calm(m, q, D) /\ (D # {} => Deadly)
      /\ \A j \in S : /\ q.t[j].state \in {m.t[j].state, "STOPPED", "FREE"}
                      /\ q.t[j].state = "FREE" <=> j \in D
      /\ \A j \in Slots \ S : q.t[j] = m.t[j]
  <2>1. S \in SUBSET (In(m.t, "READY") \cup In(m.t, "RUNNING"))
    BY Zenon
  <2> QED  BY <2>1, AllDelivered, Zenon
<1>5. \A j \in S : m.t[j].state = "READY"
  BY Zenon DEF In
<1> HIDE DEF q
<1>6. In(q.t, "RUNNING") = In(m.t, "RUNNING")
  BY <1>4, <1>5, Zenon DEF In
<1>7. p \in Slots \cup {0}
  BY <1>1, <1>2, Zenon
<1>8. ~Deadly /\ In(m.t, "READY") # {} => p # 0
  <2>1. ~Deadly => D = {}
    BY <1>4, Zenon
  <2>2. p = 0 => S = In(m.t, "READY") /\ F = {}
    BY <1>1, <1>2, Zenon
  <2> QED  BY <2>1, <2>2, Zenon
<1>9. CASE p = 0
  <2>1. r = q /\ {p} \ {0} = {}
    BY <1>3, <1>9, Zenon
  <2> QED  BY <1>4, <1>6, <1>7, <1>8, <2>1, ZenonT(60) DEF p, r
<1>10. CASE p # 0
  <2>1. p \in F /\ p \in S /\ p \notin D /\ p \in Slots
    BY <1>1, <1>2, <1>10, Zenon
  <2>2. p \in Live(q.t)
    <3>1. p \in Live(m.t)
      BY <2>1, Zenon DEF Live, In
    <3> QED  BY <1>4, <2>1, <3>1, Zenon DEF Calm
  <2>3. q \in Machines /\ r = SetState(q, p, "RUNNING") /\ {p} \ {0} = {p}
    BY <1>3, <1>4, <1>10, Zenon DEF Sound
  <2>4. Calm(q, r, {}) /\ In(r.t, "RUNNING") = In(q.t, "RUNNING") \cup {p}
    BY <2>2, <2>3, SetLive, ZenonT(60)
  <2>5. Sound(r)
    BY <1>4, <2>4, CalmSound, ZenonT(60)
  <2>6. Calm(m, r, D)
    BY <1>1, <1>4, <2>4, CalmBefore, Zenon
  <2> QED  BY <1>4, <1>6, <1>7, <1>8, <2>3, <2>4, <2>5, <2>6, ZenonT(60) DEF p, r
<1> QED  BY <1>9, <1>10, Zenon

=============================================================================
