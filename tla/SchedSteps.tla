----------------------------- MODULE SchedSteps -----------------------------
(***************************************************************************)
(* The inductive invariant of Sched, and the steps that create and block   *)
(* no task: each of them keeps it, whatever the number of slots and the    *)
(* workload.                                                               *)
(***************************************************************************)
EXTENDS SchedOps

\* Where CpuRunsRunning and ExitEndsWait hold.
OneRuns == ~Does("sigsuspend") /\ ~(Deadly /\ (Does("clone") \/ Does("preempt")))
Gentle == ~Deadly /\ ~Does("clone")

IInv ==
  /\ Sound(Machine)
  /\ task_current \in Slots \cup {0} /\ cpu \in Slots \cup {Shell} /\ hlt \in BOOLEAN
  /\ call \in [Slots -> Calls] /\ load \in Workloads
  /\ hlt => cpu # Shell
  /\ NoStaleDeadline
  /\ OneRuns => In(tcb, "RUNNING") = {cpu} \ {Shell}

\* What a step does.
Keeps == IInv' /\ (Gentle => EndsWaits)

-----------------------------------------------------------------------------
(* From an operation to a step *)

LEMMA MachineIs ==
  ASSUME NEW m \in Machines
  PROVE  m = [t |-> m.t, n |-> m.n]
BY DEF Machines

LEMMA Now ==
  /\ Machine.t = tcb /\ Machine.n = task_count
  /\ (Machine.t)' = tcb' /\ (Machine.n)' = task_count'
BY DEF Machine

LEMMA SoundNow ==
  ASSUME IInv
  PROVE  /\ Sound(Machine) /\ Machine \in Machines /\ tcb \in [Slots -> Task] /\ task_count \in Int
         /\ \A j \in Slots : tcb[j] \in Task
<1>1. Sound(Machine) /\ Machine \in Machines
  BY Zenon DEF IInv, Sound
<1>2. tcb \in [Slots -> Task] /\ task_count \in Int
  BY <1>1, Now, MachineParts
<1> QED  BY <1>1, <1>2, Zenon

\* The machine a step leaves behind.
LEMMA SoundNext ==
  ASSUME NEW m, Sound(m), tcb' = m.t, task_count' = m.n, load' = load
  PROVE  Sound(Machine)'
<1>1. Machine' = m
  BY MachineIs DEF Machine, Sound
<1>2. Deadly' <=> Deadly
  BY Zenon DEF Deadly, Does
<1>3. Does("clone")' <=> Does("clone")
  BY Zenon DEF Does
<1>4. Quiet(Machine.t)'
  BY <1>1, <1>2, Zenon DEF Sound, Quiet
<1>5. Solo(Machine.t)'
  BY <1>1, <1>3, Zenon DEF Sound, Solo
<1>6. Groups(Machine.t)'
  BY <1>1, <1>2, <1>3, Zenon DEF Sound, Groups
<1> QED  BY <1>1, <1>4, <1>5, <1>6, ZenonT(60) DEF Sound

\* What is readable of a slot: nothing that another task's step looks at is lost.
Seen(k, l) ==
  /\ l \in Task /\ l.state = k.state /\ l.wakeup = k.wakeup /\ l.alarm = k.alarm
  /\ l.pend \subseteq k.pend
  /\ k.state # "FREE" => l.tgid = k.tgid
  /\ k.state = "BLOCKED" => l.wait_pid = k.wait_pid

LEMMA ReadableKeeps ==
  ASSUME NEW i, NEW k \in Task
  PROVE  Seen(k, Readable(i, k))
<1>1. Empty \in Task /\ Empty.state = "FREE" /\ Empty.pend = {}
  BY SignalsKnown DEF Empty, Task, States, NoParent, Any, Statuses, PRIO_NORMAL, PRIO_LOW
<1>2. ASSUME NEW e \in Task, NEW l, l = [e EXCEPT !.wakeup = k.wakeup, !.alarm = k.alarm]
      PROVE  l \in Task /\ l.state = e.state /\ l.wakeup = k.wakeup /\ l.alarm = k.alarm /\ l.pend = e.pend
  BY <1>2, ZenonT(60) DEF Task
<1>3. ASSUME NEW e \in Task, NEW l,
             l = [e EXCEPT !.state = k.state, !.wakeup = k.wakeup, !.alarm = k.alarm,
                           !.tgid = k.tgid, !.ppid = k.ppid, !.detached = k.detached]
      PROVE  /\ l \in Task /\ l.state = k.state /\ l.wakeup = k.wakeup /\ l.alarm = k.alarm
             /\ l.pend = e.pend /\ l.tgid = k.tgid
  BY <1>3, ZenonT(60) DEF Task
<1>4. ASSUME NEW l, l = [k EXCEPT !.eax = "0"]
      PROVE  /\ l \in Task /\ l.state = k.state /\ l.wakeup = k.wakeup /\ l.alarm = k.alarm
             /\ l.pend = k.pend /\ l.tgid = k.tgid
  BY <1>4, ZenonT(60) DEF Task, Statuses
<1> DEFINE l == Readable(i, k)
<1>5. CASE k.state = "FREE"
  <2>1. l = [Empty EXCEPT !.wakeup = k.wakeup, !.alarm = k.alarm]
    BY <1>5, Zenon DEF Readable
  <2> HIDE DEF l
  <2> QED  BY <1>1, <1>2, <1>5, <2>1, Zenon DEF l, Seen
<1>6. CASE k.state = "ZOMBIE"
  <2>1. l = [Empty EXCEPT !.state = k.state, !.wakeup = k.wakeup, !.alarm = k.alarm,
                          !.tgid = k.tgid, !.ppid = k.ppid, !.detached = k.detached]
    BY <1>6, Zenon DEF Readable
  <2> HIDE DEF l
  <2> QED  BY <1>1, <1>3, <1>6, <2>1, ZenonT(60) DEF l, Seen
<1>7. CASE k.state = "RUNNING" /\ tcb[i].state = "RUNNING"
  <2>1. l = [k EXCEPT !.eax = "0"]
    BY <1>7, Zenon DEF Readable
  <2> HIDE DEF l
  <2> QED  BY <1>4, <1>7, <2>1, ZenonT(60) DEF l, Seen
<1>8. CASE k.state \notin {"FREE", "ZOMBIE"} /\ ~(k.state = "RUNNING" /\ tcb[i].state = "RUNNING")
  <2>1. l = k
    BY <1>8, Zenon DEF Readable
  <2> HIDE DEF l
  <2> QED  BY <2>1, Zenon DEF l, Seen
<1> QED  BY <1>5, <1>6, <1>7, <1>8, ZenonT(60)

LEMMA Shown ==
  ASSUME NEW m, Sound(m), tcb' = [i \in Slots |-> Readable(i, m.t[i])], task_count' = m.n,
         load' = load
  PROVE  /\ Sound(Machine)' /\ Live(tcb') = Live(m.t) /\ In(tcb', "RUNNING") = In(m.t, "RUNNING")
         /\ \A j \in Slots : tcb'[j].state = m.t[j].state /\ tcb'[j].wakeup = m.t[j].wakeup
<1> DEFINE u == [i \in Slots |-> Readable(i, m.t[i])]
           q == [t |-> u, n |-> m.n]
<1>1. m \in Machines /\ \A j \in Slots : m.t[j] \in Task
  BY MachineParts, Zenon DEF Sound
<1>2. \A j \in Slots : u[j] = Readable(j, m.t[j])
  BY Zenon
<1>6. tcb' = u
  BY Zenon
<1> HIDE DEF u
<1>3. \A j \in Slots : /\ u[j] \in Task /\ u[j].state = m.t[j].state /\ u[j].wakeup = m.t[j].wakeup
                       /\ u[j].alarm = m.t[j].alarm /\ u[j].pend \subseteq m.t[j].pend
                       /\ m.t[j].state # "FREE" => u[j].tgid = m.t[j].tgid
  <2>1. \A j \in Slots : Seen(m.t[j], u[j])
    BY <1>1, <1>2, ReadableKeeps, ZenonT(60)
  <2> QED  BY <2>1, Zenon DEF Seen
<1>4. u \in [Slots -> Task]
  BY <1>3, Zenon DEF u
<1>5. q.t = u /\ q.n = m.n /\ m.n \in Int
  BY <1>1, MachineParts, ZenonT(60)
<1>7. q \in Machines
  BY <1>4, <1>5 DEF Machines
<1>8. Live(u) = Live(m.t) /\ In(u, "RUNNING") = In(m.t, "RUNNING")
  BY <1>3, Zenon DEF Live, In
<1>9. Quiet(u)
  BY <1>3, Zenon DEF Sound, Quiet, Harmless
<1>10. Solo(u)
  BY <1>3, Zenon DEF Sound, Solo
<1>11. Groups(u)
  <2> SUFFICES ASSUME Does("clone"), ~Deadly, NEW i \in Live(u)
               PROVE  u[i].tgid \in Live(u) /\ u[u[i].tgid].tgid = u[i].tgid
    BY Zenon DEF Groups
  <2>1. \A j \in Live(u) : j \in Slots /\ u[j].tgid = m.t[j].tgid
    BY <1>3, Zenon DEF Live
  <2>2. m.t[i].tgid \in Live(m.t) /\ m.t[m.t[i].tgid].tgid = m.t[i].tgid
    BY <1>8, Zenon DEF Sound, Groups
  <2> QED  BY <1>8, <2>1, <2>2, ZenonT(60)
<1> HIDE DEF q
<1>12. Sound(q)
  BY <1>5, <1>7, <1>8, <1>9, <1>10, <1>11, ZenonT(60) DEF Sound
<1>13. Sound(Machine)'
  BY <1>5, <1>6, <1>12, SoundNext, Zenon
<1> QED  BY <1>3, <1>6, <1>8, <1>13, ZenonT(60)

\* Who is blocked in m with a deadline is d in sleep, or was so before the step.
DeadlinesKept(m, d, w) ==
  \A i \in Slots : m.t[i].state = "BLOCKED" /\ m.t[i].wakeup =>
    IF i = d THEN w = "sleep" ELSE tcb[i].state = "BLOCKED" /\ tcb[i].wakeup

\* A step that leaves the machine m behind and makes d call w keeps the invariant.
LEMMA StepKeeps ==
  ASSUME IInv, NEW m, Sound(m), NEW c \in Slots \cup {0}, Commit(m, c),
         NEW d, NEW w \in Calls, Calling(d, w), DeadlinesKept(m, d, w),
         OneRuns => In(m.t, "RUNNING") = {c} \ {Shell}
  PROVE  IInv' /\ Live(tcb') = Live(m.t) /\ \A j \in Slots : tcb'[j].state = m.t[j].state
<1>1. /\ tcb' = [i \in Slots |-> Readable(i, m.t[i])] /\ task_count' = m.n /\ load' = load
      /\ cpu' = c /\ task_current' = (IF c = Shell THEN task_current ELSE c) /\ hlt' = FALSE
  BY Zenon DEF Commit
<1>2. /\ Sound(Machine)' /\ Live(tcb') = Live(m.t) /\ In(tcb', "RUNNING") = In(m.t, "RUNNING")
      /\ \A j \in Slots : tcb'[j].state = m.t[j].state /\ tcb'[j].wakeup = m.t[j].wakeup
  BY <1>1, Shown, Zenon
<1>3. /\ task_current' \in Slots \cup {0} /\ cpu' \in Slots \cup {Shell} /\ hlt' \in BOOLEAN
      /\ load' \in Workloads
      /\ (hlt => cpu # Shell)'
  BY <1>1, Zenon DEF IInv, Shell
<1>4. OneRuns' => In(tcb', "RUNNING") = {cpu'} \ {Shell}
  <2>1. OneRuns' => OneRuns
    BY <1>1, Zenon DEF OneRuns, Deadly, Does
  <2> QED  BY <1>1, <1>2, <2>1, Zenon
<1>5. call' = [i \in Slots |-> IF i = d THEN w
                ELSE IF tcb'[i].state \in {"FREE", "ZOMBIE"} \/ tcb[i].state = "RUNNING"
                  THEN "none" ELSE call[i]]
  BY Zenon DEF Calling
<1>6. call' \in [Slots -> Calls]
  <2>1. \A i \in Slots : call[i] \in Calls /\ "none" \in Calls
    BY Zenon DEF IInv, Calls
  <2> QED  BY <1>5, <2>1, Zenon
<1>7. NoStaleDeadline'
  <2> SUFFICES ASSUME NEW i \in Slots, tcb'[i].state = "BLOCKED", tcb'[i].wakeup
               PROVE  call'[i] = "sleep"
    BY Zenon DEF NoStaleDeadline
  <2>1. m.t[i].state = "BLOCKED" /\ m.t[i].wakeup
    BY <1>2, Zenon
  <2>2. CASE i = d
    BY <1>5, <2>1, <2>2, ZenonT(60) DEF DeadlinesKept
  <2>3. CASE i # d
    <3>1. tcb[i].state = "BLOCKED" /\ tcb[i].wakeup
      BY <2>1, <2>3, Zenon DEF DeadlinesKept
    <3>2. call[i] = "sleep"
      BY <3>1, Zenon DEF IInv, NoStaleDeadline
    <3>3. call'[i] = call[i]
      BY <1>5, <2>3, <3>1, ZenonT(60)
    <3> QED  BY <3>2, <3>3, Zenon
  <2> QED  BY <2>2, <2>3, Zenon
<1>8. IInv'
  BY <1>2, <1>3, <1>4, <1>6, <1>7, ZenonT(60) DEF IInv
<1> QED  BY <1>2, <1>8, Zenon

\* A death that is published releases its waiters; without deaths there is nothing
\* to show.
LEMMA NobodyDies ==
  ASSUME Live(tcb) \subseteq Live(tcb')
  PROVE  EndsWaits
BY Zenon DEF EndsWaits

\* A calm operation after which the processor goes on with c.
LEMMA CalmStep ==
  ASSUME IInv, NEW m, Sound(m), NEW D, Calm(Machine, m, D), Gentle => Released(Machine, m, D),
         NEW c \in Slots \cup {0}, Commit(m, c), NoCall,
         OneRuns => In(m.t, "RUNNING") = {c} \ {Shell}
  PROVE  Keeps
<1>1. \A i \in Slots : m.t[i].state = "BLOCKED" /\ m.t[i].wakeup => tcb[i].state = "BLOCKED" /\ tcb[i].wakeup
  BY Now, Zenon DEF Calm, Mild
<1>2. Calling(Shell, "none") /\ "none" \in Calls
  BY Zenon DEF NoCall, Calls
<1>3. \A i \in Slots : i # Shell
  BY SlotsFinite, Zenon DEF Shell
<1>4. IInv' /\ Live(tcb') = Live(m.t) /\ \A j \in Slots : tcb'[j].state = m.t[j].state
  <2>1. DeadlinesKept(m, Shell, "none")
    BY <1>1, <1>3, Zenon DEF DeadlinesKept
  <2> QED  BY <1>2, <2>1, StepKeeps, ZenonT(60)
<1>5. ASSUME Gentle
      PROVE  EndsWaits
  <2>1. Live(m.t) = Live(tcb) \ D /\ Released(Machine, m, D)
    BY <1>5, Now, Zenon DEF Calm
  <2>2. \A j \in Slots : tcb[j].state = "BLOCKED" /\ tcb[j].wait_pid \in D => m.t[j].state # "BLOCKED"
    BY <2>1, Now, Zenon DEF Released
  <2> QED  BY <1>4, <2>1, <2>2, Zenon DEF EndsWaits
<1> QED  BY <1>4, <1>5, Zenon DEF Keeps

\* One that ends tasks only by signals.
LEMMA QuietStep ==
  ASSUME IInv, NEW m, Sound(m), \E D : Calm(Machine, m, D) /\ (D # {} => Deadly),
         NEW c \in Slots \cup {0}, Commit(m, c), NoCall,
         OneRuns => In(m.t, "RUNNING") = {c} \ {Shell}
  PROVE  Keeps
<1>1. PICK D : Calm(Machine, m, D) /\ (D # {} => Deadly)
  BY Zenon
<1>2. Gentle => Released(Machine, m, D)
  BY <1>1, Zenon DEF Gentle, Released
<1> QED  BY <1>1, <1>2, CalmStep, Zenon

\* While the table and the processor agree, the scans find the task in ring 3.
LEMMA Runner ==
  ASSUME IInv, OneRuns
  PROVE  /\ In(tcb, "RUNNING") = {cpu} \ {Shell}
         /\ cpu = Shell => In(tcb, "RUNNING") = {}
         /\ cpu # Shell => In(tcb, "RUNNING") = {cpu} /\ FirstRunning(tcb) = cpu /\ Current(tcb) = cpu
<1>1. In(tcb, "RUNNING") = {cpu} \ {Shell}
  BY Zenon DEF IInv
<1>2. cpu = Shell => In(tcb, "RUNNING") = {}
  BY <1>1, Zenon
<1>3. cpu # Shell => In(tcb, "RUNNING") = {cpu}
  BY <1>1, Zenon
<1>4. cpu # Shell => FirstRunning(tcb) = cpu /\ Current(tcb) = cpu
  BY <1>3, FirstRunningIn, CurrentIn, Zenon
<1> QED  BY <1>1, <1>2, <1>3, <1>4, ZenonT(60)

LEMMA RunnerLives ==
  ASSUME NEW c \in In(tcb, "RUNNING")
  PROVE  c \in Live(tcb) /\ c \in Live(Machine.t) /\ c \in Slots /\ c # 0
BY Now, SlotsFinite, Zenon DEF In, Live

\* The task that ran has ended in m; after it the processor goes to another.
Clears(m) ==
  /\ Sound(m) /\ \E D : Calm(Machine, m, D) /\ (Gentle => Released(Machine, m, D))
  /\ OneRuns => In(m.t, "RUNNING") = {}

\* The task that ran goes on in m.
GoesOn(m) ==
  /\ Sound(m) /\ \E D : Calm(Machine, m, D) /\ (Gentle => Released(Machine, m, D))
  /\ OneRuns => In(m.t, "RUNNING") = In(tcb, "RUNNING")

LEMMA ReleasedStays ==
  ASSUME NEW m, NEW q, NEW r, NEW D, NEW E, Released(m, q, D), Calm(q, r, E)
  PROVE  Released(m, r, D)
BY Zenon DEF Released, Calm, Mild

LEMMA Returns ==
  ASSUME IInv, NEW m, GoesOn(m), Return(m)
  PROVE  Keeps
<1>1. PICK D : Calm(Machine, m, D) /\ (Gentle => Released(Machine, m, D))
  BY Zenon DEF GoesOn
<1>2. Sound(m) /\ Commit(m, cpu) /\ NoCall /\ cpu \in Slots \cup {0}
  BY Zenon DEF GoesOn, Return, IInv, Shell
<1>3. OneRuns => In(m.t, "RUNNING") = {cpu} \ {Shell}
  BY Runner, Zenon DEF GoesOn
<1> QED  BY <1>1, <1>2, <1>3, CalmStep, ZenonT(60)

LEMMA ToShell ==
  ASSUME IInv, NEW m, Clears(m), Commit(m, Shell), NoCall
  PROVE  Keeps
<1>1. PICK D : Calm(Machine, m, D) /\ (Gentle => Released(Machine, m, D))
  BY Zenon DEF Clears
<1>2. Sound(m) /\ Shell \in Slots \cup {0}
  BY Zenon DEF Clears, Shell
<1>3. OneRuns => In(m.t, "RUNNING") = {Shell} \ {Shell}
  BY Zenon DEF Clears
<1> QED  BY <1>1, <1>2, <1>3, CalmStep, ZenonT(60)

LEMMA Switches ==
  ASSUME IInv, NEW m, Clears(m), ForceSwitch(m)
  PROVE  Keeps
<1> DEFINE p == Lowest(In(m.t, "READY"))
           r == SetState(m, p, "RUNNING")
<1>1. IF In(m.t, "READY") = {} THEN p = 0 ELSE p \in In(m.t, "READY")
  BY Sets, LowestIn, Zenon
<1>2. Commit(IF p = 0 THEN m ELSE r, p) /\ NoCall
  BY Zenon DEF ForceSwitch
<1> HIDE DEF p
<1>3. CASE p = 0
  <2>1. Commit(m, Shell)
    BY <1>2, <1>3, Zenon DEF Shell
  <2> QED  BY <1>2, <2>1, ToShell, Zenon
<1>4. CASE p # 0
  <2>1. p \in In(m.t, "READY") /\ Commit(r, p)
    BY <1>1, <1>2, <1>4, ZenonT(60)
  <2>2. p \in Live(m.t) /\ p \in Slots \cup {0} /\ m \in Machines /\ Sound(m) /\ p # Shell
    BY <1>4, <2>1, Zenon DEF In, Live, Clears, Sound, Shell
  <2>3. Calm(m, r, {}) /\ In(r.t, "RUNNING") = In(m.t, "RUNNING") \cup {p}
    BY <2>2, SetLive, Zenon
  <2> HIDE DEF r
  <2>4. PICK D : Calm(Machine, m, D) /\ (Gentle => Released(Machine, m, D))
    BY Zenon DEF Clears
  <2>5. Calm(Machine, r, D) /\ (Gentle => Released(Machine, r, D))
    BY <2>3, <2>4, SoundNow, CalmBefore, ReleasedStays, ZenonT(60)
  <2>6. Sound(r)
    BY <2>2, <2>3, CalmSound, ZenonT(60)
  <2>7. OneRuns => In(r.t, "RUNNING") = {p} \ {Shell}
    BY <2>2, <2>3, Zenon DEF Clears
  <2> QED  BY <1>2, <2>1, <2>2, <2>5, <2>6, <2>7, CalmStep, ZenonT(60)
<1> QED  BY <1>3, <1>4, Zenon

-----------------------------------------------------------------------------
(* The ways to end *)

LEMMA RunnerEnds ==
  ASSUME IInv, NEW c \in In(tcb, "RUNNING"), NEW code \in Statuses
  PROVE  Clears(ExitTask(Machine, c, code))
<1> DEFINE m == ExitTask(Machine, c, code)
<1>1. Sound(Machine) /\ c \in Live(Machine.t)
  BY RunnerLives, Zenon DEF IInv
<1>2. /\ Sound(m) /\ Calm(Machine, m, Group(Machine.t, c)) /\ Released(Machine, m, {c})
      /\ In(m.t, "RUNNING") = In(Machine.t, "RUNNING") \ (Mates(Machine.t, c) \cup {c})
  BY <1>1, GroupEnds, Zenon
<1> HIDE DEF m
<1>3. Gentle => Group(Machine.t, c) = {c}
  <2>1. Gentle => Mates(Machine.t, c) = {}
    BY <1>1, GroupClosed, Zenon DEF Gentle
  <2> QED  BY <2>1, Zenon DEF Group
<1>4. OneRuns => In(m.t, "RUNNING") = {}
  <2>1. OneRuns => In(Machine.t, "RUNNING") = {c}
    BY Runner, Now, Zenon
  <2> QED  BY <1>2, <2>1, Zenon
<1>5. Gentle => Released(Machine, m, Group(Machine.t, c))
  BY <1>2, <1>3, Zenon
<1> QED  BY <1>2, <1>4, <1>5, Zenon DEF Clears, m

LEMMA ThreadEnds ==
  ASSUME IInv, NEW c \in In(tcb, "RUNNING"), ~Leader(tcb, c)
  PROVE  Clears(ExitThread(Machine, c, "exit"))
<1> DEFINE m == ExitThread(Machine, c, "exit")
<1>1. Sound(Machine) /\ Machine \in Machines /\ c \in Live(Machine.t) /\ "exit" \in Statuses
  BY RunnerLives, SoundNow, ZenonT(60) DEF Statuses
<1>2. /\ Calm(Machine, m, {c}) /\ Released(Machine, m, {c})
      /\ In(m.t, "RUNNING") = In(Machine.t, "RUNNING") \ {c}
  BY <1>1, ThreadExits, Zenon
<1> HIDE DEF m
<1>3. Does("clone") /\ ~Deadly => \A j \in Live(Machine.t) \ {c} : Machine.t[j].tgid \notin {c}
  <2>1. Machine.t[c].tgid # c
    BY Now, Zenon DEF Leader
  <2> QED  BY <1>1, <2>1, Zenon DEF Sound, Groups
<1>4. Sound(m)
  BY <1>1, <1>2, <1>3, CalmSound, ZenonT(60)
<1>5. OneRuns => In(m.t, "RUNNING") = {}
  <2>1. OneRuns => In(Machine.t, "RUNNING") = {c}
    BY Runner, Now, Zenon
  <2> QED  BY <1>2, <2>1, Zenon
<1> QED  BY <1>2, <1>4, <1>5, Zenon DEF Clears, m

LEMMA NobodyRuns ==
  ASSUME IInv, OneRuns => In(tcb, "RUNNING") = {}
  PROVE  Clears(Machine)
<1>1. Calm(Machine, Machine, {}) /\ Sound(Machine)
  BY SoundNow, CalmRefl, Zenon
<1>2. Released(Machine, Machine, {})
  BY Zenon DEF Released
<1> QED  BY <1>1, <1>2, Now, ZenonT(60) DEF Clears

\* A task in ring 3 is counted.
LEMMA Counted ==
  ASSUME IInv, NEW c \in In(tcb, "RUNNING")
  PROVE  task_count # 0
<1>1. task_count = Cardinality(Live(tcb)) /\ c \in Live(tcb)
  BY RunnerLives, Now, Zenon DEF IInv, Sound
<1>2. IsFiniteSet(Live(tcb))
  BY Sets, SlotCount, Zenon
<1> QED  BY <1>1, <1>2, FS_EmptySet, ZenonT(60)

LEMMA ExitProcessKeeps ==
  ASSUME IInv, User, ExitProcess
  PROVE  Keeps
<1> DEFINE c == FirstRunning(tcb)
           m == IF task_count = 0 \/ c = 0 THEN Machine ELSE ExitTask(Machine, c, "exit")
<1>1. IF In(tcb, "RUNNING") = {} THEN c = 0 ELSE c \in In(tcb, "RUNNING")
  BY FirstRunningIn, Zenon
<1>2. Clears(m)
  <2>1. CASE In(tcb, "RUNNING") = {}
    BY <1>1, <2>1, NobodyRuns, Zenon
  <2>2. CASE In(tcb, "RUNNING") # {}
    <3>1. c \in In(tcb, "RUNNING")
      BY <1>1, <2>2, Zenon
    <3>2. task_count # 0 /\ c # 0 /\ "exit" \in Statuses
      BY <3>1, Counted, RunnerLives, Zenon DEF Statuses
    <3>3. m = ExitTask(Machine, c, "exit")
      BY <3>2, Zenon
    <3> HIDE DEF c, m
    <3> QED  BY <3>1, <3>2, <3>3, RunnerEnds, ZenonT(60)
  <2> QED  BY <2>1, <2>2, Zenon
<1>3. ForceSwitch(m) \/ (Commit(m, Shell) /\ NoCall)
  BY Zenon DEF ExitProcess
<1> HIDE DEF m
<1> QED  BY <1>2, <1>3, Switches, ToShell, ZenonT(60)

LEMMA ExitKeeps ==
  ASSUME IInv, Exit
  PROVE  Keeps
BY ExitProcessKeeps, Zenon DEF Exit

LEMMA ThreadExitKeeps ==
  ASSUME IInv, ThreadExit
  PROVE  Keeps
<1> DEFINE c == Current(tcb)
<1>1. \/ c # 0 /\ ~Leader(tcb, c) /\ ForceSwitch(ExitThread(Machine, c, "exit"))
      \/ User /\ ExitProcess
  BY Zenon DEF ThreadExit
<1>2. c # 0 => c \in In(tcb, "RUNNING")
  BY CurrentIn, Zenon
<1> HIDE DEF c
<1> QED  BY <1>1, <1>2, ThreadEnds, Switches, ExitProcessKeeps, ZenonT(60)

LEMMA FaultKeeps ==
  ASSUME IInv, Fault
  PROVE  Keeps
<1> DEFINE c == FirstRunning(tcb)
           m == IF task_count = 0 \/ Current(tcb) = 0 THEN Machine ELSE ExitTask(Machine, c, "signal")
<1>1. Commit(m, Shell) /\ NoCall
  BY Zenon DEF Fault
<1>2. CASE In(tcb, "RUNNING") = {}
  <2>1. m = Machine
    BY <1>2, CurrentIn, Zenon
  <2> HIDE DEF m
  <2> QED  BY <1>1, <1>2, <2>1, NobodyRuns, ToShell, ZenonT(60)
<1>3. CASE In(tcb, "RUNNING") # {}
  <2>1. c \in In(tcb, "RUNNING") /\ Current(tcb) \in In(tcb, "RUNNING")
    BY <1>3, FirstRunningIn, CurrentIn, Zenon
  <2>2. task_count # 0 /\ Current(tcb) # 0 /\ "signal" \in Statuses
    BY <2>1, Counted, RunnerLives, Zenon DEF Statuses
  <2>3. m = ExitTask(Machine, c, "signal")
    BY <2>2, Zenon
  <2> HIDE DEF c, m
  <2> QED  BY <1>1, <2>1, <2>2, <2>3, RunnerEnds, ToShell, ZenonT(60)
<1> QED  BY <1>2, <1>3, Zenon

LEMMA StartReadyKeeps ==
  ASSUME IInv, StartReady
  PROVE  Keeps
<1>1. cpu = Shell /\ ForceSwitch(Machine)
  BY Zenon DEF StartReady
<1>2. OneRuns => In(tcb, "RUNNING") = {}
  BY <1>1, Runner, Zenon
<1> QED  BY <1>1, <1>2, NobodyRuns, Switches, Zenon

\* sched_kill_all_tasks leaves nobody.
LEMMA KillAllTasksKeeps ==
  ASSUME IInv, KillAllTasks
  PROVE  Keeps
<1> DEFINE Gone(i) == [tcb[i] EXCEPT !.state = "FREE"]
           u == [i \in Slots |-> Gone(i)]
           m == [t |-> u, n |-> 0]
<1>1. \A k \in Task : InState(k, [k EXCEPT !.state = "FREE"], "FREE")
  BY DEF Task, InState, States
<1>2. \A i \in Slots : InState(tcb[i], Gone(i), "FREE")
  BY <1>1, SoundNow, Zenon
<1>3. /\ tcb' = [i \in Slots |-> Readable(i, Gone(i))] /\ task_count' = 0 /\ task_current' = 0
      /\ NoCall /\ cpu' = cpu /\ hlt' = hlt /\ load' = load /\ cpu = Shell
  BY Zenon DEF KillAllTasks
<1> HIDE DEF Gone
<1>4. \A i \in Slots : u[i] = Gone(i)
  BY Zenon
<1>5. u \in [Slots -> Task]
  BY <1>2, Zenon DEF InState
<1>6. m.t = u /\ m.n = 0
  BY Zenon
<1>7. tcb' = [i \in Slots |-> Readable(i, m.t[i])]
  BY <1>3, <1>4, <1>6, ZenonT(60)
<1> HIDE DEF u
<1>8. m \in Machines
  BY <1>5, <1>6 DEF Machines
<1> HIDE DEF m
<1>9. \A i \in Slots : InState(tcb[i], m.t[i], "FREE")
  BY <1>2, <1>4, <1>6, ZenonT(60)
<1>10. Live(m.t) = {} /\ In(m.t, "RUNNING") = {} /\ \A i \in Slots : m.t[i].state = "FREE"
  BY <1>9, Zenon DEF Live, In, InState
<1>11. Sound(m)
  <2>1. m.n = Cardinality(Live(m.t))
    BY <1>6, <1>10, FS_EmptySet, ZenonT(60)
  <2>2. Quiet(m.t)
    BY <1>9, SoundNow, Now, ZenonT(60) DEF Sound, Quiet, InState, Harmless
  <2>3. Solo(m.t) /\ Groups(m.t)
    BY <1>10, Zenon DEF Solo, Groups
  <2> QED  BY <1>8, <2>1, <2>2, <2>3, ZenonT(60) DEF Sound
<1>12. /\ Sound(Machine)' /\ In(tcb', "RUNNING") = {}
       /\ \A j \in Slots : tcb'[j].state = "FREE"
  BY <1>3, <1>6, <1>7, <1>10, <1>11, Shown, ZenonT(60)
<1>13. call' \in [Slots -> Calls]
  <2>1. \A i \in Slots : call[i] \in Calls /\ "none" \in Calls
    BY Zenon DEF IInv, Calls
  <2>2. call' = [i \in Slots |-> IF i = Shell THEN "none"
                   ELSE IF tcb'[i].state \in {"FREE", "ZOMBIE"} \/ tcb[i].state = "RUNNING"
                     THEN "none" ELSE call[i]]
    BY <1>3, Zenon DEF NoCall, Calling
  <2> QED  BY <2>1, <2>2, Zenon
<1>14. NoStaleDeadline'
  BY <1>12, Zenon DEF NoStaleDeadline
<1>15. IInv'
  BY <1>3, <1>12, <1>13, <1>14, ZenonT(60) DEF IInv
<1>16. EndsWaits
  BY <1>12, Zenon DEF EndsWaits
<1> QED  BY <1>15, <1>16, Zenon DEF Keeps

-----------------------------------------------------------------------------
(* The calls that return *)

LEMMA NothingEnds ==
  ASSUME IInv, NEW m, Calm(Machine, m, {}), OneRuns => In(m.t, "RUNNING") = In(tcb, "RUNNING")
  PROVE  GoesOn(m)
<1>1. Released(Machine, m, {})
  BY Zenon DEF Released
<1>2. Sound(m)
  BY SoundNow, CalmSound, Zenon
<1> QED  BY <1>1, <1>2, Zenon DEF GoesOn

\* z is the task k with a field changed that the invariant does not speak of.
Tweak(k, z) ==
  /\ z \in Task /\ z.state = k.state /\ z.tgid = k.tgid /\ z.wait_pid = k.wait_pid /\ z.wakeup = k.wakeup
  /\ ~Deadly /\ Harmless(k) => Harmless(z)

LEMMA Tweaked ==
  ASSUME IInv, NEW i \in Slots, NEW z, Tweak(tcb[i], z)
  PROVE  GoesOn([Machine EXCEPT !.t = [Machine.t EXCEPT ![i] = z]])
<1> DEFINE u == [tcb EXCEPT ![i] = z]
           m == [t |-> u, n |-> task_count]
<1>1. z \in Task /\ z.state = tcb[i].state /\ Mild(tcb[i], z)
  BY Zenon DEF Tweak, Mild
<1>2. [Machine EXCEPT !.t = [Machine.t EXCEPT ![i] = z]] = m
  BY Now DEF Machine
<1>3. u \in [Slots -> Task] /\ u[i] = z /\ \A j \in Slots \ {i} : u[j] = tcb[j]
  BY <1>1, SoundNow, ZenonT(60)
<1>4. m.t = u /\ m.n = task_count
  BY Zenon
<1> HIDE DEF u
<1>5. m \in Machines
  BY <1>3, SoundNow DEF Machines
<1> HIDE DEF m
<1>6. \A j \in Slots : /\ Mild(Machine.t[j], m.t[j])
                       /\ m.t[j].state = tcb[j].state
  BY <1>1, <1>3, <1>4, SoundNow, MildRefl, Now, ZenonT(60)
<1>7. Calm(Machine, m, {})
  <2>1. m.n = Machine.n /\ \A j \in Slots : m.t[j].state = Machine.t[j].state
    BY <1>4, <1>6, Now, ZenonT(60)
  <2> QED  BY <1>5, <1>6, <2>1, SoundNow, CalmIntro, ZenonT(60)
<1>8. In(m.t, "RUNNING") = In(tcb, "RUNNING")
  BY <1>6, Zenon DEF In
<1>9. GoesOn(m)
  BY <1>7, <1>8, NothingEnds, ZenonT(60)
<1> QED  BY <1>2, <1>9, ZenonT(60)

LEMMA DetachKeeps ==
  ASSUME IInv, NEW i \in Slots, Detach(i)
  PROVE  Keeps
<1> DEFINE m == [Machine EXCEPT !.t[i].detached = TRUE]
           z == [tcb[i] EXCEPT !.detached = TRUE]
<1>1. ASSUME NEW k \in Task, NEW l, l = [k EXCEPT !.detached = TRUE]
      PROVE  Tweak(k, l)
  BY <1>1, ZenonT(60) DEF Task, Tweak, Harmless
<1>2. Tweak(tcb[i], z)
  BY <1>1, SoundNow, Zenon
<1>3. m = [Machine EXCEPT !.t = [Machine.t EXCEPT ![i] = z]]
  BY Now, Zenon
<1>4. Return(m)
  BY Zenon DEF Detach
<1> HIDE DEF m, z
<1> QED  BY <1>2, <1>3, <1>4, Tweaked, Returns, ZenonT(60)

LEMMA SigactionKeeps ==
  ASSUME IInv, NEW s \in load.sigs, NEW d \in Dispositions, Sigaction(s, d)
  PROVE  Keeps
<1> DEFINE c == Current(tcb)
           m == [Machine EXCEPT !.t[c].hand[s] = d]
           h == [tcb[c].hand EXCEPT ![s] = d]
           z == [tcb[c] EXCEPT !.hand = h]
<1>1. c \in Slots /\ tcb[c] \in Task
  BY CurrentIn, SoundNow, ZenonT(60) DEF Sigaction, In
<1>2. m = [Machine EXCEPT !.t = [Machine.t EXCEPT ![c] = z]]
  BY Now, Zenon
<1>3. Return(m)
  BY Zenon DEF Sigaction
<1> HIDE DEF c
<1>4. h \in [Signals -> Dispositions]
  <2>1. tcb[c].hand \in [Signals -> Dispositions]
    BY <1>1 DEF Task
  <2> QED  BY <2>1, ZenonT(60)
<1> HIDE DEF h
<1>5. ASSUME NEW k \in Task, NEW l, l = [k EXCEPT !.hand = h]
      PROVE  Tweak(k, l)
  BY <1>4, <1>5, ZenonT(60) DEF Task, Tweak, Harmless
<1>6. Tweak(tcb[c], z)
  BY <1>1, <1>5, ZenonT(60)
<1> HIDE DEF m, z
<1> QED  BY <1>1, <1>2, <1>3, <1>6, Tweaked, Returns, ZenonT(60)

LEMMA SigmaskKeeps ==
  ASSUME IInv, NEW mask \in SUBSET load.sigs, Sigmask(mask)
  PROVE  Keeps
<1> DEFINE c == FirstRunning(tcb)
           m == [Machine EXCEPT !.t[c].mask = mask]
           z == [tcb[c] EXCEPT !.mask = mask]
<1>1. c \in Slots /\ tcb[c] \in Task
  BY FirstRunningIn, SoundNow, ZenonT(60) DEF Sigmask, In
<1>2. m = [Machine EXCEPT !.t = [Machine.t EXCEPT ![c] = z]]
  BY Now, Zenon
<1>3. Return(m)
  BY Zenon DEF Sigmask
<1> HIDE DEF c
<1>4. mask \in SUBSET Signals
  BY SchedAssumption, Zenon DEF IInv
<1>5. ASSUME NEW k \in Task, NEW l, l = [k EXCEPT !.mask = mask]
      PROVE  Tweak(k, l)
  BY <1>4, <1>5, ZenonT(60) DEF Task, Tweak, Harmless
<1>6. Tweak(tcb[c], z)
  BY <1>1, <1>5, ZenonT(60)
<1> HIDE DEF m, z
<1> QED  BY <1>1, <1>2, <1>3, <1>6, Tweaked, Returns, ZenonT(60)

LEMMA AlarmKeeps ==
  ASSUME IInv, NEW on \in BOOLEAN, Alarm(on)
  PROVE  Keeps
<1> DEFINE c == Current(tcb)
           m == [Machine EXCEPT !.t[c].alarm = on]
           z == [tcb[c] EXCEPT !.alarm = on]
<1>1. c \in Slots /\ tcb[c] \in Task /\ Deadly
  BY CurrentIn, SoundNow, ZenonT(60) DEF Alarm, In, Deadly
<1>2. m = [Machine EXCEPT !.t = [Machine.t EXCEPT ![c] = z]]
  BY Now, Zenon
<1>3. Return(m)
  BY Zenon DEF Alarm
<1> HIDE DEF c
<1>5. ASSUME NEW k \in Task, NEW l, l = [k EXCEPT !.alarm = on]
      PROVE  Tweak(k, l)
  BY <1>1, <1>5, ZenonT(60) DEF Task, Tweak
<1>6. Tweak(tcb[c], z)
  BY <1>1, <1>5, ZenonT(60)
<1> HIDE DEF m, z
<1> QED  BY <1>1, <1>2, <1>3, <1>6, Tweaked, Returns, ZenonT(60)

LEMMA SleepDoneKeeps ==
  ASSUME IInv, SleepDone
  PROVE  Keeps
<1> DEFINE m == [Machine EXCEPT !.t[cpu].eax = "0"]
           z == [tcb[cpu] EXCEPT !.eax = "0"]
<1>1. cpu \in Slots /\ tcb[cpu] \in Task
  BY SoundNow, Zenon DEF SleepDone, IInv
<1>2. m = [Machine EXCEPT !.t = [Machine.t EXCEPT ![cpu] = z]]
  BY Now, Zenon
<1>3. Return(m)
  BY Zenon DEF SleepDone
<1>5. ASSUME NEW k \in Task, NEW l, l = [k EXCEPT !.eax = "0"]
      PROVE  Tweak(k, l)
  BY <1>5, ZenonT(60) DEF Task, Tweak, Harmless, Statuses
<1>6. Tweak(tcb[cpu], z)
  BY <1>1, <1>5, ZenonT(60)
<1> HIDE DEF m, z
<1> QED  BY <1>1, <1>2, <1>3, <1>6, Tweaked, Returns, ZenonT(60)

LEMMA ReapedGoesOn ==
  ASSUME IInv, NEW i \in Slots, tcb[i].state = "ZOMBIE"
  PROVE  GoesOn(SetState(Machine, i, "FREE"))
<1> DEFINE m == SetState(Machine, i, "FREE")
<1>1. Calm(Machine, m, {}) /\ In(m.t, "RUNNING") = In(Machine.t, "RUNNING")
  BY SoundNow, Now, Reaped, ZenonT(60)
<1> HIDE DEF m
<1>2. GoesOn(m)
  BY <1>1, Now, NothingEnds, ZenonT(60)
<1> QED  BY <1>2, Zenon DEF m

LEMMA SameGoesOn ==
  ASSUME IInv
  PROVE  GoesOn(Machine)
BY SoundNow, CalmRefl, Now, NothingEnds, ZenonT(60)

LEMMA FirstHit ==
  ASSUME NEW pid, WaitHits(pid) # {}
  PROVE  /\ Min(WaitHits(pid)) \in Slots
         /\ ~tcb[Min(WaitHits(pid))].detached => tcb[Min(WaitHits(pid))].state = "ZOMBIE"
<1>1. WaitHits(pid) \in SUBSET Nat
  BY SlotsFinite, Zenon DEF WaitHits
<1>2. Min(WaitHits(pid)) \in WaitHits(pid)
  BY <1>1, MinIn, Zenon
<1> QED  BY <1>2, Zenon DEF WaitHits

LEMMA WaitpidHitKeeps ==
  ASSUME IInv, NEW pid, WaitpidHit(pid)
  PROVE  Keeps
<1> DEFINE i == Min(WaitHits(pid))
<1>1. /\ WaitHits(pid) # {}
      /\ IF tcb[i].detached THEN Return(Machine) ELSE Return(SetState(Machine, i, "FREE"))
  BY Zenon DEF WaitpidHit
<1>2. i \in Slots /\ (~tcb[i].detached => tcb[i].state = "ZOMBIE")
  BY <1>1, FirstHit, Zenon
<1> HIDE DEF i
<1> QED  BY <1>1, <1>2, ReapedGoesOn, SameGoesOn, Returns, ZenonT(60)

LEMMA ShellWaitKeeps ==
  ASSUME IInv, NEW pid, ShellWait(pid)
  PROVE  Keeps
<1> DEFINE i == Min(WaitHits(pid))
<1>1. WaitHits(pid) # {} /\ ~tcb[i].detached /\ Return(SetState(Machine, i, "FREE"))
  BY Zenon DEF ShellWait
<1>2. i \in Slots /\ tcb[i].state = "ZOMBIE"
  BY <1>1, FirstHit, Zenon
<1> HIDE DEF i
<1> QED  BY <1>1, <1>2, ReapedGoesOn, Returns, ZenonT(60)

LEMMA WaitKeeps ==
  ASSUME IInv, Wait
  PROVE  Keeps
<1> DEFINE kids == {i \in In(tcb, "ZOMBIE") : tcb[i].ppid = Current(tcb)}
           i == Min(kids)
<1>1. kids # {} /\ Return(SetState(Machine, i, "FREE"))
  BY Zenon DEF Wait
<1>2. kids \in SUBSET Nat
  BY SlotsFinite, Zenon DEF In
<1>3. i \in kids
  BY <1>1, <1>2, MinIn, ZenonT(60)
<1>4. i \in Slots /\ tcb[i].state = "ZOMBIE"
  BY <1>3, Zenon DEF In
<1> HIDE DEF i
<1> QED  BY <1>1, <1>4, ReapedGoesOn, Returns, ZenonT(60)

LEMMA KillKeeps ==
  ASSUME IInv, NEW i \in Slots, NEW s \in load.sigs, Kill(i, s)
  PROVE  Keeps
<1> DEFINE m == SignalTask(Machine, i, s)
<1>1. Return(m) /\ Machine.t[i].state # "FREE" /\ load \in Workloads /\ Sound(Machine)
  BY Now, Zenon DEF Kill, IInv
<1>2. /\ Sound(m) /\ \E D : Calm(Machine, m, D) /\ (D # {} => Deadly)
      /\ ~(Deadly /\ Does("clone")) => In(m.t, "RUNNING") = In(Machine.t, "RUNNING")
  BY <1>1, Signalled, Zenon
<1> HIDE DEF m
<1>3. PICK D : Calm(Machine, m, D) /\ (D # {} => Deadly)
  BY <1>2, Zenon
<1>4. Gentle => Released(Machine, m, D)
  BY <1>3, Zenon DEF Gentle, Released
<1>5. OneRuns => In(m.t, "RUNNING") = In(tcb, "RUNNING")
  BY <1>2, Now, Zenon DEF OneRuns
<1>6. GoesOn(m)
  BY <1>2, <1>3, <1>4, <1>5, ZenonT(60) DEF GoesOn
<1> QED  BY <1>1, <1>6, Returns, ZenonT(60)

-----------------------------------------------------------------------------
(* Yield and the timer *)

LEMMA SelfDeliverKeeps ==
  ASSUME IInv, NEW c \in In(tcb, "RUNNING"), SelfDeliver(Machine, c)
  PROVE  Keeps
<1> DEFINE d == DeliverAll(Machine, {c})
           D == {i \in {c} : Ends(Machine.t[i])}
           e == IF d.t[c].state = "RUNNING" THEN cpu ELSE Shell
<1>1. Commit(d, e) /\ NoCall
  BY Zenon DEF SelfDeliver
<1>2. /\ Sound(d) /\ Calm(Machine, d, D) /\ (D # {} => Deadly)
      /\ \A j \in Slots \ {c} : d.t[j] = Machine.t[j]
  <2>1. {c} \in SUBSET (In(Machine.t, "READY") \cup In(Machine.t, "RUNNING"))
    BY Now, Zenon
  <2> QED  BY <2>1, SoundNow, AllDelivered, ZenonT(60)
<1> HIDE DEF d, D
<1>3. OneRuns => In(d.t, "RUNNING") = {e} \ {Shell}
  <2> SUFFICES ASSUME OneRuns
               PROVE  In(d.t, "RUNNING") = {e} \ {Shell}
    BY Zenon
  <2>1. In(tcb, "RUNNING") = {cpu} /\ cpu = c /\ c # Shell
    BY Runner, Zenon
  <2>2. \A j \in Slots : d.t[j].state = "RUNNING" => j = c
    BY <1>2, <2>1, Now, ZenonT(60) DEF In
  <2>3. c \in Slots
    BY RunnerLives, Zenon
  <2> QED  BY <2>1, <2>2, <2>3, ZenonT(60) DEF In
<1>4. e \in Slots \cup {0}
  BY Zenon DEF IInv, Shell
<1> HIDE DEF e
<1> QED  BY <1>1, <1>2, <1>3, <1>4, QuietStep, ZenonT(60)

LEMMA CandidateReady ==
  ASSUME NEW t, NEW c
  PROVE  Candidate(t, c) = 0 \/ Candidate(t, c) \in In(t, "READY") \ {c}
<1> DEFINE ready == In(t, "READY") \ {c}
           best == {i \in ready : \A j \in ready : t[i].prio <= t[j].prio}
<1>1. best \in SUBSET Slots
  BY Zenon DEF In
<1>2. Candidate(t, c) = After(best, c)
  BY Zenon DEF Candidate
<1> QED  BY <1>1, <1>2, AfterIn, ZenonT(60)

\* The tasks a step tries while c, that ran, is ready.
LEMMA ReadyDelivered ==
  ASSUME NEW m, Sound(m), NEW n \in In(m.t, "READY")
  PROVE  LET d == DeliverAll(m, {n})
         IN  /\ Sound(d) /\ In(d.t, "RUNNING") = In(m.t, "RUNNING")
             /\ \E D \in SUBSET {n} : /\ Calm(m, d, D) /\ (D # {} => Deadly)
                                      /\ d.t[n].state # "FREE" => D = {}
<1> DEFINE d == DeliverAll(m, {n})
           D == {i \in {n} : Ends(m.t[i])}
<1>1. {n} \in SUBSET (In(m.t, "READY") \cup In(m.t, "RUNNING"))
  BY Zenon
<1>2. /\ Sound(d) /\ Calm(m, d, D) /\ (D # {} => Deadly)
      /\ \A j \in {n} : /\ d.t[j].state \in {m.t[j].state, "STOPPED", "FREE"}
                        /\ d.t[j].state = "FREE" <=> j \in D
      /\ \A j \in Slots \ {n} : d.t[j] = m.t[j]
  BY <1>1, AllDelivered, ZenonT(60)
<1>3. D \in SUBSET {n}
  BY Zenon
<1> HIDE DEF d, D
<1>4. In(d.t, "RUNNING") = In(m.t, "RUNNING")
  <2>1. n \in Slots /\ m.t[n].state = "READY"
    BY Zenon DEF In
  <2>2. d.t[n].state # "RUNNING"
    BY <1>2, <2>1, ZenonT(60)
  <2> QED  BY <1>2, <2>1, <2>2, ZenonT(60) DEF In
<1>5. d.t[n].state # "FREE" => D = {}
  BY <1>2, <1>3, ZenonT(60)
<1> QED  BY <1>2, <1>3, <1>4, <1>5, ZenonT(60) DEF d

LEMMA YieldKeeps ==
  ASSUME IInv, Yield
  PROVE  Keeps
<1> DEFINE c == FirstRunning(tcb)
           n == Candidate(tcb, c)
           q == SetState(Machine, c, "READY")
           d == DeliverAll(q, {n})
<1>1. CASE task_count < 2
  <2>1. Current(tcb) # 0 /\ SelfDeliver(Machine, Current(tcb))
    BY <1>1, Zenon DEF Yield
  <2>2. Current(tcb) \in In(tcb, "RUNNING")
    BY <2>1, CurrentIn, ZenonT(60)
  <2> QED  BY <2>1, <2>2, SelfDeliverKeeps, ZenonT(60)
<1>2. CASE ~(task_count < 2)
  <2>1. /\ c # 0
        /\ n = 0 => SelfDeliver(Machine, c)
        /\ n # 0 /\ d.t[n].state = "FREE" => Return(SetState(d, c, "RUNNING"))
        /\ n # 0 /\ d.t[n].state # "FREE" => Commit(SetState(d, n, "RUNNING"), n) /\ NoCall
    BY <1>2, Zenon DEF Yield
  <2>2. c \in In(tcb, "RUNNING")
    BY <2>1, FirstRunningIn, Zenon
  <2>3. n = 0 \/ n \in In(tcb, "READY") \ {c}
    BY CandidateReady, Zenon
  <2> HIDE DEF c, n
  <2>4. CASE n = 0
    BY <2>1, <2>2, <2>4, SelfDeliverKeeps, ZenonT(60)
  <2>5. CASE n # 0
    <3>1. c \in Live(Machine.t) /\ Machine \in Machines /\ n \in In(tcb, "READY") /\ n # c
      BY <2>2, <2>3, <2>5, RunnerLives, SoundNow, ZenonT(60)
    <3>2. /\ Calm(Machine, q, {})
          /\ In(q.t, "RUNNING") = In(tcb, "RUNNING") \ {c} /\ In(q.t, "READY") = In(tcb, "READY") \cup {c}
      <4>1. "READY" # "RUNNING" /\ "READY" \in {"READY", "RUNNING", "STOPPED"}
        BY Zenon
      <4>2. /\ Calm(Machine, q, {})
            /\ In(q.t, "RUNNING") = IF "READY" = "RUNNING" THEN In(Machine.t, "RUNNING") \cup {c}
                                    ELSE In(Machine.t, "RUNNING") \ {c}
            /\ In(q.t, "READY") = IF "READY" = "READY" THEN In(Machine.t, "READY") \cup {c}
                                  ELSE In(Machine.t, "READY") \ {c}
        BY <3>1, <4>1, SetLive, ZenonT(60)
      <4> QED  BY <4>1, <4>2, Now, ZenonT(60)
    <3>3. Sound(q)
      BY <3>2, SoundNow, CalmSound, ZenonT(60)
    <3> HIDE DEF q
    <3>4. n \in In(q.t, "READY") /\ n \in Slots /\ n \in Live(q.t) /\ c \in Live(q.t)
      <4>1. n \in In(q.t, "READY")
        BY <3>1, <3>2, ZenonT(60)
      <4>2. Live(q.t) = Live(Machine.t)
        BY <3>2, Zenon DEF Calm
      <4> QED  BY <3>1, <4>1, <4>2, ZenonT(60) DEF In, Live
    <3>5. /\ Sound(d) /\ In(d.t, "RUNNING") = In(q.t, "RUNNING")
          /\ \E D \in SUBSET {n} : /\ Calm(q, d, D) /\ (D # {} => Deadly)
                                   /\ d.t[n].state # "FREE" => D = {}
      BY <3>3, <3>4, ReadyDelivered, ZenonT(60)
    <3> HIDE DEF d
    <3>6. PICK D \in SUBSET {n} : /\ Calm(q, d, D) /\ (D # {} => Deadly)
                                  /\ d.t[n].state # "FREE" => D = {}
      BY <3>5, ZenonT(60)
    <3>7. d \in Machines /\ Live(d.t) = Live(q.t) \ D /\ Calm(Machine, d, D)
      <4>1. d \in Machines /\ Live(d.t) = Live(q.t) \ D
        BY <3>6, ZenonT(60) DEF Calm
      <4>2. Calm(Machine, d, D)
        BY <3>1, <3>2, <3>6, CalmThen, ZenonT(60)
      <4> QED  BY <4>1, <4>2, ZenonT(60)
    <3>8. CASE d.t[n].state = "FREE"
      <4> DEFINE r == SetState(d, c, "RUNNING")
      <4>1. c \in Live(d.t) /\ Return(r)
        BY <2>1, <2>5, <3>1, <3>4, <3>7, <3>8, ZenonT(60)
      <4>2. Calm(d, r, {}) /\ In(r.t, "RUNNING") = In(d.t, "RUNNING") \cup {c}
        BY <3>7, <4>1, SetLive, ZenonT(60)
      <4> HIDE DEF r
      <4>3. Sound(r) /\ Calm(Machine, r, D)
        BY <3>1, <3>5, <3>7, <4>2, CalmSound, CalmBefore, ZenonT(60)
      <4>4. In(r.t, "RUNNING") = In(tcb, "RUNNING")
        BY <2>2, <3>2, <3>5, <4>2, ZenonT(60)
      <4>5. Gentle => Released(Machine, r, D)
        BY <3>6, Zenon DEF Gentle, Released
      <4>6. GoesOn(r)
        BY <4>3, <4>4, <4>5, ZenonT(60) DEF GoesOn
      <4> QED  BY <4>1, <4>6, Returns, ZenonT(60)
    <3>9. CASE d.t[n].state # "FREE"
      <4> DEFINE r == SetState(d, n, "RUNNING")
      <4>1. n \in Live(d.t) /\ Commit(r, n) /\ NoCall
        BY <2>1, <2>5, <3>4, <3>6, <3>7, <3>9, ZenonT(60)
      <4>2. Calm(d, r, {}) /\ In(r.t, "RUNNING") = In(d.t, "RUNNING") \cup {n}
        BY <3>7, <4>1, SetLive, ZenonT(60)
      <4> HIDE DEF r
      <4>3. Sound(r) /\ Calm(Machine, r, D)
        BY <3>1, <3>5, <3>7, <4>2, CalmSound, CalmBefore, ZenonT(60)
      <4>4. OneRuns => In(r.t, "RUNNING") = {n} \ {Shell}
        <5>1. OneRuns => In(tcb, "RUNNING") = {c}
          <6>1. OneRuns => In(tcb, "RUNNING") = {cpu} \ {Shell}
            BY Zenon DEF IInv
          <6> QED  BY <2>2, <6>1, ZenonT(60)
        <5> QED  BY <2>5, <3>2, <3>5, <4>2, <5>1, ZenonT(60) DEF Shell
      <4> QED  BY <3>4, <3>6, <4>1, <4>3, <4>4, QuietStep, ZenonT(60)
    <3> QED  BY <3>8, <3>9, ZenonT(60)
  <2> QED  BY <2>4, <2>5, ZenonT(60)
<1> QED  BY <1>1, <1>2, ZenonT(60)

\* A tick wakes sleepers and rings alarms.
LEMMA TickedCalm ==
  ASSUME IInv, NEW due \in SUBSET Sleepers, NEW rung \in SUBSET Armed
  PROVE  LET m == Ticked(due, rung)
         IN  /\ Calm(Machine, m, {}) /\ In(m.t, "RUNNING") = In(tcb, "RUNNING")
             /\ m.n = task_count
<1> DEFINE K(i) == [tcb[i] EXCEPT !.state = IF i \in due THEN "READY" ELSE @,
                                  !.wakeup = IF i \in due THEN FALSE ELSE @,
                                  !.pend = IF i \in rung THEN @ \cup {SIGALRM} ELSE @,
                                  !.alarm = IF i \in rung THEN FALSE ELSE @]
           u == [i \in Slots |-> K(i)]
           m == Ticked(due, rung)
<1>1. m = [t |-> u, n |-> task_count]
  <2>1. m = [Machine EXCEPT !.t = u]
    BY Zenon DEF Ticked
  <2> HIDE DEF m, u
  <2> QED  BY <2>1 DEF Machine
<1>3. \A i \in Slots : /\ tcb[i] \in Task /\ tcb[i].state \in States /\ tcb[i].wakeup \in BOOLEAN
                       /\ tcb[i].pend \in SUBSET Signals /\ tcb[i].alarm \in BOOLEAN
  <2>1. \A k \in Task : k.state \in States /\ k.wakeup \in BOOLEAN /\ k.pend \in SUBSET Signals /\ k.alarm \in BOOLEAN
    BY DEF Task
  <2> QED  BY <2>1, SoundNow, ZenonT(60)
<1>4. ASSUME NEW i \in Slots
      PROVE  /\ K(i) \in Task /\ Mild(tcb[i], K(i))
             /\ K(i).state \in Alive <=> tcb[i].state \in Alive
             /\ K(i).state = "RUNNING" <=> tcb[i].state = "RUNNING"
  <2> DEFINE st == IF i \in due THEN "READY" ELSE tcb[i].state
             wk == IF i \in due THEN FALSE ELSE tcb[i].wakeup
             pd == IF i \in rung THEN tcb[i].pend \cup {SIGALRM} ELSE tcb[i].pend
             al == IF i \in rung THEN FALSE ELSE tcb[i].alarm
             l == K(i)
  <2>1. /\ l \in Task /\ l.state = st /\ l.wakeup = wk /\ l.pend = pd /\ l.alarm = al
        /\ l.tgid = tcb[i].tgid /\ l.wait_pid = tcb[i].wait_pid
    <3>1. st \in States /\ wk \in BOOLEAN /\ pd \in SUBSET Signals /\ al \in BOOLEAN
      BY <1>3, SignalsKnown, ZenonT(60) DEF States
    <3> DEFINE k == tcb[i]
    <3>2. l = [k EXCEPT !.state = st, !.wakeup = wk, !.pend = pd, !.alarm = al]
      BY Zenon
    <3>3. k \in Task
      BY <1>3, Zenon
    <3> HIDE DEF st, wk, pd, al, l, K, k
    <3>4. /\ l \in Task /\ l.state = st /\ l.wakeup = wk /\ l.pend = pd /\ l.alarm = al
          /\ l.tgid = k.tgid /\ l.wait_pid = k.wait_pid
      BY <3>1, <3>2, <3>3, ZenonT(60) DEF Task
    <3> QED  BY <3>4, Zenon DEF k
  <2>2. i \in due => tcb[i].state = "BLOCKED"
    BY Zenon DEF Sleepers, In
  <2>3. i \in rung => tcb[i].alarm
    BY Zenon DEF Armed
  <2> HIDE DEF l, K
  <2>4. Harmless(tcb[i]) => Harmless(l)
    BY <2>1, <2>3, ZenonT(60) DEF Harmless
  <2>5. l.state \in Alive <=> tcb[i].state \in Alive
    BY <2>1, <2>2, ZenonT(60) DEF Alive
  <2>6. l.state = "RUNNING" <=> tcb[i].state = "RUNNING"
    BY <2>1, <2>2, Zenon
  <2>7. Mild(tcb[i], l)
    BY <2>1, <2>2, <2>4, ZenonT(60) DEF Mild
  <2> QED  BY <2>1, <2>5, <2>6, <2>7, ZenonT(60) DEF l
<1> HIDE DEF K
<1>5. u \in [Slots -> Task] /\ \A i \in Slots : u[i] = K(i)
  BY <1>4, ZenonT(60)
<1> HIDE DEF u, m
<1>6. m \in Machines
  BY <1>1, <1>5, SoundNow DEF Machines
<1>7. m.t = u /\ m.n = task_count
  BY <1>1
<1>8. Calm(Machine, m, {})
  BY <1>4, <1>5, <1>6, <1>7, SoundNow, Now, CalmIntro, ZenonT(60)
<1>9. In(m.t, "RUNNING") = In(tcb, "RUNNING")
  BY <1>4, <1>5, <1>7, ZenonT(60) DEF In
<1> QED  BY <1>7, <1>8, <1>9, ZenonT(60) DEF m

LEMMA TickKeeps ==
  ASSUME IInv, Tick
  PROVE  Keeps
<1>1. PICK due \in SUBSET Sleepers, rung \in SUBSET Armed :
        /\ tcb' = Ticked(due, rung).t
        /\ UNCHANGED <<task_count, task_current, cpu, hlt, call, load>>
  BY Zenon DEF Tick
<1> DEFINE m == Ticked(due, rung)
<1>2. Calm(Machine, m, {}) /\ In(m.t, "RUNNING") = In(tcb, "RUNNING") /\ m.n = task_count
  BY TickedCalm, Zenon
<1>3. /\ tcb' = m.t /\ task_count' = task_count /\ task_current' = task_current
      /\ cpu' = cpu /\ hlt' = hlt /\ call' = call /\ load' = load
  BY <1>1, Zenon
<1> HIDE DEF m
<1>4. Sound(m)
  BY <1>2, SoundNow, CalmSound, ZenonT(60)
<1>5. Sound(Machine)'
  BY <1>2, <1>3, <1>4, SoundNext, ZenonT(60)
<1>6. NoStaleDeadline'
  <2>1. \A i \in Slots : m.t[i].state = "BLOCKED" /\ m.t[i].wakeup =>
                           tcb[i].state = "BLOCKED" /\ tcb[i].wakeup
    BY <1>2, Now, ZenonT(60) DEF Calm, Mild
  <2> QED  BY <1>3, <2>1, ZenonT(60) DEF IInv, NoStaleDeadline
<1>7. (OneRuns => In(tcb, "RUNNING") = {cpu} \ {Shell})'
  <2>1. OneRuns' => OneRuns
    BY <1>3, Zenon DEF OneRuns, Deadly, Does
  <2> QED  BY <1>2, <1>3, <2>1, ZenonT(60) DEF IInv
<1>8. /\ task_current' \in Slots \cup {0} /\ cpu' \in Slots \cup {Shell} /\ hlt' \in BOOLEAN
      /\ call' \in [Slots -> Calls] /\ load' \in Workloads /\ (hlt => cpu # Shell)'
  BY <1>3, Zenon DEF IInv
<1>9. IInv'
  BY <1>5, <1>6, <1>7, <1>8, ZenonT(60) DEF IInv
<1>10. EndsWaits
  <2>1. Live(tcb') = Live(tcb)
    BY <1>2, <1>3, Now, ZenonT(60) DEF Calm
  <2> QED  BY <2>1, NobodyDies, ZenonT(60)
<1> QED  BY <1>9, <1>10, Zenon DEF Keeps

LEMMA PreemptKeeps ==
  ASSUME IInv, Preempt
  PROVE  Keeps
<1>1. PICK due \in SUBSET Sleepers, rung \in SUBSET Armed :
        LET c == FirstRunning(Ticked(due, rung).t)
            m == SetState(Ticked(due, rung), c, "READY")
            p == Picked(m, c)
        IN  c # 0 /\ Commit(PickNext(m, c), IF p = 0 THEN cpu ELSE p) /\ NoCall
  BY Zenon DEF Preempt
<1> DEFINE k == Ticked(due, rung)
           c == FirstRunning(k.t)
           q == SetState(k, c, "READY")
           p == Picked(q, c)
           r == PickNext(q, c)
           e == IF p = 0 THEN cpu ELSE p
<1>2. c # 0 /\ Commit(r, e) /\ NoCall
  BY <1>1, Zenon
<1>3. Calm(Machine, k, {}) /\ In(k.t, "RUNNING") = In(tcb, "RUNNING")
  BY TickedCalm, Zenon
<1> HIDE DEF k
<1>4. k \in Machines /\ Live(k.t) = Live(tcb) /\ Sound(k)
  <2>1. k \in Machines /\ Live(k.t) = Live(tcb)
    BY <1>3, Now, Zenon DEF Calm
  <2> QED  BY <1>3, <2>1, SoundNow, CalmSound, ZenonT(60)
<1>5. c \in In(k.t, "RUNNING")
  BY <1>2, FirstRunningIn, Zenon
<1>6. c \in Live(k.t) /\ c \in Slots
  BY <1>3, <1>4, <1>5, RunnerLives, Now, ZenonT(60) DEF In
<1> HIDE DEF c
<1>7. /\ Calm(k, q, {})
      /\ In(q.t, "RUNNING") = In(tcb, "RUNNING") \ {c} /\ c \in In(q.t, "READY")
  <2>1. "READY" # "RUNNING" /\ "READY" \in {"READY", "RUNNING", "STOPPED"}
    BY Zenon
  <2>2. /\ Calm(k, q, {})
        /\ In(q.t, "RUNNING") = IF "READY" = "RUNNING" THEN In(k.t, "RUNNING") \cup {c}
                                ELSE In(k.t, "RUNNING") \ {c}
        /\ In(q.t, "READY") = IF "READY" = "READY" THEN In(k.t, "READY") \cup {c}
                              ELSE In(k.t, "READY") \ {c}
    BY <1>4, <1>6, <2>1, SetLive, ZenonT(60)
  <2> QED  BY <1>3, <2>1, <2>2, ZenonT(60)
<1>8. Calm(Machine, q, {}) /\ Sound(q)
  <2>1. Calm(Machine, q, {})
    BY <1>3, <1>7, SoundNow, CalmThen, ZenonT(60)
  <2> QED  BY <2>1, SoundNow, CalmSound, ZenonT(60)
<1> HIDE DEF q
<1>9. /\ Sound(r) /\ \E D : Calm(q, r, D) /\ (D # {} => Deadly)
      /\ p \in Slots \cup {0}
      /\ ~Deadly /\ In(q.t, "READY") # {} => p # 0
      /\ In(r.t, "RUNNING") = In(q.t, "RUNNING") \cup ({p} \ {0})
  BY <1>6, <1>8, NextPicked, ZenonT(60)
<1> HIDE DEF p, r
<1>10. \E D : Calm(Machine, r, D) /\ (D # {} => Deadly)
  <2>1. PICK D : Calm(q, r, D) /\ (D # {} => Deadly)
    BY <1>9, Zenon
  <2>2. Calm(Machine, r, D)
    BY <1>8, <2>1, SoundNow, CalmThen, ZenonT(60)
  <2> QED  BY <2>1, <2>2, ZenonT(60)
<1>11. e \in Slots \cup {0}
  BY <1>9, Zenon DEF IInv, Shell
<1>12. OneRuns => In(r.t, "RUNNING") = {e} \ {Shell}
  <2> SUFFICES ASSUME OneRuns
               PROVE  In(r.t, "RUNNING") = {e} \ {Shell}
    BY Zenon
  <2>1. ~Deadly
    BY Zenon DEF OneRuns, Preempt
  <2>2. p # 0 /\ e = p
    BY <1>7, <1>9, <2>1, ZenonT(60)
  <2>3. In(tcb, "RUNNING") = {c}
    <3>1. In(tcb, "RUNNING") = {cpu} \ {Shell}
      BY Zenon DEF IInv
    <3> QED  BY <1>3, <1>5, <3>1, ZenonT(60)
  <2> HIDE DEF e
  <2> QED  BY <1>7, <1>9, <2>2, <2>3, ZenonT(60) DEF Shell
<1> QED  BY <1>2, <1>9, <1>10, <1>11, <1>12, QuietStep, ZenonT(60)

=============================================================================
