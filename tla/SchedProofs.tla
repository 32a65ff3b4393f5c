---------------------------- MODULE SchedProofs -----------------------------
(***************************************************************************)
(* For any number of task slots and any workload: the task count, the      *)
(* deadlines, the running task and the threads of a process stay           *)
(* consistent, and a death by exit or fault ends every wait for it.  Here  *)
(* are the steps that create a task and those that block one; SchedSteps   *)
(* has the others.  The properties follow from the invariant they keep.    *)
(***************************************************************************)
EXTENDS SchedSteps

-----------------------------------------------------------------------------
(* Steps that create a task *)

\* What Launch, fork and clone put into a slot: a ready task that is its own group
\* leader or a thread of a live task's group.
Newborn(i, z) ==
  /\ z \in Task /\ z.state = "READY"
  /\ ~Deadly => Harmless(z)
  /\ z.tgid = i \/ (Does("clone") /\ \E c \in Live(tcb) : z.tgid = tcb[c].tgid)

\* The machine with z in the slot i that no live task had.
LEMMA Born ==
  ASSUME IInv, NEW i \in Slots \ Live(tcb), NEW z, Newborn(i, z)
  PROVE  LET m == [t |-> [tcb EXCEPT ![i] = z], n |-> task_count + 1]
         IN  /\ Sound(m) /\ m.t[i] = z /\ \A j \in Slots \ {i} : m.t[j] = tcb[j]
             /\ Live(m.t) = Live(tcb) \cup {i}
             /\ In(m.t, "RUNNING") = In(tcb, "RUNNING")
<1> DEFINE u == [tcb EXCEPT ![i] = z]
           m == [t |-> u, n |-> task_count + 1]
<1>1. i \in Slots /\ z \in Task /\ z.state = "READY" /\ tcb[i].state \in {"FREE", "ZOMBIE"}
  BY Zenon DEF Newborn, Live
<1>2. u \in [Slots -> Task] /\ u[i] = z /\ \A j \in Slots \ {i} : u[j] = tcb[j]
  BY <1>1, SoundNow, ZenonT(60)
<1> HIDE DEF u
<1>3. m.t = u /\ m.n = task_count + 1
  BY Zenon
<1>4. m \in Machines
  BY <1>2, SoundNow DEF Machines
<1>5. Live(u) = Live(tcb) \cup {i} /\ In(u, "RUNNING") = In(tcb, "RUNNING")
  <2>1. \A j \in Slots : j \in Live(u) <=> j \in Live(tcb) \cup {i}
    BY <1>1, <1>2, ZenonT(60) DEF Live
  <2>2. \A j \in Slots : j \in In(u, "RUNNING") <=> j \in In(tcb, "RUNNING")
    BY <1>1, <1>2, ZenonT(60) DEF In
  <2>3. /\ Live(u) \subseteq Slots /\ Live(tcb) \subseteq Slots
        /\ In(u, "RUNNING") \subseteq Slots /\ In(tcb, "RUNNING") \subseteq Slots
    BY Sets, Zenon
  <2> QED  BY <1>1, <2>1, <2>2, <2>3, ZenonT(60)
<1>6. m.n = Cardinality(Live(m.t))
  <2>1. IsFiniteSet(Live(tcb)) /\ i \notin Live(tcb)
    BY Sets, SlotCount, ZenonT(60)
  <2>2. Cardinality(Live(tcb) \cup {i}) = Cardinality(Live(tcb)) + 1
    BY <2>1, FS_AddElement
  <2>3. task_count = Cardinality(Live(tcb))
    BY SoundNow, Now, Zenon DEF Sound
  <2> QED  BY <1>3, <1>5, <2>2, <2>3, ZenonT(60)
<1>7. Quiet(tcb) /\ Solo(tcb) /\ Groups(tcb)
  BY SoundNow, Now, Zenon DEF Sound
<1>8. Quiet(u)
  BY <1>2, <1>7, ZenonT(60) DEF Quiet, Newborn
<1>9. Solo(u)
  BY <1>2, <1>7, ZenonT(60) DEF Solo, Newborn
<1>10. Groups(u)
  <2> SUFFICES ASSUME Does("clone"), ~Deadly, NEW j \in Live(u)
               PROVE  u[j].tgid \in Live(u) /\ u[u[j].tgid].tgid = u[j].tgid
    BY Zenon DEF Groups
  <2>1. \A c \in Live(tcb) : /\ c # i /\ c \in Slots /\ u[c] = tcb[c]
                             /\ tcb[c].tgid \in Live(tcb) /\ tcb[tcb[c].tgid].tgid = tcb[c].tgid
    BY <1>2, <1>7, ZenonT(60) DEF Groups, Live
  <2>2. ASSUME NEW c \in Live(tcb), u[j].tgid = tcb[c].tgid
        PROVE  u[j].tgid \in Live(u) /\ u[u[j].tgid].tgid = u[j].tgid
    BY <1>5, <2>1, <2>2, ZenonT(60)
  <2>3. CASE j \in Live(tcb)
    BY <2>1, <2>2, <2>3, ZenonT(60)
  <2>4. CASE j = i
    <3>1. CASE z.tgid = i
      BY <1>2, <1>5, <2>4, <3>1, ZenonT(60)
    <3>2. CASE \E c \in Live(tcb) : z.tgid = tcb[c].tgid
      BY <1>2, <2>2, <2>4, <3>2, ZenonT(60)
    <3> QED  BY <3>1, <3>2, ZenonT(60) DEF Newborn
  <2> QED  BY <1>5, <2>3, <2>4, ZenonT(60)
<1>11. Sound(m)
  BY <1>3, <1>4, <1>6, <1>8, <1>9, <1>10, ZenonT(60) DEF Sound
<1> QED  BY <1>2, <1>3, <1>5, <1>11, ZenonT(60) DEF u

\* A step that leaves the new task i behind and the others as they were.
LEMMA BornKeeps ==
  ASSUME IInv, NEW i \in Slots, NEW m, Sound(m), Live(tcb) \subseteq Live(m.t),
         m.t[i].state # "BLOCKED", \A j \in Slots \ {i} : m.t[j] = tcb[j],
         NEW c \in Slots \cup {0}, Commit(m, c), Calling(i, "none"),
         OneRuns => In(m.t, "RUNNING") = {c} \ {Shell}
  PROVE  Keeps
<1>1. DeadlinesKept(m, i, "none")
  BY Zenon DEF DeadlinesKept
<1>2. "none" \in Calls
  BY Zenon DEF Calls
<1>3. IInv' /\ Live(tcb') = Live(m.t)
  BY <1>1, <1>2, StepKeeps, ZenonT(60)
<1> QED  BY <1>3, NobodyDies, ZenonT(60) DEF Keeps

LEMMA CreatedNewborn ==
  ASSUME IInv, NEW i \in Slots, NEW b \in BOOLEAN
  PROVE  Newborn(i, Created(i, b))
<1> DEFINE e == Empty
           a == tcb[i].alarm
           w == tcb[i].wakeup
           p == IF b THEN PRIO_LOW ELSE PRIO_NORMAL
           z == Created(i, b)
<1>1. e \in Task /\ e.pend = {}
  BY SignalsKnown DEF Empty, Task, States, NoParent, Any, Statuses, PRIO_NORMAL, PRIO_LOW
<1>2. a \in BOOLEAN /\ w \in BOOLEAN /\ p \in {PRIO_NORMAL, PRIO_LOW}
  <2>1. tcb[i] \in Task
    BY SoundNow, ZenonT(60)
  <2>2. \A k \in Task : k.alarm \in BOOLEAN /\ k.wakeup \in BOOLEAN
    BY DEF Task
  <2> QED  BY <2>1, <2>2, ZenonT(60)
<1>3. z = [e EXCEPT !.state = "READY", !.tgid = i, !.bg = b, !.prio = p, !.wakeup = w, !.alarm = a]
  BY Zenon DEF Created
<1>4. ~Deadly => ~a
  BY SoundNow, Now, ZenonT(60) DEF Sound, Quiet, Harmless
<1> HIDE DEF e, a, w, p, z
<1>5. "READY" \in States
  BY Zenon DEF States
<1>6. z \in Task /\ z.state = "READY" /\ z.tgid = i /\ z.alarm = a /\ z.pend = {}
  BY <1>1, <1>2, <1>3, <1>5, ZenonT(60) DEF Task
<1>7. Newborn(i, z)
  BY <1>4, <1>6, Zenon DEF Newborn, Harmless
<1> QED  BY <1>7, ZenonT(60) DEF z

\* A task that never ran is given back.
LEMMA GivenBack ==
  ASSUME IInv, NEW i \in Slots \ Live(tcb), NEW m, Sound(m), m.t[i].state = "READY",
         \A j \in Slots \ {i} : m.t[j] = tcb[j], Live(m.t) = Live(tcb) \cup {i}
  PROVE  LET r == FreeReadyTask(m, i)
         IN  /\ Sound(r) /\ r.t[i].state = "FREE" /\ \A j \in Slots \ {i} : r.t[j] = tcb[j]
             /\ Live(r.t) = Live(tcb)
<1> DEFINE q == SetState(m, i, "FREE")
           r == FreeReadyTask(m, i)
<1>1. m \in Machines /\ i \in Slots /\ i \in Live(m.t) /\ i \notin Live(tcb) /\ m.t[i] \in Task
  BY MachineParts, Zenon DEF Sound
<1>2. /\ q \in Machines /\ q.n = m.n /\ InState(m.t[i], q.t[i], "FREE")
      /\ \A j \in Slots \ {i} : q.t[j] = m.t[j]
  BY <1>1, SetStateMachine, ZenonT(60) DEF States
<1>3. r = [q EXCEPT !.n = @ - 1]
  BY Zenon DEF FreeReadyTask
<1> HIDE DEF q, r
<1>4. r \in Machines /\ r.t = q.t /\ r.n = q.n - 1
  BY <1>2, <1>3 DEF Machines
<1>5. q.t[i].state = "FREE" /\ Mild(m.t[i], q.t[i])
  BY <1>1, <1>2, InStateMild, ZenonT(60) DEF InState, States
<1>6. \A j \in Slots : /\ Mild(m.t[j], r.t[j])
                       /\ r.t[j].state \in Alive <=> m.t[j].state \in Alive /\ j # i
  <2>1. "FREE" \notin Alive /\ \A j \in Slots : m.t[j] \in Task
    BY <1>1, MachineParts, ZenonT(60) DEF Alive
  <2>2. \A j \in Slots \ {i} : r.t[j] = m.t[j] /\ Mild(m.t[j], m.t[j])
    BY <1>2, <1>4, <2>1, MildRefl, ZenonT(60)
  <2> QED  BY <1>4, <1>5, <2>1, <2>2, ZenonT(60)
<1>7. Calm(m, r, {i})
  BY <1>1, <1>2, <1>4, <1>6, CalmEnds, ZenonT(60)
<1>8. Sound(r)
  <2>1. ASSUME Does("clone"), ~Deadly, NEW j \in Live(m.t) \ {i}
        PROVE  m.t[j].tgid \notin {i}
    <3>1. j \in Live(tcb) /\ m.t[j] = tcb[j]
      BY Sets, ZenonT(60)
    <3>2. tcb[j].tgid \in Live(tcb)
      BY <2>1, <3>1, SoundNow, Now, ZenonT(60) DEF Sound, Groups
    <3> QED  BY <1>1, <3>1, <3>2, ZenonT(60)
  <2> QED  BY <1>7, <2>1, CalmSound, ZenonT(60)
<1>9. Live(r.t) = Live(tcb)
  <2>1. Live(r.t) = Live(m.t) \ {i}
    BY <1>7, ZenonT(60) DEF Calm
  <2> QED  BY <1>1, <2>1, ZenonT(60)
<1> QED  BY <1>2, <1>4, <1>5, <1>8, <1>9, Zenon DEF r

LEMMA LaunchKeeps ==
  ASSUME IInv, Launch
  PROVE  Keeps
<1> DEFINE i == Min(Creatable(tcb))
<1>1. /\ cpu = Shell /\ Creatable(tcb) # {} /\ Calling(i, "none")
      /\ \/ Commit(CreateTask(i, TRUE), Shell)
         \/ Commit(SetState(CreateTask(i, FALSE), i, "RUNNING"), i)
         \/ Commit(FreeReadyTask(CreateTask(i, TRUE), i), Shell)
  BY Zenon DEF Launch, Room
<1>2. i \in Slots \ Live(tcb)
  <2>1. Creatable(tcb) \in SUBSET Nat
    BY SlotsFinite, ZenonT(60) DEF Creatable
  <2>2. i \in Creatable(tcb)
    BY <1>1, <2>1, MinIn, ZenonT(60)
  <2> QED  BY <2>2, ZenonT(60) DEF Creatable, Live
<1> HIDE DEF i
<1>3. OneRuns => In(tcb, "RUNNING") = {}
  BY <1>1, ZenonT(60) DEF IInv
<1>4. ASSUME NEW b \in BOOLEAN
      PROVE  LET m == CreateTask(i, b)
             IN  /\ Sound(m) /\ m.t[i].state = "READY" /\ \A j \in Slots \ {i} : m.t[j] = tcb[j]
                 /\ Live(m.t) = Live(tcb) \cup {i} /\ In(m.t, "RUNNING") = In(tcb, "RUNNING")
  <2> DEFINE z == Created(i, b)
             m == [t |-> [tcb EXCEPT ![i] = z], n |-> task_count + 1]
  <2>1. Newborn(i, z)
    BY <1>2, CreatedNewborn, ZenonT(60)
  <2>2. CreateTask(i, b) = m
    BY ZenonT(60) DEF CreateTask
  <2> HIDE DEF z
  <2>3. /\ Sound(m) /\ m.t[i] = z /\ \A j \in Slots \ {i} : m.t[j] = tcb[j]
        /\ Live(m.t) = Live(tcb) \cup {i} /\ In(m.t, "RUNNING") = In(tcb, "RUNNING")
    BY <1>2, <2>1, Born, ZenonT(60)
  <2> HIDE DEF m
  <2> QED  BY <2>1, <2>2, <2>3, ZenonT(60) DEF Newborn
<1>5. CASE Commit(CreateTask(i, TRUE), Shell)
  <2> DEFINE m == CreateTask(i, TRUE)
  <2>1. /\ Sound(m) /\ m.t[i].state = "READY" /\ \A j \in Slots \ {i} : m.t[j] = tcb[j]
        /\ Live(m.t) = Live(tcb) \cup {i} /\ In(m.t, "RUNNING") = In(tcb, "RUNNING")
    BY <1>4, ZenonT(60)
  <2>2. Commit(m, Shell)
    BY <1>5, ZenonT(60)
  <2> HIDE DEF m
  <2>3. OneRuns => In(m.t, "RUNNING") = {Shell} \ {Shell}
    BY <1>3, <2>1, ZenonT(60)
  <2>4. Shell \in Slots \cup {0} /\ Live(tcb) \subseteq Live(m.t) /\ m.t[i].state # "BLOCKED"
    BY <2>1, ZenonT(60) DEF Shell
  <2> QED  BY <1>1, <1>2, <2>1, <2>2, <2>3, <2>4, BornKeeps, ZenonT(60)
<1>6. CASE Commit(SetState(CreateTask(i, FALSE), i, "RUNNING"), i)
  <2> DEFINE m == CreateTask(i, FALSE)
             r == SetState(m, i, "RUNNING")
  <2>1. /\ Sound(m) /\ m.t[i].state = "READY" /\ \A j \in Slots \ {i} : m.t[j] = tcb[j]
        /\ Live(m.t) = Live(tcb) \cup {i} /\ In(m.t, "RUNNING") = In(tcb, "RUNNING")
    BY <1>4, ZenonT(60)
  <2>2. Commit(r, i)
    BY <1>6, ZenonT(60)
  <2> HIDE DEF m
  <2>3. m \in Machines /\ i \in Live(m.t) /\ "RUNNING" \in States
    BY <2>1, ZenonT(60) DEF Sound, States
  <2>4. Calm(m, r, {}) /\ In(r.t, "RUNNING") = In(m.t, "RUNNING") \cup {i}
    BY <2>3, SetLive, ZenonT(60)
  <2>5. InState(m.t[i], r.t[i], "RUNNING") /\ \A j \in Slots \ {i} : r.t[j] = m.t[j]
    BY <1>2, <2>3, SetStateMachine, ZenonT(60)
  <2> HIDE DEF r
  <2>6. Sound(r) /\ Live(r.t) = Live(m.t)
    <3>1. Sound(r)
      BY <2>1, <2>4, CalmSound, ZenonT(60)
    <3> QED  BY <2>4, <3>1, ZenonT(60) DEF Calm
  <2>7. r.t[i].state # "BLOCKED" /\ \A j \in Slots \ {i} : r.t[j] = tcb[j]
    BY <2>1, <2>5, ZenonT(60) DEF InState
  <2>8. Live(tcb) \subseteq Live(r.t)
    BY <2>1, <2>6, ZenonT(60)
  <2>9. OneRuns => In(r.t, "RUNNING") = {i} \ {Shell}
    <3>1. i # Shell
      BY <1>2, SlotsFinite, ZenonT(60) DEF Shell
    <3> QED  BY <1>3, <2>1, <2>4, <3>1, ZenonT(60)
  <2> QED  BY <1>1, <1>2, <2>2, <2>6, <2>7, <2>8, <2>9, BornKeeps, ZenonT(60)
<1>7. CASE Commit(FreeReadyTask(CreateTask(i, TRUE), i), Shell)
  <2> DEFINE m == CreateTask(i, TRUE)
             r == FreeReadyTask(m, i)
  <2>1. /\ Sound(m) /\ m.t[i].state = "READY" /\ \A j \in Slots \ {i} : m.t[j] = tcb[j]
        /\ Live(m.t) = Live(tcb) \cup {i}
    BY <1>4, ZenonT(60)
  <2>2. Commit(r, Shell)
    BY <1>7, ZenonT(60)
  <2> HIDE DEF m
  <2>3. /\ Sound(r) /\ r.t[i].state = "FREE" /\ \A j \in Slots \ {i} : r.t[j] = tcb[j]
        /\ Live(r.t) = Live(tcb)
    BY <1>2, <2>1, GivenBack, ZenonT(60)
  <2> HIDE DEF r
  <2>4. OneRuns => In(r.t, "RUNNING") = {Shell} \ {Shell}
    <3>1. In(r.t, "RUNNING") \subseteq In(tcb, "RUNNING")
      BY <1>2, <2>3, ZenonT(60) DEF In
    <3> QED  BY <1>3, <3>1, ZenonT(60)
  <2>5. Shell \in Slots \cup {0} /\ Live(tcb) \subseteq Live(r.t) /\ r.t[i].state # "BLOCKED"
    BY <2>3, ZenonT(60) DEF Shell
  <2> QED  BY <1>1, <1>2, <2>2, <2>3, <2>4, <2>5, BornKeeps, ZenonT(60)
<1> QED  BY <1>1, <1>5, <1>6, <1>7, ZenonT(60)

\* What fork and clone have in common: z goes into the lowest free slot.
LEMMA CopyKeeps ==
  ASSUME IInv, NEW z, In(tcb, "FREE") # {}, Newborn(Min(In(tcb, "FREE")), z),
         Commit([t |-> [tcb EXCEPT ![Min(In(tcb, "FREE"))] = z], n |-> task_count + 1], cpu),
         Calling(Min(In(tcb, "FREE")), "none")
  PROVE  Keeps
<1> DEFINE i == Min(In(tcb, "FREE"))
           m == [t |-> [tcb EXCEPT ![i] = z], n |-> task_count + 1]
<1>1. Newborn(i, z) /\ Commit(m, cpu) /\ Calling(i, "none")
  BY Zenon
<1>2. i \in Slots \ Live(tcb)
  <2>1. In(tcb, "FREE") \in SUBSET Nat
    BY SlotsFinite, ZenonT(60) DEF In
  <2>2. i \in In(tcb, "FREE")
    BY <2>1, MinIn, ZenonT(60)
  <2> QED  BY <2>2, ZenonT(60) DEF In, Live
<1> HIDE DEF i
<1>3. /\ Sound(m) /\ m.t[i] = z /\ \A j \in Slots \ {i} : m.t[j] = tcb[j]
      /\ Live(m.t) = Live(tcb) \cup {i} /\ In(m.t, "RUNNING") = In(tcb, "RUNNING")
  BY <1>1, <1>2, Born, ZenonT(60)
<1> HIDE DEF m
<1>4. m.t[i].state # "BLOCKED" /\ Live(tcb) \subseteq Live(m.t)
  BY <1>1, <1>3, ZenonT(60) DEF Newborn
<1>5. cpu \in Slots \cup {0} /\ (OneRuns => In(m.t, "RUNNING") = {cpu} \ {Shell})
  BY <1>3, ZenonT(60) DEF IInv, Shell
<1> QED  BY <1>1, <1>2, <1>3, <1>4, <1>5, BornKeeps, ZenonT(60)

LEMMA ForkKeeps ==
  ASSUME IInv, Fork
  PROVE  Keeps
<1> DEFINE i == Min(In(tcb, "FREE"))
           c == Current(tcb)
           k == tcb[c]
           z == Forked(c, i)
<1>1. /\ c # 0 /\ In(tcb, "FREE") # {}
      /\ Commit([t |-> [tcb EXCEPT ![i] = z], n |-> task_count + 1], cpu) /\ Calling(i, "none")
  BY Zenon DEF Fork, Room
<1>2. i \in Slots
  <2>1. In(tcb, "FREE") \in SUBSET Nat
    BY SlotsFinite, ZenonT(60) DEF In
  <2>2. i \in In(tcb, "FREE")
    BY <1>1, <2>1, MinIn, ZenonT(60)
  <2> QED  BY <2>2, ZenonT(60) DEF In
<1>3. c \in Slots /\ k \in Task
  BY <1>1, CurrentIn, SoundNow, ZenonT(60) DEF In
<1>4. z = [k EXCEPT !.state = "READY", !.tgid = i, !.ppid = c, !.pend = {}, !.alarm = FALSE,
                    !.hand = NoHandlers, !.saved_mask = {}, !.wait_pid = 0, !.eax = "0"]
  BY Zenon DEF Forked
<1>5. "READY" \in States /\ "0" \in Statuses
  BY Zenon DEF States, Statuses
<1> HIDE DEF i, c, k, z
<1>6. z \in Task /\ z.state = "READY" /\ z.tgid = i /\ z.alarm = FALSE /\ z.pend = {}
  BY <1>2, <1>3, <1>4, <1>5, SignalsKnown, ZenonT(60) DEF Task
<1>7. Newborn(i, z)
  BY <1>6, ZenonT(60) DEF Newborn, Harmless
<1> QED  BY <1>1, <1>7, CopyKeeps, ZenonT(60) DEF i

LEMMA CloneKeeps ==
  ASSUME IInv, Clone
  PROVE  Keeps
<1> DEFINE i == Min(In(tcb, "FREE"))
           c == Current(tcb)
           k == tcb[c]
           z == Cloned(c, i)
<1>1. /\ Does("clone") /\ c # 0 /\ In(tcb, "FREE") # {}
      /\ Commit([t |-> [tcb EXCEPT ![i] = z], n |-> task_count + 1], cpu) /\ Calling(i, "none")
  BY Zenon DEF Clone, Room
<1>2. c \in In(tcb, "RUNNING") /\ c \in Slots /\ k \in Task
  BY <1>1, CurrentIn, SoundNow, ZenonT(60) DEF In
<1>3. c \in Live(tcb)
  BY <1>2, ZenonT(60) DEF In, Live
<1>4. z = [k EXCEPT !.state = "READY", !.detached = FALSE, !.pend = {}, !.alarm = FALSE,
                    !.saved_mask = {}, !.wakeup = FALSE, !.wait_pid = 0, !.bg = FALSE,
                    !.exit_code = "0", !.eax = "0"]
  BY ZenonT(60) DEF Cloned
<1>5. "READY" \in States /\ "0" \in Statuses
  BY Zenon DEF States, Statuses
<1>6. k.tgid = tcb[c].tgid
  BY Zenon
<1> HIDE DEF i, c, k, z
<1>7. z \in Task /\ z.state = "READY" /\ z.tgid = k.tgid /\ z.alarm = FALSE /\ z.pend = {}
  BY <1>2, <1>4, <1>5, ZenonT(60) DEF Task
<1>8. Newborn(i, z)
  BY <1>1, <1>3, <1>6, <1>7, ZenonT(60) DEF Newborn, Harmless
<1> QED  BY <1>1, <1>8, CopyKeeps, ZenonT(60) DEF i

-----------------------------------------------------------------------------
(* Steps that block the caller *)

\* The machine with z in slot c.
Put(m, c, z) == [m EXCEPT !.t = [m.t EXCEPT ![c] = z]]

LEMMA PutRecord ==
  ASSUME NEW m \in Machines, NEW c, NEW z
  PROVE  Put(m, c, z) = [t |-> [m.t EXCEPT ![c] = z], n |-> m.n]
<1> DEFINE u == [m.t EXCEPT ![c] = z]
<1>1. m = [t |-> m.t, n |-> m.n]
  BY MachineIs, ZenonT(60)
<1>2. Put(m, c, z) = [m EXCEPT !.t = u]
  BY Zenon DEF Put
<1> HIDE DEF u
<1>3. Put(m, c, z) = [t |-> u, n |-> m.n]
  BY <1>1, <1>2
<1> QED  BY <1>3, ZenonT(60) DEF u

LEMMA PutIs ==
  ASSUME NEW m \in Machines, NEW c \in Slots, NEW z \in Task
  PROVE  /\ Put(m, c, z) \in Machines /\ Put(m, c, z).t[c] = z /\ Put(m, c, z).n = m.n
         /\ \A j \in Slots \ {c} : Put(m, c, z).t[j] = m.t[j]
<1> DEFINE u == [m.t EXCEPT ![c] = z]
           q == Put(m, c, z)
<1>1. m.t \in [Slots -> Task] /\ m.n \in Int
  BY MachineParts, Zenon
<1>2. u \in [Slots -> Task] /\ u[c] = z /\ \A j \in Slots \ {c} : u[j] = m.t[j]
  BY <1>1, Zenon
<1>3. q = [t |-> u, n |-> m.n]
  BY PutRecord, ZenonT(60)
<1> HIDE DEF u, q
<1>4. q \in Machines
  BY <1>1, <1>2, <1>3 DEF Machines
<1>5. q.t = u /\ q.n = m.n
  BY <1>3
<1> QED  BY <1>2, <1>4, <1>5, ZenonT(60) DEF q

\* Putting y where z was put.
Again(m, c, z, y) == Put(m, c, z).t[c] = z /\ Put(Put(m, c, z), c, y) = Put(m, c, y)

LEMMA PutTwice ==
  ASSUME NEW m \in Machines, NEW c \in Slots, NEW z, NEW y
  PROVE  Again(m, c, z, y)
<1> DEFINE u == [m.t EXCEPT ![c] = z]
           v == [m.t EXCEPT ![c] = y]
           q == Put(m, c, z)
<1>1. m.t \in [Slots -> Task]
  BY MachineParts, ZenonT(60)
<1>2. [u EXCEPT ![c] = y] = v /\ u[c] = z
  BY <1>1
<1>3. q = [t |-> u, n |-> m.n] /\ Put(m, c, y) = [t |-> v, n |-> m.n]
  BY PutRecord, ZenonT(60)
<1>4. Put(q, c, y) = [q EXCEPT !.t = [q.t EXCEPT ![c] = y]]
  BY ZenonT(60) DEF Put
<1> HIDE DEF u, v, q
<1>5. q.t = u
  BY <1>3
<1>6. Put(q, c, y) = [q EXCEPT !.t = v]
  BY <1>2, <1>4, <1>5, ZenonT(60)
<1>7. [q EXCEPT !.t = v] = [t |-> v, n |-> m.n]
  BY <1>3
<1> QED  BY <1>2, <1>3, <1>5, <1>6, <1>7, ZenonT(60) DEF q, Again

\* What a blocking call makes of its caller.
Suspended(k, z) ==
  /\ z \in Task /\ z.state = "BLOCKED"
  /\ z.tgid = k.tgid /\ z.alarm = k.alarm /\ z.pend = k.pend

LEMMA Suspends ==
  ASSUME IInv, NEW c \in In(tcb, "RUNNING"), NEW z, Suspended(tcb[c], z)
  PROVE  LET q == Put(Machine, c, z)
         IN  /\ Sound(q) /\ q.t[c] = z /\ \A j \in Slots \ {c} : q.t[j] = tcb[j]
             /\ Live(q.t) = Live(tcb) /\ c \in Live(q.t)
             /\ In(q.t, "RUNNING") = In(tcb, "RUNNING") \ {c}
<1> DEFINE q == Put(Machine, c, z)
<1>1. c \in Slots /\ z \in Task /\ tcb[c].state = "RUNNING" /\ z.state = "BLOCKED"
  BY Zenon DEF In, Suspended
<1>2. /\ q \in Machines /\ q.n = task_count /\ q.t[c] = z
      /\ \A j \in Slots \ {c} : q.t[j] = tcb[j]
  <2>1. Machine \in Machines
    BY SoundNow, ZenonT(60)
  <2>2. /\ q \in Machines /\ q.t[c] = z /\ q.n = Machine.n
        /\ \A j \in Slots \ {c} : q.t[j] = Machine.t[j]
    BY <1>1, <2>1, PutIs, ZenonT(60)
  <2> HIDE DEF q
  <2> QED  BY <1>1, <2>2, Now, ZenonT(60)
<1> HIDE DEF q
<1>3. Live(q.t) = Live(tcb) /\ c \in Live(q.t) /\ In(q.t, "RUNNING") = In(tcb, "RUNNING") \ {c}
  <2>1. \A j \in Slots : j \in Live(q.t) <=> j \in Live(tcb)
    BY <1>1, <1>2, ZenonT(60) DEF Live
  <2>2. c \in Live(q.t)
    BY <1>1, <1>2, ZenonT(60) DEF Live
  <2>3. \A j \in Slots : j \in In(q.t, "RUNNING") <=> j \in In(tcb, "RUNNING") \ {c}
    BY <1>1, <1>2, ZenonT(60) DEF In
  <2>4. /\ Live(q.t) \subseteq Slots /\ Live(tcb) \subseteq Slots
        /\ In(q.t, "RUNNING") \subseteq Slots /\ In(tcb, "RUNNING") \subseteq Slots
    BY Sets, ZenonT(60)
  <2> QED  BY <2>1, <2>2, <2>3, <2>4, ZenonT(60)
<1>4. /\ task_count = Cardinality(Live(tcb))
      /\ Quiet(tcb) /\ Solo(tcb) /\ Groups(tcb)
  BY SoundNow, Now, ZenonT(60) DEF Sound
<1>5. \A j \in Slots : /\ q.t[j].tgid = tcb[j].tgid /\ q.t[j].alarm = tcb[j].alarm
                       /\ q.t[j].pend = tcb[j].pend
                       /\ q.t[j].state # "FREE" => tcb[j].state # "FREE"
  BY <1>1, <1>2, ZenonT(60) DEF Suspended
<1>6. Quiet(q.t)
  BY <1>4, <1>5, ZenonT(60) DEF Quiet, Harmless
<1>7. Solo(q.t)
  BY <1>4, <1>5, ZenonT(60) DEF Solo
<1>8. Groups(q.t)
  <2> SUFFICES ASSUME Does("clone"), ~Deadly, NEW j \in Live(q.t)
               PROVE  q.t[j].tgid \in Live(q.t) /\ q.t[q.t[j].tgid].tgid = q.t[j].tgid
    BY Zenon DEF Groups
  <2>1. \A i \in Live(tcb) : i \in Slots /\ q.t[i].tgid = tcb[i].tgid
    BY <1>5, Sets, ZenonT(60)
  <2>2. tcb[j].tgid \in Live(tcb) /\ tcb[tcb[j].tgid].tgid = tcb[j].tgid
    BY <1>3, <1>4, ZenonT(60) DEF Groups
  <2> QED  BY <1>3, <2>1, <2>2, ZenonT(60)
<1>9. Sound(q)
  BY <1>2, <1>3, <1>4, <1>6, <1>7, <1>8, ZenonT(60) DEF Sound
<1> QED  BY <1>2, <1>3, <1>9, ZenonT(60) DEF q

\* The caller c is blocked, and the processor goes on with e.
LEMMA AwayKeeps ==
  ASSUME IInv, NEW c \in In(tcb, "RUNNING"), NEW z, Suspended(tcb[c], z),
         NEW r, Sound(r), \E D : Calm(Put(Machine, c, z), r, D) /\ (D # {} => Deadly),
         NEW d \in {c, Shell}, NEW w \in Calls, Calling(d, w),
         z.wakeup => d = c /\ w = "sleep",
         NEW e \in Slots \cup {0}, Commit(r, e),
         OneRuns => In(r.t, "RUNNING") = {e} \ {Shell}
  PROVE  Keeps
<1> DEFINE q == Put(Machine, c, z)
<1>1. PICK D : Calm(q, r, D) /\ (D # {} => Deadly)
  BY Zenon
<1>2. /\ Sound(q) /\ q.t[c] = z /\ \A j \in Slots \ {c} : q.t[j] = tcb[j]
      /\ Live(q.t) = Live(tcb) /\ c \in Live(q.t)
      /\ In(q.t, "RUNNING") = In(tcb, "RUNNING") \ {c}
  BY Suspends, ZenonT(60)
<1> HIDE DEF q
<1>3. DeadlinesKept(r, d, w)
  <2> SUFFICES ASSUME NEW i \in Slots, r.t[i].state = "BLOCKED", r.t[i].wakeup
               PROVE  IF i = d THEN w = "sleep" ELSE tcb[i].state = "BLOCKED" /\ tcb[i].wakeup
    BY Zenon DEF DeadlinesKept
  <2>1. Mild(q.t[i], r.t[i])
    BY <1>1, ZenonT(60) DEF Calm
  <2>2. q.t[i].state = "BLOCKED" /\ q.t[i].wakeup
    BY <2>1, ZenonT(60) DEF Mild
  <2>3. i # Shell
    BY SlotsFinite, ZenonT(60) DEF Shell
  <2>4. CASE i = c
    BY <1>2, <2>2, <2>4, ZenonT(60)
  <2>5. CASE i # c
    BY <1>2, <2>2, <2>3, <2>5, ZenonT(60)
  <2> QED  BY <2>4, <2>5, ZenonT(60)
<1>4. IInv' /\ Live(tcb') = Live(r.t)
  BY <1>3, StepKeeps, ZenonT(60)
<1>5. Gentle => EndsWaits
  <2>1. Gentle => D = {}
    BY <1>1, ZenonT(60) DEF Gentle
  <2>2. Live(r.t) = Live(tcb) \ D
    BY <1>1, <1>2, ZenonT(60) DEF Calm
  <2>3. Gentle => Live(tcb) \subseteq Live(tcb')
    BY <1>4, <2>1, <2>2, ZenonT(60)
  <2> QED  BY <2>3, NobodyDies, ZenonT(60)
<1> QED  BY <1>4, <1>5, ZenonT(60) DEF Keeps

LEMMA SwitchAfterKeeps ==
  ASSUME IInv, NEW c \in In(tcb, "RUNNING"), NEW z, Suspended(tcb[c], z),
         NEW w \in Calls, z.wakeup => w = "sleep", SwitchAfter(Put(Machine, c, z), c, w)
  PROVE  Keeps
<1> DEFINE q == Put(Machine, c, z)
           n == After(In(q.t, "READY"), c)
           r == SetState(q, n, "RUNNING")
<1>1. n # 0 /\ Commit(r, n) /\ Calling(c, w)
  BY Zenon DEF SwitchAfter
<1>2. /\ Sound(q) /\ q.t[c] = z /\ \A j \in Slots \ {c} : q.t[j] = tcb[j]
      /\ Live(q.t) = Live(tcb) /\ c \in Live(q.t)
      /\ In(q.t, "RUNNING") = In(tcb, "RUNNING") \ {c}
  BY Suspends, ZenonT(60)
<1> HIDE DEF q
<1>3. n \in In(q.t, "READY")
  BY <1>1, Sets, AfterIn, ZenonT(60)
<1> HIDE DEF n
<1>4. n \in Live(q.t) /\ n \in Slots /\ q \in Machines
  BY <1>2, <1>3, ZenonT(60) DEF In, Live, Sound
<1>5. Calm(q, r, {}) /\ In(r.t, "RUNNING") = In(q.t, "RUNNING") \cup {n}
  BY <1>4, SetLive, ZenonT(60)
<1> HIDE DEF r
<1>6. Sound(r)
  BY <1>2, <1>5, CalmSound, ZenonT(60)
<1>7. OneRuns => In(r.t, "RUNNING") = {n} \ {Shell}
  <2>1. OneRuns => In(tcb, "RUNNING") = {cpu} \ {Shell}
    BY Zenon DEF IInv
  <2>2. OneRuns => In(tcb, "RUNNING") = {c}
    BY <2>1, ZenonT(60)
  <2> QED  BY <1>1, <1>2, <1>5, <2>2, ZenonT(60) DEF Shell
<1>8. \E D : Calm(Put(Machine, c, z), r, D) /\ (D # {} => Deadly)
  BY <1>5, ZenonT(60) DEF q
<1> QED  BY <1>1, <1>4, <1>6, <1>7, <1>8, AwayKeeps, ZenonT(60)

\* Nothing else is ready: the caller is RUNNING again.
LEMMA BackToCaller ==
  ASSUME IInv, NEW c \in In(tcb, "RUNNING"), NEW z, Suspended(tcb[c], z)
  PROVE  LET q == Put(Machine, c, z)
             r == SetState(q, c, "RUNNING")
         IN  /\ Sound(r) /\ Calm(q, r, {}) /\ In(r.t, "RUNNING") = In(tcb, "RUNNING")
             /\ Live(r.t) = Live(tcb) /\ r.n = task_count
             /\ r.t[c].state = "RUNNING" /\ \A j \in Slots \ {c} : r.t[j] = tcb[j]
<1> DEFINE q == Put(Machine, c, z)
           r == SetState(q, c, "RUNNING")
<1>1. /\ Sound(q) /\ q.t[c] = z /\ \A j \in Slots \ {c} : q.t[j] = tcb[j]
      /\ Live(q.t) = Live(tcb) /\ c \in Live(q.t)
      /\ In(q.t, "RUNNING") = In(tcb, "RUNNING") \ {c}
  BY Suspends, ZenonT(60)
<1> HIDE DEF q
<1>2. q \in Machines /\ c \in Slots /\ "RUNNING" \in States
  BY <1>1, ZenonT(60) DEF Sound, In, States
<1>3. Calm(q, r, {}) /\ In(r.t, "RUNNING") = In(q.t, "RUNNING") \cup {c}
  BY <1>1, <1>2, SetLive, ZenonT(60)
<1>4. InState(q.t[c], r.t[c], "RUNNING") /\ \A j \in Slots \ {c} : r.t[j] = q.t[j]
  BY <1>2, SetStateMachine, ZenonT(60)
<1> HIDE DEF r
<1>5. Sound(r)
  BY <1>1, <1>3, CalmSound, ZenonT(60)
<1>6. Live(r.t) = Live(tcb)
  BY <1>1, <1>3, ZenonT(60) DEF Calm
<1>7. In(r.t, "RUNNING") = In(tcb, "RUNNING")
  BY <1>1, <1>3, ZenonT(60)
<1>8. r.n = task_count
  BY <1>5, <1>6, SoundNow, Now, ZenonT(60) DEF Sound
<1>9. r.t[c].state = "RUNNING" /\ \A j \in Slots \ {c} : r.t[j] = tcb[j]
  BY <1>1, <1>4, ZenonT(60) DEF InState
<1> QED  BY <1>3, <1>5, <1>6, <1>7, <1>8, <1>9, ZenonT(60) DEF q, r

LEMMA WaitpidBlockKeeps ==
  ASSUME IInv, NEW pid \in (1 .. load.tasks) \cup {Any}, WaitpidBlock(pid)
  PROVE  Keeps
<1> DEFINE c == Current(tcb)
           k == tcb[c]
           z == [k EXCEPT !.wait_pid = pid, !.wakeup = FALSE, !.state = "BLOCKED", !.eax = "nr"]
           q == Put(Machine, c, z)
           r == PickNext(q, 0)
           p == Picked(q, 0)
<1>1. c # 0
  BY Zenon DEF WaitpidBlock
<1>2. c \in In(tcb, "RUNNING") /\ c \in Slots /\ Machine \in Machines /\ k \in Task
  BY <1>1, CurrentIn, SoundNow, ZenonT(60) DEF In
<1>3. Blocked(Machine, c, pid) = q
  <2> DEFINE z1 == [k EXCEPT !.wait_pid = pid]
             q1 == Put(Machine, c, z1)
             z2 == [z1 EXCEPT !.wakeup = FALSE]
             q2 == Put(Machine, c, z2)
             z3 == [z2 EXCEPT !.state = "BLOCKED"]
             q3 == Put(Machine, c, z3)
             s2 == Put(q1, c, [q1.t[c] EXCEPT !.wakeup = FALSE])
             s3 == Put(s2, c, [s2.t[c] EXCEPT !.state = "BLOCKED"])
             s4 == Put(s3, c, [s3.t[c] EXCEPT !.eax = "nr"])
  <2>1. Blocked(Machine, c, pid) = s4
    BY Zenon DEF Blocked, Put, Machine
  <2>2. z = [z3 EXCEPT !.eax = "nr"]
    BY Zenon
  <2> HIDE DEF c, k, z, z1, z2, z3
  <2>3. Again(Machine, c, z1, z2) /\ Again(Machine, c, z2, z3) /\ Again(Machine, c, z3, z)
    BY <1>2, PutTwice, ZenonT(60)
  <2>4. s2 = q2
    BY <2>3, ZenonT(60) DEF z2, Again
  <2> HIDE DEF s2
  <2>5. s3 = q3
    BY <2>3, <2>4, ZenonT(60) DEF z3, Again
  <2> HIDE DEF s3
  <2>6. s4 = q
    BY <2>2, <2>3, <2>5, ZenonT(60) DEF Again
  <2> QED  BY <2>1, <2>6, ZenonT(60)
<1>4. Commit(r, p) /\ Calling(c, "waitpid")
  BY <1>3, ZenonT(60) DEF WaitpidBlock
<1>5. pid \in Slots \cup {0, Any}
  <2>1. load.tasks \in 0 .. MAX_TASKS - 1
    BY SchedAssumption, ZenonT(60) DEF IInv
  <2> QED  BY <2>1, SchedAssumption DEF Slots
<1>6. "BLOCKED" \in States /\ "nr" \in Statuses /\ "waitpid" \in Calls
  BY Zenon DEF States, Statuses, Calls
<1>7. ASSUME NEW x \in Task, NEW y,
             y = [x EXCEPT !.wait_pid = pid, !.wakeup = FALSE, !.state = "BLOCKED", !.eax = "nr"]
      PROVE  Suspended(x, y) /\ y.wakeup = FALSE
  BY <1>5, <1>6, <1>7, ZenonT(60) DEF Task, Suspended
<1>8. Suspended(k, z) /\ z.wakeup = FALSE
  BY <1>2, <1>7, ZenonT(60)
<1> HIDE DEF c, z
<1>9. /\ Sound(q) /\ q.t[c] = z /\ \A j \in Slots \ {c} : q.t[j] = tcb[j]
      /\ Live(q.t) = Live(tcb) /\ c \in Live(q.t)
      /\ In(q.t, "RUNNING") = In(tcb, "RUNNING") \ {c}
  BY <1>2, <1>8, Suspends, ZenonT(60)
<1> HIDE DEF q
<1>10. /\ Sound(r) /\ \E D : Calm(q, r, D) /\ (D # {} => Deadly)
       /\ p \in Slots \cup {0}
       /\ ~Deadly /\ In(q.t, "READY") # {} => p # 0
       /\ In(r.t, "RUNNING") = In(q.t, "RUNNING") \cup ({p} \ {0})
  BY <1>9, NextPicked, ZenonT(60)
<1> HIDE DEF p, r
<1>11. OneRuns => In(r.t, "RUNNING") = {p} \ {Shell}
  <2>1. OneRuns => In(tcb, "RUNNING") = {cpu} \ {Shell}
    BY Zenon DEF IInv
  <2>2. OneRuns => In(q.t, "RUNNING") = {}
    BY <1>2, <1>9, <2>1, ZenonT(60)
  <2> QED  BY <1>10, <2>2, ZenonT(60) DEF Shell
<1>12. \E D : Calm(Put(Machine, c, z), r, D) /\ (D # {} => Deadly)
  BY <1>10, Zenon DEF q
<1>13. z.wakeup => c = c /\ "waitpid" = "sleep"
  BY <1>8, Zenon
<1>14. Suspended(tcb[c], z) /\ c \in {c, Shell}
  BY <1>8, ZenonT(60)
<1> QED  BY <1>2, <1>4, <1>6, <1>10, <1>11, <1>12, <1>13, <1>14, AwayKeeps, ZenonT(60)

\* What sleep and pause make of the machine, and of the caller.
Halted(c, w, e) ==
  [Machine EXCEPT !.t[c].wakeup = w, !.t[c].state = "BLOCKED", !.t[c].eax = e]
Halt(k, w, e) == [k EXCEPT !.wakeup = w, !.state = "BLOCKED", !.eax = e]

LEMMA Halts ==
  ASSUME IInv, NEW c \in In(tcb, "RUNNING"), NEW w \in BOOLEAN, NEW e \in Statuses
  PROVE  /\ Halted(c, w, e) = Put(Machine, c, Halt(tcb[c], w, e))
         /\ Suspended(tcb[c], Halt(tcb[c], w, e)) /\ Halt(tcb[c], w, e).wakeup = w
<1> DEFINE k == tcb[c]
           z == Halt(k, w, e)
           z1 == [k EXCEPT !.wakeup = w]
           z2 == [z1 EXCEPT !.state = "BLOCKED"]
           q1 == Put(Machine, c, z1)
           s2 == Put(q1, c, [q1.t[c] EXCEPT !.state = "BLOCKED"])
           s3 == Put(s2, c, [s2.t[c] EXCEPT !.eax = e])
<1>1. c \in Slots /\ Machine \in Machines /\ k \in Task /\ "BLOCKED" \in States
  BY SoundNow, Zenon DEF In, States
<1>2. Halted(c, w, e) = s3
  BY Zenon DEF Halted, Put, Machine
<1>3. z = [z2 EXCEPT !.eax = e] /\ z = [k EXCEPT !.wakeup = w, !.state = "BLOCKED", !.eax = e]
  BY Zenon DEF Halt
<1> HIDE DEF k, z, z1, z2
<1>4. Again(Machine, c, z1, z2) /\ Again(Machine, c, z2, z)
  BY <1>1, PutTwice, ZenonT(60)
<1>5. s2 = Put(Machine, c, z2)
  BY <1>4, Zenon DEF z2, Again
<1> HIDE DEF s2
<1>6. s3 = Put(Machine, c, z)
  BY <1>3, <1>4, <1>5, ZenonT(60) DEF Again
<1>7. Suspended(k, z) /\ z.wakeup = w
  BY <1>1, <1>3, ZenonT(60) DEF Task, Suspended
<1> QED  BY <1>2, <1>6, <1>7, ZenonT(60) DEF k, z

LEMMA PauseKeeps ==
  ASSUME IInv, Pause
  PROVE  Keeps
<1> DEFINE c == FirstRunning(tcb)
           z == Halt(tcb[c], FALSE, "-1")
           q == Put(Machine, c, z)
           r == SetState(q, c, "RUNNING")
<1>1. /\ c # 0
      /\ \/ SwitchAfter(Halted(c, FALSE, "-1"), c, "pause")
         \/ Return(SetState(Halted(c, FALSE, "-1"), c, "RUNNING"))
  BY Zenon DEF Pause, Halted
<1>2. c \in In(tcb, "RUNNING") /\ "-1" \in Statuses /\ "pause" \in Calls /\ "none" \in Calls
  BY <1>1, FirstRunningIn, ZenonT(60) DEF Statuses, Calls
<1> HIDE DEF c
<1>3. Halted(c, FALSE, "-1") = q /\ Suspended(tcb[c], z) /\ z.wakeup = FALSE
  BY <1>2, Halts, Zenon
<1> HIDE DEF z
<1>4. CASE SwitchAfter(q, c, "pause")
  BY <1>2, <1>3, <1>4, SwitchAfterKeeps, ZenonT(60)
<1>5. CASE Return(r)
  <2>1. /\ Sound(r) /\ Calm(q, r, {}) /\ In(r.t, "RUNNING") = In(tcb, "RUNNING")
        /\ Live(r.t) = Live(tcb) /\ r.n = task_count
        /\ r.t[c].state = "RUNNING" /\ \A j \in Slots \ {c} : r.t[j] = tcb[j]
    BY <1>2, <1>3, BackToCaller, ZenonT(60)
  <2>2. Commit(r, cpu) /\ Calling(Shell, "none") /\ Shell \in {c, Shell}
    BY <1>5, Zenon DEF Return, NoCall
  <2> HIDE DEF r
  <2>3. \E D : Calm(Put(Machine, c, z), r, D) /\ (D # {} => Deadly)
    BY <2>1, Zenon
  <2>4. cpu \in Slots \cup {0} /\ (OneRuns => In(r.t, "RUNNING") = {cpu} \ {Shell})
    BY <2>1, Zenon DEF IInv, Shell
  <2>5. z.wakeup => Shell = c /\ "none" = "sleep"
    BY <1>3, Zenon
  <2> QED  BY <1>2, <1>3, <2>1, <2>2, <2>3, <2>4, <2>5, AwayKeeps, ZenonT(60)
<1> QED  BY <1>1, <1>3, <1>4, <1>5, Zenon

LEMMA SleepKeeps ==
  ASSUME IInv, Sleep
  PROVE  Keeps
<1> DEFINE c == FirstRunning(tcb)
           z == Halt(tcb[c], TRUE, "nr")
           q == Put(Machine, c, z)
           r == SetState(q, c, "RUNNING")
<1>1. /\ c # 0 /\ cpu # Shell
      /\ \/ SwitchAfter(Halted(c, TRUE, "nr"), c, "sleep")
         \/ /\ tcb' = SetState(Halted(c, TRUE, "nr"), c, "RUNNING").t /\ hlt' = TRUE
            /\ UNCHANGED <<task_count, task_current, cpu, call, load>>
  BY Zenon DEF Sleep, Halted, User
<1>2. c \in In(tcb, "RUNNING") /\ "nr" \in Statuses /\ "sleep" \in Calls
  BY <1>1, FirstRunningIn, ZenonT(60) DEF Statuses, Calls
<1> HIDE DEF c
<1>3. Halted(c, TRUE, "nr") = q /\ Suspended(tcb[c], z)
  BY <1>2, Halts, ZenonT(60)
<1> HIDE DEF z
<1>4. CASE SwitchAfter(q, c, "sleep")
  BY <1>2, <1>3, <1>4, SwitchAfterKeeps, ZenonT(60)
<1>5. CASE tcb' = r.t /\ hlt' = TRUE /\ UNCHANGED <<task_count, task_current, cpu, call, load>>
  <2>1. /\ Sound(r) /\ Calm(q, r, {}) /\ In(r.t, "RUNNING") = In(tcb, "RUNNING")
        /\ Live(r.t) = Live(tcb) /\ r.n = task_count
        /\ r.t[c].state = "RUNNING" /\ \A j \in Slots \ {c} : r.t[j] = tcb[j]
    BY <1>2, <1>3, BackToCaller, ZenonT(60)
  <2>2. /\ tcb' = r.t /\ task_count' = task_count /\ task_current' = task_current
        /\ cpu' = cpu /\ hlt' = TRUE /\ call' = call /\ load' = load
    BY <1>5, Zenon
  <2> HIDE DEF r
  <2>3. Sound(Machine)'
    BY <2>1, <2>2, SoundNext, ZenonT(60)
  <2>4. NoStaleDeadline'
    <3>1. \A i \in Slots : r.t[i].state = "BLOCKED" => r.t[i] = tcb[i]
      BY <2>1, ZenonT(60)
    <3> QED  BY <2>2, <3>1, ZenonT(60) DEF IInv, NoStaleDeadline
  <2>5. (OneRuns => In(tcb, "RUNNING") = {cpu} \ {Shell})'
    <3>1. OneRuns' => OneRuns
      BY <2>2, Zenon DEF OneRuns, Deadly, Does
    <3> QED  BY <2>1, <2>2, <3>1, ZenonT(60) DEF IInv
  <2>6. /\ task_current' \in Slots \cup {0} /\ cpu' \in Slots \cup {Shell} /\ hlt' \in BOOLEAN
        /\ call' \in [Slots -> Calls] /\ load' \in Workloads /\ (hlt => cpu # Shell)'
    BY <1>1, <2>2, ZenonT(60) DEF IInv
  <2>7. IInv'
    BY <2>3, <2>4, <2>5, <2>6, ZenonT(60) DEF IInv
  <2>8. EndsWaits
    BY <2>1, <2>2, NobodyDies, ZenonT(60)
  <2> QED  BY <2>7, <2>8, Zenon DEF Keeps
<1> QED  BY <1>1, <1>3, <1>4, <1>5, ZenonT(60)

\* What sigsuspend makes of the machine, and of the caller.
Suspending(c, mask) ==
  [Machine EXCEPT !.t[c].saved_mask = tcb[c].mask, !.t[c].mask = mask \ {SIGKILL},
                  !.t[c].wakeup = FALSE, !.t[c].state = "BLOCKED", !.t[c].eax = "-1"]
Suspend(k, mask) ==
  [k EXCEPT !.saved_mask = k.mask, !.mask = mask \ {SIGKILL}, !.wakeup = FALSE,
            !.state = "BLOCKED", !.eax = "-1"]

LEMMA SigsuspendBlocks ==
  ASSUME IInv, NEW c \in In(tcb, "RUNNING"), NEW mask \in SUBSET Signals
  PROVE  /\ Suspending(c, mask) = Put(Machine, c, Suspend(tcb[c], mask))
         /\ Suspended(tcb[c], Suspend(tcb[c], mask)) /\ Suspend(tcb[c], mask).wakeup = FALSE
<1> DEFINE k == tcb[c]
           x == k.mask
           y == mask \ {SIGKILL}
           z == Suspend(k, mask)
           z1 == [k EXCEPT !.saved_mask = x]
           z2 == [z1 EXCEPT !.mask = y]
           z3 == [z2 EXCEPT !.wakeup = FALSE]
           z4 == [z3 EXCEPT !.state = "BLOCKED"]
           q1 == Put(Machine, c, z1)
           s2 == Put(q1, c, [q1.t[c] EXCEPT !.mask = y])
           s3 == Put(s2, c, [s2.t[c] EXCEPT !.wakeup = FALSE])
           s4 == Put(s3, c, [s3.t[c] EXCEPT !.state = "BLOCKED"])
           s5 == Put(s4, c, [s4.t[c] EXCEPT !.eax = "-1"])
<1>1. c \in Slots /\ Machine \in Machines /\ k \in Task /\ "BLOCKED" \in States /\ "-1" \in Statuses
  BY SoundNow, Zenon DEF In, States, Statuses
<1>2. x \in SUBSET Signals /\ y \in SUBSET Signals
  <2>1. \A l \in Task : l.mask \in SUBSET Signals
    BY DEF Task
  <2> QED  BY <1>1, <2>1, ZenonT(60)
<1>3. Suspending(c, mask) = s5
  BY ZenonT(60) DEF Suspending, Put, Machine
<1>4. /\ z = [z4 EXCEPT !.eax = "-1"]
      /\ z = [k EXCEPT !.saved_mask = x, !.mask = y, !.wakeup = FALSE, !.state = "BLOCKED", !.eax = "-1"]
  BY Zenon DEF Suspend
<1> HIDE DEF k, x, y, z, z1, z2, z3, z4
<1>5. /\ Again(Machine, c, z1, z2) /\ Again(Machine, c, z2, z3)
      /\ Again(Machine, c, z3, z4) /\ Again(Machine, c, z4, z)
  BY <1>1, PutTwice, Zenon
<1>6. s2 = Put(Machine, c, z2)
  BY <1>5, Zenon DEF z2, Again
<1> HIDE DEF s2
<1>7. s3 = Put(Machine, c, z3)
  BY <1>5, <1>6, Zenon DEF z3, Again
<1> HIDE DEF s3
<1>8. s4 = Put(Machine, c, z4)
  BY <1>5, <1>7, Zenon DEF z4, Again
<1> HIDE DEF s4
<1>9. s5 = Put(Machine, c, z)
  BY <1>4, <1>5, <1>8, ZenonT(60) DEF Again
<1>10. Suspended(k, z) /\ z.wakeup = FALSE
  BY <1>1, <1>2, <1>4, ZenonT(60) DEF Task, Suspended
<1> QED  BY <1>3, <1>9, <1>10, ZenonT(60) DEF k, z

\* The first BLOCKED slot is made RUNNING.
LEMMA Restored ==
  ASSUME NEW m, Sound(m), NEW b \in In(m.t, "BLOCKED")
  PROVE  LET r == [m EXCEPT !.t[b].mask = m.t[b].saved_mask, !.t[b].state = "RUNNING"]
         IN  Sound(r) /\ Calm(m, r, {})
<1> DEFINE r == [m EXCEPT !.t[b].mask = m.t[b].saved_mask, !.t[b].state = "RUNNING"]
           k == m.t[b]
           x == k.saved_mask
           z1 == [k EXCEPT !.mask = x]
           z == [k EXCEPT !.mask = x, !.state = "RUNNING"]
           q1 == Put(m, b, z1)
           s2 == Put(q1, b, [q1.t[b] EXCEPT !.state = "RUNNING"])
<1>1. /\ m \in Machines /\ b \in Slots /\ k \in Task /\ k.state = "BLOCKED"
      /\ "RUNNING" \in States /\ \A j \in Slots : m.t[j] \in Task
  BY MachineParts, Zenon DEF Sound, In, States
<1>2. x \in SUBSET Signals
  <2>1. \A l \in Task : l.saved_mask \in SUBSET Signals
    BY DEF Task
  <2> QED  BY <1>1, <2>1, ZenonT(60)
<1>3. r = s2
  BY Zenon DEF Put
<1>4. z = [z1 EXCEPT !.state = "RUNNING"]
  BY Zenon
<1>5. k = m.t[b]
  BY Zenon
<1> HIDE DEF k, x, z1, r
<1>6. z \in Task /\ z.state = "RUNNING" /\ z.tgid = k.tgid /\ z.alarm = k.alarm /\ z.pend = k.pend
  BY <1>1, <1>2, ZenonT(60) DEF Task
<1> HIDE DEF z
<1>7. Again(m, b, z1, z)
  BY <1>1, PutTwice, ZenonT(60)
<1>8. r = Put(m, b, z)
  BY <1>3, <1>4, <1>7, ZenonT(60) DEF Again
<1>9. /\ Put(m, b, z) \in Machines /\ Put(m, b, z).t[b] = z /\ Put(m, b, z).n = m.n
      /\ \A j \in Slots \ {b} : Put(m, b, z).t[j] = m.t[j]
  BY <1>1, <1>6, PutIs, ZenonT(60)
<1>10. Mild(k, z)
  BY <1>1, <1>6, ZenonT(60) DEF Mild, Harmless
<1>11. k.state \in Alive /\ z.state \in Alive
  BY <1>1, <1>6, ZenonT(60) DEF Alive
<1>12. r \in Machines /\ r.n = m.n /\ r.t[b] = z /\ \A j \in Slots \ {b} : r.t[j] = m.t[j]
  BY <1>8, <1>9, ZenonT(60)
<1>13. \A j \in Slots : /\ Mild(m.t[j], r.t[j])
                        /\ r.t[j].state \in Alive <=> m.t[j].state \in Alive
  BY <1>1, <1>5, <1>10, <1>11, <1>12, MildRefl, ZenonT(60)
<1>14. Calm(m, r, {})
  BY <1>1, <1>12, <1>13, CalmIntro, ZenonT(60)
<1>15. Sound(r)
  BY <1>14, CalmSound, ZenonT(60)
<1> QED  BY <1>14, <1>15, Zenon DEF r

LEMMA SigsuspendKeeps ==
  ASSUME IInv, NEW mask \in SUBSET load.sigs, Sigsuspend(mask)
  PROVE  Keeps
<1> DEFINE c == FirstRunning(tcb)
           z == Suspend(tcb[c], mask)
           q == Put(Machine, c, z)
           b == Lowest(In(q.t, "BLOCKED"))
           r == [q EXCEPT !.t[b].mask = q.t[b].saved_mask, !.t[b].state = "RUNNING"]
           m == Suspending(c, mask)
           a == Lowest(In(m.t, "BLOCKED"))
<1>1. /\ Does("sigsuspend") /\ c # 0
      /\ \/ SwitchAfter(m, c, "sigsuspend")
         \/ Return([m EXCEPT !.t[a].mask = m.t[a].saved_mask, !.t[a].state = "RUNNING"])
  BY ZenonT(60) DEF Sigsuspend, Suspending
<1>2. c \in In(tcb, "RUNNING") /\ "sigsuspend" \in Calls /\ "none" \in Calls
  BY <1>1, FirstRunningIn, Zenon DEF Calls
<1>3. mask \in SUBSET Signals
  BY SchedAssumption, ZenonT(60) DEF IInv
<1> HIDE DEF c
<1>4. m = q /\ Suspended(tcb[c], z) /\ z.wakeup = FALSE
  BY <1>2, <1>3, SigsuspendBlocks, ZenonT(60)
<1> HIDE DEF m
<1>5. SwitchAfter(q, c, "sigsuspend") \/ Return(r)
  BY <1>1, <1>4, ZenonT(60)
<1> HIDE DEF z
<1>6. CASE SwitchAfter(q, c, "sigsuspend")
  BY <1>2, <1>4, <1>6, SwitchAfterKeeps, ZenonT(60)
<1>7. CASE Return(r)
  <2>1. /\ Sound(q) /\ q.t[c] = z /\ \A j \in Slots \ {c} : q.t[j] = tcb[j]
        /\ Live(q.t) = Live(tcb) /\ c \in Live(q.t)
        /\ In(q.t, "RUNNING") = In(tcb, "RUNNING") \ {c}
    BY <1>2, <1>4, Suspends, ZenonT(60)
  <2> HIDE DEF q
  <2>2. b \in In(q.t, "BLOCKED")
    <3>1. c \in In(q.t, "BLOCKED")
      BY <1>2, <1>4, <2>1, ZenonT(60) DEF In, Suspended
    <3> QED  BY <3>1, Sets, LowestIn, ZenonT(60)
  <2> HIDE DEF b
  <2>3. Sound(r) /\ Calm(q, r, {})
    BY <2>1, <2>2, Restored, ZenonT(60)
  <2>4. Commit(r, cpu) /\ Calling(Shell, "none") /\ Shell \in {c, Shell}
    BY <1>7, ZenonT(60) DEF Return, NoCall
  <2> HIDE DEF r
  <2>5. \E D : Calm(Put(Machine, c, z), r, D) /\ (D # {} => Deadly)
    BY <2>3, ZenonT(60) DEF q
  <2>6. cpu \in Slots \cup {0} /\ (OneRuns => In(r.t, "RUNNING") = {cpu} \ {Shell})
    BY <1>1, ZenonT(60) DEF IInv, Shell, OneRuns
  <2>7. z.wakeup => Shell = c /\ "none" = "sleep"
    BY <1>4, ZenonT(60)
  <2> QED  BY <1>2, <1>4, <2>3, <2>4, <2>5, <2>6, <2>7, AwayKeeps, ZenonT(60)
<1> QED  BY <1>5, <1>6, <1>7, ZenonT(60)

-----------------------------------------------------------------------------
(* The invariant, and what follows from it *)

LEMMA InitIInv ==
  ASSUME Init
  PROVE  IInv
<1>1. /\ tcb = [i \in Slots |-> Empty]
      /\ task_count = 0 /\ task_current = 0 /\ cpu = Shell /\ hlt = FALSE
      /\ call = [i \in Slots |-> "none"] /\ load \in Workloads
  BY Zenon DEF Init
<1>2. /\ Empty \in Task /\ Empty.state = "FREE" /\ Empty.pend = {} /\ Empty.alarm = FALSE
      /\ Empty.wakeup = FALSE
  BY SignalsKnown DEF Empty, Task, States, NoParent, Any, Statuses, PRIO_NORMAL, PRIO_LOW
<1>3. tcb \in [Slots -> Task] /\ \A i \in Slots : tcb[i] = Empty
  BY <1>1, <1>2, ZenonT(60)
<1>4. Machine \in Machines
  BY <1>1, <1>3 DEF Machine, Machines
<1>5. Live(tcb) = {} /\ In(tcb, "RUNNING") = {}
  BY <1>2, <1>3, ZenonT(60) DEF Live, In
<1>6. Cardinality({}) = 0
  BY FS_EmptySet
<1>7. Quiet(tcb) /\ Solo(tcb) /\ Groups(tcb)
  BY <1>2, <1>3, <1>5, ZenonT(60) DEF Quiet, Harmless, Solo, Groups
<1>8. Sound(Machine)
  BY <1>1, <1>4, <1>5, <1>6, <1>7, Now, ZenonT(60) DEF Sound
<1>9. call \in [Slots -> Calls]
  BY <1>1, Zenon DEF Calls
<1>10. NoStaleDeadline
  BY <1>2, <1>3, ZenonT(60) DEF NoStaleDeadline
<1>11. In(tcb, "RUNNING") = {cpu} \ {Shell}
  BY <1>1, <1>5, ZenonT(60)
<1>12. task_current \in Slots \cup {0} /\ cpu \in Slots \cup {Shell} /\ hlt \in BOOLEAN /\ (hlt => cpu # Shell)
  BY <1>1, ZenonT(60)
<1> QED  BY <1>1, <1>8, <1>9, <1>10, <1>11, <1>12, ZenonT(60) DEF IInv

LEMMA NextKeeps ==
  ASSUME IInv, Next
  PROVE  Keeps
<1>1. CASE TimerNext
  BY <1>1, TickKeeps, PreemptKeeps, ZenonT(60) DEF TimerNext
<1>2. CASE ShellNext
  BY <1>2, LaunchKeeps, StartReadyKeeps, KillAllTasksKeeps, ShellWaitKeeps, ZenonT(60) DEF ShellNext
<1>3. CASE TaskNext
  <2>1. CASE Fork \/ Clone \/ Exit \/ ThreadExit \/ Wait \/ Sleep \/ SleepDone \/ Pause \/ Yield \/ Fault
    BY <2>1, ForkKeeps, CloneKeeps, ExitKeeps, ThreadExitKeeps, WaitKeeps, SleepKeeps, SleepDoneKeeps,
       PauseKeeps, YieldKeeps, FaultKeeps, ZenonT(60)
  <2>2. CASE \E i \in Slots : Detach(i)
    BY <2>2, DetachKeeps, ZenonT(60)
  <2>3. CASE \E pid \in (1 .. load.tasks) \cup {Any} : WaitpidHit(pid) \/ WaitpidBlock(pid)
    BY <2>3, WaitpidHitKeeps, WaitpidBlockKeeps, ZenonT(60)
  <2>4. CASE \E mask \in SUBSET load.sigs : Sigsuspend(mask) \/ Sigmask(mask)
    BY <2>4, SigsuspendKeeps, SigmaskKeeps, ZenonT(60)
  <2>5. CASE \E s \in load.sigs, d \in Dispositions : Sigaction(s, d)
    BY <2>5, SigactionKeeps, ZenonT(60)
  <2>6. CASE \E on \in BOOLEAN : Alarm(on)
    BY <2>6, AlarmKeeps, ZenonT(60)
  <2> QED  BY <1>3, <2>1, <2>2, <2>3, <2>4, <2>5, <2>6, ZenonT(60) DEF TaskNext
<1>4. CASE \E i \in Slots, s \in load.sigs : Kill(i, s)
  BY <1>4, KillKeeps, ZenonT(60)
<1> QED  BY <1>1, <1>2, <1>3, <1>4, ZenonT(60) DEF Next

LEMMA StutterKeeps ==
  ASSUME IInv, UNCHANGED vars
  PROVE  Keeps
<1>1. /\ tcb' = tcb /\ task_count' = task_count /\ task_current' = task_current
      /\ cpu' = cpu /\ hlt' = hlt /\ call' = call /\ load' = load
  BY Zenon DEF vars
<1>2. Sound(Machine)'
  BY <1>1, SoundNow, Now, SoundNext, ZenonT(60)
<1>3. NoStaleDeadline'
  BY <1>1, Zenon DEF IInv, NoStaleDeadline
<1>4. (OneRuns => In(tcb, "RUNNING") = {cpu} \ {Shell})'
  <2>1. OneRuns' => OneRuns
    BY <1>1, Zenon DEF OneRuns, Deadly, Does
  <2> QED  BY <1>1, <2>1, ZenonT(60) DEF IInv
<1>5. /\ task_current' \in Slots \cup {0} /\ cpu' \in Slots \cup {Shell} /\ hlt' \in BOOLEAN
      /\ call' \in [Slots -> Calls] /\ load' \in Workloads /\ (hlt => cpu # Shell)'
  BY <1>1, Zenon DEF IInv
<1>6. IInv'
  BY <1>2, <1>3, <1>4, <1>5, ZenonT(60) DEF IInv
<1>7. EndsWaits
  BY <1>1, NobodyDies, Zenon
<1> QED  BY <1>6, <1>7, ZenonT(60) DEF Keeps

\* Every reachable state satisfies the inductive invariant, whatever the
\* workload and the number of slots.
THEOREM Invariance == Spec => []IInv
<1>1. IInv /\ [Next]_vars => IInv'
  BY NextKeeps, StutterKeeps, ZenonT(60) DEF Keeps
<1> QED  BY <1>1, InitIInv, PTL DEF Spec

\* The task control blocks and the scheduler's words keep their types; there are
\* never more tasks than slots.
THEOREM TypeCorrect == Spec => []TypeOK
<1>1. IInv => TypeOK
  <2> SUFFICES ASSUME IInv
               PROVE  TypeOK
    BY Zenon
  <2>1. task_count = Cardinality(Live(tcb))
    BY SoundNow, Now, ZenonT(60) DEF Sound
  <2>2. task_count \in 0 .. MAX_TASKS - 1
    BY <2>1, Sets, SlotCount, ZenonT(60)
  <2> QED  BY <2>2, SoundNow, ZenonT(60) DEF IInv, TypeOK
<1> QED  BY <1>1, Invariance, PTL

\* task_count is the number of live tasks after every system call, interrupt and
\* shell command.
THEOREM CountCorrect == Spec => []CountIsLive
<1>1. IInv => CountIsLive
  BY SoundNow, Now, ZenonT(60) DEF Sound, CountIsLive
<1> QED  BY <1>1, Invariance, PTL

\* The task the processor executes is the one RUNNING task of the table, outside
\* the three cases CpuRunsRunning names.
THEOREM RunningCorrect == Spec => []CpuRunsRunning
<1>1. IInv => CpuRunsRunning
  BY ZenonT(60) DEF IInv, OneRuns, CpuRunsRunning
<1> QED  BY <1>1, Invariance, PTL

\* No task blocked in waitpid, pause or sigsuspend carries the deadline of an
\* earlier sleep.
THEOREM DeadlineCorrect == Spec => []NoStaleDeadline
<1>1. IInv => NoStaleDeadline
  BY ZenonT(60) DEF IInv
<1> QED  BY <1>1, Invariance, PTL

\* A live thread has a live group leader, whatever ends the threads of its group
\* by exit or fault.
THEOREM ProcessCorrect == Spec => []ThreadsHaveProcess
<1>1. IInv => ThreadsHaveProcess
  <2> SUFFICES ASSUME IInv, ~(Deadly /\ Does("clone")), NEW i \in Live(tcb)
               PROVE  tcb[i].tgid \in Live(tcb)
    BY ZenonT(60) DEF ThreadsHaveProcess
  <2>1. Solo(tcb) /\ Groups(tcb)
    BY SoundNow, Now, ZenonT(60) DEF Sound
  <2>2. CASE Does("clone")
    BY <2>1, <2>2, ZenonT(60) DEF Groups
  <2>3. CASE ~Does("clone")
    <3>1. i \in Slots /\ tcb[i].state # "FREE"
      BY Zenon DEF Live
    <3> QED  BY <2>1, <2>3, <3>1, ZenonT(60) DEF Solo
  <2> QED  BY <2>2, <2>3, ZenonT(60)
<1> QED  BY <1>1, Invariance, PTL

\* The step in which a process exits or faults releases every task that waits for
\* it.
THEOREM WaitsEnd == Spec => ExitEndsWait
<1>1. IInv /\ [Next]_vars => [Gentle => EndsWaits]_vars
  BY NextKeeps, ZenonT(60) DEF Keeps
<1>2. [Gentle => EndsWaits]_vars => [~Deadly /\ ~Does("clone") => EndsWaits]_vars
  BY Zenon DEF Gentle
<1> QED  BY <1>1, <1>2, Invariance, PTL DEF Spec, ExitEndsWait

=============================================================================
