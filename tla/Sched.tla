------------------------------- MODULE Sched -------------------------------
(***************************************************************************)
(* kernel/sched.inc, the task calls of kernel/syscall.inc and irq_timer of *)
(* kernel/isr.inc: the task table, its life cycle, waitpid and signals.    *)
(*                                                                         *)
(* The slot index is the PID.  A system call and a timer interrupt are one *)
(* step each: the timer only switches away from ring 3.  Time is the set   *)
(* of deadlines a tick finds expired.  All tasks have the same user and    *)
(* run no service; pages, descriptors and FPU images are released or       *)
(* swapped with the task and are left out.                                 *)
(***************************************************************************)
EXTENDS Integers, FiniteSets, FiniteSetsExt

CONSTANTS MAX_TASKS,
          Signals,          \* the signals of an instance
          Workloads         \* what its programs do: the calls and signals they use, and
                            \* how many tasks there are at a time

SIGKILL == 9
SIGALRM == 14
SIGTERM == 15
SIGCHLD == 17
SIGTSTP == 20
SIGCONT == 25

PRIO_NORMAL == 1
PRIO_LOW == 2

Slots == 1 .. MAX_TASKS - 1        \* slot 0 is never allocated
Shell == 0
Any == -1
NoParent == -1
Dispositions == {"DFL", "IGN", "FN"}
States == {"FREE", "READY", "RUNNING", "BLOCKED", "STOPPED", "ZOMBIE"}
Calls == {"none", "waitpid", "sleep", "pause", "sigsuspend"}

\* An exit status; "nr" is the number of the call a task blocked with.
Statuses == {"nr", "-1", "0", "exit", "signal"}

ASSUME SchedAssumption ==
  /\ MAX_TASKS \in Nat \ {0, 1}
  /\ Signals \subseteq {SIGKILL, SIGALRM, SIGTERM, SIGCHLD, SIGTSTP, SIGCONT}
  /\ {SIGCHLD, SIGALRM} \subseteq Signals
  \* A thread shares the handler table of its creator; each task has its own
  \* here, so a workload has threads or handlers.
  /\ \A w \in Workloads :
       /\ w.sigs \subseteq Signals /\ w.tasks \in 0 .. MAX_TASKS - 1
       /\ ~({"clone", "sigaction"} \subseteq w.ops)

VARIABLES
  tcb,            \* the task table
  task_count,
  task_current,
  cpu,            \* the task executing in ring 3, or Shell
  hlt,            \* cpu is in sys_sleep's HLT loop
  call,           \* history: the blocking call each task last made
  load            \* the workload, chosen at the start

vars == <<tcb, task_count, task_current, cpu, hlt, call, load>>

Task ==
  [state : States, tgid : Slots \cup {0}, ppid : Slots \cup {NoParent},
   wait_pid : Slots \cup {0, Any}, wakeup : BOOLEAN, alarm : BOOLEAN,
   pend : SUBSET Signals, mask : SUBSET Signals, saved_mask : SUBSET Signals,
   hand : [Signals -> Dispositions], detached : BOOLEAN, bg : BOOLEAN,
   prio : {PRIO_NORMAL, PRIO_LOW},
   exit_code : Statuses, eax : Statuses]

NoHandlers == [s \in Signals |-> "DFL"]

Empty ==
  [state |-> "FREE", tgid |-> 0, ppid |-> NoParent, wait_pid |-> 0,
   wakeup |-> FALSE, alarm |-> FALSE, pend |-> {}, mask |-> {}, saved_mask |-> {},
   hand |-> NoHandlers, detached |-> FALSE, bg |-> FALSE, prio |-> PRIO_NORMAL,
   exit_code |-> "0", eax |-> "0"]

Init ==
  /\ tcb = [i \in Slots |-> Empty]
  /\ task_count = 0 /\ task_current = 0 /\ cpu = Shell /\ hlt = FALSE
  /\ call = [i \in Slots |-> "none"] /\ load \in Workloads

-----------------------------------------------------------------------------
(* Finding tasks.  t is a task table. *)

In(t, s) == {i \in Slots : t[i].state = s}
Live(t) == {i \in Slots : t[i].state \notin {"FREE", "ZOMBIE"}}
Mates(t, i) ==
  {j \in Slots \ {i} : t[j].state # "FREE" /\ t[j].tgid = t[i].tgid}
Leader(t, i) == t[i].tgid = i
Lowest(S) == IF S = {} THEN 0 ELSE Min(S)

\* The first member of S met by a scan that starts after slot c and wraps.
After(S, c) == IF \E i \in S : i > c THEN Min({i \in S : i > c}) ELSE Lowest(S)

\* The scans for "the RUNNING task", and sched_get_current_task.
FirstRunning(t) == Lowest(In(t, "RUNNING"))
Current(t) ==
  IF task_current \in In(t, "RUNNING") THEN task_current ELSE FirstRunning(t)

-----------------------------------------------------------------------------
(* A kernel operation maps a machine m = [t |-> table, n |-> task_count] to *)
(* the next one.                                                           *)

Machine == [t |-> tcb, n |-> task_count]
SetState(m, i, s) == [m EXCEPT !.t[i].state = s]

\* sched_kill_group_mates: the other threads' slots become free; a zombie was
\* counted out when it exited.
KillGroupMates(m, i) ==
  [t |-> [j \in Slots |-> IF j \in Mates(m.t, i)
                            THEN [m.t[j] EXCEPT !.state = "FREE"] ELSE m.t[j]],
   n |-> m.n - Cardinality(Mates(m.t, i) \cap Live(m.t))]

\* The tasks the death of i releases from waitpid.  Fault: only those that wait
\* for any task.
WaitersFor_any(t, i) == {j \in In(t, "BLOCKED") : t[j].wait_pid = Any}
WaitersFor(t, i) == {j \in In(t, "BLOCKED") : t[j].wait_pid \in {i, Any}}

WakeWaiters(t, i, code) ==
  [j \in Slots |-> IF j \in WaitersFor(t, i)
                     THEN [t[j] EXCEPT !.wait_pid = 0, !.state = "READY", !.eax = code]
                     ELSE t[j]]

\* SIGCHLD to the parent p of a dead leader, unless it is ignored; a parent in
\* pause or sigsuspend is made ready, one still in waitpid is not.
NotifyParent(t, p) ==
  IF p \in Slots /\ t[p].state # "FREE" /\ t[p].hand[SIGCHLD] # "IGN"
    THEN [t EXCEPT ![p].pend = @ \cup {SIGCHLD},
                   ![p].state = IF @ = "BLOCKED" /\ t[p].wait_pid = 0 THEN "READY" ELSE @]
    ELSE t

\* sched_publish_death: zombie, counted out, waiters woken with the status; a
\* leader without a parent is reaped at once.
PublishDeath(m, i, code) ==
  LET dead == [m.t EXCEPT ![i].state = "ZOMBIE", ![i].exit_code = code]
      woken == WakeWaiters(dead, i, code)
  IN  [n |-> m.n - 1,
       t |-> IF ~Leader(m.t, i) THEN woken
             ELSE IF m.t[i].ppid = NoParent
               THEN [woken EXCEPT ![i].state = "FREE"]
               ELSE NotifyParent(woken, m.t[i].ppid)]

\* sched_exit_thread: a zombie whose waiters are woken; the process goes on.
ExitThread(m, i, code) ==
  [n |-> m.n - 1,
   t |-> WakeWaiters([m.t EXCEPT ![i].state = "ZOMBIE", ![i].exit_code = code], i, code)]

\* sched_exit_task on the RUNNING task i.  Fault: its threads are left alone.
ExitTask_alone(m, i, code) == PublishDeath(m, i, code)
ExitTask(m, i, code) == PublishDeath(KillGroupMates(m, i), i, code)

\* .sst_kill: what a default action does to a task that is not running.
KillTask(m, i) ==
  PublishDeath(KillGroupMates([m EXCEPT !.t[i].hand = NoHandlers], i), i, "signal")

\* .sst_queue
QueueSignal(m, i, s) ==
  [m EXCEPT !.t[i].pend = @ \cup {s},
            !.t[i].state = IF @ = "BLOCKED" THEN "READY" ELSE @]

\* sched_signal_task
SignalTask(m, i, s) ==
  LET st == m.t[i].state
      h == m.t[i].hand[s]
  IN  CASE st = "ZOMBIE" -> m
        [] st = "RUNNING" -> QueueSignal(m, i, s)
        [] st \notin {"ZOMBIE", "RUNNING"} /\ s = SIGKILL -> KillTask(m, i)
        [] st \notin {"ZOMBIE", "RUNNING"} /\ s = SIGCONT ->
             IF st = "STOPPED" THEN SetState(m, i, "READY") ELSE m
        [] st \notin {"ZOMBIE", "RUNNING"} /\ s = SIGTSTP ->
             IF h = "DFL" THEN SetState(m, i, "STOPPED") ELSE QueueSignal(m, i, s)
        [] st \notin {"ZOMBIE", "RUNNING"} /\ s = SIGCHLD ->
             IF h = "FN" THEN QueueSignal(m, i, s) ELSE m
        [] OTHER ->
             CASE h = "DFL" -> KillTask(m, i)
               [] h = "IGN" -> m
               [] h = "FN" -> QueueSignal(m, i, s)

\* sched_deliver_signals on a task about to be resumed.  Handlers and ignored
\* signals are consumed in order up to the first default action that stops or
\* ends the task; ending it frees the slot and counts it out.
Open(k) == k.pend \ k.mask
Acts(k) == {s \in Open(k) : k.hand[s] = "DFL" /\ s \notin {SIGCONT, SIGCHLD}}
Consumed(k) == IF Acts(k) = {} THEN Open(k) ELSE {s \in Open(k) : s <= Min(Acts(k))}
Stops(k) == Acts(k) # {} /\ Min(Acts(k)) = SIGTSTP
Ends(k) == Acts(k) # {} /\ Min(Acts(k)) # SIGTSTP
Delivered(k) ==
  [k EXCEPT !.pend = @ \ Consumed(k),
            !.state = IF Stops(k) THEN "STOPPED" ELSE IF Ends(k) THEN "FREE" ELSE @,
            !.hand = IF Ends(k) THEN NoHandlers ELSE @]

\* The tasks of S take their signals.  Fault: the dead are not counted out.
DeliverAll_uncounted(m, S) ==
  [t |-> [i \in Slots |-> IF i \in S THEN Delivered(m.t[i]) ELSE m.t[i]], n |-> m.n]
DeliverAll(m, S) ==
  [t |-> [i \in Slots |-> IF i \in S THEN Delivered(m.t[i]) ELSE m.t[i]],
   n |-> m.n - Cardinality({i \in S : Ends(m.t[i])})]

\* The candidates of a scan that ends at the first survivor of delivery, in the
\* scan's order: those before it die, and it is marked RUNNING.
Before(c, i, j) ==          \* i is met before j by a scan that starts after c
  \/ i > c /\ (j <= c \/ i < j)
  \/ i <= c /\ j <= c /\ i < j
Picked(m, c) ==
  After({i \in In(m.t, "READY") : ~Ends(m.t[i])}, c)
PickNext(m, c) ==
  LET p == Picked(m, c)
      tried == {i \in In(m.t, "READY") : p = 0 \/ i = p \/ Before(c, i, p)}
      tested == DeliverAll(m, tried)
  IN  IF p = 0 THEN tested ELSE SetState(tested, p, "RUNNING")

-----------------------------------------------------------------------------
(* Steps *)

Does(op) == op \in load.ops
User == cpu # Shell /\ ~hlt        \* a task is executing in ring 3

\* There is a slot, and the workload still creates tasks: the lowest one is taken.
Room(free) == free # {} /\ Min(free) <= load.tasks

\* What later steps can read of a slot: of a free one only what
\* sched_create_task leaves alone, of a zombie what waitpid and the other threads
\* look at.  A task in ring 3 uses the result of its last call.
Readable(i, k) ==
  CASE k.state = "FREE" -> [Empty EXCEPT !.wakeup = k.wakeup, !.alarm = k.alarm]
    [] k.state = "ZOMBIE" ->
         [Empty EXCEPT !.state = k.state, !.wakeup = k.wakeup, !.alarm = k.alarm,
                       !.tgid = k.tgid, !.ppid = k.ppid, !.detached = k.detached]
    [] k.state = "RUNNING" /\ tcb[i].state = "RUNNING" -> [k EXCEPT !.eax = "0"]
    [] OTHER -> k

\* The machine after a step, and who the processor goes on with.
Commit(m, c) ==
  /\ tcb' = [i \in Slots |-> Readable(i, m.t[i])] /\ task_count' = m.n /\ cpu' = c
  /\ task_current' = IF c = Shell THEN task_current ELSE c
  /\ hlt' = FALSE
  /\ UNCHANGED load

\* Blocking calls that are over are forgotten; c makes the call w.
Calling(c, w) ==
  call' = [i \in Slots |-> IF i = c THEN w
                          ELSE IF tcb'[i].state \in {"FREE", "ZOMBIE"} \/ tcb[i].state = "RUNNING"
                            THEN "none" ELSE call[i]]
NoCall == Calling(Shell, "none")

Return(m) == Commit(m, cpu) /\ NoCall

\* sched_force_switch: the first READY task, or the shell.  Fault: it is not
\* marked RUNNING.
ForceSwitch_ready(m) == Commit(m, Lowest(In(m.t, "READY"))) /\ NoCall
ForceSwitch(m) ==
  LET p == Lowest(In(m.t, "READY"))
  IN  Commit(IF p = 0 THEN m ELSE SetState(m, p, "RUNNING"), p) /\ NoCall

\* sched_create_task.  A slot held by a detached zombie is recycled.  Of the
\* previous occupant's fields TCB_WAKEUP and TCB_ALARM are not written.
Creatable(t) == {i \in Slots : t[i].state = "FREE" \/ (t[i].state = "ZOMBIE" /\ t[i].detached)}
Created(i, background) ==
  [Empty EXCEPT !.state = "READY", !.tgid = i, !.bg = background,
                !.prio = IF background THEN PRIO_LOW ELSE PRIO_NORMAL,
                !.wakeup = tcb[i].wakeup, !.alarm = tcb[i].alarm]

CreateTask(i, background) ==
  [t |-> [tcb EXCEPT ![i] = Created(i, background)], n |-> task_count + 1]

\* sched_free_ready_task: a task that never ran is given back.
FreeReadyTask(m, i) ==
  IF m.t[i].state = "READY" THEN [SetState(m, i, "FREE") EXCEPT !.n = @ - 1] ELSE m

\* The shell starts a background job, or a foreground program it switches to; it
\* gives up a job whose program window cannot be set up.
Launch ==
  /\ Does("launch") /\ cpu = Shell /\ Room(Creatable(tcb))
  /\ LET i == Min(Creatable(tcb))
     IN  /\ \/ Commit(CreateTask(i, TRUE), Shell)
            \/ Commit(SetState(CreateTask(i, FALSE), i, "RUNNING"), i)
            \/ Commit(FreeReadyTask(CreateTask(i, TRUE), i), Shell)
         /\ Calling(i, "none")

\* sched_start_ready, from the shell's prompt.
StartReady ==
  /\ cpu = Shell /\ In(tcb, "READY") # {}
  /\ ForceSwitch(Machine)

\* sched_kill_all_tasks: the desktop shuts down.
KillAllTasks ==
  /\ Does("kill_all") /\ cpu = Shell
  /\ tcb' = [i \in Slots |-> Readable(i, [tcb[i] EXCEPT !.state = "FREE"])]
  /\ task_count' = 0 /\ task_current' = 0
  /\ NoCall /\ UNCHANGED <<cpu, hlt, load>>

\* sys_fork: the child is a copy with its own group, no handlers, no pending
\* signals and no timer.
Forked(c, i) ==
  [tcb[c] EXCEPT !.state = "READY", !.tgid = i, !.ppid = c, !.pend = {}, !.alarm = FALSE,
                 !.hand = NoHandlers, !.saved_mask = {}, !.wait_pid = 0, !.eax = "0"]
Fork ==
  /\ Does("fork") /\ User /\ Current(tcb) # 0 /\ Room(In(tcb, "FREE"))
  /\ LET i == Min(In(tcb, "FREE"))
     IN  /\ Commit([t |-> [tcb EXCEPT ![i] = Forked(Current(tcb), i)], n |-> task_count + 1], cpu)
         /\ Calling(i, "none")

\* sys_clone: a thread of the caller's group.
Cloned(c, i) ==
  [tcb[c] EXCEPT !.state = "READY", !.detached = FALSE, !.pend = {}, !.alarm = FALSE,
                 !.saved_mask = {}, !.wakeup = FALSE, !.wait_pid = 0, !.bg = FALSE,
                 !.exit_code = "0", !.eax = "0"]
Clone ==
  /\ Does("clone") /\ User /\ Current(tcb) # 0 /\ Room(In(tcb, "FREE"))
  /\ LET i == Min(In(tcb, "FREE"))
     IN  /\ Commit([t |-> [tcb EXCEPT ![i] = Cloned(Current(tcb), i)], n |-> task_count + 1], cpu)
         /\ Calling(i, "none")

\* sys_exit.  A foreground program hands the machine to the shell, a background
\* job or a child to the next ready task.
ExitProcess ==
  LET c == FirstRunning(tcb)
      m == IF task_count = 0 \/ c = 0 THEN Machine ELSE ExitTask(Machine, c, "exit")
  IN  IF c # 0 /\ (tcb[c].bg \/ tcb[c].ppid # NoParent)
        THEN ForceSwitch(m)
        ELSE Commit(m, Shell) /\ NoCall

Exit == Does("exit") /\ User /\ ExitProcess

\* sys_thread_exit: the leader, and the last live thread, leave through exit().
ThreadExit ==
  /\ Does("thread_exit") /\ User
  /\ LET c == Current(tcb)
     IN  IF c # 0 /\ ~Leader(tcb, c) /\ Mates(tcb, c) \cap Live(tcb) # {}
           THEN ForceSwitch(ExitThread(Machine, c, "exit"))
           ELSE ExitProcess

\* sys_thread_detach of another live thread of the group that is not its leader.
Detach(i) ==
  /\ Does("detach") /\ User
  /\ LET c == Current(tcb)
     IN  c # 0 /\ i \in Live(tcb) /\ tcb[i].tgid = tcb[c].tgid /\ ~Leader(tcb, i)
  /\ Return([Machine EXCEPT !.t[i].detached = TRUE])

\* sys_waitpid for pid (or Any): the first task of the scan that is detached
\* (failure) or a zombie (reaped) settles it; otherwise the caller blocks.
WaitHits(pid) ==
  {i \in Slots : /\ tcb[i].state # "FREE" /\ pid \in {i, Any}
                 /\ tcb[i].detached \/ tcb[i].state = "ZOMBIE"}

\* Blocking forgets the deadline of an earlier sleep.  Fault: it does not.
Blocked_stale(m, c, pid) ==
  [m EXCEPT !.t[c].wait_pid = pid, !.t[c].state = "BLOCKED", !.t[c].eax = "nr"]
Blocked(m, c, pid) ==
  [m EXCEPT !.t[c].wait_pid = pid, !.t[c].wakeup = FALSE, !.t[c].state = "BLOCKED",
            !.t[c].eax = "nr"]

WaitpidHit(pid) ==
  /\ Does("waitpid") /\ User /\ WaitHits(pid) # {}
  /\ LET i == Min(WaitHits(pid))
     IN  IF tcb[i].detached THEN Return(Machine) ELSE Return(SetState(Machine, i, "FREE"))

WaitpidBlock(pid) ==
  /\ Does("waitpid") /\ User /\ WaitHits(pid) = {} /\ Current(tcb) # 0
  /\ LET c == Current(tcb)
         m == Blocked(Machine, c, pid)
     IN  /\ Commit(PickNext(m, 0), Picked(m, 0))
         /\ Calling(c, "waitpid")

\* sys_wait: reap one zombie child, never block.
Wait ==
  /\ Does("wait") /\ User /\ Current(tcb) # 0
  /\ LET kids == {i \in In(tcb, "ZOMBIE") : tcb[i].ppid = Current(tcb)}
     IN  kids # {} /\ Return(SetState(Machine, Min(kids), "FREE"))

\* The shell's waitpid is a single scan.
ShellWait(pid) ==
  /\ Does("waitpid") /\ cpu = Shell /\ WaitHits(pid) # {}
  /\ ~tcb[Min(WaitHits(pid))].detached
  /\ Return(SetState(Machine, Min(WaitHits(pid)), "FREE"))

\* sys_sleep, sys_pause and sys_sigsuspend give the processor to the next ready
\* task, without delivering its signals.
SwitchAfter(m, c, why) ==
  LET n == After(In(m.t, "READY"), c)
  IN  n # 0 /\ Commit(SetState(m, n, "RUNNING"), n) /\ Calling(c, why)

\* Alone, a sleeper stays RUNNING and halts in ring 0; its deadline stays set.
Sleep ==
  /\ Does("sleep") /\ User /\ FirstRunning(tcb) # 0
  /\ LET c == FirstRunning(tcb)
         m == [Machine EXCEPT !.t[c].wakeup = TRUE, !.t[c].state = "BLOCKED", !.t[c].eax = "nr"]
     IN  \/ SwitchAfter(m, c, "sleep")
         \/ /\ In(m.t, "READY") = {} /\ hlt' = TRUE
            /\ tcb' = SetState(m, c, "RUNNING").t
            /\ UNCHANGED <<task_count, task_current, cpu, call, load>>

SleepDone ==
  /\ hlt /\ Return([Machine EXCEPT !.t[cpu].eax = "0"])

Pause ==
  /\ Does("pause") /\ User /\ FirstRunning(tcb) # 0
  /\ LET c == FirstRunning(tcb)
         m == [Machine EXCEPT !.t[c].wakeup = FALSE, !.t[c].state = "BLOCKED", !.t[c].eax = "-1"]
     IN  \/ SwitchAfter(m, c, "pause")
         \/ In(m.t, "READY") = {} /\ Return(SetState(m, c, "RUNNING"))

\* Alone, sys_sigsuspend restores "self": the first BLOCKED slot of the table.
Sigsuspend(mask) ==
  /\ Does("sigsuspend") /\ User /\ FirstRunning(tcb) # 0
  /\ LET c == FirstRunning(tcb)
         m == [Machine EXCEPT !.t[c].saved_mask = tcb[c].mask, !.t[c].mask = mask \ {SIGKILL},
                              !.t[c].wakeup = FALSE, !.t[c].state = "BLOCKED", !.t[c].eax = "-1"]
         b == Lowest(In(m.t, "BLOCKED"))
     IN  \/ SwitchAfter(m, c, "sigsuspend")
         \/ /\ In(m.t, "READY") = {}
            /\ Return([m EXCEPT !.t[b].mask = m.t[b].saved_mask, !.t[b].state = "RUNNING"])

\* sys_kill of one task, from a program or from the shell's builtins.
Kill(i, s) ==
  /\ Does("kill") /\ ~hlt /\ tcb[i].state # "FREE"
  /\ Return(SignalTask(Machine, i, s))

\* sys_sigaction: SIGKILL keeps its default.
Sigaction(s, d) ==
  /\ Does("sigaction") /\ User /\ Current(tcb) # 0 /\ s # SIGKILL
  /\ Return([Machine EXCEPT !.t[Current(tcb)].hand[s] = d])

\* sys_sigmask: set; block and unblock set other values.
Sigmask(mask) ==
  /\ Does("sigmask") /\ User /\ FirstRunning(tcb) # 0
  /\ Return([Machine EXCEPT !.t[FirstRunning(tcb)].mask = mask])

\* sys_alarm arms or cancels.
Alarm(on) ==
  /\ Does("alarm") /\ User /\ Current(tcb) # 0
  /\ Return([Machine EXCEPT !.t[Current(tcb)].alarm = on])

\* A processor exception in ring 3: fault_kill_current_task.
Fault ==
  /\ Does("fault") /\ User
  /\ Commit(IF task_count = 0 \/ Current(tcb) = 0 THEN Machine
            ELSE ExitTask(Machine, FirstRunning(tcb), "signal"), Shell)
  /\ NoCall

\* Delivery on the caller's own stack; a task it stops or ends is left through
\* sched_self_leave.
SelfDeliver(m, c) ==
  LET d == DeliverAll(m, {c})
  IN  Commit(d, IF d.t[c].state = "RUNNING" THEN cpu ELSE Shell) /\ NoCall

\* The task sys_yield picks: of the best priority, the next one after c.
Candidate(t, c) ==
  LET ready == In(t, "READY") \ {c}
  IN  After({i \in ready : \A j \in ready : t[i].prio <= t[j].prio}, c)

\* sys_yield.  A candidate that a default action ends is dropped and the caller
\* goes on; any other candidate is marked RUNNING.
Yield ==
  /\ Does("yield") /\ User
  /\ IF task_count < 2
       THEN Current(tcb) # 0 /\ SelfDeliver(Machine, Current(tcb))
       ELSE /\ FirstRunning(tcb) # 0
            /\ LET c == FirstRunning(tcb)
                   n == Candidate(tcb, c)
                   d == DeliverAll(SetState(Machine, c, "READY"), {n})
               IN  IF n = 0 THEN SelfDeliver(Machine, c)
                   ELSE IF d.t[n].state = "FREE"
                     THEN Return(SetState(d, c, "RUNNING"))
                     ELSE Commit(SetState(d, n, "RUNNING"), n) /\ NoCall

\* What every tick does: sched_wake_sleepers wakes the sleepers that are due and
\* forgets their deadline, sched_check_alarms makes SIGALRM pending.
Sleepers == {i \in In(tcb, "BLOCKED") : tcb[i].wakeup}
Armed == {i \in Slots : tcb[i].state # "FREE" /\ tcb[i].alarm}
Ticked(due, rung) ==
  [Machine EXCEPT !.t = [i \in Slots |->
     [tcb[i] EXCEPT !.state = IF i \in due THEN "READY" ELSE @,
                    !.wakeup = IF i \in due THEN FALSE ELSE @,
                    !.pend = IF i \in rung THEN @ \cup {SIGALRM} ELSE @,
                    !.alarm = IF i \in rung THEN FALSE ELSE @]]]

\* A tick in the kernel, or inside the quantum.
Tick ==
  \E due \in SUBSET Sleepers, rung \in SUBSET Armed :
    /\ due \cup rung # {}
    /\ tcb' = Ticked(due, rung).t
    /\ UNCHANGED <<task_count, task_current, cpu, hlt, call, load>>

\* The quantum of a ring-3 task is over.  The scan for the next READY task
\* starts after it and comes back to it last: it is READY itself by then.
Preempt ==
  /\ Does("preempt") /\ User
  /\ \E due \in SUBSET Sleepers, rung \in SUBSET Armed :
       LET c == FirstRunning(Ticked(due, rung).t)
           m == SetState(Ticked(due, rung), c, "READY")
           p == Picked(m, c)
       IN  /\ c # 0
           /\ Commit(PickNext(m, c), IF p = 0 THEN cpu ELSE p)
           /\ NoCall

TimerNext == Tick \/ Preempt
ShellNext ==
  \/ Launch \/ StartReady \/ KillAllTasks
  \/ \E pid \in (1 .. load.tasks) \cup {Any} : ShellWait(pid)
TaskNext ==
  \/ Fork \/ Clone \/ Exit \/ ThreadExit \/ Wait \/ Sleep \/ SleepDone \/ Pause
  \/ Yield \/ Fault
  \/ \E i \in Slots : Detach(i)
  \/ \E pid \in (1 .. load.tasks) \cup {Any} : WaitpidHit(pid) \/ WaitpidBlock(pid)
  \/ \E mask \in SUBSET load.sigs : Sigsuspend(mask) \/ Sigmask(mask)
  \/ \E s \in load.sigs, d \in Dispositions : Sigaction(s, d)
  \/ \E on \in BOOLEAN : Alarm(on)

Next == TimerNext \/ ShellNext \/ TaskNext \/ \E i \in Slots, s \in load.sigs : Kill(i, s)

Spec == Init /\ [][Next]_vars

-----------------------------------------------------------------------------
(* Properties *)

\* The values the fields of a task control block and the scheduler's words take.
TypeOK ==
  /\ tcb \in [Slots -> Task]
  /\ task_count \in 0 .. MAX_TASKS - 1 /\ task_current \in Slots \cup {0} /\ cpu \in Slots \cup {Shell}
  /\ hlt \in BOOLEAN /\ call \in [Slots -> Calls] /\ load \in Workloads

\* task_count is the number of tasks that are neither free nor dead, whichever
\* of the ten ways a task came to life or died ("decrementing again here would
\* make the count drift below the number of live tasks and stall preemption").
CountIsLive == task_count = Cardinality(Live(tcb))

\* The workload has signals whose default action ends a task.
Deadly == load.sigs \cap {SIGKILL, SIGALRM, SIGTERM} # {} \/ Does("alarm")

\* The task in ring 3 is the one the table calls RUNNING, and the only one; in
\* the shell there is none.  The scans for "the RUNNING task" rely on it.
\* Three things break it and are left out.  sigsuspend, with nothing else ready,
\* calls the first BLOCKED slot RUNNING, whosever that is.  A thread that kills
\* another of its own process frees its own slot.  A preemption at which every
\* ready task dies of a pending signal returns to the one it interrupted.
CpuRunsRunning ==
  ~Does("sigsuspend") /\ ~(Deadly /\ (Does("clone") \/ Does("preempt"))) =>
    In(tcb, "RUNNING") = {cpu} \ {Shell}

\* A task blocked in waitpid, pause or sigsuspend carries no deadline that a
\* tick could mistake for its own ("the *next* block inherits").
NoStaleDeadline ==
  \A i \in Slots :
    tcb[i].state = "BLOCKED" /\ call[i] # "sleep" => ~tcb[i].wakeup

\* sched_publish_death: "both must leave the same state behind or a parent
\* waiting on the task waits forever".  The step in which a task dies ends the
\* wait of every task blocked in waitpid for it.
EndsWaits ==
  \A i, j \in Slots :
    (/\ i \in Live(tcb) /\ i \notin Live(tcb')
     /\ tcb[j].state = "BLOCKED" /\ tcb[j].wait_pid = i) =>
       tcb'[j].state # "BLOCKED"
DeathEndsWait == [][EndsWaits]_vars

\* The same of processes that die by exit or fault: no threads, and no signals
\* that end a task.
ExitEndsWait == [][~Deadly /\ ~Does("clone") => EndsWaits]_vars

\* "A kill ends the process, not one of its threads": whoever exits or faults and
\* however, a thread that goes on has a live group leader, whose address space it
\* runs in.  A pending signal that is delivered ends one thread alone, so a
\* workload with threads has no such signals here.
ThreadsHaveProcess ==
  ~(Deadly /\ Does("clone")) => \A i \in Live(tcb) : tcb[i].tgid \in Live(tcb)

=============================================================================
