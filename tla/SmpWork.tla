------------------------------ MODULE SmpWork ------------------------------
(***************************************************************************)
(* kernel/smp_work.inc: the job ring, the wake-up interrupt and the idle   *)
(* loop of the application processors, driven by smp_spread_stress on the  *)
(* bootstrap processor.                                                    *)
(*                                                                         *)
(* Jobs are numbered by the push that queued them (the code queues the     *)
(* same routine each time).  spin_lock and spin_unlock are the Acquire and *)
(* Release of Mutex, which SpinLock implements.                            *)
(***************************************************************************)
EXTENDS Integers, Sequences

CONSTANTS Aps,             \* application processors
          Bsp, NoCpu,
          SMP_WORK_MAX,
          Want             \* jobs smp_spread_stress is asked for

ASSUME WorkAssumption ==
  /\ Bsp \notin Aps /\ NoCpu \notin Aps \cup {Bsp}
  /\ SMP_WORK_MAX \in Nat \ {0} /\ Want \in Nat

VARIABLES
  holder,                  \* the holder of smp_work_lock (Mutex)
  ring, head, tail, count, \* smp_work_ring/head/tail/count
  jobs_run, aps_idle,
  ipi,                     \* the wake-up vector pending at each local APIC
  iflag,                   \* EFLAGS.IF of each application processor
  pc, eax, ebx,            \* per processor: place, index and job registers
  pushed, start,           \* .sss_pushed, .sss_start
  taken, done              \* history: jobs handed out, jobs finished

Cpus == Aps \cup {Bsp}
Jobs == 1 .. Want
Lock == INSTANCE Mutex WITH Locks <- {"smp_work_lock"}

queueVars == <<ring, head, tail, count>>
ringVars  == <<queueVars, holder, taken>>
countVars == <<jobs_run, aps_idle>>
irqVars   == <<ipi, iflag>>
bspVars   == <<pushed, start>>
vars == <<ringVars, countVars, irqVars, pc, eax, ebx, bspVars, done>>

Index == 0 .. SMP_WORK_MAX - 1

Init ==
  /\ holder = [l \in {"smp_work_lock"} |-> NoCpu]
  /\ ring = [i \in Index |-> 0] /\ head = 0 /\ tail = 0 /\ count = 0
  /\ jobs_run = 0 /\ aps_idle = 0
  /\ ipi = [p \in Aps |-> FALSE] /\ iflag = [p \in Aps |-> FALSE]
  /\ pc = [c \in Cpus |-> IF c = Bsp THEN "base" ELSE "boot"]
  /\ eax = [c \in Cpus |-> 0] /\ ebx = [c \in Cpus |-> 0]
  /\ pushed = 0 /\ start = 0
  /\ taken = <<>> /\ done = {}

Goto(c, p) == pc' = [pc EXCEPT ![c] = p]
Set(reg, c, v) == [reg EXCEPT ![c] = v]

\* "inc eax; cmp eax, SMP_WORK_MAX; jb; xor eax, eax".  Fault: the last slot is
\* never used.
Advance_short(i) == IF i + 2 < SMP_WORK_MAX THEN i + 1 ELSE 0
Advance(i) == IF i + 1 < SMP_WORK_MAX THEN i + 1 ELSE 0

Acquire(c) == Lock!Acquire(c, "smp_work_lock")
Release(c) == Lock!Release(c, "smp_work_lock")

-----------------------------------------------------------------------------
(* The bootstrap processor: smp_spread_stress and smp_work_push *)

\* The baseline is taken before the first push.
Baseline ==
  /\ pc[Bsp] = "base" /\ Goto(Bsp, "push")
  /\ start' = jobs_run /\ pushed' = 0
  /\ UNCHANGED <<ringVars, countVars, irqVars, eax, ebx, done>>

PushNext ==
  /\ pc[Bsp] = "push"
  /\ Goto(Bsp, IF pushed < Want THEN "push_lock" ELSE "wait")
  /\ ebx' = Set(ebx, Bsp, IF pushed < Want THEN pushed + 1 ELSE 0)
  /\ UNCHANGED <<ringVars, countVars, irqVars, eax, bspVars, done>>

PushLock ==
  /\ pc[Bsp] = "push_lock" /\ Acquire(Bsp) /\ Goto(Bsp, "push_test")
  /\ UNCHANGED <<queueVars, taken, countVars, irqVars, eax, ebx, bspVars, done>>

\* "cmp eax, SMP_WORK_MAX; jae".
RingFull(n) == n >= SMP_WORK_MAX

PushTest ==
  /\ pc[Bsp] = "push_test"
  /\ Goto(Bsp, IF RingFull(count) THEN "push_refuse" ELSE "push_put")
  /\ UNCHANGED <<ringVars, countVars, irqVars, eax, ebx, bspVars, done>>

PushPut ==
  /\ pc[Bsp] = "push_put" /\ Goto(Bsp, "push_unlock")
  /\ ring' = [ring EXCEPT ![head] = ebx[Bsp]]
  /\ head' = Advance(head) /\ count' = count + 1
  /\ UNCHANGED <<tail, holder, taken, countVars, irqVars, eax, ebx, bspVars, done>>

PushUnlock ==
  /\ pc[Bsp] = "push_unlock" /\ Release(Bsp) /\ Goto(Bsp, "ipi")
  /\ UNCHANGED <<queueVars, taken, countVars, irqVars, eax, ebx, bspVars, done>>

PushRefuse ==
  /\ pc[Bsp] = "push_refuse" /\ Release(Bsp) /\ Goto(Bsp, "refused")
  /\ UNCHANGED <<queueVars, taken, countVars, irqVars, eax, ebx, bspVars, done>>

\* The ring was full: wait a little, try again.  (smp_work_push_fail, which only
\* counts the refusals for the shell, is left out.)
Refused ==
  /\ pc[Bsp] = "refused" /\ Goto(Bsp, "push")
  /\ UNCHANGED <<ringVars, countVars, irqVars, eax, ebx, bspVars, done>>

\* Processors whose local APIC accepts the interrupt: apic_enable_this runs
\* before smp_ap_idle.  Fault: only halted processors are poked.
Poked_halted == {p \in Aps : pc[p] = "hlt"}
Poked == {p \in Aps : pc[p] # "boot"}

\* smp_ipi_all, "all excluding self"; a vector already pending is not queued
\* twice.  The push is counted when it returns.
SendIpi ==
  /\ pc[Bsp] = "ipi" /\ Goto(Bsp, "push")
  /\ ipi' = [p \in Aps |-> ipi[p] \/ p \in Poked]
  /\ pushed' = pushed + 1
  /\ UNCHANGED <<ringVars, countVars, iflag, eax, ebx, start, done>>

\* "cmp [smp_jobs_run], eax; jae".  Fault: the last job is not waited for.
AllRun_early == jobs_run + 1 >= start + pushed
AllRun == jobs_run >= start + pushed

\* Polls until as many jobs have finished as were pushed since the baseline.
Finished ==
  /\ pc[Bsp] = "wait" /\ AllRun
  /\ Goto(Bsp, "out")
  /\ UNCHANGED <<ringVars, countVars, irqVars, eax, ebx, bspVars, done>>

BspStep ==
  \/ Baseline \/ PushNext \/ PushLock \/ PushTest \/ PushPut \/ PushUnlock
  \/ PushRefuse \/ Refused \/ SendIpi \/ Finished

-----------------------------------------------------------------------------
(* An application processor: smp_ap_idle, smp_work_pop and irq_ipi *)

\* The end of smp_ap_main: the processor arrives in the idle loop.
Arrive(p) ==
  /\ pc[p] = "boot" /\ Goto(p, "cli")
  /\ UNCHANGED <<ringVars, countVars, irqVars, eax, ebx, bspVars, done>>

\* The cli at the top of the loop.  Fault: interrupts stay as they are.
IfInLoop_on(p) == TRUE
IfInLoop(p) == FALSE

Cli(p) ==
  /\ pc[p] = "cli" /\ Goto(p, "pop_lock")
  /\ iflag' = [iflag EXCEPT ![p] = IfInLoop(p)]
  /\ ebx' = Set(ebx, p, 0)
  /\ UNCHANGED <<ringVars, countVars, ipi, eax, bspVars, done>>

PopLock(p) ==
  /\ pc[p] = "pop_lock" /\ Acquire(p)
  /\ Goto(p, "pop_read")
  /\ UNCHANGED <<queueVars, taken, countVars, irqVars, eax, ebx, bspVars, done>>

PopRead(p) ==
  /\ pc[p] = "pop_read"
  /\ IF count = 0
       THEN Goto(p, "pop_unlock") /\ UNCHANGED <<eax, ebx>>
       ELSE /\ Goto(p, "pop_take") /\ eax' = Set(eax, p, tail)
            /\ ebx' = Set(ebx, p, ring[tail])
  /\ UNCHANGED <<ringVars, countVars, irqVars, bspVars, done>>

PopTake(p) ==
  /\ pc[p] = "pop_take" /\ Goto(p, "pop_unlock")
  /\ tail' = Advance(eax[p]) /\ count' = count - 1
  /\ taken' = Append(taken, ebx[p])
  /\ eax' = Set(eax, p, 0)
  /\ UNCHANGED <<ring, head, holder, countVars, irqVars, ebx, bspVars, done>>

PopUnlock(p) ==
  /\ pc[p] = "pop_unlock" /\ Release(p) /\ Goto(p, "test")
  /\ UNCHANGED <<queueVars, taken, countVars, irqVars, eax, ebx, bspVars, done>>

\* "test eax, eax; jnz .sai_job": a job is run with interrupts on.
Test(p) ==
  /\ pc[p] = "test"
  /\ IF ebx[p] # 0
       THEN Goto(p, "job") /\ iflag' = [iflag EXCEPT ![p] = TRUE]
       ELSE Goto(p, "idle") /\ UNCHANGED iflag
  /\ UNCHANGED <<ringVars, countVars, ipi, eax, ebx, bspVars, done>>

Job(p) ==
  /\ pc[p] = "job" /\ Goto(p, "finished")
  /\ done' = done \cup {ebx[p]}
  /\ UNCHANGED <<ringVars, countVars, irqVars, eax, ebx, bspVars>>

CountJob(p) ==
  /\ pc[p] = "finished" /\ Goto(p, "cli")
  /\ jobs_run' = jobs_run + 1 /\ ebx' = Set(ebx, p, 0)
  /\ UNCHANGED <<ringVars, aps_idle, irqVars, eax, bspVars, done>>

Idle(p) ==
  /\ pc[p] = "idle" /\ Goto(p, "sti_hlt")
  /\ aps_idle' = aps_idle + 1
  /\ UNCHANGED <<ringVars, jobs_run, irqVars, eax, ebx, bspVars, done>>

\* sti; hlt: "STI inhibits delivery for exactly one instruction".
StiHlt(p) ==
  /\ pc[p] = "sti_hlt" /\ Goto(p, "hlt")
  /\ iflag' = [iflag EXCEPT ![p] = TRUE]
  /\ UNCHANGED <<ringVars, countVars, ipi, eax, ebx, bspVars, done>>

Woken(p) ==
  /\ pc[p] = "woken" /\ Goto(p, "cli")
  /\ aps_idle' = aps_idle - 1
  /\ UNCHANGED <<ringVars, jobs_run, irqVars, eax, ebx, bspVars, done>>

\* irq_ipi does nothing; a halted processor goes on after its hlt.
TakeIpi(p) ==
  /\ ipi[p] /\ iflag[p]
  /\ ipi' = [ipi EXCEPT ![p] = FALSE]
  /\ Goto(p, IF pc[p] = "hlt" THEN "woken" ELSE pc[p])
  /\ UNCHANGED <<ringVars, countVars, iflag, eax, ebx, bspVars, done>>

ApStep(p) ==
  \/ Cli(p) \/ PopLock(p) \/ PopRead(p) \/ PopTake(p) \/ PopUnlock(p)
  \/ Test(p) \/ Job(p) \/ CountJob(p) \/ Idle(p) \/ StiHlt(p) \/ Woken(p)

-----------------------------------------------------------------------------
(* Properties *)

\* smp_ap_idle's comment: an interrupt arriving between the empty check and the
\* halt is not lost.  A halted processor with work queued has its wake-up
\* pending, or the pusher has yet to send it.
NoLostWakeup ==
  \A p \in Aps :
    pc[p] = "hlt" /\ ~ipi[p] /\ count > 0 => pc[Bsp] \in {"push_unlock", "ipi"}

\* smp_spread_stress returns only when every job it queued has been run, and
\* smp_jobs_run has counted each of them once.
StressAccounts ==
  pc[Bsp] = "out" => done = 1 .. pushed /\ pushed = Want /\ jobs_run = start + Want

\* The ring implements a bounded first-in first-out queue whatever the
\* interleaving of push and pop: no job is lost, run twice or reordered.  Its i-th
\* job lies i - 1 slots behind tail, round the ring's end.
At(i) == IF tail + i - 1 < SMP_WORK_MAX THEN tail + i - 1 ELSE tail + i - 1 - SMP_WORK_MAX
Waiting == [i \in 1 .. count |-> ring[At(i)]]
Abstract == INSTANCE JobQueue WITH Capacity <- SMP_WORK_MAX, queue <- Waiting
QueueRefined == Abstract!Spec

=============================================================================
