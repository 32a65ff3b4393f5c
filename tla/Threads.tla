------------------------------ MODULE Threads ------------------------------
(***************************************************************************)
(* c/rt/thread.c over the thread calls of kernel/sched.inc: one process    *)
(* whose threads create, join, detach and cancel each other.               *)
(*                                                                         *)
(* A system call is one step (the kernel is not preempted); between two    *)
(* calls, and between two accesses to the unlocked table `stacks', another *)
(* thread may run.  A thread's id is its task slot.  Each thread has a     *)
(* number of its own, the value its function returns unless it is told to  *)
(* return -1; scheduling order and priorities are left open.               *)
(***************************************************************************)
EXTENDS Integers, FiniteSets, FiniteSetsExt

CONSTANTS MAX_TASKS,
          MV_THREAD_MAX_JOINABLE,
          Areas,            \* stacks the process's mapping records have room for
          MaxCreates,       \* calls of mv_thread_create followed
          Callers,          \* the task slots whose threads create, join and detach
          Returned          \* what thread functions return: "number", "negative"

Slots == 1 .. MAX_TASKS - 1
Main == 1                   \* the leader: main()
None == 0
Entries == 1 .. MV_THREAD_MAX_JOINABLE
Stacks == 1 .. Areas
CANCELED == 1000            \* MV_THREAD_CANCELED

ASSUME ThreadsAssumption ==
  /\ MAX_TASKS \in Nat \ {0, 1} /\ MV_THREAD_MAX_JOINABLE \in Nat /\ Areas \in Nat
  /\ MaxCreates \in 0 .. CANCELED - 1 /\ Callers \subseteq Slots
  /\ Returned \subseteq {"number", "negative"}

VARIABLES
  tcb,        \* the task table: state, flags, status, what it waits for
  stacks,     \* thread.c's table
  mapped,     \* the stack mappings of the process: the number of the thread each is for
  frame,      \* each thread's place in thread.c and its locals
  handles,    \* the ids main and the others hold: created, not yet joined or detached
  creates,    \* calls of mv_thread_create so far
  joins       \* history: the joins that returned

vars == <<tcb, stacks, mapped, frame, handles, creates, joins>>

NoTask == [state |-> "FREE", detached |-> FALSE, cancel |-> FALSE, code |-> 0, wait |-> None,
           eax |-> 0, stack |-> None, number |-> 0]
AtRest == [pc |-> "run", stack |-> None, tid |-> None, entry |-> None, number |-> 0, kept |-> FALSE,
           status |-> 0]
NoEntry == [id |-> 0, stack |-> None]

Init ==
  /\ tcb = [i \in Slots |-> IF i = Main THEN [NoTask EXCEPT !.state = "LIVE"] ELSE NoTask]
  /\ stacks = [e \in Entries |-> NoEntry] /\ mapped = [s \in Stacks |-> 0]
  /\ frame = [i \in Slots |-> AtRest] /\ handles = {} /\ creates = 0 /\ joins = {}

In(s) == {i \in Slots : tcb[i].state = s}
Runs(t, pc) == tcb[t].state = "LIVE" /\ frame[t].pc = pc
Calls(t) == t \in Callers /\ Runs(t, "run")
Goto(t, pc) == frame' = [frame EXCEPT ![t].pc = pc]
Rest(t) == frame' = [frame EXCEPT ![t] = AtRest]

-----------------------------------------------------------------------------
(* mv_thread_create *)

\* SYS_MMAP, the lowest free stack; without one the call answers -1.
Create(t) ==
  /\ Calls(t) /\ creates < MaxCreates /\ creates' = creates + 1
  /\ LET free == {s \in Stacks : mapped[s] = 0} IN
       IF free = {} THEN UNCHANGED <<mapped, frame>>
       ELSE /\ mapped' = [mapped EXCEPT ![Min(free)] = creates']
            /\ frame' = [frame EXCEPT ![t].pc = "clone", ![t].stack = Min(free), ![t].number = creates']
  /\ UNCHANGED <<tcb, stacks, handles, joins>>

\* SYS_CLONE: the first FREE slot, a joinable and uncancelled thread.
Clone(t) ==
  /\ Runs(t, "clone") /\ In("FREE") # {}
  /\ LET i == Min(In("FREE")) IN
       /\ tcb' = [tcb EXCEPT ![i] = [NoTask EXCEPT !.state = "LIVE", !.stack = frame[t].stack,
                                                   !.number = frame[t].number]]
       /\ frame' = [frame EXCEPT ![t].pc = "remember", ![t].tid = i, ![i] = AtRest]
  /\ UNCHANGED <<stacks, mapped, handles, creates, joins>>

\* No slot or no page for a kernel stack: the stack is unmapped, the answer is -1.
CloneFails(t) ==
  /\ Runs(t, "clone") /\ mapped' = [mapped EXCEPT ![frame[t].stack] = 0] /\ Rest(t)
  /\ UNCHANGED <<tcb, stacks, handles, creates, joins>>

\* What the caller keeps of a thread: its id and, for the properties, its number and
\* whether its stack was recorded.
Hands(t, kept) ==
  /\ handles' = handles \cup {[id |-> frame[t].tid, number |-> frame[t].number, kept |-> kept]}
  /\ Rest(t)

\* remember_stack: find an entry, store the id, store the stack.  A full table is not
\* an error: "the thread is real and running".
Remember(t) ==
  /\ Runs(t, "remember")
  /\ LET free == {e \in Entries : stacks[e].stack = None} IN
       IF free = {} THEN Hands(t, FALSE)
       ELSE frame' = [frame EXCEPT ![t].pc = "store_id", ![t].entry = Min(free)] /\ UNCHANGED handles
  /\ UNCHANGED <<tcb, stacks, mapped, creates, joins>>

StoreId(t) ==
  /\ Runs(t, "store_id") /\ Goto(t, "store_stack")
  /\ stacks' = [stacks EXCEPT ![frame[t].entry].id = frame[t].tid]
  /\ UNCHANGED <<tcb, mapped, handles, creates, joins>>

StoreStack(t) ==
  /\ Runs(t, "store_stack") /\ Hands(t, TRUE)
  /\ stacks' = [stacks EXCEPT ![frame[t].entry].stack = frame[t].stack]
  /\ UNCHANGED <<tcb, mapped, creates, joins>>

-----------------------------------------------------------------------------
(* mv_thread_join *)

\* What SYS_WAITPID answered: r < 0 is a failure and releases nothing.
Collected(t, h, r) ==
  frame' = [frame EXCEPT ![t] = [AtRest EXCEPT !.pc = IF r < 0 THEN "failed" ELSE "forget", !.tid = h.id,
                                               !.number = h.number, !.kept = h.kept, !.status = r]]

\* Fault: a thread that has already ended is waited for.
Reaps_never(k) == FALSE
Reaps(k) == k.state = "ZOMBIE" /\ ~k.detached

\* SYS_WAITPID by a task of ring 3: a detached thread is refused, a zombie is reaped,
\* for anything else the caller blocks.  A thread is joined once, and not after its
\* slot went to somebody else.
Join(t, h) ==
  /\ Calls(t) /\ h \in handles /\ handles' = handles \ {h} /\ tcb[h.id].number = h.number
  /\ \/ tcb[h.id].detached /\ Collected(t, h, -1) /\ UNCHANGED tcb
     \/ /\ Reaps(tcb[h.id]) /\ Collected(t, h, tcb[h.id].code)
        /\ tcb' = [tcb EXCEPT ![h.id] = NoTask]
     \/ /\ ~tcb[h.id].detached /\ ~Reaps(tcb[h.id])
        /\ tcb' = [tcb EXCEPT ![t].state = "BLOCKED", ![t].wait = h.id]
        /\ frame' = [frame EXCEPT ![t] = [AtRest EXCEPT !.pc = "woken", !.tid = h.id, !.number = h.number,
                                                        !.kept = h.kept]]
  /\ UNCHANGED <<stacks, mapped, creates, joins>>

JoinWoken(t) ==
  /\ Runs(t, "woken")
  /\ Collected(t, [id |-> frame[t].tid, number |-> frame[t].number, kept |-> frame[t].kept], tcb[t].eax)
  /\ tcb' = [tcb EXCEPT ![t].eax = 0]
  /\ UNCHANGED <<stacks, mapped, handles, creates, joins>>

Ends(t, answer) ==
  joins' = joins \cup {[number |-> frame[t].number, kept |-> frame[t].kept, answer |-> answer,
                        status |-> frame[t].status]}

\* forget_stack.  Fault: the last entry is not looked at.
Found_short(id) ==
  {e \in Entries : e < MV_THREAD_MAX_JOINABLE /\ stacks[e].stack # None /\ stacks[e].id = id}
Holds(e, id) == stacks[e].stack # None /\ stacks[e].id = id
Found(id) == {e \in Entries : Holds(e, id)}
Forgotten(id) == IF Found(id) = {} THEN stacks ELSE [stacks EXCEPT ![Min(Found(id))] = NoEntry]

Forget(t) ==
  /\ Runs(t, "forget") /\ stacks' = Forgotten(frame[t].tid)
  /\ IF Found(frame[t].tid) = {} THEN Rest(t) /\ Ends(t, 0)
     ELSE /\ frame' = [frame EXCEPT ![t].pc = "unmap", ![t].stack = stacks[Min(Found(frame[t].tid))].stack]
          /\ UNCHANGED joins
  /\ UNCHANGED <<tcb, mapped, handles, creates>>

Unmap(t) ==
  /\ Runs(t, "unmap") /\ mapped' = [mapped EXCEPT ![frame[t].stack] = 0] /\ Rest(t) /\ Ends(t, 0)
  /\ UNCHANGED <<tcb, stacks, handles, creates>>

JoinFails(t) ==
  /\ Runs(t, "failed") /\ Rest(t) /\ Ends(t, -1)
  /\ UNCHANGED <<tcb, stacks, mapped, handles, creates>>

-----------------------------------------------------------------------------
(* mv_thread_detach, mv_thread_cancel *)

\* sched_find_thread: a live thread of the process that is not its leader.
IsThread(id) == id # Main /\ tcb[id].state \in {"LIVE", "BLOCKED"}

\* SYS_THREAD_DETACH, then the entry is forgotten; -1 changes nothing.
Detach(t, h) ==
  /\ Calls(t) /\ h \in handles /\ IsThread(h.id) /\ tcb[h.id].number = h.number
  /\ tcb' = [tcb EXCEPT ![h.id].detached = TRUE]
  /\ frame' = [frame EXCEPT ![t].pc = "detached", ![t].tid = h.id]
  /\ UNCHANGED <<stacks, mapped, handles, creates, joins>>

Detached(t) ==
  /\ Runs(t, "detached") /\ stacks' = Forgotten(frame[t].tid) /\ Rest(t)
  /\ UNCHANGED <<tcb, mapped, handles, creates, joins>>

\* SYS_THREAD_CANCEL leaves a request.
Cancel(t, h) ==
  /\ Calls(t) /\ h \in handles /\ IsThread(h.id) /\ tcb[h.id].number = h.number
  /\ tcb' = [tcb EXCEPT ![h.id].cancel = TRUE]
  /\ UNCHANGED <<stacks, mapped, frame, handles, creates, joins>>

-----------------------------------------------------------------------------
(* How a thread ends *)

\* Fault: whoever waits for any thread is woken.
Awaits_any(j, i) == tcb[j].state = "BLOCKED"
Awaits(j, i) == tcb[j].state = "BLOCKED" /\ tcb[j].wait = i

\* sched_exit_thread: a zombie that keeps the status; whoever waits for it is made
\* ready with the status in EAX.
Exited(i, code) ==
  [j \in Slots |->
     IF j = i THEN [tcb[i] EXCEPT !.state = "ZOMBIE", !.code = code, !.cancel = FALSE]
     ELSE IF Awaits(j, i)
       THEN [tcb[j] EXCEPT !.state = "LIVE", !.wait = None, !.eax = code] ELSE tcb[j]]

\* The function returns to mv_thread_exit_thunk, or calls mv_thread_exit.
ThreadReturns(t) ==
  /\ t # Main /\ Runs(t, "run")
  /\ \E r \in Returned : tcb' = Exited(t, IF r = "number" THEN tcb[t].number ELSE -1)
  /\ UNCHANGED <<stacks, mapped, frame, handles, creates, joins>>

\* mv_thread_testcancel: SYS_TESTCANCEL clears the request, mv_thread_exit follows.
TestCancel(t) ==
  /\ t # Main /\ Runs(t, "run") /\ tcb[t].cancel
  /\ tcb' = [tcb EXCEPT ![t].cancel = FALSE] /\ Goto(t, "canceled")
  /\ UNCHANGED <<stacks, mapped, handles, creates, joins>>

CanceledExit(t) ==
  /\ Runs(t, "canceled") /\ tcb' = Exited(t, CANCELED) /\ Rest(t)
  /\ UNCHANGED <<stacks, mapped, handles, creates, joins>>

-----------------------------------------------------------------------------
(* Other programs take task slots: sched_create_task also recycles the slot of a
   detached zombie, sys_clone does not. *)

Launch ==
  /\ LET free == In("FREE") \cup {i \in In("ZOMBIE") : tcb[i].detached} IN
       /\ free # {}
       /\ tcb' = [tcb EXCEPT ![Min(free)] = [NoTask EXCEPT !.state = "OTHER"]]
  /\ UNCHANGED <<stacks, mapped, frame, handles, creates, joins>>

Leave(i) ==
  /\ tcb[i].state = "OTHER" /\ tcb' = [tcb EXCEPT ![i] = NoTask]
  /\ UNCHANGED <<stacks, mapped, frame, handles, creates, joins>>

Goes(t) ==
  \/ Clone(t) \/ CloneFails(t) \/ Remember(t) \/ StoreId(t) \/ StoreStack(t)
  \/ JoinWoken(t) \/ Forget(t) \/ Unmap(t) \/ JoinFails(t) \/ Detached(t) \/ CanceledExit(t)
Next ==
  \/ \E t \in Slots :
       \/ Goes(t) \/ Create(t) \/ ThreadReturns(t) \/ TestCancel(t)
       \/ \E h \in handles : Join(t, h) \/ Detach(t, h) \/ Cancel(t, h)
  \/ Launch
  \/ \E i \in Slots : Leave(i)

Spec == Init /\ [][Next]_vars

\* A thread inside thread.c goes on, and thread functions return: the scheduler runs
\* every ready task.
LiveSpec ==
  Spec /\ \A t \in Slots : WF_vars(Goes(t)) /\ WF_vars(ThreadReturns(t))

-----------------------------------------------------------------------------
(* Properties *)

Alive == {i \in Slots : tcb[i].state \in {"LIVE", "BLOCKED"}} \ {Main}

\* thread.c:107-139, thread.h:51-55: whatever ends, is joined, detached or given a used
\* slot, a thread that can still run stands on a mapping of its own, and a join that
\* answers 0 hands over the value this thread ended with (its number, or
\* MV_THREAD_CANCELED), never one left in a slot by another.
ThreadsStand ==
  /\ \A i \in Alive : mapped[tcb[i].stack] = tcb[i].number
  /\ \A j \in joins : j.answer = 0 => j.status \in {j.number, CANCELED}

\* thread.h:53, a join "releases the thread's stack": after every join that answered 0
\* the thread's stack is unmapped, if it was recorded and as long as no join has
\* answered -1 (one that did has left its entry behind).
StacksReleased ==
  (\A j \in joins : j.answer = 0) =>
    \A j \in joins : j.kept => \A s \in Stacks : mapped[s] # j.number

\* thread.c:128: a join returns, however the end of the thread, the cancellation and
\* the reuse of slots fall around the wait.
JoinReturns == \A t \in Callers : (frame[t].pc = "woken") ~> (frame[t].pc = "run")

=============================================================================
