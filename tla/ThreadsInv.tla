----------------------------- MODULE ThreadsInv -----------------------------
(***************************************************************************)
(* The inductive invariant of Threads while one thread creates, joins and  *)
(* detaches the others, and what keeps it: first the steps of the other    *)
(* threads and of other programs, then each change a step of main() makes, *)
(* stated by its effect.                                                   *)
(***************************************************************************)
EXTENDS Threads, NaturalsInduction, WellFoundedInduction, TLAPS

\* The slots other than main()'s, main()'s own place in the library, and the places.
Workers == Slots \ {Main}
me == frame[Main]
Creating == {"clone", "remember", "store_id", "store_stack"}
Places == {"run", "canceled", "woken", "forget", "unmap", "failed", "detached"} \cup Creating
Task == [state : {"FREE", "LIVE", "BLOCKED", "ZOMBIE", "OTHER"}, detached : BOOLEAN, cancel : BOOLEAN,
         code : Int, wait : Slots \cup {None}, eax : Int, stack : Stacks \cup {None}, number : Nat]
Frame == [pc : Places, stack : Stacks \cup {None}, tid : Slots \cup {None}, entry : Entries \cup {None},
          number : Nat, kept : BOOLEAN, status : Int]

Types ==
  /\ tcb \in [Slots -> Task] /\ frame \in [Slots -> Frame]
  /\ stacks \in [Entries -> [id : Slots \cup {0}, stack : Stacks \cup {None}]]
  /\ creates \in 0 .. MaxCreates /\ mapped \in [Stacks -> 0 .. creates]
  /\ handles \subseteq [id : Workers, number : 1 .. creates, kept : BOOLEAN]
  /\ joins \subseteq [number : 1 .. creates, kept : BOOLEAN, answer : {0, -1}, status : Int]

\* i runs.
Live(i) == tcb[i].state = "LIVE"
Codes(n) == {n, CANCELED, -1}
Kept(e) == stacks[e].stack # None

\* A thread other than main() is outside the library, never blocked, and stands on the
\* mapping made for it; a zombie's code is its own.
WorkerInv ==
  \A i \in Workers :
    /\ frame[i].pc \in {"run", "canceled"} /\ tcb[i].state # "BLOCKED"
    /\ tcb[i].state \in {"FREE", "OTHER"} => tcb[i].number = 0 /\ ~tcb[i].detached
    /\ tcb[i].state \in {"LIVE", "ZOMBIE"} => tcb[i].number \in 1 .. creates
    /\ Live(i) => tcb[i].stack \in Stacks /\ mapped[tcb[i].stack] = tcb[i].number
    /\ tcb[i].state = "ZOMBIE" => tcb[i].code \in Codes(tcb[i].number)

\* main() blocks in a join only.
MainInv ==
  /\ tcb[Main].number = 0 /\ tcb[Main].state \in {"LIVE", "BLOCKED"} /\ me.pc # "canceled"
  /\ tcb[Main].state = "BLOCKED" => me.pc = "woken"

\* A recorded stack is mapped, and nobody but the recorded thread stands on it.
EntryInv ==
  \A e \in Entries : Kept(e) =>
    /\ mapped[stacks[e].stack] # 0
    /\ \A i \in Workers : Live(i) /\ tcb[i].stack = stacks[e].stack => i = stacks[e].id
    /\ \A f \in Entries : stacks[f].stack = stacks[e].stack => f = e

\* From mv_thread_create's mmap to the return: the new mapping belongs to the new thread,
\* and no entry has it yet.
CreateInv ==
  me.pc \in Creating =>
    /\ me.stack \in Stacks /\ mapped[me.stack] = me.number /\ me.number = creates /\ creates # 0
    /\ \A e \in Entries : stacks[e].stack # me.stack
    /\ \A h \in handles : h.number # creates
    /\ me.pc = "clone" => \A i \in Workers : tcb[i].number # creates /\ ~(Live(i) /\ tcb[i].stack = me.stack)
    /\ me.pc # "clone" =>
         /\ me.tid \in Workers /\ tcb[me.tid].number = creates /\ ~tcb[me.tid].detached
         /\ \A i \in Workers : Live(i) /\ tcb[i].stack = me.stack => i = me.tid
    /\ me.pc \in {"store_id", "store_stack"} => me.entry \in Entries /\ ~Kept(me.entry)
    /\ me.pc = "store_stack" => stacks[me.entry].id = me.tid

\* From mv_thread_join's wait to the return: the thread waited for is the one that was
\* given, and once collected nobody stands on what it left.
JoinInv ==
  /\ me.pc \in {"woken", "forget", "unmap", "failed"} => me.number \in 1 .. creates
  /\ me.pc = "woken" =>
       /\ me.tid \in Workers /\ tcb[me.tid].number = me.number /\ ~tcb[me.tid].detached
       /\ tcb[Main].state = "BLOCKED" => tcb[Main].wait = me.tid /\ Live(me.tid)
       /\ tcb[Main].state = "LIVE" => tcb[Main].eax \in Codes(me.number) /\ ~Live(me.tid)
  /\ me.pc \in {"forget", "unmap"} => me.status \in {me.number, CANCELED}
  /\ me.pc = "forget" => me.tid \in Workers /\ tcb[me.tid].number \in {0, me.number} /\ ~Live(me.tid)
  /\ me.pc = "unmap" =>
       /\ me.stack \in Stacks /\ \A e \in Entries : stacks[e].stack # me.stack
       /\ \A i \in Workers : ~(Live(i) /\ tcb[i].stack = me.stack)
  /\ me.pc = "detached" => me.tid \in Workers /\ (tcb[me.tid].detached \/ tcb[me.tid].number = 0)
  /\ me.pc \in {"woken", "forget"} => \A h \in handles : h.number # me.number
  /\ \A j \in joins : j.answer = 0 => j.status \in {j.number, CANCELED}

\* A number is that of one task, one mapping and one handle.
UniqueTask == \A i, j \in Workers : tcb[i].number = tcb[j].number /\ tcb[i].number # 0 => i = j
UniqueMap == \A s, r \in Stacks : mapped[s] = mapped[r] /\ mapped[s] # 0 => s = r
UniqueHandle == \A h, g \in handles : h.number = g.number => h = g
Unique == UniqueTask /\ UniqueMap /\ UniqueHandle

\* No join has answered -1 or is about to.
NoFail == me.pc # "failed" /\ \A j \in joins : j.answer = 0
Recorded(i, n) == \E e \in Entries : Holds(e, i) /\ mapped[stacks[e].stack] = n

\* While no join has failed: an entry for each thread that was recorded, and no other.
Single == \A e, f \in Entries : Kept(e) /\ Kept(f) /\ stacks[e].id = stacks[f].id => e = f
Owns(e) ==
  \/ tcb[stacks[e].id].number = mapped[stacks[e].stack] /\ ~tcb[stacks[e].id].detached
  \/ me.pc \in {"forget", "detached"} /\ me.tid = stacks[e].id
Owned == \A e \in Entries : Kept(e) => stacks[e].id \in Workers /\ Owns(e)
Joinable == \A h \in handles : h.kept /\ tcb[h.id].number = h.number /\ ~tcb[h.id].detached => Recorded(h.id, h.number)
Joining ==
  /\ me.pc \in {"woken", "forget"} /\ me.kept => Recorded(me.tid, me.number)
  /\ me.pc = "unmap" /\ me.kept => mapped[me.stack] = me.number
Joined == \A j \in joins : j.kept => \A s \in Stacks : mapped[s] # j.number

\* Once a join has failed its entry stays, and may later be taken for another thread's.
RecordInv == NoFail => Single /\ Owned /\ Joinable /\ Joining /\ Joined

IInv == Types /\ WorkerInv /\ MainInv /\ EntryInv /\ CreateInv /\ JoinInv /\ Unique /\ RecordInv

\* main() alone creates, joins and detaches: the table of stacks has no lock.
OneCaller == Callers \subseteq {Main}

-----------------------------------------------------------------------------
(* Slots, minima, records *)

\* The slots are numbers, and main() has one.
LEMMA Constants ==
  /\ Slots \subseteq Nat /\ Stacks \subseteq Nat /\ Entries \subseteq Nat
  /\ Main \in Slots /\ None \notin Slots /\ None \notin Stacks /\ None \notin Entries /\ Workers \subseteq Slots
BY ThreadsAssumption DEF Slots, Stacks, Entries, Main, None, Workers

\* A set of naturals has a least member.
LEMMA MinIn ==
  ASSUME NEW S \in SUBSET Nat, S # {}
  PROVE  Min(S) \in S
<1>1. PICK x \in S : \A y \in S : ~(<<y, x>> \in OpToRel(<, Nat))
  BY NatLessThanWellFounded, WFMin, ZenonT(60)
<1>2. \A y \in S : ~(y < x)
  BY <1>1, ZenonT(60) DEF OpToRel
<1>3. \A y \in S : x <= y
  BY <1>2
<1> QED  BY <1>3, Zenon DEF Min

\* A thread's control block at its start.
New(s, n) == [NoTask EXCEPT !.state = "LIVE", !.stack = s, !.number = n]

\* The values that clear a record.
LEMMA Zeros == 0 \in Nat /\ 0 \in Int /\ None \in Slots \cup {None} /\ None \in Stacks \cup {None}
OBVIOUS

\* The fields of a free slot.
LEMMA NoTaskIs ==
  /\ NoTask \in Task /\ NoTask.state = "FREE" /\ NoTask.number = 0 /\ NoTask.detached = FALSE
BY Zeros, ZenonT(60) DEF NoTask, Task

\* Another program in a slot.
Other == [NoTask EXCEPT !.state = "OTHER"]

\* The fields of a slot another program has.
LEMMA OtherIs ==
  /\ Other \in Task /\ Other.state = "OTHER" /\ Other.number = 0 /\ Other.detached = FALSE
BY Zeros, ZenonT(60) DEF Other, NoTask, Task

\* The fields of a thread SYS_CLONE has just made.
LEMMA NewIs ==
  ASSUME NEW s \in Stacks, NEW n \in Nat
  PROVE  /\ New(s, n) \in Task /\ New(s, n).state = "LIVE" /\ New(s, n).stack = s /\ New(s, n).number = n
         /\ New(s, n).detached = FALSE
BY Zeros, ZenonT(60) DEF New, NoTask, Task

\* The fields of a thread outside the library.
LEMMA AtRestIs ==
  /\ AtRest \in Frame /\ AtRest.pc = "run"
BY Zeros, ZenonT(60) DEF AtRest, Frame, Places

\* What the kernel changes in a control block.
LEMMA TaskDetached ==
  ASSUME NEW k \in Task
  PROVE  LET l == [k EXCEPT !.detached = TRUE]
         IN  /\ l \in Task /\ l.detached = TRUE /\ l.state = k.state /\ l.number = k.number
             /\ l.stack = k.stack /\ l.code = k.code
BY ZenonT(60) DEF Task

\* Setting the request to cancel leaves the rest of the slot.
LEMMA TaskCancel ==
  ASSUME NEW k \in Task, NEW b \in BOOLEAN
  PROVE  LET l == [k EXCEPT !.cancel = b]
         IN  /\ l \in Task /\ l.detached = k.detached /\ l.state = k.state /\ l.number = k.number
             /\ l.stack = k.stack /\ l.code = k.code
BY ZenonT(60) DEF Task

\* A thread that ends leaves its code, its number and its stack.
LEMMA TaskEnds ==
  ASSUME NEW k \in Task, NEW c \in Int
  PROVE  LET l == [k EXCEPT !.state = "ZOMBIE", !.code = c, !.cancel = FALSE]
         IN  /\ l \in Task /\ l.detached = k.detached /\ l.state = "ZOMBIE" /\ l.number = k.number
             /\ l.code = c
BY ZenonT(60) DEF Task

\* A waiter that is woken has the code in its EAX.
LEMMA TaskWoken ==
  ASSUME NEW k \in Task, NEW c \in Int
  PROVE  LET l == [k EXCEPT !.state = "LIVE", !.wait = None, !.eax = c]
         IN  /\ l \in Task /\ l.detached = k.detached /\ l.state = "LIVE" /\ l.number = k.number
             /\ l.eax = c
BY Zeros, ZenonT(60) DEF Task

\* A caller that blocks has the thread it waits for.
LEMMA TaskBlocked ==
  ASSUME NEW k \in Task, NEW i \in Slots
  PROVE  LET l == [k EXCEPT !.state = "BLOCKED", !.wait = i]
         IN  /\ l \in Task /\ l.detached = k.detached /\ l.state = "BLOCKED" /\ l.number = k.number
             /\ l.wait = i
BY ZenonT(60) DEF Task

\* A caller that is answered at once has the code in its EAX.
LEMMA TaskAnswered ==
  ASSUME NEW k \in Task
  PROVE  LET l == [k EXCEPT !.eax = 0]
         IN  /\ l \in Task /\ l.detached = k.detached /\ l.state = k.state /\ l.number = k.number
             /\ l.wait = k.wait
BY Zeros, ZenonT(60) DEF Task

\* What the library changes in its locals.
Maps(f, s, n) == [f EXCEPT !.pc = "clone", !.stack = s, !.number = n]

\* The locals of mv_thread_create after each of its steps:
LEMMA FrameMaps ==
  ASSUME NEW f \in Frame, NEW s \in Stacks, NEW n \in Nat
  PROVE  LET g == Maps(f, s, n)
         IN  g \in Frame /\ g.pc = "clone" /\ g.stack = s /\ g.number = n
BY ZenonT(60) DEF Maps, Frame, Places, Creating

LEMMA FrameClones ==
  ASSUME NEW f \in Frame, NEW i \in Slots
  PROVE  LET g == [f EXCEPT !.pc = "remember", !.tid = i]
         IN  g \in Frame /\ g.pc = "remember" /\ g.tid = i /\ g.stack = f.stack /\ g.number = f.number
BY ZenonT(60) DEF Frame, Places, Creating

Finds(f, e) == [f EXCEPT !.pc = "store_id", !.entry = e]

LEMMA FrameFinds ==
  ASSUME NEW f \in Frame, NEW e \in Entries
  PROVE  LET g == Finds(f, e)
         IN  /\ g \in Frame /\ g.pc = "store_id" /\ g.entry = e /\ g.tid = f.tid /\ g.stack = f.stack
             /\ g.number = f.number
BY ZenonT(60) DEF Finds, Frame, Places, Creating

LEMMA FrameGoes ==
  ASSUME NEW f \in Frame, NEW p \in Places
  PROVE  LET g == [f EXCEPT !.pc = p]
         IN  /\ g \in Frame /\ g.pc = p /\ g.entry = f.entry /\ g.tid = f.tid /\ g.stack = f.stack
             /\ g.number = f.number
BY ZenonT(60) DEF Frame

Unmaps(f, s) == [f EXCEPT !.pc = "unmap", !.stack = s]

\* The locals of mv_thread_join and mv_thread_detach after each of their steps:
LEMMA FrameUnmaps ==
  ASSUME NEW f \in Frame, NEW s \in Stacks
  PROVE  LET g == Unmaps(f, s)
         IN  /\ g \in Frame /\ g.pc = "unmap" /\ g.stack = s /\ g.number = f.number /\ g.kept = f.kept
             /\ g.status = f.status
BY ZenonT(60) DEF Unmaps, Frame, Places, Creating

Detaches(f, i) == [f EXCEPT !.pc = "detached", !.tid = i]

LEMMA FrameDetaches ==
  ASSUME NEW f \in Frame, NEW i \in Slots
  PROVE  LET g == Detaches(f, i)
         IN  g \in Frame /\ g.pc = "detached" /\ g.tid = i
BY ZenonT(60) DEF Detaches, Frame, Places, Creating

Waiting(i, n, b) == [AtRest EXCEPT !.pc = "woken", !.tid = i, !.number = n, !.kept = b]

LEMMA FrameWaits ==
  ASSUME NEW i \in Slots, NEW n \in Nat, NEW b \in BOOLEAN
  PROVE  LET g == Waiting(i, n, b)
         IN  g \in Frame /\ g.pc = "woken" /\ g.tid = i /\ g.number = n /\ g.kept = b
BY Zeros, ZenonT(60) DEF Waiting, AtRest, Frame, Places, Creating

\* The frame after SYS_WAITPID has answered r for handle h.
After(h, r) ==
  [AtRest EXCEPT !.pc = IF r < 0 THEN "failed" ELSE "forget", !.tid = h.id,
                 !.number = h.number, !.kept = h.kept, !.status = r]

LEMMA FrameCollects ==
  ASSUME NEW h, h.id \in Slots, h.number \in Nat, h.kept \in BOOLEAN, NEW r \in Int
  PROVE  LET g == After(h, r)
         IN  /\ g \in Frame /\ g.tid = h.id /\ g.number = h.number /\ g.kept = h.kept /\ g.status = r
             /\ IF r < 0 THEN g.pc = "failed" ELSE g.pc = "forget"
BY Zeros, ZenonT(60) DEF After, AtRest, Frame, Places, Creating

-----------------------------------------------------------------------------
(* Steps of the other threads and programs *)

\* The invariant by its parts.
LEMMA Parts ==
  ASSUME IInv
  PROVE  /\ Types /\ WorkerInv /\ MainInv /\ EntryInv /\ CreateInv /\ JoinInv /\ Unique /\ RecordInv
         /\ \A i \in Slots : tcb[i] \in Task /\ frame[i] \in Frame
BY Zenon DEF IInv, Types

\* Only main() is inside the library.
LEMMA OnlyMain ==
  ASSUME IInv, NEW t \in Slots, frame[t].pc \notin {"run", "canceled"}
  PROVE  t = Main
BY Parts, Zenon DEF WorkerInv, Workers

\* What the invariant reads of a thread's control block, and of main's.
SameTask(i) ==
  /\ tcb'[i].state = tcb[i].state /\ tcb'[i].number = tcb[i].number
  /\ tcb'[i].detached = tcb[i].detached /\ tcb'[i].stack = tcb[i].stack /\ tcb'[i].code = tcb[i].code
SameMain ==
  /\ tcb'[Main].state = tcb[Main].state /\ tcb'[Main].number = tcb[Main].number
  /\ tcb'[Main].wait = tcb[Main].wait /\ tcb'[Main].eax = tcb[Main].eax

\* A step that changes nothing of that.
LEMMA QuietKeeps ==
  ASSUME IInv, Types', UNCHANGED <<stacks, mapped, handles, creates, joins>>, me' = me, SameMain,
         \A i \in Workers : SameTask(i) /\ frame'[i].pc \in {"run", "canceled"}
  PROVE  IInv'
<1>1. /\ WorkerInv /\ MainInv /\ EntryInv /\ CreateInv /\ JoinInv /\ Unique /\ RecordInv
  BY Parts, Zenon
<1>2. WorkerInv'
  BY <1>1, ZenonT(60) DEF WorkerInv, SameTask, Live
<1>3. MainInv'
  BY <1>1, Zenon DEF MainInv, SameMain
<1>4. EntryInv'
  <2>1. \A i \in Workers : Live(i)' = Live(i) /\ tcb'[i].stack = tcb[i].stack
    BY Zenon DEF SameTask, Live
  <2> QED  BY <1>1, <2>1, ZenonT(60) DEF EntryInv, Kept
<1>5. CreateInv'
  BY <1>1, ZenonT(60) DEF CreateInv, Kept, Live, SameTask
<1>6. JoinInv'
  BY <1>1, ZenonT(60) DEF JoinInv, Live, SameTask, SameMain
<1>7. Unique'
  <2>1. \A i \in Workers : tcb'[i].number = tcb[i].number
    BY Zenon DEF SameTask
  <2> QED  BY <1>1, <2>1, ZenonT(60) DEF Unique, UniqueTask, UniqueMap, UniqueHandle
<1>8. RecordInv'
  <2> SUFFICES ASSUME NoFail'
               PROVE  Single' /\ Owned' /\ Joinable' /\ Joining' /\ Joined'
    BY Zenon DEF RecordInv
  <2>1. Single /\ Owned /\ Joinable /\ Joining /\ Joined
    BY <1>1, Zenon DEF RecordInv, NoFail
  <2>2. \A h \in handles : h.id \in Workers
    BY Parts, Zenon DEF Types
  <2>3. \A i \in Workers : tcb'[i].number = tcb[i].number /\ tcb'[i].detached = tcb[i].detached
    BY Zenon DEF SameTask
  <2>4. Single' /\ Joined'
    BY <2>1, Zenon DEF Single, Joined, Kept
  <2>5. Owned'
    BY <2>1, <2>3, Zenon DEF Owned, Owns, Kept
  <2>6. Joinable' /\ Joining'
    BY <2>1, <2>2, <2>3, ZenonT(60) DEF Joinable, Joining, Recorded, Holds
  <2> QED  BY <2>4, <2>5, <2>6, Zenon
<1> QED  BY <1>2, <1>3, <1>4, <1>5, <1>6, <1>7, <1>8, Zenon DEF IInv

\* A step that changes nothing.
LEMMA StutterKeeps ==
  ASSUME IInv, UNCHANGED vars
  PROVE  IInv'
<1>1. Types'
  BY Parts, Zenon DEF Types, vars
<1>2. SameMain /\ me' = me
  BY Zenon DEF SameMain, me, vars
<1>3. \A i \in Workers : SameTask(i) /\ frame'[i].pc \in {"run", "canceled"}
  BY Parts, Zenon DEF SameTask, WorkerInv, vars
<1> QED  BY <1>1, <1>2, <1>3, QuietKeeps, Zenon DEF vars

\* A cancellation request comes or goes.
LEMMA RequestKeeps ==
  ASSUME IInv, NEW i \in Workers, NEW b \in BOOLEAN, tcb' = [tcb EXCEPT ![i].cancel = b],
         frame' = frame \/ frame' = [frame EXCEPT ![i].pc = "canceled"],
         UNCHANGED <<stacks, mapped, handles, creates, joins>>
  PROVE  IInv'
<1> DEFINE l == [tcb[i] EXCEPT !.cancel = b]
           g == [frame[i] EXCEPT !.pc = "canceled"]
<1>1. i \in Slots /\ Main \in Slots /\ i # Main /\ tcb[i] \in Task /\ frame[i] \in Frame
  BY Parts, Constants, Zenon DEF Workers
<1>2. /\ l \in Task /\ l.detached = tcb[i].detached /\ l.state = tcb[i].state /\ l.number = tcb[i].number
      /\ l.stack = tcb[i].stack /\ l.code = tcb[i].code
  BY <1>1, TaskCancel, Zenon
<1>3. g \in Frame /\ g.pc = "canceled"
  <2>1. "canceled" \in Places
    BY Zenon DEF Places
  <2> QED  BY <1>1, <2>1, FrameGoes, Zenon
<1>4. tcb' = [tcb EXCEPT ![i] = l] /\ (frame' = frame \/ frame' = [frame EXCEPT ![i] = g])
  OBVIOUS
<1> HIDE DEF l, g
<1>5. Types'
  BY <1>1, <1>2, <1>3, <1>4, Parts, ZenonT(60) DEF Types
<1>6. SameMain /\ me' = me
  BY <1>1, <1>4, Parts, Zenon DEF SameMain, me, Types
<1>7. \A j \in Workers : SameTask(j) /\ frame'[j].pc \in {"run", "canceled"}
  BY <1>1, <1>2, <1>3, <1>4, Parts, Constants, ZenonT(60) DEF SameTask, WorkerInv, Types
<1> QED  BY <1>5, <1>6, <1>7, QuietKeeps, Zenon

\* A number is not the 0 of a slot that has no thread.
LEMMA Numbers ==
  ASSUME Types
  PROVE  /\ creates \in Nat /\ \A n \in 1 .. creates : n \in Nat /\ n # 0 /\ n # -1 /\ n # CANCELED /\ ~(n < 0)
         /\ ~(CANCELED < 0) /\ -1 < 0 /\ CANCELED \in Int /\ -1 \in Int
<1>1. creates \in 0 .. MaxCreates /\ MaxCreates \in 0 .. CANCELED - 1
  BY ThreadsAssumption, Zenon DEF Types
<1> QED  BY <1>1 DEF CANCELED

\* A slot whose thread ends, or that changes hands while nobody can join what was in it.
Fades(i) ==
  /\ Live(i)' => Live(i) /\ tcb'[i].stack = tcb[i].stack
  /\ \/ tcb'[i].number = tcb[i].number /\ tcb'[i].detached = tcb[i].detached
     \/ /\ tcb'[i].number = 0 /\ ~tcb'[i].detached
        /\ tcb[i].number = 0 \/ tcb[i].detached

\* A thread of number n becomes a zombie or its slot is freed (Fades): the entries,
LEMMA FadesEntries ==
  ASSUME IInv, UNCHANGED <<stacks, mapped, handles, creates, joins>>, me' = me,
         \A i \in Workers : Fades(i)
  PROVE  EntryInv' /\ Unique'
<1>1. EntryInv /\ Unique
  BY Parts, Zenon
<1>2. stacks' = stacks /\ mapped' = mapped /\ handles' = handles
  OBVIOUS
<1>3. EntryInv'
  <2> SUFFICES ASSUME NEW e \in Entries, Kept(e)
               PROVE  /\ mapped[stacks[e].stack] # 0
                      /\ \A i \in Workers : Live(i)' /\ tcb'[i].stack = stacks[e].stack => i = stacks[e].id
                      /\ \A f \in Entries : stacks[f].stack = stacks[e].stack => f = e
    BY <1>2, Zenon DEF EntryInv, Kept
  <2>1. \A i \in Workers : Live(i)' => Live(i) /\ tcb'[i].stack = tcb[i].stack
    BY Zenon DEF Fades
  <2> QED  BY <1>1, <2>1, Zenon DEF EntryInv
<1>4. Unique'
  <2>1. \A i \in Workers : tcb'[i].number = tcb[i].number \/ tcb'[i].number = 0
    BY Zenon DEF Fades
  <2>2. ASSUME NEW i \in Workers, NEW j \in Workers, tcb'[i].number = tcb'[j].number, tcb'[i].number # 0
        PROVE  i = j
    BY <1>1, <2>1, <2>2, Zenon DEF Unique, UniqueTask, UniqueMap, UniqueHandle
  <2> QED  BY <1>1, <1>2, <2>2, Zenon DEF Unique, UniqueTask, UniqueMap, UniqueHandle
<1> QED  BY <1>3, <1>4, Zenon

\* a thread being created,
LEMMA FadesCreate ==
  ASSUME IInv, UNCHANGED <<stacks, mapped, handles, creates, joins>>, me' = me,
         \A i \in Workers : Fades(i)
  PROVE  CreateInv'
<1>1. CreateInv /\ stacks' = stacks /\ mapped' = mapped /\ handles' = handles /\ creates' = creates
  BY Parts, Zenon
<1> SUFFICES ASSUME me.pc \in Creating
             PROVE  CreateInv'
  BY Zenon DEF CreateInv
<1>2. /\ me.stack \in Stacks /\ mapped[me.stack] = me.number /\ me.number = creates /\ creates # 0
      /\ \A e \in Entries : stacks[e].stack # me.stack
      /\ \A h \in handles : h.number # creates
  BY <1>1, Zenon DEF CreateInv
<1>3. me.pc = "clone" => \A i \in Workers : tcb'[i].number # creates /\ ~(Live(i)' /\ tcb'[i].stack = me.stack)
  BY <1>1, <1>2, Zenon DEF CreateInv, Fades
<1>4. me.pc # "clone" =>
        /\ me.tid \in Workers /\ tcb'[me.tid].number = creates /\ ~tcb'[me.tid].detached
        /\ \A i \in Workers : Live(i)' /\ tcb'[i].stack = me.stack => i = me.tid
  <2> SUFFICES ASSUME me.pc # "clone"
               PROVE  /\ me.tid \in Workers /\ tcb'[me.tid].number = creates /\ ~tcb'[me.tid].detached
                      /\ \A i \in Workers : Live(i)' /\ tcb'[i].stack = me.stack => i = me.tid
    BY Zenon
  <2>1. /\ me.tid \in Workers /\ tcb[me.tid].number = creates /\ ~tcb[me.tid].detached
        /\ \A i \in Workers : Live(i) /\ tcb[i].stack = me.stack => i = me.tid
    BY <1>1, Zenon DEF CreateInv
  <2>2. tcb'[me.tid].number = creates /\ ~tcb'[me.tid].detached
    BY <1>2, <2>1, Zenon DEF Fades
  <2>3. \A i \in Workers : Live(i)' => Live(i) /\ tcb'[i].stack = tcb[i].stack
    BY Zenon DEF Fades
  <2> QED  BY <2>1, <2>2, <2>3, Zenon
<1>5. /\ me.pc \in {"store_id", "store_stack"} => me.entry \in Entries /\ ~Kept(me.entry)
      /\ me.pc = "store_stack" => stacks[me.entry].id = me.tid
  BY <1>1, Zenon DEF CreateInv
<1> QED  BY <1>1, <1>2, <1>3, <1>4, <1>5, Zenon DEF CreateInv, Kept

\* the records,
LEMMA FadesRecords ==
  ASSUME IInv, UNCHANGED <<stacks, mapped, handles, creates, joins>>, me' = me,
         \A i \in Workers : Fades(i)
  PROVE  RecordInv'
<1>1. /\ stacks' = stacks /\ mapped' = mapped /\ handles' = handles /\ creates' = creates /\ joins' = joins
      /\ Types /\ EntryInv
  BY Parts, Zenon
<1> SUFFICES ASSUME NoFail'
             PROVE  Single' /\ Owned' /\ Joinable' /\ Joining' /\ Joined'
  BY Zenon DEF RecordInv
<1>2. Single /\ Owned /\ Joinable /\ Joining /\ Joined
  BY <1>1, Parts, Zenon DEF RecordInv, NoFail
<1>3. Single' /\ Joined'
  BY <1>1, <1>2, Zenon DEF Single, Joined, Kept
<1>4. Owned'
  <2> SUFFICES ASSUME NEW e \in Entries, Kept(e)
               PROVE  /\ stacks[e].id \in Workers
                      /\ \/ /\ tcb'[stacks[e].id].number = mapped[stacks[e].stack]
                            /\ ~tcb'[stacks[e].id].detached
                         \/ me.pc \in {"forget", "detached"} /\ me.tid = stacks[e].id
    BY <1>1, Zenon DEF Owned, Owns, Kept
  <2>1. /\ stacks[e].id \in Workers /\ mapped[stacks[e].stack] # 0
        /\ \/ tcb[stacks[e].id].number = mapped[stacks[e].stack] /\ ~tcb[stacks[e].id].detached
           \/ me.pc \in {"forget", "detached"} /\ me.tid = stacks[e].id
    BY <1>1, <1>2, Zenon DEF Owned, Owns, EntryInv
  <2> QED  BY <2>1, Zenon DEF Fades
<1>5. \A i, n : Recorded(i, n)' <=> Recorded(i, n)
  BY <1>1, Zenon DEF Recorded, Holds
<1>6. Joinable'
  <2> SUFFICES ASSUME NEW h \in handles, h.kept, tcb'[h.id].number = h.number, ~tcb'[h.id].detached
               PROVE  Recorded(h.id, h.number)
    BY <1>1, <1>5, Zenon DEF Joinable
  <2>1. h.id \in Workers /\ h.number \in 1 .. creates
    BY <1>1, Zenon DEF Types
  <2>2. h.number # 0
    BY <1>1, <2>1, Numbers, Zenon
  <2>3. tcb[h.id].number = h.number /\ ~tcb[h.id].detached
    BY <2>1, <2>2, Zenon DEF Fades
  <2> QED  BY <1>2, <2>3, Zenon DEF Joinable
<1>7. Joining'
  BY <1>1, <1>2, <1>5, Zenon DEF Joining
<1> QED  BY <1>3, <1>4, <1>6, <1>7, Zenon

\* Main waits for a thread that runs, or has been handed the value of one that does not.
Waits(k, i) ==
  /\ k.state = "BLOCKED" => k.wait = me.tid /\ i.state = "LIVE"
  /\ k.state = "LIVE" => k.eax \in Codes(me.number) /\ i.state # "LIVE"

\* a join under way,
LEMMA FadesJoin ==
  ASSUME IInv, UNCHANGED <<stacks, mapped, handles, creates, joins>>, me' = me,
         \A i \in Workers : Fades(i),
         me.pc = "woken" => Waits(tcb'[Main], tcb'[me.tid])
  PROVE  JoinInv'
<1>1. /\ stacks' = stacks /\ mapped' = mapped /\ handles' = handles /\ creates' = creates /\ joins' = joins
      /\ Types /\ JoinInv
  BY Parts, Zenon
<1>2. me.pc = "woken" =>
        /\ me.tid \in Workers /\ tcb'[me.tid].number = me.number /\ ~tcb'[me.tid].detached
  <2> SUFFICES ASSUME me.pc = "woken"
               PROVE  me.tid \in Workers /\ tcb'[me.tid].number = me.number /\ ~tcb'[me.tid].detached
    BY Zenon
  <2>1. me.tid \in Workers /\ tcb[me.tid].number = me.number /\ ~tcb[me.tid].detached /\ me.number \in 1 .. creates
    BY <1>1, Zenon DEF JoinInv
  <2>2. me.number # 0
    BY <1>1, <2>1, Numbers, Zenon
  <2> QED  BY <2>1, <2>2, Zenon DEF Fades
<1>3. me.pc = "woken" =>
        /\ tcb'[Main].state = "BLOCKED" => tcb'[Main].wait = me.tid /\ tcb'[me.tid].state = "LIVE"
        /\ tcb'[Main].state = "LIVE" => tcb'[Main].eax \in Codes(me.number) /\ tcb'[me.tid].state # "LIVE"
  BY Zenon DEF Waits
<1>4. me.pc = "forget" => me.tid \in Workers /\ tcb'[me.tid].number \in {0, me.number} /\ tcb'[me.tid].state # "LIVE"
  BY <1>1, Zenon DEF JoinInv, Fades, Live
<1>5. me.pc = "unmap" =>
        /\ me.stack \in Stacks /\ \A e \in Entries : stacks[e].stack # me.stack
        /\ \A i \in Workers : ~(Live(i)' /\ tcb'[i].stack = me.stack)
  BY <1>1, Zenon DEF JoinInv, Fades
<1>6. me.pc = "detached" => me.tid \in Workers /\ (tcb'[me.tid].detached \/ tcb'[me.tid].number = 0)
  BY <1>1, Zenon DEF JoinInv, Fades
<1>7. /\ me.pc \in {"woken", "forget", "unmap", "failed"} => me.number \in 1 .. creates
      /\ me.pc \in {"forget", "unmap"} => me.status \in {me.number, CANCELED}
      /\ me.pc \in {"woken", "forget"} => \A h \in handles : h.number # me.number
      /\ \A j \in joins : j.answer = 0 => j.status \in {j.number, CANCELED}
  BY <1>1, Zenon DEF JoinInv
<1>8. \A i \in Workers : Live(i)' <=> tcb'[i].state = "LIVE"
  BY Zenon DEF Live
<1> QED  BY <1>1, <1>2, <1>3, <1>4, <1>5, <1>6, <1>7, <1>8, ZenonT(60) DEF JoinInv, Live

\* and all of it.
LEMMA FadesKeeps ==
  ASSUME IInv, UNCHANGED <<stacks, mapped, handles, creates, joins>>, me' = me,
         \A i \in Workers : Fades(i),
         me.pc = "woken" => Waits(tcb'[Main], tcb'[me.tid]),
         Types', WorkerInv', MainInv'
  PROVE  IInv'
BY FadesEntries, FadesCreate, FadesRecords, FadesJoin, Zenon DEF IInv

\* A thread ends: sched_exit_thread wakes main if main waits for it.
LEMMA EndsKeeps ==
  ASSUME IInv, NEW i \in Workers, Live(i), NEW c \in Codes(tcb[i].number), tcb' = Exited(i, c),
         frame' = frame \/ frame' = [frame EXCEPT ![i] = AtRest],
         UNCHANGED <<stacks, mapped, handles, creates, joins>>
  PROVE  IInv'
<1> DEFINE l == [tcb[i] EXCEPT !.state = "ZOMBIE", !.code = c, !.cancel = FALSE]
           k == [tcb[Main] EXCEPT !.state = "LIVE", !.wait = None, !.eax = c]
<1>1. /\ i \in Slots /\ Main \in Slots /\ i # Main /\ tcb[i] \in Task /\ tcb[Main] \in Task
      /\ Types /\ WorkerInv /\ MainInv /\ EntryInv /\ CreateInv /\ JoinInv /\ Unique /\ RecordInv
  BY Parts, Constants, Zenon DEF Workers
<1>2. c \in Int
  <2>1. tcb[i].number \in 1 .. creates
    BY <1>1, Zenon DEF WorkerInv, Live
  <2> QED  BY <1>1, <2>1, Numbers DEF Codes
<1>3. /\ l \in Task /\ l.detached = tcb[i].detached /\ l.state = "ZOMBIE" /\ l.number = tcb[i].number
      /\ l.code = c
  BY <1>1, <1>2, TaskEnds, Zenon
<1>4. k \in Task /\ k.state = "LIVE" /\ k.number = tcb[Main].number /\ k.eax = c
  BY <1>1, <1>2, TaskWoken, Zenon
<1>5. /\ tcb'[i] = l
      /\ tcb'[Main] = IF Awaits(Main, i) THEN k ELSE tcb[Main]
      /\ \A j \in Workers : j # i => tcb'[j] = tcb[j]
  BY <1>1, Constants, Zenon DEF Exited, WorkerInv, Awaits, Workers
<1>6. tcb' \in [Slots -> Task]
  <2>1. \A j \in Slots : j \in Workers \/ j = Main
    BY Zenon DEF Workers
  <2>2. \A j \in Slots : tcb'[j] \in Task
    BY <1>1, <1>3, <1>4, <1>5, <2>1, Parts, Zenon
  <2>3. DOMAIN tcb' = Slots /\ tcb' = [j \in Slots |-> tcb'[j]]
    BY Zenon DEF Exited
  <2> QED  BY <2>2, <2>3, Zenon
<1> HIDE DEF l, k
<1>7. frame' \in [Slots -> Frame] /\ me' = me /\ \A j \in Workers : frame'[j].pc \in {"run", "canceled"}
  BY <1>1, AtRestIs, Constants, ZenonT(60) DEF me, WorkerInv, Types
<1>8. Types'
  BY <1>1, <1>6, <1>7, Zenon DEF Types
<1>9. \A j \in Workers :
        /\ tcb'[j].number = tcb[j].number /\ tcb'[j].detached = tcb[j].detached
        /\ Live(j)' => Live(j) /\ tcb'[j].stack = tcb[j].stack
  BY <1>3, <1>5, Zenon DEF Live
<1>10. WorkerInv'
  <2>1. tcb[i].number \in 1 .. creates
    BY <1>1, Zenon DEF WorkerInv, Live
  <2> QED  BY <1>1, <1>3, <1>5, <1>7, <2>1 DEF WorkerInv, Live
<1>11. MainInv'
  BY <1>1, <1>4, <1>5, <1>7, Zenon DEF MainInv
<1>12. \A j \in Workers : Fades(j)
  <2> SUFFICES ASSUME NEW j \in Workers
               PROVE  Fades(j)
    BY Zenon
  <2>1. tcb'[j].number = tcb[j].number /\ tcb'[j].detached = tcb[j].detached
    BY <1>9, Zenon
  <2>2. Live(j)' => Live(j) /\ tcb'[j].stack = tcb[j].stack
    BY <1>9, Zenon
  <2> QED  BY <2>1, <2>2, Zenon DEF Fades
<1>13. me.pc = "woken" => Waits(tcb'[Main], tcb'[me.tid])
  <2> SUFFICES ASSUME me.pc = "woken"
               PROVE  Waits(tcb'[Main], tcb'[me.tid])
    BY Zenon
  <2>1. /\ me.tid \in Workers /\ tcb[me.tid].number = me.number
        /\ tcb[Main].state = "BLOCKED" => tcb[Main].wait = me.tid /\ tcb[me.tid].state = "LIVE"
        /\ tcb[Main].state = "LIVE" => tcb[Main].eax \in Codes(me.number) /\ tcb[me.tid].state # "LIVE"
    BY <1>1, Zenon DEF JoinInv, Live
  <2>2. CASE Awaits(Main, i)
    <3>1. me.tid = i
      BY <2>1, <2>2, Zenon DEF Awaits
    <3>2. tcb'[Main] = k /\ tcb'[i] = l /\ c \in Codes(me.number)
      BY <1>5, <2>1, <2>2, <3>1, Zenon
    <3> QED  BY <1>3, <1>4, <3>1, <3>2, Zenon DEF Waits
  <2>3. CASE ~Awaits(Main, i)
    <3>1. tcb'[Main] = tcb[Main] /\ me.tid # i
      BY <1>1, <1>5, <2>1, <2>3, Zenon DEF Awaits, MainInv, Live
    <3>2. tcb'[me.tid] = tcb[me.tid]
      BY <1>5, <2>1, <3>1, Zenon
    <3> QED  BY <2>1, <3>1, <3>2, Zenon DEF Waits
  <2> QED  BY <2>2, <2>3, Zenon
<1> QED  BY <1>7, <1>8, <1>10, <1>11, <1>12, <1>13, FadesKeeps, Zenon

\* A thread returns from its function, or exits at a cancellation point.
LEMMA ThreadReturnsKeeps ==
  ASSUME IInv, NEW t \in Slots, ThreadReturns(t) \/ CanceledExit(t)
  PROVE  IInv'
<1>1. t \in Workers /\ Live(t)
  BY Parts, Zenon DEF ThreadReturns, CanceledExit, Runs, Live, Workers, MainInv, me
<1>2. CASE ThreadReturns(t)
  <2>1. PICK r \in Returned : tcb' = Exited(t, IF r = "number" THEN tcb[t].number ELSE -1)
    BY <1>2, Zenon DEF ThreadReturns
  <2>2. (IF r = "number" THEN tcb[t].number ELSE -1) \in Codes(tcb[t].number)
    BY Zenon DEF Codes
  <2> QED  BY <1>1, <1>2, <2>1, <2>2, EndsKeeps, Zenon DEF ThreadReturns
<1>3. CASE CanceledExit(t)
  <2>1. CANCELED \in Codes(tcb[t].number)
    BY Zenon DEF Codes
  <2> QED  BY <1>1, <1>3, <2>1, EndsKeeps, Zenon DEF CanceledExit, Rest
<1> QED  BY <1>2, <1>3, Zenon

\* Another program takes a slot or leaves it.
LEMMA SlotKeeps ==
  ASSUME IInv, NEW i \in Slots, i # Main, NEW k \in {NoTask, Other},
         tcb[i].state \in {"FREE", "OTHER"} \/ (tcb[i].state = "ZOMBIE" /\ tcb[i].detached),
         tcb' = [tcb EXCEPT ![i] = k], UNCHANGED <<stacks, mapped, frame, handles, creates, joins>>
  PROVE  IInv'
<1>1. /\ i \in Workers /\ Main \in Slots
      /\ Types /\ WorkerInv /\ MainInv /\ EntryInv /\ CreateInv /\ JoinInv /\ Unique /\ RecordInv
  BY Parts, Constants, Zenon DEF Workers
<1>2. k \in Task /\ k.state \in {"FREE", "OTHER"} /\ k.number = 0 /\ k.detached = FALSE
  BY NoTaskIs, OtherIs, Zenon
<1>3. tcb'[i] = k /\ tcb'[Main] = tcb[Main] /\ \A j \in Workers : j # i => tcb'[j] = tcb[j]
  BY <1>1, Constants, Zenon DEF Types
<1>4. Types' /\ me' = me
  BY <1>1, <1>2, Zenon DEF Types, me
<1>5. WorkerInv'
  <2> SUFFICES ASSUME NEW j \in Workers
               PROVE  /\ frame[j].pc \in {"run", "canceled"} /\ tcb'[j].state # "BLOCKED"
                      /\ tcb'[j].state \in {"FREE", "OTHER"} => tcb'[j].number = 0 /\ ~tcb'[j].detached
                      /\ tcb'[j].state \in {"LIVE", "ZOMBIE"} => tcb'[j].number \in 1 .. creates
                      /\ Live(j)' => tcb'[j].stack \in Stacks /\ mapped[tcb'[j].stack] = tcb'[j].number
                      /\ tcb'[j].state = "ZOMBIE" => tcb'[j].code \in Codes(tcb'[j].number)
    BY Zenon DEF WorkerInv
  <2>1. CASE j = i
    BY <1>1, <1>2, <1>3, <2>1, Zenon DEF WorkerInv, Live
  <2>2. CASE j # i
    BY <1>1, <1>3, <2>2, ZenonT(60) DEF WorkerInv, Live
  <2> QED  BY <2>1, <2>2, Zenon
<1>6. MainInv'
  BY <1>1, <1>3, <1>4, Zenon DEF MainInv
<1>7. \A j \in Workers : Fades(j)
  <2> SUFFICES ASSUME NEW j \in Workers
               PROVE  Fades(j)
    BY Zenon
  <2>1. CASE j = i
    <3>1. tcb[i].number = 0 \/ tcb[i].detached
      BY <1>1, Zenon DEF WorkerInv
    <3> QED  BY <1>2, <1>3, <2>1, <3>1, Zenon DEF Fades, Live
  <2>2. CASE j # i
    BY <1>3, <2>2, Zenon DEF Fades, Live
  <2> QED  BY <2>1, <2>2, Zenon
<1>8. me.pc = "woken" => Waits(tcb'[Main], tcb'[me.tid])
  <2> SUFFICES ASSUME me.pc = "woken"
               PROVE  Waits(tcb'[Main], tcb'[me.tid])
    BY Zenon
  <2>1. /\ me.tid \in Workers /\ tcb[me.tid].number = me.number /\ ~tcb[me.tid].detached
        /\ tcb[Main].state = "BLOCKED" => tcb[Main].wait = me.tid /\ tcb[me.tid].state = "LIVE"
        /\ tcb[Main].state = "LIVE" => tcb[Main].eax \in Codes(me.number) /\ tcb[me.tid].state # "LIVE"
        /\ me.number \in 1 .. creates
    BY <1>1, Zenon DEF JoinInv, Live
  <2>2. me.tid # i
    <3>1. me.number # 0
      BY <1>1, <2>1, Numbers, Zenon
    <3> QED  BY <1>1, <2>1, <3>1, Zenon DEF WorkerInv
  <2> QED  BY <1>3, <2>1, <2>2, Zenon DEF Waits
<1> QED  BY <1>4, <1>5, <1>6, <1>7, <1>8, FadesKeeps, Zenon

\* Another program takes a slot, and gives it back.
LEMMA LaunchKeeps ==
  ASSUME IInv, Launch
  PROVE  IInv'
<1> DEFINE free == In("FREE") \cup {i \in In("ZOMBIE") : tcb[i].detached}
<1>1. free # {} /\ tcb' = [tcb EXCEPT ![Min(free)] = Other]
      /\ UNCHANGED <<stacks, mapped, frame, handles, creates, joins>>
  BY Zenon DEF Launch, Other
<1>2. free \subseteq Slots /\ free \in SUBSET Nat
  BY Constants, Zenon DEF In
<1>3. Min(free) \in free
  BY <1>1, <1>2, MinIn, Zenon
<1>4. \A i \in free : i # Main /\ (tcb[i].state \in {"FREE", "OTHER"} \/ (tcb[i].state = "ZOMBIE" /\ tcb[i].detached))
  BY Parts, Zenon DEF In, MainInv
<1> HIDE DEF free
<1> QED  BY <1>1, <1>2, <1>3, <1>4, SlotKeeps, Zenon

LEMMA LeaveKeeps ==
  ASSUME IInv, NEW i \in Slots, Leave(i)
  PROVE  IInv'
<1>1. i # Main
  BY Parts, Zenon DEF Leave, MainInv
<1> QED  BY <1>1, SlotKeeps, Zenon DEF Leave

-----------------------------------------------------------------------------
(* Steps of main() *)

\* A place where main is neither joining nor detaching, one where it creates nothing.
LEMMA JoinIdle ==
  ASSUME JoinInv, me'.pc \in {"run"} \cup Creating,
         \A j \in joins' : j.answer = 0 => j.status \in {j.number, CANCELED}
  PROVE  JoinInv'
BY Zenon DEF JoinInv, Creating

\* The clauses about a creation hold of nothing outside one.
LEMMA CreateIdle ==
  ASSUME me'.pc \notin Creating
  PROVE  CreateInv'
BY Zenon DEF CreateInv

\* Main goes on, and no control block changes.
Going ==
  /\ tcb' = tcb /\ frame' \in [Slots -> Frame] /\ \A i \in Workers : Live(i)' <=> Live(i)
  /\ WorkerInv' /\ MainInv'

\* main() moves on inside the library and nobody else does.
LEMMA MainGoes ==
  ASSUME IInv, tcb[Main].state = "LIVE", NEW g \in Frame, g.pc # "canceled",
         frame' = [frame EXCEPT ![Main] = g], UNCHANGED tcb, creates' \in Nat, creates <= creates',
         \A i \in Workers : Live(i) => mapped'[tcb[i].stack] = mapped[tcb[i].stack]
  PROVE  me' = g /\ Going
<1>1. Types /\ WorkerInv /\ MainInv /\ Main \in Slots
  BY Parts, Constants, Zenon
<1>2. me' = g /\ frame' \in [Slots -> Frame] /\ \A i \in Workers : frame'[i] = frame[i]
  BY <1>1, Constants, Zenon DEF Types, me, Workers
<1>3. \A i \in Workers : Live(i)' <=> Live(i)
  BY Zenon DEF Live
<1>4. 1 .. creates \subseteq 1 .. creates'
  BY <1>1, Numbers
<1>5. WorkerInv'
  <2> SUFFICES ASSUME NEW j \in Workers
               PROVE  /\ frame'[j].pc \in {"run", "canceled"} /\ tcb[j].state # "BLOCKED"
                      /\ tcb[j].state \in {"FREE", "OTHER"} => tcb[j].number = 0 /\ ~tcb[j].detached
                      /\ tcb[j].state \in {"LIVE", "ZOMBIE"} => tcb[j].number \in 1 .. creates'
                      /\ Live(j) => tcb[j].stack \in Stacks /\ mapped'[tcb[j].stack] = tcb[j].number
                      /\ tcb[j].state = "ZOMBIE" => tcb[j].code \in Codes(tcb[j].number)
    BY <1>3, Zenon DEF WorkerInv, Codes
  <2> QED  BY <1>1, <1>2, <1>4, Zenon DEF WorkerInv
<1>6. MainInv'
  BY <1>1, <1>2, Zenon DEF MainInv
<1> QED  BY <1>2, <1>3, <1>5, <1>6, Zenon DEF Going

\* What the parts of the invariant need of a step.
LEMMA EntryKept ==
  ASSUME EntryInv, stacks' = stacks,
         \A i \in Workers : Live(i)' => Live(i) /\ tcb'[i].stack = tcb[i].stack,
         \A e \in Entries : Kept(e) => mapped'[stacks[e].stack] = mapped[stacks[e].stack]
  PROVE  EntryInv'
<1> SUFFICES ASSUME NEW e \in Entries, Kept(e)
             PROVE  /\ mapped'[stacks[e].stack] # 0
                    /\ \A i \in Workers : Live(i)' /\ tcb'[i].stack = stacks[e].stack => i = stacks[e].id
                    /\ \A f \in Entries : stacks[f].stack = stacks[e].stack => f = e
  BY Zenon DEF EntryInv, Kept
<1> QED  BY Zenon DEF EntryInv

\* One mapping per number,
LEMMA OneMapped ==
  ASSUME Unique, NEW s \in Stacks, \A x \in Stacks : mapped[x] # mapped'[s],
         \A x \in Stacks : x # s => mapped'[x] = mapped[x]
  PROVE  \A x, y \in Stacks : mapped'[x] = mapped'[y] /\ mapped'[x] # 0 => x = y
<1> SUFFICES ASSUME NEW x \in Stacks, NEW y \in Stacks, mapped'[x] = mapped'[y], mapped'[x] # 0
             PROVE  x = y
  BY Zenon
<1>1. (x = s => y = s) /\ (y = s => x = s)
  BY Zenon
<1>2. CASE x # s /\ y # s
  <2>1. mapped'[x] = mapped[x] /\ mapped'[y] = mapped[y]
    BY <1>2, Zenon
  <2>2. mapped[x] = mapped[y] /\ mapped[x] # 0
    BY <2>1, Zenon
  <2> QED  BY <2>2, Zenon DEF Unique, UniqueTask, UniqueMap, UniqueHandle
<1> QED  BY <1>1, <1>2, Zenon

\* and one task per number.
LEMMA OneNumbered ==
  ASSUME Unique, NEW s \in Workers, \A x \in Workers : tcb[x].number # tcb'[s].number,
         \A x \in Workers : x # s => tcb'[x].number = tcb[x].number
  PROVE  \A x, y \in Workers : tcb'[x].number = tcb'[y].number /\ tcb'[x].number # 0 => x = y
<1> SUFFICES ASSUME NEW x \in Workers, NEW y \in Workers, tcb'[x].number = tcb'[y].number, tcb'[x].number # 0
             PROVE  x = y
  BY Zenon
<1>1. (x = s => y = s) /\ (y = s => x = s)
  BY Zenon
<1>2. CASE x # s /\ y # s
  <2>1. tcb'[x].number = tcb[x].number /\ tcb'[y].number = tcb[y].number
    BY <1>2, Zenon
  <2>2. tcb[x].number = tcb[y].number /\ tcb[x].number # 0
    BY <2>1, Zenon
  <2> QED  BY <2>2, Zenon DEF Unique, UniqueTask, UniqueMap, UniqueHandle
<1> QED  BY <1>1, <1>2, Zenon

\* What is unmapped stays released while no mapping is added for an old number.
LEMMA JoinedKept ==
  ASSUME Joined, joins' = joins, NEW n, \A j \in joins : j.number # n,
         \A s \in Stacks : mapped'[s] = mapped[s] \/ mapped'[s] = n
  PROVE  Joined'
<1> SUFFICES ASSUME NEW j \in joins, j.kept, NEW s \in Stacks
             PROVE  mapped'[s] # j.number
  BY Zenon DEF Joined
<1>1. mapped[s] # j.number /\ j.number # n
  BY Zenon DEF Joined
<1> QED  BY <1>1, Zenon

\* Numbers stay unique while none is given out.
LEMMA UniqueKept ==
  ASSUME Unique, handles' \subseteq handles, \A s \in Stacks : mapped'[s] \in {mapped[s], 0},
         \A i \in Workers : tcb'[i].number \in {tcb[i].number, 0}
  PROVE  Unique'
<1>1. UniqueTask'
  <2> SUFFICES ASSUME NEW i \in Workers, NEW j \in Workers, tcb'[i].number = tcb'[j].number, tcb'[i].number # 0
               PROVE  i = j
    BY Zenon DEF UniqueTask
  <2>1. tcb[i].number = tcb[j].number /\ tcb[i].number # 0
    BY Zenon
  <2> QED  BY <2>1, Zenon DEF Unique, UniqueTask
<1>2. UniqueMap'
  <2> SUFFICES ASSUME NEW s \in Stacks, NEW r \in Stacks, mapped'[s] = mapped'[r], mapped'[s] # 0
               PROVE  s = r
    BY Zenon DEF UniqueMap
  <2>1. mapped[s] = mapped[r] /\ mapped[s] # 0
    BY Zenon
  <2> QED  BY <2>1, Zenon DEF Unique, UniqueMap
<1>3. UniqueHandle'
  BY Zenon DEF Unique, UniqueHandle
<1> QED  BY <1>1, <1>2, <1>3, Zenon DEF Unique

\* A thread stays recorded while the table and the mappings stay.
LEMMA RecordedKept ==
  ASSUME stacks' = stacks, \A e \in Entries : Kept(e) => mapped'[stacks[e].stack] = mapped[stacks[e].stack]
  PROVE  \A i, n : Recorded(i, n) => Recorded(i, n)'
BY Zenon DEF Recorded, Holds, Kept

\* Entries keep their owners while no owner is freed, detached or renumbered.
LEMMA OwnedKept ==
  ASSUME Owned, stacks' = stacks, \A e \in Entries : Kept(e) => mapped'[stacks[e].stack] = mapped[stacks[e].stack],
         \A i \in Workers : tcb'[i].number = tcb[i].number /\ tcb'[i].detached = tcb[i].detached,
         me.pc \notin {"forget", "detached"}
  PROVE  Owned'
<1> SUFFICES ASSUME NEW e \in Entries, Kept(e)
             PROVE  /\ stacks[e].id \in Workers
                    /\ tcb'[stacks[e].id].number = mapped'[stacks[e].stack] /\ ~tcb'[stacks[e].id].detached
  BY Zenon DEF Owned, Owns, Kept
<1>1. /\ stacks[e].id \in Workers
      /\ tcb[stacks[e].id].number = mapped[stacks[e].stack] /\ ~tcb[stacks[e].id].detached
  BY Zenon DEF Owned, Owns
<1> QED  BY <1>1, Zenon

\* mv_thread_create without a stack to map.
LEMMA CreateFailsKeeps ==
  ASSUME IInv, tcb[Main].state = "LIVE", me.pc = "run", creates < MaxCreates, creates' = creates + 1,
         UNCHANGED <<tcb, stacks, mapped, frame, handles, joins>>
  PROVE  IInv'
<1>1. /\ Types /\ WorkerInv /\ MainInv /\ EntryInv /\ CreateInv /\ JoinInv /\ Unique /\ RecordInv
      /\ creates \in Nat
  BY Parts, Numbers, Zenon
<1>2. /\ 1 .. creates \subseteq 1 .. creates' /\ 0 .. creates \subseteq 0 .. creates'
      /\ creates' \in 0 .. MaxCreates
  BY <1>1, ThreadsAssumption
<1>3. Types'
  <2>1. mapped' \in [Stacks -> 0 .. creates']
    BY <1>1, <1>2, Zenon DEF Types
  <2>2. handles' \subseteq [id : Workers, number : 1 .. creates', kept : BOOLEAN]
    BY <1>1, <1>2, Zenon DEF Types
  <2>3. joins' \subseteq [number : 1 .. creates', kept : BOOLEAN, answer : {0, -1}, status : Int]
    BY <1>1, <1>2, Zenon DEF Types
  <2> QED  BY <1>1, <1>2, <2>1, <2>2, <2>3, Zenon DEF Types
<1>4. me' = me /\ \A i \in Workers : Live(i)' <=> Live(i)
  BY Zenon DEF me, Live
<1>5. WorkerInv' /\ MainInv'
  BY <1>1, <1>2, <1>4, Zenon DEF WorkerInv, MainInv, Codes
<1>6. EntryInv' /\ Unique'
  BY <1>1, <1>4, Zenon DEF EntryInv, Unique, UniqueTask, UniqueMap, UniqueHandle, Kept
<1>7. "run" \notin Creating
  BY Zenon DEF Creating
<1>8. CreateInv' /\ JoinInv'
  <2>1. \A j \in joins' : j.answer = 0 => j.status \in {j.number, CANCELED}
    BY <1>1, Zenon DEF JoinInv
  <2> QED  BY <1>1, <1>4, <1>7, <2>1, CreateIdle, JoinIdle, Zenon
<1>9. RecordInv'
  BY <1>1, <1>4, Zenon DEF RecordInv, NoFail, Single, Owned, Owns, Kept, Joinable, Joining, Joined, Recorded, Holds
<1> QED  BY <1>3, <1>5, <1>6, <1>8, <1>9, Zenon DEF IInv

\* mv_thread_create maps a stack that nobody uses.
LEMMA CreateMapsKeeps ==
  ASSUME IInv, tcb[Main].state = "LIVE", me.pc = "run", creates < MaxCreates, creates' = creates + 1,
         NEW s \in Stacks, mapped[s] = 0, mapped' = [mapped EXCEPT ![s] = creates'],
         NEW g \in Frame, g.pc = "clone", g.stack = s, g.number = creates', frame' = [frame EXCEPT ![Main] = g],
         UNCHANGED <<tcb, stacks, handles, joins>>
  PROVE  IInv'
<1>1. /\ Types /\ WorkerInv /\ MainInv /\ EntryInv /\ CreateInv /\ JoinInv /\ Unique /\ RecordInv
      /\ creates \in Nat /\ tcb' = tcb /\ stacks' = stacks /\ handles' = handles /\ joins' = joins
  BY Parts, Numbers, Zenon
<1>2. /\ 1 .. creates \subseteq 1 .. creates' /\ 0 .. creates \subseteq 0 .. creates'
      /\ creates' \in 0 .. MaxCreates /\ creates' \in 0 .. creates' /\ creates' # 0 /\ creates' \in Nat /\ creates <= creates'
      /\ \A n \in 0 .. creates : n # creates'
  BY <1>1, ThreadsAssumption
<1>3. mapped'[s] = creates' /\ \A r \in Stacks : r # s => mapped'[r] = mapped[r]
  BY <1>1, Zenon DEF Types
<1>4. \A i \in Workers : Live(i) => tcb[i].stack # s /\ mapped'[tcb[i].stack] = mapped[tcb[i].stack]
  <2>1. \A i \in Workers : Live(i) => tcb[i].stack \in Stacks /\ mapped[tcb[i].stack] # 0
    BY <1>1, Numbers, Zenon DEF WorkerInv, Live
  <2> QED  BY <1>3, <2>1, Zenon
<1>5. /\ me' = g /\ frame' \in [Slots -> Frame] /\ \A i \in Workers : Live(i)' <=> Live(i)
      /\ WorkerInv' /\ MainInv'
  BY <1>2, <1>4, MainGoes, Zenon DEF Going
<1>6. Types'
  <2>1. mapped' \in [Stacks -> 0 .. creates']
    BY <1>1, <1>2, Zenon DEF Types
  <2>2. handles' \subseteq [id : Workers, number : 1 .. creates', kept : BOOLEAN]
    BY <1>1, <1>2, Zenon DEF Types
  <2>3. joins' \subseteq [number : 1 .. creates', kept : BOOLEAN, answer : {0, -1}, status : Int]
    BY <1>1, <1>2, Zenon DEF Types
  <2> QED  BY <1>1, <1>2, <1>5, <2>1, <2>2, <2>3, Zenon DEF Types
<1>7. \A e \in Entries : stacks[e].stack # s /\ (Kept(e) => mapped'[stacks[e].stack] = mapped[stacks[e].stack])
  <2> SUFFICES ASSUME NEW e \in Entries
               PROVE  stacks[e].stack # s /\ (Kept(e) => mapped'[stacks[e].stack] = mapped[stacks[e].stack])
    BY Zenon
  <2>1. stacks[e].stack \in Stacks \cup {None} /\ None \notin Stacks
    BY <1>1, Constants, Zenon DEF Types
  <2>2. Kept(e) => mapped[stacks[e].stack] # 0
    BY <1>1, Zenon DEF EntryInv
  <2> QED  BY <1>3, <2>1, <2>2, Zenon DEF Kept
<1>8. EntryInv'
  BY <1>1, <1>4, <1>5, <1>7, EntryKept, Zenon
<1>9. Unique'
  <2>1. \A x \in Stacks : mapped[x] # mapped'[s]
    BY <1>1, <1>2, <1>3, Zenon DEF Types
  <2>2. UniqueMap'
    BY <1>1, <1>3, <2>1, OneMapped, Zenon DEF UniqueMap
  <2>3. UniqueTask' /\ UniqueHandle'
    BY <1>1, Zenon DEF Unique, UniqueTask, UniqueHandle
  <2> QED  BY <2>2, <2>3, Zenon DEF Unique
<1>10. CreateInv'
  <2>1. \A h \in handles : h.number # creates'
    <3>1. 1 .. creates \subseteq 0 .. creates
      BY <1>1
    <3> QED  BY <1>1, <1>2, <3>1, Zenon DEF Types
  <2>2. \A i \in Workers : tcb[i].number # creates'
    <3>1. 1 .. creates \subseteq 0 .. creates /\ 0 \in 0 .. creates
      BY <1>1
    <3>2. \A i \in Workers : tcb[i].state \in {"FREE", "OTHER"} \/ tcb[i].state \in {"LIVE", "ZOMBIE"}
      <4>1. \A i \in Workers : tcb[i] \in Task /\ tcb[i].state # "BLOCKED"
        BY <1>1, Parts, Constants, Zenon DEF WorkerInv
      <4> QED  BY <4>1, Zenon DEF Task
    <3> QED  BY <1>1, <1>2, <3>1, <3>2, Zenon DEF WorkerInv
  <2>3. g.pc \notin {"store_id", "store_stack"} /\ g.pc # "store_stack"
    BY Zenon
  <2> QED  BY <1>1, <1>2, <1>3, <1>4, <1>5, <1>7, <2>1, <2>2, <2>3, ZenonT(60) DEF CreateInv
<1>11. JoinInv'
  <2>1. \A j \in joins' : j.answer = 0 => j.status \in {j.number, CANCELED}
    BY <1>1, Zenon DEF JoinInv
  <2>2. me'.pc \in {"run"} \cup Creating
    BY <1>5, Zenon DEF Creating
  <2> QED  BY <1>1, <2>1, <2>2, JoinIdle, Zenon
<1>12. RecordInv'
  <2> SUFFICES ASSUME NoFail'
               PROVE  Single' /\ Owned' /\ Joinable' /\ Joining' /\ Joined'
    BY Zenon DEF RecordInv
  <2>1. Single /\ Owned /\ Joinable /\ Joined
    BY <1>1, Zenon DEF RecordInv, NoFail
  <2>2. Single'
    BY <1>1, <2>1, Zenon DEF Single, Kept
  <2>3. Owned'
    BY <1>1, <1>7, <2>1, ZenonT(60) DEF Owned, Owns, Kept
  <2>4. \A i, n : Recorded(i, n) => Recorded(i, n)'
    BY <1>1, <1>7, Zenon DEF Recorded, Holds, Kept
  <2>5. Joinable' /\ Joining'
    BY <1>1, <1>5, <2>1, <2>4, Zenon DEF Joinable, Joining
  <2>6. Joined'
    <3>1. \A j \in joins : j.number # creates'
      <4>1. 1 .. creates \subseteq 0 .. creates
        BY <1>1
      <4> QED  BY <1>1, <1>2, <4>1, Zenon DEF Types
    <3>2. \A r \in Stacks : mapped'[r] = mapped[r] \/ mapped'[r] = creates'
      BY <1>3, Zenon
    <3> QED  BY <1>1, <2>1, <3>1, <3>2, JoinedKept, Zenon
  <2> QED  BY <2>2, <2>3, <2>5, <2>6, Zenon
<1> QED  BY <1>5, <1>6, <1>8, <1>9, <1>10, <1>11, <1>12, Zenon DEF IInv

\* mv_thread_create gives its stack back, mv_thread_join releases the one it forgot.
LEMMA ReleaseKeeps ==
  ASSUME IInv, tcb[Main].state = "LIVE", me.pc \in {"clone", "unmap"},
         frame' = [frame EXCEPT ![Main] = AtRest], mapped' = [mapped EXCEPT ![me.stack] = 0],
         UNCHANGED <<tcb, stacks, handles, creates>>,
         \/ me.pc = "clone" /\ joins' = joins
         \/ me.pc = "unmap" /\ Ends(Main, 0)
  PROVE  IInv'
<1>1. /\ Types /\ WorkerInv /\ MainInv /\ EntryInv /\ CreateInv /\ JoinInv /\ Unique /\ RecordInv
      /\ creates \in Nat /\ tcb' = tcb /\ stacks' = stacks /\ handles' = handles /\ creates' = creates
  BY Parts, Numbers, Zenon
<1>2. /\ me.stack \in Stacks /\ \A e \in Entries : stacks[e].stack # me.stack
      /\ \A i \in Workers : ~(Live(i) /\ tcb[i].stack = me.stack)
  BY <1>1, Zenon DEF CreateInv, JoinInv, Creating
<1>3. mapped'[me.stack] = 0 /\ \A r \in Stacks : r # me.stack => mapped'[r] = mapped[r]
  BY <1>1, <1>2, Zenon DEF Types
<1>4. /\ \A i \in Workers : Live(i) => mapped'[tcb[i].stack] = mapped[tcb[i].stack]
      /\ \A e \in Entries : Kept(e) => mapped'[stacks[e].stack] = mapped[stacks[e].stack]
  <2>1. \A i \in Workers : Live(i) => tcb[i].stack \in Stacks /\ tcb[i].stack # me.stack
    BY <1>1, <1>2, Zenon DEF WorkerInv
  <2>2. \A e \in Entries : Kept(e) => stacks[e].stack \in Stacks /\ stacks[e].stack # me.stack
    BY <1>1, <1>2, Zenon DEF Types, Kept
  <2> QED  BY <1>3, <2>1, <2>2, Zenon
<1>5. /\ me' = AtRest /\ me'.pc = "run" /\ frame' \in [Slots -> Frame]
      /\ \A i \in Workers : Live(i)' <=> Live(i)
      /\ WorkerInv' /\ MainInv'
  <2>1. creates' \in Nat /\ creates <= creates'
    BY <1>1
  <2>2. "run" # "canceled"
    BY Zenon
  <2> QED  BY <1>4, <2>1, <2>2, AtRestIs, MainGoes, Zenon DEF Going
<1> DEFINE n == [number |-> me.number, kept |-> me.kept, answer |-> 0, status |-> me.status]
<1>6. joins' = joins \/ (joins' = joins \cup {n} /\ me.pc = "unmap")
  BY Zenon DEF Ends, me
<1>7. me.pc = "unmap" => /\ n \in [number : 1 .. creates, kept : BOOLEAN, answer : {0, -1}, status : Int]
                         /\ me.status \in {me.number, CANCELED}
  <2>1. me.kept \in BOOLEAN /\ me.status \in Int
    BY <1>1, Constants, Zenon DEF Types, Frame, me
  <2>2. me.pc = "unmap" => me.number \in 1 .. creates /\ me.status \in {me.number, CANCELED}
    BY <1>1, Zenon DEF JoinInv
  <2> QED  BY <2>1, <2>2, Zenon
<1>8. n.number = me.number /\ n.kept = me.kept /\ n.status = me.status /\ n.answer = 0
  BY Zenon
<1> HIDE DEF n
<1>9. Types'
  <2>1. mapped' \in [Stacks -> 0 .. creates]
    <3>1. 0 \in 0 .. creates
      BY <1>1
    <3> QED  BY <1>1, <3>1, Zenon DEF Types
  <2>2. joins' \subseteq [number : 1 .. creates, kept : BOOLEAN, answer : {0, -1}, status : Int]
    BY <1>1, <1>6, <1>7, Zenon DEF Types
  <2> QED  BY <1>1, <1>5, <2>1, <2>2, Zenon DEF Types
<1>10. EntryInv'
  BY <1>1, <1>4, <1>5, EntryKept, Zenon
<1>11. Unique'
  <2>1. \A s \in Stacks : mapped'[s] \in {mapped[s], 0}
    BY <1>3, Zenon
  <2>2. \A i \in Workers : tcb'[i].number \in {tcb[i].number, 0}
    BY <1>1, Zenon
  <2>3. handles' \subseteq handles
    BY <1>1, Zenon
  <2> QED  BY <1>1, <2>1, <2>2, <2>3, UniqueKept, Zenon
<1>12. CreateInv' /\ JoinInv'
  <2>1. "run" \notin Creating
    BY Zenon DEF Creating
  <2>2. \A j \in joins : j.answer = 0 => j.status \in {j.number, CANCELED}
    BY <1>1, Zenon DEF JoinInv
  <2>3. \A j \in joins' : j.answer = 0 => j.status \in {j.number, CANCELED}
    BY <1>6, <1>7, <1>8, <2>2, Zenon
  <2> QED  BY <1>1, <1>5, <2>1, <2>3, CreateIdle, JoinIdle, Zenon
<1>13. RecordInv'
  <2> SUFFICES ASSUME NoFail'
               PROVE  Single' /\ Owned' /\ Joinable' /\ Joining' /\ Joined'
    BY Zenon DEF RecordInv
  <2>1. Single /\ Owned /\ Joinable /\ Joining /\ Joined
    <3>1. NoFail
      BY <1>6, Zenon DEF NoFail
    <3> QED  BY <1>1, <3>1, Zenon DEF RecordInv
  <2>2. Single'
    BY <1>1, <2>1, Zenon DEF Single, Kept
  <2>3. Owned'
    BY <1>1, <1>4, <2>1, OwnedKept, Zenon
  <2>4. \A i, m : Recorded(i, m) => Recorded(i, m)'
    BY <1>1, <1>4, RecordedKept, Zenon
  <2>5. Joinable' /\ Joining'
    BY <1>1, <1>5, <2>1, <2>4, Zenon DEF Joinable, Joining
  <2>6. \A j \in joins : j.kept => \A s \in Stacks : mapped'[s] # j.number
    <3>1. \A j \in joins : j.number # 0
      BY <1>1, Numbers, Zenon DEF Types
    <3> QED  BY <1>3, <2>1, <3>1, ZenonT(60) DEF Joined
  <2>7. me.pc = "unmap" /\ n.kept => \A s \in Stacks : mapped'[s] # n.number
    <3> SUFFICES ASSUME me.pc = "unmap", me.kept, NEW s \in Stacks
                 PROVE  mapped'[s] # me.number
      BY <1>8, Zenon
    <3>1. mapped[me.stack] = me.number /\ me.number # 0
      BY <1>1, <2>1, Numbers, Zenon DEF Joining, JoinInv
    <3>2. s # me.stack => mapped[s] # me.number
      BY <1>1, <1>2, <3>1, Zenon DEF Unique, UniqueMap
    <3> QED  BY <1>3, <3>1, <3>2, Zenon
  <2>8. Joined'
    BY <1>6, <2>6, <2>7, Zenon DEF Joined
  <2> QED  BY <2>2, <2>3, <2>5, <2>8, Zenon
<1> QED  BY <1>5, <1>9, <1>10, <1>11, <1>12, <1>13, Zenon DEF IInv

\* SYS_CLONE starts the thread in a slot that nobody has.
LEMMA CloneKeeps ==
  ASSUME IInv, me.pc = "clone", NEW i \in Workers, tcb[i].state = "FREE",
         tcb' \in [Slots -> Task], tcb'[i].state = "LIVE", tcb'[i].stack = me.stack, tcb'[i].number = me.number,
         ~tcb'[i].detached, tcb'[Main] = tcb[Main], \A j \in Workers : j # i => tcb'[j] = tcb[j],
         frame' \in [Slots -> Frame], \A j \in Workers : frame'[j].pc \in {"run", "canceled"},
         me'.pc = "remember", me'.tid = i, me'.stack = me.stack, me'.number = me.number,
         stacks' = stacks, mapped' = mapped, handles' = handles, creates' = creates, joins' = joins
  PROVE  IInv'
<1>1. /\ Types /\ WorkerInv /\ MainInv /\ EntryInv /\ CreateInv /\ JoinInv /\ Unique /\ RecordInv
      /\ creates \in Nat
  BY Parts, Numbers, Zenon
<1>2. /\ me.stack \in Stacks /\ mapped[me.stack] = creates /\ me.number = creates /\ creates # 0
      /\ \A e \in Entries : stacks[e].stack # me.stack
      /\ \A h \in handles : h.number # creates
      /\ \A j \in Workers : tcb[j].number # creates /\ ~(Live(j) /\ tcb[j].stack = me.stack)
  BY <1>1, Zenon DEF CreateInv, Creating
<1>3. tcb[i].number = 0 /\ ~tcb[i].detached
  BY <1>1, Zenon DEF WorkerInv
<1>7. Types'
  BY <1>1, Zenon DEF Types
<1>8. \A j \in Workers : Live(j)' => (j = i \/ Live(j))
  BY Zenon DEF Live
<1>9. WorkerInv'
  <2> SUFFICES ASSUME NEW j \in Workers
               PROVE  /\ frame'[j].pc \in {"run", "canceled"} /\ tcb'[j].state # "BLOCKED"
                      /\ tcb'[j].state \in {"FREE", "OTHER"} => tcb'[j].number = 0 /\ ~tcb'[j].detached
                      /\ tcb'[j].state \in {"LIVE", "ZOMBIE"} => tcb'[j].number \in 1 .. creates
                      /\ tcb'[j].state = "LIVE" =>
                           tcb'[j].stack \in Stacks /\ mapped[tcb'[j].stack] = tcb'[j].number
                      /\ tcb'[j].state = "ZOMBIE" => tcb'[j].code \in Codes(tcb'[j].number)
    BY <1>1, Zenon DEF WorkerInv, Live, Codes
  <2>1. CASE j = i
    <3>1. creates \in 1 .. creates
      BY <1>1, <1>2
    <3> QED  BY <1>2, <2>1, <3>1, Zenon
  <2>2. CASE j # i
    BY <1>1, <2>2, ZenonT(60) DEF WorkerInv, Live
  <2> QED  BY <2>1, <2>2, Zenon
<1>10. MainInv'
  BY <1>1, Zenon DEF MainInv
<1>11. EntryInv'
  <2> SUFFICES ASSUME NEW e \in Entries, Kept(e)
               PROVE  /\ mapped[stacks[e].stack] # 0
                      /\ \A j \in Workers : Live(j)' /\ tcb'[j].stack = stacks[e].stack => j = stacks[e].id
                      /\ \A f \in Entries : stacks[f].stack = stacks[e].stack => f = e
    BY <1>1, Zenon DEF EntryInv, Kept
  <2>1. \A j \in Workers : Live(j)' /\ tcb'[j].stack = stacks[e].stack => Live(j) /\ tcb[j].stack = stacks[e].stack
    BY <1>2, <1>8, ZenonT(60)
  <2> QED  BY <1>1, <2>1, Zenon DEF EntryInv
<1>12. CreateInv'
  <2>1. \A j \in Workers : Live(j)' /\ tcb'[j].stack = me.stack => j = i
    BY <1>2, <1>8, Zenon
  <2> QED  BY <1>1, <1>2, <2>1, Zenon DEF CreateInv
<1>13. JoinInv'
  <2>1. me'.pc \in {"run"} \cup Creating
    BY Zenon DEF Creating
  <2>2. \A j \in joins' : j.answer = 0 => j.status \in {j.number, CANCELED}
    BY <1>1, Zenon DEF JoinInv
  <2> QED  BY <1>1, <2>1, <2>2, JoinIdle, Zenon
<1>14. Unique'
  <2>1. UniqueTask'
    <3>1. \A x \in Workers : tcb[x].number # tcb'[i].number
      BY <1>2, Zenon
    <3>2. \A x \in Workers : x # i => tcb'[x].number = tcb[x].number
      BY Zenon
    <3>3. \A x, y \in Workers : tcb'[x].number = tcb'[y].number /\ tcb'[x].number # 0 => x = y
      BY <1>1, <3>1, <3>2, OneNumbered, Zenon
    <3> QED  BY <3>3, Zenon DEF UniqueTask
  <2>2. UniqueMap' /\ UniqueHandle'
    BY <1>1, Zenon DEF Unique, UniqueMap, UniqueHandle
  <2> QED  BY <2>1, <2>2, Zenon DEF Unique
<1>15. RecordInv'
  <2> SUFFICES ASSUME NoFail'
               PROVE  Single' /\ Owned' /\ Joinable' /\ Joining' /\ Joined'
    BY Zenon DEF RecordInv
  <2>1. Single /\ Owned /\ Joinable /\ Joining /\ Joined
    BY <1>1, Zenon DEF RecordInv, NoFail
  <2>2. Single' /\ Joined'
    BY <1>1, <2>1, Zenon DEF Single, Kept, Joined
  <2>3. Owned'
    <3> SUFFICES ASSUME NEW e \in Entries, Kept(e)
                 PROVE  /\ stacks[e].id \in Workers
                        /\ tcb'[stacks[e].id].number = mapped[stacks[e].stack] /\ ~tcb'[stacks[e].id].detached
      BY <1>1, Zenon DEF Owned, Owns, Kept
    <3>1. /\ stacks[e].id \in Workers /\ mapped[stacks[e].stack] # 0
          /\ tcb[stacks[e].id].number = mapped[stacks[e].stack] /\ ~tcb[stacks[e].id].detached
      BY <1>1, <2>1, Zenon DEF Owned, Owns, EntryInv
    <3> QED  BY <1>3, <3>1, Zenon
  <2>4. \A j, m : Recorded(j, m) => Recorded(j, m)'
    BY <1>1, RecordedKept, Zenon
  <2>5. Joinable'
    <3> SUFFICES ASSUME NEW h \in handles, h.kept, tcb'[h.id].number = h.number, ~tcb'[h.id].detached
                 PROVE  Recorded(h.id, h.number)
      BY <1>1, <2>4, Zenon DEF Joinable
    <3>1. h.id \in Workers
      BY <1>1, Zenon DEF Types
    <3>2. h.number # tcb'[i].number
      BY <1>2, ZenonT(60)
    <3>3. h.id # i
      BY <3>2, Zenon
    <3>4. tcb'[h.id] = tcb[h.id]
      BY <3>1, <3>3, Zenon
    <3> QED  BY <2>1, <3>4, Zenon DEF Joinable
  <2>6. Joining'
    BY Zenon DEF Joining
  <2> QED  BY <2>2, <2>3, <2>5, <2>6, Zenon
<1> QED  BY <1>7, <1>9, <1>10, <1>11, <1>12, <1>13, <1>14, <1>15, Zenon DEF IInv

\* Main while it creates.
LEMMA Creates ==
  ASSUME IInv, me.pc \in {"remember", "store_id", "store_stack"}
  PROVE  /\ me.stack \in Stacks /\ mapped[me.stack] = creates /\ me.number = creates /\ creates # 0
         /\ \A e \in Entries : stacks[e].stack # me.stack
         /\ \A h \in handles : h.number # creates
         /\ me.tid \in Workers /\ tcb[me.tid].number = creates /\ ~tcb[me.tid].detached
         /\ \A i \in Workers : Live(i) /\ tcb[i].stack = me.stack => i = me.tid
         /\ me.pc # "remember" => me.entry \in Entries /\ ~Kept(me.entry)
         /\ me.pc = "store_stack" => stacks[me.entry].id = me.tid
         /\ creates \in 1 .. creates /\ creates \in Nat
<1>1. CreateInv /\ Types /\ me.pc \in Creating /\ me.pc # "clone"
  BY Parts, Zenon DEF Creating
<1>2. creates \in Nat
  BY <1>1, Numbers, Zenon
<1>3. /\ me.stack \in Stacks /\ mapped[me.stack] = creates /\ me.number = creates /\ creates # 0
      /\ \A e \in Entries : stacks[e].stack # me.stack
      /\ \A h \in handles : h.number # creates
  BY <1>1, Zenon DEF CreateInv
<1>4. /\ me.tid \in Workers /\ tcb[me.tid].number = creates /\ ~tcb[me.tid].detached
      /\ \A i \in Workers : Live(i) /\ tcb[i].stack = me.stack => i = me.tid
  BY <1>1, Zenon DEF CreateInv
<1>5. /\ me.pc # "remember" => me.entry \in Entries /\ ~Kept(me.entry)
      /\ me.pc = "store_stack" => stacks[me.entry].id = me.tid
  BY <1>1, Zenon DEF CreateInv
<1>6. creates \in 1 .. creates
  BY <1>2, <1>3
<1> QED  BY <1>2, <1>3, <1>4, <1>5, <1>6, Zenon

\* remember_stack finds an entry.
LEMMA FindKeeps ==
  ASSUME IInv, Going, me.pc = "remember", me'.pc = "store_id", me'.entry \in Entries, ~Kept(me'.entry),
         me'.tid = me.tid, me'.stack = me.stack, me'.number = me.number,
         stacks' = stacks, mapped' = mapped, handles' = handles, creates' = creates, joins' = joins
  PROVE  IInv'
<1>1. /\ Types /\ EntryInv /\ JoinInv /\ Unique /\ RecordInv
      /\ tcb' = tcb /\ frame' \in [Slots -> Frame] /\ \A i \in Workers : Live(i)' <=> Live(i)
      /\ WorkerInv' /\ MainInv'
  BY Parts, Zenon DEF Going
<1>2. Types'
  BY <1>1, Zenon DEF Types
<1>3. EntryInv'
  BY <1>1, EntryKept, Zenon
<1>4. CreateInv'
  BY <1>1, Creates, Zenon DEF CreateInv, Kept
<1>5. JoinInv'
  <2>1. me'.pc \in {"run"} \cup Creating
    BY Zenon DEF Creating
  <2>2. \A j \in joins' : j.answer = 0 => j.status \in {j.number, CANCELED}
    BY <1>1, Zenon DEF JoinInv
  <2> QED  BY <1>1, <2>1, <2>2, JoinIdle, Zenon
<1>6. Unique'
  BY <1>1, Zenon DEF Unique, UniqueTask, UniqueMap, UniqueHandle
<1>7. RecordInv'
  <2> SUFFICES ASSUME NoFail'
               PROVE  Single' /\ Owned' /\ Joinable' /\ Joining' /\ Joined'
    BY Zenon DEF RecordInv
  <2>1. Single /\ Owned /\ Joinable /\ Joined
    BY <1>1, Zenon DEF RecordInv, NoFail
  <2>2. Single' /\ Joined'
    BY <2>1, Zenon DEF Single, Kept, Joined
  <2>3. Owned'
    BY <1>1, <2>1, OwnedKept, Zenon
  <2>4. Joinable' /\ Joining'
    BY <1>1, <2>1, RecordedKept, Zenon DEF Joinable, Joining
  <2> QED  BY <2>2, <2>3, <2>4, Zenon
<1> QED  BY <1>1, <1>2, <1>3, <1>4, <1>5, <1>6, <1>7, Zenon DEF IInv

\* The table is full: the caller holds a thread whose stack is not recorded.
LEMMA UnrecordedKeeps ==
  ASSUME IInv, Going, me.pc = "remember", me'.pc = "run",
         NEW x \in [id : {me.tid}, number : {me.number}, kept : {FALSE}], handles' = handles \cup {x},
         stacks' = stacks, mapped' = mapped, creates' = creates, joins' = joins
  PROVE  IInv'
<1>1. /\ Types /\ EntryInv /\ JoinInv /\ Unique /\ RecordInv
      /\ tcb' = tcb /\ frame' \in [Slots -> Frame] /\ \A i \in Workers : Live(i)' <=> Live(i)
      /\ WorkerInv' /\ MainInv'
  BY Parts, Zenon DEF Going
<1>2. /\ x.id = me.tid /\ x.number = creates /\ x.kept = FALSE /\ me.tid \in Workers
      /\ x \in [id : Workers, number : 1 .. creates, kept : BOOLEAN]
      /\ \A h \in handles : h.number # creates
  BY Creates, Zenon
<1>3. Types'
  BY <1>1, <1>2, Zenon DEF Types
<1>4. EntryInv'
  BY <1>1, EntryKept, Zenon
<1>5. CreateInv' /\ JoinInv'
  <2>1. "run" \notin Creating
    BY Zenon DEF Creating
  <2>2. \A j \in joins' : j.answer = 0 => j.status \in {j.number, CANCELED}
    BY <1>1, Zenon DEF JoinInv
  <2> QED  BY <1>1, <2>1, <2>2, CreateIdle, JoinIdle, Zenon
<1>6. Unique'
  <2>1. UniqueTask' /\ UniqueMap'
    BY <1>1, Zenon DEF Unique, UniqueTask, UniqueMap
  <2>2. UniqueHandle'
    <3>1. \A h, k \in handles : h.number = k.number => h = k
      BY <1>1, Zenon DEF Unique, UniqueHandle
    <3>2. \A h \in handles : h.number # x.number
      BY <1>2, Zenon
    <3> QED  BY <3>1, <3>2, Zenon DEF UniqueHandle
  <2> QED  BY <2>1, <2>2, Zenon DEF Unique
<1>7. RecordInv'
  <2> SUFFICES ASSUME NoFail'
               PROVE  Single' /\ Owned' /\ Joinable' /\ Joining' /\ Joined'
    BY Zenon DEF RecordInv
  <2>1. Single /\ Owned /\ Joinable /\ Joined
    BY <1>1, Zenon DEF RecordInv, NoFail
  <2>2. Single' /\ Joined'
    BY <2>1, Zenon DEF Single, Kept, Joined
  <2>3. Owned'
    BY <1>1, <2>1, OwnedKept, Zenon
  <2>4. Joinable' /\ Joining'
    BY <1>1, <1>2, <2>1, RecordedKept, Zenon DEF Joinable, Joining
  <2> QED  BY <2>2, <2>3, <2>4, Zenon
<1> QED  BY <1>1, <1>3, <1>4, <1>5, <1>6, <1>7, Zenon DEF IInv

\* The id goes into the entry.
LEMMA StoreIdKeeps ==
  ASSUME IInv, Going, me.pc = "store_id", me'.pc = "store_stack", me'.entry = me.entry,
         me'.tid = me.tid, me'.stack = me.stack, me'.number = me.number,
         stacks' \in [Entries -> [id : Slots \cup {0}, stack : Stacks \cup {None}]],
         stacks'[me.entry].id = me.tid, \A e \in Entries : stacks'[e].stack = stacks[e].stack,
         \A e \in Entries : e # me.entry => stacks'[e] = stacks[e],
         mapped' = mapped, handles' = handles, creates' = creates, joins' = joins
  PROVE  IInv'
<1>1. /\ Types /\ EntryInv /\ JoinInv /\ Unique /\ RecordInv
      /\ tcb' = tcb /\ frame' \in [Slots -> Frame] /\ \A i \in Workers : Live(i)' <=> Live(i)
      /\ WorkerInv' /\ MainInv'
  BY Parts, Zenon DEF Going
<1>2. Types'
  BY <1>1, Zenon DEF Types
<1>3. me.entry \in Entries /\ ~Kept(me.entry) /\ \A e \in Entries : Kept(e)' <=> Kept(e)
  BY Creates, Zenon DEF Kept
<1>4. \A e \in Entries : Kept(e) => stacks'[e] = stacks[e]
  BY <1>3, Zenon
<1>5. EntryInv'
  <2> SUFFICES ASSUME NEW e \in Entries, Kept(e)'
               PROVE  /\ mapped[stacks'[e].stack] # 0
                      /\ \A i \in Workers : Live(i) /\ tcb[i].stack = stacks'[e].stack => i = stacks'[e].id
                      /\ \A f \in Entries : stacks'[f].stack = stacks'[e].stack => f = e
    BY <1>1, Zenon DEF EntryInv
  <2>1. Kept(e) /\ stacks'[e] = stacks[e]
    BY <1>3, <1>4, Zenon
  <2>2. \A f \in Entries : stacks[f].stack = stacks[e].stack => f = e
    BY <1>1, <2>1, Zenon DEF EntryInv
  <2>3. \A f \in Entries : stacks'[f].stack = stacks'[e].stack => f = e
    BY <2>1, <2>2, Zenon
  <2> QED  BY <1>1, <2>1, <2>3, ZenonT(60) DEF EntryInv
<1>6. CreateInv'
  BY <1>1, <1>3, Creates, Zenon DEF CreateInv
<1>7. JoinInv'
  <2>1. me'.pc \in {"run"} \cup Creating
    BY Zenon DEF Creating
  <2>2. \A j \in joins' : j.answer = 0 => j.status \in {j.number, CANCELED}
    BY <1>1, Zenon DEF JoinInv
  <2> QED  BY <1>1, <2>1, <2>2, JoinIdle, Zenon
<1>8. Unique'
  BY <1>1, Zenon DEF Unique, UniqueTask, UniqueMap, UniqueHandle
<1>9. RecordInv'
  <2> SUFFICES ASSUME NoFail'
               PROVE  Single' /\ Owned' /\ Joinable' /\ Joining' /\ Joined'
    BY Zenon DEF RecordInv
  <2>1. Single /\ Owned /\ Joinable /\ Joined
    BY <1>1, Zenon DEF RecordInv, NoFail
  <2>2. Single' /\ Joined'
    <3>1. ASSUME NEW e \in Entries, NEW f \in Entries, Kept(e)', Kept(f)', stacks'[e].id = stacks'[f].id
          PROVE  e = f
      <4>1. Kept(e) /\ Kept(f) /\ stacks'[e] = stacks[e] /\ stacks'[f] = stacks[f]
        BY <1>3, <1>4, <3>1, Zenon
      <4> QED  BY <2>1, <3>1, <4>1, Zenon DEF Single
    <3> QED  BY <2>1, <3>1, Zenon DEF Single, Joined
  <2>3. Owned'
    <3>1. \A e \in Entries : Kept(e) =>
            /\ stacks[e].id \in Workers
            /\ tcb[stacks[e].id].number = mapped[stacks[e].stack] /\ ~tcb[stacks[e].id].detached
      BY <2>1, Zenon DEF Owned, Owns
    <3> QED  BY <1>1, <1>3, <1>4, <3>1, Zenon DEF Owned, Owns
  <2>4. \A i, n : Recorded(i, n) => Recorded(i, n)'
    BY <1>4, Zenon DEF Recorded, Holds, Kept
  <2>5. Joinable' /\ Joining'
    BY <1>1, <2>1, <2>4, Zenon DEF Joinable, Joining
  <2> QED  BY <2>2, <2>3, <2>5, Zenon
<1> QED  BY <1>1, <1>2, <1>5, <1>6, <1>7, <1>8, <1>9, Zenon DEF IInv

\* The stack goes into the entry: the thread is recorded.
LEMMA StoreStackKeeps ==
  ASSUME IInv, Going, me.pc = "store_stack", me'.pc = "run",
         stacks' \in [Entries -> [id : Slots \cup {0}, stack : Stacks \cup {None}]],
         stacks'[me.entry].id = stacks[me.entry].id, stacks'[me.entry].stack = me.stack,
         \A e \in Entries : e # me.entry => stacks'[e] = stacks[e],
         NEW x \in [id : {me.tid}, number : {me.number}, kept : {TRUE}], handles' = handles \cup {x},
         mapped' = mapped, creates' = creates, joins' = joins
  PROVE  IInv'
<1>1. /\ Types /\ EntryInv /\ JoinInv /\ Unique /\ RecordInv
      /\ tcb' = tcb /\ frame' \in [Slots -> Frame] /\ \A i \in Workers : Live(i)' <=> Live(i)
      /\ WorkerInv' /\ MainInv'
  BY Parts, Zenon DEF Going
<1>2. /\ x.id = me.tid /\ x.number = creates /\ me.tid \in Workers
      /\ x \in [id : Workers, number : 1 .. creates, kept : BOOLEAN]
      /\ \A h \in handles : h.number # creates
  BY Creates, ZenonT(60)
<1>3. Types'
  BY <1>1, <1>2, Zenon DEF Types
<1>4. /\ me.entry \in Entries /\ ~Kept(me.entry) /\ stacks'[me.entry].id = me.tid
      /\ me.stack \in Stacks /\ mapped[me.stack] = creates /\ creates # 0
      /\ \A e \in Entries : stacks[e].stack # me.stack
      /\ \A i \in Workers : Live(i) /\ tcb[i].stack = me.stack => i = me.tid
      /\ tcb[me.tid].number = creates /\ ~tcb[me.tid].detached
  BY Creates, Zenon
<1>5. CreateInv' /\ JoinInv'
  <2>1. "run" \notin Creating
    BY Zenon DEF Creating
  <2>2. \A j \in joins' : j.answer = 0 => j.status \in {j.number, CANCELED}
    BY <1>1, Zenon DEF JoinInv
  <2> QED  BY <1>1, <2>1, <2>2, CreateIdle, JoinIdle, Zenon
<1>6. Unique'
  <2>1. UniqueTask' /\ UniqueMap'
    BY <1>1, Zenon DEF Unique, UniqueTask, UniqueMap
  <2>2. UniqueHandle'
    <3>1. \A h, k \in handles : h.number = k.number => h = k
      BY <1>1, Zenon DEF Unique, UniqueHandle
    <3>2. \A h \in handles : h.number # x.number
      BY <1>2, Zenon
    <3> QED  BY <3>1, <3>2, ZenonT(60) DEF UniqueHandle
  <2> QED  BY <2>1, <2>2, Zenon DEF Unique
<1>7. \A e \in Entries : Kept(e)' <=> (Kept(e) \/ e = me.entry)
  <2>1. stacks'[me.entry].stack # None
    BY <1>4, Constants, ZenonT(60)
  <2>2. ASSUME NEW e \in Entries, e # me.entry
        PROVE  Kept(e)' <=> Kept(e)
    <3>1. stacks'[e] = stacks[e]
      BY <2>2, Zenon
    <3> QED  BY <3>1, Zenon DEF Kept
  <2>4. \A e \in Entries : e = me.entry => Kept(e)'
    BY <2>1, Zenon DEF Kept
  <2> QED  BY <2>2, <2>4, Zenon
<1>8. EntryInv'
  <2> SUFFICES ASSUME NEW e \in Entries, Kept(e) \/ e = me.entry
               PROVE  /\ mapped[stacks'[e].stack] # 0
                      /\ \A i \in Workers : Live(i) /\ tcb[i].stack = stacks'[e].stack => i = stacks'[e].id
                      /\ \A f \in Entries : stacks'[f].stack = stacks'[e].stack => f = e
    BY <1>1, <1>7, Zenon DEF EntryInv
  <2>1. CASE e = me.entry
    BY <1>4, <2>1, ZenonT(60)
  <2>2. CASE e # me.entry
    <3>1. Kept(e) /\ stacks'[e] = stacks[e] /\ stacks[e].stack # me.stack
      BY <1>4, <2>2, Zenon
    <3>2. /\ mapped[stacks[e].stack] # 0
          /\ \A i \in Workers : Live(i) /\ tcb[i].stack = stacks[e].stack => i = stacks[e].id
          /\ \A f \in Entries : stacks[f].stack = stacks[e].stack => f = e
      BY <1>1, <3>1, Zenon DEF EntryInv
    <3>3. ASSUME NEW f \in Entries, stacks'[f].stack = stacks[e].stack
          PROVE  f = e
      <4>1. f # me.entry
        BY <3>1, <3>3, Zenon
      <4>2. stacks[f].stack = stacks[e].stack
        BY <3>3, <4>1, Zenon
      <4> QED  BY <3>2, <4>2, Zenon
    <3> QED  BY <3>1, <3>2, <3>3, ZenonT(60)
  <2> QED  BY <2>1, <2>2, Zenon
<1>9. RecordInv'
  <2> SUFFICES ASSUME NoFail'
               PROVE  Single' /\ Owned' /\ Joinable' /\ Joining' /\ Joined'
    BY Zenon DEF RecordInv
  <2>1. Single /\ Owned /\ Joinable /\ Joined
    BY <1>1, Zenon DEF RecordInv, NoFail
  <2>2. \A e \in Entries : Kept(e) => stacks'[e] = stacks[e]
    BY <1>4, Zenon
  <2>3. \A e \in Entries : Kept(e) =>
          /\ stacks[e].id \in Workers
          /\ tcb[stacks[e].id].number = mapped[stacks[e].stack] /\ ~tcb[stacks[e].id].detached
    BY <2>1, Zenon DEF Owned, Owns
  <2>4. \A e \in Entries : Kept(e) => stacks[e].id # me.tid
    <3> SUFFICES ASSUME NEW e \in Entries, Kept(e), stacks[e].id = me.tid
                 PROVE  FALSE
      BY Zenon
    <3>1. mapped[stacks[e].stack] = mapped[me.stack]
      BY <1>4, <2>3, Zenon
    <3>2. stacks[e].stack \in Stacks
      BY <1>1, Zenon DEF Types, Kept
    <3>3. stacks[e].stack = me.stack
      <4>1. UniqueMap /\ mapped[me.stack] # 0 /\ me.stack \in Stacks
        BY <1>1, <1>4, Zenon DEF Unique
      <4> QED  BY <3>1, <3>2, <4>1, Zenon DEF UniqueMap
    <3> QED  BY <1>4, <3>3, Zenon
  <2>5. Single'
    <3> SUFFICES ASSUME NEW e \in Entries, NEW f \in Entries, Kept(e)', Kept(f)', stacks'[e].id = stacks'[f].id
                 PROVE  e = f
      BY Zenon DEF Single
    <3>0. \A d \in Entries : Kept(d)' /\ d # me.entry => Kept(d) /\ stacks'[d] = stacks[d] /\ stacks[d].id # me.tid
      BY <1>7, <2>2, <2>4, Zenon
    <3>1. (e = me.entry => f = me.entry) /\ (f = me.entry => e = me.entry)
      <4>1. (e = me.entry <=> stacks'[e].id = me.tid) /\ (f = me.entry <=> stacks'[f].id = me.tid)
        BY <1>4, <3>0, ZenonT(60)
      <4> QED  BY <4>1, Zenon
    <3>2. e # me.entry /\ f # me.entry => Kept(e) /\ Kept(f) /\ stacks[e].id = stacks[f].id
      BY <3>0, Zenon
    <3> QED  BY <2>1, <3>1, <3>2, Zenon DEF Single
  <2>6. Owned'
    <3>1. \A e \in Entries : Kept(e)' =>
            /\ stacks'[e].id \in Workers
            /\ tcb[stacks'[e].id].number = mapped[stacks'[e].stack] /\ ~tcb[stacks'[e].id].detached
      <4> SUFFICES ASSUME NEW e \in Entries, Kept(e)'
                   PROVE  /\ stacks'[e].id \in Workers
                          /\ tcb[stacks'[e].id].number = mapped[stacks'[e].stack] /\ ~tcb[stacks'[e].id].detached
        BY Zenon
      <4>1. CASE e = me.entry
        BY <1>2, <1>4, <4>1, ZenonT(60)
      <4>2. CASE e # me.entry
        BY <1>7, <2>2, <2>3, <4>2, Zenon
      <4> QED  BY <4>1, <4>2, Zenon
    <3> QED  BY <1>1, <3>1, Zenon DEF Owned, Owns
  <2>7. \A i, n : Recorded(i, n) => Recorded(i, n)'
    BY <2>2, Zenon DEF Recorded, Holds, Kept
  <2>8. Recorded(x.id, x.number)'
    BY <1>2, <1>4, <1>7, ZenonT(60) DEF Recorded, Holds, Kept
  <2>9. Joinable' /\ Joining'
    BY <1>1, <2>1, <2>7, <2>8, Zenon DEF Joinable, Joining
  <2>10. Joined'
    BY <2>1, Zenon DEF Joined
  <2> QED  BY <2>5, <2>6, <2>9, <2>10, Zenon
<1> QED  BY <1>1, <1>3, <1>5, <1>6, <1>8, <1>9, Zenon DEF IInv

\* SYS_WAITPID answers: a failure, or the value of thread n, that ran in slot i.
LEMMA CollectKeeps ==
  ASSUME IInv, me.pc \in {"run", "woken"}, NEW i \in Workers, NEW n \in 1 .. creates,
         tcb' \in [Slots -> Task], frame' \in [Slots -> Frame], WorkerInv', MainInv',
         \A j \in Workers : Live(j)' => Live(j) /\ tcb'[j].stack = tcb[j].stack,
         \A j \in Workers : j # i => tcb'[j].number = tcb[j].number /\ tcb'[j].detached = tcb[j].detached,
         tcb'[i].number \in {0, tcb[i].number}, tcb[i].number = n, ~Live(i)' \/ me'.pc = "failed",
         me'.tid = i, me'.number = n,
         \/ me'.pc = "failed"
         \/ me'.pc = "forget" /\ me'.status \in {n, CANCELED} /\ (me'.kept /\ NoFail => Recorded(i, n)),
         handles' \subseteq handles, \A h \in handles' : h.number # n,
         stacks' = stacks, mapped' = mapped, creates' = creates, joins' = joins
  PROVE  IInv'
<1>1. /\ Types /\ EntryInv /\ JoinInv /\ Unique /\ RecordInv
      /\ me'.pc \notin Creating /\ me'.pc \notin {"woken", "unmap", "detached"}
  BY Parts, Zenon DEF Creating
<1>2. Types'
  BY <1>1, Zenon DEF Types
<1>3. EntryInv' /\ CreateInv'
  BY <1>1, EntryKept, CreateIdle, Zenon
<1>4. JoinInv'
  <2>1. \A j \in joins : j.answer = 0 => j.status \in {j.number, CANCELED}
    BY <1>1, Zenon DEF JoinInv
  <2>2. me'.pc = "forget" => tcb'[i].state # "LIVE"
    BY Zenon DEF Live
  <2>3. me'.pc = "forget" => tcb'[i].number \in {0, n} /\ me'.status \in {n, CANCELED}
    BY Zenon
  <2> QED  BY <1>1, <2>1, <2>2, <2>3, ZenonT(60) DEF JoinInv, Live
<1>5. Unique'
  <2>1. \A j \in Workers : tcb'[j].number \in {tcb[j].number, 0}
    BY Zenon
  <2>2. \A s \in Stacks : mapped'[s] \in {mapped[s], 0}
    BY Zenon
  <2> QED  BY <1>1, <2>1, <2>2, UniqueKept, Zenon
<1>6. RecordInv'
  <2> SUFFICES ASSUME NoFail'
               PROVE  Single' /\ Owned' /\ Joinable' /\ Joining' /\ Joined'
    BY Zenon DEF RecordInv
  <2>1. me'.pc = "forget" /\ NoFail
    BY Zenon DEF NoFail
  <2>2. Single /\ Owned /\ Joinable /\ Joined
    BY <1>1, <2>1, Zenon DEF RecordInv
  <2>3. Single' /\ Joined'
    BY <2>2, Zenon DEF Single, Kept, Joined
  <2>4. Owned'
    <3> SUFFICES ASSUME NEW e \in Entries, Kept(e)
                 PROVE  /\ stacks[e].id \in Workers
                        /\ stacks[e].id # i => /\ tcb'[stacks[e].id].number = mapped[stacks[e].stack]
                                              /\ ~tcb'[stacks[e].id].detached
      BY <2>1, Zenon DEF Owned, Owns, Kept
    <3>1. /\ stacks[e].id \in Workers
          /\ tcb[stacks[e].id].number = mapped[stacks[e].stack] /\ ~tcb[stacks[e].id].detached
      BY <2>2, Zenon DEF Owned, Owns
    <3> QED  BY <3>1, Zenon
  <2>5. \A j, m : Recorded(j, m) => Recorded(j, m)'
    BY RecordedKept, Zenon
  <2>6. Joinable'
    <3> SUFFICES ASSUME NEW h \in handles', h.kept, tcb'[h.id].number = h.number, ~tcb'[h.id].detached
                 PROVE  Recorded(h.id, h.number)
      BY <2>5, Zenon DEF Joinable
    <3>1. h \in handles /\ h.id \in Workers /\ h.number # 0
      <4>1. h \in handles
        BY Zenon
      <4>2. h.id \in Workers /\ h.number \in 1 .. creates
        BY <1>1, <4>1, Zenon DEF Types
      <4> QED  BY <1>1, <4>1, <4>2, Numbers, Zenon
    <3>2. h.id # i
      <4>1. tcb'[i].number # h.number
        BY <3>1, Zenon
      <4> QED  BY <4>1, Zenon
    <3>3. tcb[h.id].number = h.number /\ ~tcb[h.id].detached
      BY <3>1, <3>2, Zenon
    <3> QED  BY <2>2, <3>1, <3>3, Zenon DEF Joinable
  <2>7. Joining'
    BY <1>1, <2>1, <2>5, Zenon DEF Joining
  <2> QED  BY <2>3, <2>4, <2>6, <2>7, Zenon
<1> QED  BY <1>2, <1>3, <1>4, <1>5, <1>6, Zenon DEF IInv

\* SYS_WAITPID blocks: the thread runs.
LEMMA BlocksKeeps ==
  ASSUME IInv, me.pc = "run", NEW h \in handles, tcb[h.id].number = h.number, ~tcb[h.id].detached, Live(h.id),
         tcb' \in [Slots -> Task], frame' \in [Slots -> Frame], WorkerInv', MainInv',
         \A j \in Workers : tcb'[j] = tcb[j], tcb'[Main].state = "BLOCKED", tcb'[Main].wait = h.id,
         me'.pc = "woken", me'.tid = h.id, me'.number = h.number, me'.kept = h.kept, handles' = handles \ {h},
         stacks' = stacks, mapped' = mapped, creates' = creates, joins' = joins
  PROVE  IInv'
<1>1. /\ Types /\ EntryInv /\ JoinInv /\ Unique /\ RecordInv
      /\ me'.pc \notin Creating /\ me'.pc \notin {"forget", "unmap", "detached", "failed"}
  BY Parts, Zenon DEF Creating
<1>2. h.id \in Workers /\ h.number \in 1 .. creates /\ \A g \in handles' : g.number # h.number
  BY <1>1, Zenon DEF Types, Unique, UniqueHandle
<1>3. Types'
  BY <1>1, Zenon DEF Types
<1>4. EntryInv' /\ CreateInv'
  <2>1. \A j \in Workers : Live(j)' => Live(j) /\ tcb'[j].stack = tcb[j].stack
    BY Zenon DEF Live
  <2> QED  BY <1>1, <2>1, EntryKept, CreateIdle, Zenon
<1>5. JoinInv'
  <2>1. \A j \in joins : j.answer = 0 => j.status \in {j.number, CANCELED}
    BY <1>1, Zenon DEF JoinInv
  <2>2. tcb'[h.id] = tcb[h.id] /\ tcb'[h.id].state = "LIVE"
    BY <1>2, Zenon DEF Live
  <2> QED  BY <1>1, <1>2, <2>1, <2>2, ZenonT(60) DEF JoinInv, Live
<1>6. Unique'
  BY <1>1, UniqueKept, Zenon
<1>7. RecordInv'
  <2> SUFFICES ASSUME NoFail'
               PROVE  Single' /\ Owned' /\ Joinable' /\ Joining' /\ Joined'
    BY Zenon DEF RecordInv
  <2>1. Single /\ Owned /\ Joinable /\ Joined
    BY <1>1, Zenon DEF RecordInv, NoFail
  <2>2. Single' /\ Joined'
    BY <2>1, Zenon DEF Single, Kept, Joined
  <2>3. Owned'
    BY <2>1, OwnedKept, Zenon
  <2>4. \A j, m : Recorded(j, m) => Recorded(j, m)'
    BY RecordedKept, Zenon
  <2>5. Joinable'
    <3> SUFFICES ASSUME NEW g \in handles, g.kept, tcb'[g.id].number = g.number, ~tcb'[g.id].detached
                 PROVE  Recorded(g.id, g.number)
      BY <2>4, Zenon DEF Joinable
    <3>1. g.id \in Workers
      BY <1>1, Zenon DEF Types
    <3> QED  BY <2>1, <3>1, Zenon DEF Joinable
  <2>6. Joining'
    BY <1>1, <2>1, <2>4, Zenon DEF Joinable, Joining
  <2> QED  BY <2>2, <2>3, <2>5, <2>6, Zenon
<1> QED  BY <1>3, <1>4, <1>5, <1>6, <1>7, Zenon DEF IInv

\* mv_thread_join answers -1.
LEMMA JoinFailsKeeps ==
  ASSUME IInv, Going, me.pc = "failed", me'.pc = "run",
         NEW x \in [number : {me.number}, kept : BOOLEAN, answer : {-1}, status : Int], joins' = joins \cup {x},
         stacks' = stacks, mapped' = mapped, creates' = creates, handles' = handles
  PROVE  IInv'
<1>1. /\ Types /\ EntryInv /\ JoinInv /\ Unique
      /\ tcb' = tcb /\ frame' \in [Slots -> Frame] /\ \A i \in Workers : Live(i)' <=> Live(i)
      /\ WorkerInv' /\ MainInv'
  BY Parts, Zenon DEF Going
<1>2. x.answer # 0
  <2>1. -1 # 0
    OBVIOUS
  <2> QED  BY <2>1, Zenon
<1>3. Types'
  <2>1. me.number \in 1 .. creates
    BY <1>1, Zenon DEF JoinInv
  <2> QED  BY <1>1, <2>1, Zenon DEF Types
<1>4. EntryInv'
  BY <1>1, EntryKept, Zenon
<1>5. CreateInv' /\ JoinInv'
  <2>1. "run" \notin Creating
    BY Zenon DEF Creating
  <2>2. \A j \in joins : j.answer = 0 => j.status \in {j.number, CANCELED}
    BY <1>1, Zenon DEF JoinInv
  <2>3. \A j \in joins' : j.answer = 0 => j.status \in {j.number, CANCELED}
    BY <1>2, <2>2, Zenon
  <2> QED  BY <1>1, <2>1, <2>3, CreateIdle, JoinIdle, Zenon
<1>6. Unique'
  BY <1>1, UniqueKept, Zenon
<1>7. RecordInv'
  BY <1>2, Zenon DEF RecordInv, NoFail
<1> QED  BY <1>1, <1>3, <1>4, <1>5, <1>6, <1>7, Zenon DEF IInv

\* SYS_THREAD_DETACH, of a thread that runs.
LEMMA DetachKeeps ==
  ASSUME IInv, me.pc = "run", NEW i \in Workers, Live(i),
         tcb' \in [Slots -> Task], frame' \in [Slots -> Frame], WorkerInv', MainInv',
         \A j \in Workers : Live(j)' => Live(j) /\ tcb'[j].stack = tcb[j].stack,
         \A j \in Workers : tcb'[j].number = tcb[j].number,
         \A j \in Workers : j # i => tcb'[j].detached = tcb[j].detached, tcb'[i].detached,
         me'.pc = "detached", me'.tid = i,
         stacks' = stacks, mapped' = mapped, handles' = handles, creates' = creates, joins' = joins
  PROVE  IInv'
<1>1. /\ Types /\ EntryInv /\ JoinInv /\ Unique /\ RecordInv
      /\ me'.pc \notin Creating /\ me'.pc \notin {"woken", "forget", "unmap", "failed"}
  BY Parts, Zenon DEF Creating
<1>2. Types'
  BY <1>1, Zenon DEF Types
<1>3. EntryInv' /\ CreateInv'
  BY <1>1, EntryKept, CreateIdle, Zenon
<1>4. JoinInv'
  <2>1. \A j \in joins : j.answer = 0 => j.status \in {j.number, CANCELED}
    BY <1>1, Zenon DEF JoinInv
  <2> QED  BY <1>1, <2>1, Zenon DEF JoinInv
<1>5. Unique'
  BY <1>1, UniqueKept, Zenon
<1>6. RecordInv'
  <2> SUFFICES ASSUME NoFail'
               PROVE  Single' /\ Owned' /\ Joinable' /\ Joining' /\ Joined'
    BY Zenon DEF RecordInv
  <2>1. Single /\ Owned /\ Joinable /\ Joined
    BY <1>1, Zenon DEF RecordInv, NoFail
  <2>2. Single' /\ Joined'
    BY <2>1, Zenon DEF Single, Kept, Joined
  <2>3. Owned'
    <3> SUFFICES ASSUME NEW e \in Entries, Kept(e)
                 PROVE  /\ stacks[e].id \in Workers
                        /\ stacks[e].id # i => /\ tcb'[stacks[e].id].number = mapped[stacks[e].stack]
                                              /\ ~tcb'[stacks[e].id].detached
      BY Zenon DEF Owned, Owns, Kept
    <3>1. /\ stacks[e].id \in Workers
          /\ tcb[stacks[e].id].number = mapped[stacks[e].stack] /\ ~tcb[stacks[e].id].detached
      BY <2>1, Zenon DEF Owned, Owns
    <3> QED  BY <3>1, Zenon
  <2>4. \A j, m : Recorded(j, m) => Recorded(j, m)'
    BY RecordedKept, Zenon
  <2>5. Joinable'
    <3> SUFFICES ASSUME NEW h \in handles, h.kept, tcb'[h.id].number = h.number, ~tcb'[h.id].detached
                 PROVE  Recorded(h.id, h.number)
      BY <2>4, Zenon DEF Joinable
    <3>1. h.id \in Workers /\ h.id # i
      BY <1>1, Zenon DEF Types
    <3> QED  BY <2>1, <3>1, Zenon DEF Joinable
  <2>6. Joining'
    BY <1>1, Zenon DEF Joining
  <2> QED  BY <2>2, <2>3, <2>5, <2>6, Zenon
<1> QED  BY <1>2, <1>3, <1>4, <1>5, <1>6, Zenon DEF IInv

\* The thread that is forgotten can no longer be joined.
Gone == \A h \in handles : h.id = me.tid => tcb[h.id].number # h.number \/ tcb[h.id].detached

\* The task is gone from its slot, or was detached there.
LEMMA GoneIs ==
  ASSUME IInv, me.pc \in {"forget", "detached"}
  PROVE  Gone /\ me.tid \in Workers
<1>1. Types /\ JoinInv
  BY Parts, Zenon
<1>2. \A h \in handles : h.number # 0
  BY <1>1, Numbers, Zenon DEF Types
<1>3. CASE me.pc = "forget"
  BY <1>1, <1>2, <1>3, Zenon DEF Gone, JoinInv
<1>4. CASE me.pc = "detached"
  BY <1>1, <1>2, <1>4, Zenon DEF Gone, JoinInv
<1> QED  BY <1>3, <1>4, Zenon

\* forget_stack clears entry d, which holds that thread's stack.
LEMMA ForgetsEntry ==
  ASSUME IInv, me.pc \in {"forget", "detached"}, NEW d \in Entries, Holds(d, me.tid), stacks'[d] = NoEntry,
         \A e \in Entries : e # d => stacks'[e] = stacks[e],
         tcb' = tcb, mapped' = mapped, handles' = handles
  PROVE  /\ EntryInv' /\ \A e \in Entries : Kept(e)' <=> (Kept(e) /\ e # d)
         /\ \A e \in Entries : stacks'[e].stack # stacks[d].stack
         /\ \A i \in Workers : Live(i) /\ tcb[i].stack = stacks[d].stack => i = me.tid
<1>1. EntryInv /\ Kept(d) /\ stacks[d].id = me.tid
  BY Parts, Zenon DEF Holds, Kept
<1>2. \A e \in Entries : Kept(e)' <=> (Kept(e) /\ e # d)
  <2>1. NoEntry.stack = None
    BY Zenon DEF NoEntry
  <2>2. \A e \in Entries : e = d => ~Kept(e)'
    BY <2>1, Zenon DEF Kept
  <2>3. \A e \in Entries : e # d => (Kept(e)' <=> Kept(e))
    BY Zenon DEF Kept
  <2> QED  BY <2>2, <2>3, Zenon
<1>3. /\ mapped[stacks[d].stack] # 0
      /\ \A i \in Workers : Live(i) /\ tcb[i].stack = stacks[d].stack => i = me.tid
      /\ \A e \in Entries : stacks[e].stack = stacks[d].stack => e = d
  BY <1>1, Zenon DEF EntryInv
<1>4. \A e \in Entries : stacks'[e].stack # stacks[d].stack
  <2>1. NoEntry.stack = None /\ stacks[d].stack # None
    BY <1>1, Zenon DEF NoEntry, Kept
  <2> QED  BY <1>3, <2>1, Zenon
<1>5. EntryInv'
  <2> SUFFICES ASSUME NEW e \in Entries, Kept(e)'
               PROVE  /\ mapped[stacks'[e].stack] # 0
                      /\ \A i \in Workers : Live(i)' /\ tcb[i].stack = stacks'[e].stack => i = stacks'[e].id
                      /\ \A f \in Entries : stacks'[f].stack = stacks'[e].stack => f = e
    BY Zenon DEF EntryInv
  <2>1. Kept(e) /\ stacks'[e] = stacks[e] /\ stacks[e].stack # None
    BY <1>2, Zenon DEF Kept
  <2>2. /\ mapped[stacks[e].stack] # 0
        /\ \A i \in Workers : Live(i) /\ tcb[i].stack = stacks[e].stack => i = stacks[e].id
        /\ \A f \in Entries : stacks[f].stack = stacks[e].stack => f = e
    BY <1>1, <2>1, Zenon DEF EntryInv
  <2>3. \A i \in Workers : Live(i)' <=> Live(i)
    BY Zenon DEF Live
  <2>4. ASSUME NEW f \in Entries, stacks'[f].stack = stacks[e].stack
        PROVE  f = e
    <3>1. NoEntry.stack = None
      BY Zenon DEF NoEntry
    <3>2. f # d
      BY <2>1, <2>4, <3>1, Zenon
    <3>3. stacks[f].stack = stacks[e].stack
      BY <2>4, <3>2, Zenon
    <3> QED  BY <2>2, <3>3, Zenon
  <2> QED  BY <2>1, <2>2, <2>3, <2>4, Zenon
<1> QED  BY <1>2, <1>3, <1>4, <1>5, Zenon

\* The records of the other threads outlive the entry that is forgotten.
LEMMA ForgetsRecord ==
  ASSUME IInv, me.pc \in {"forget", "detached"}, NEW d \in Entries, Holds(d, me.tid), stacks'[d] = NoEntry,
         \A e \in Entries : e # d => stacks'[e] = stacks[e],
         tcb' = tcb, mapped' = mapped, handles' = handles, NoFail
  PROVE  Single' /\ Owned' /\ Joinable'
<1>1. /\ Single /\ Owned /\ Joinable /\ Gone
      /\ \A e \in Entries : Kept(e)' <=> (Kept(e) /\ e # d)
  BY Parts, GoneIs, ForgetsEntry, Zenon DEF RecordInv
<1>2. Kept(d) /\ stacks[d].id = me.tid
  BY Zenon DEF Holds, Kept
<1>3. Single'
  <2> SUFFICES ASSUME NEW e \in Entries, NEW f \in Entries, Kept(e)', Kept(f)', stacks'[e].id = stacks'[f].id
               PROVE  e = f
    BY Zenon DEF Single
  <2>1. Kept(e) /\ Kept(f) /\ stacks'[e] = stacks[e] /\ stacks'[f] = stacks[f]
    BY <1>1, Zenon
  <2> QED  BY <1>1, <2>1, Zenon DEF Single
<1>4. Owned'
  <2> SUFFICES ASSUME NEW e \in Entries, Kept(e)'
               PROVE  /\ stacks'[e].id \in Workers
                      /\ tcb[stacks'[e].id].number = mapped[stacks'[e].stack] /\ ~tcb[stacks'[e].id].detached
    BY Zenon DEF Owned, Owns
  <2>1. Kept(e) /\ e # d /\ stacks'[e] = stacks[e]
    BY <1>1, Zenon
  <2>2. stacks[e].id # me.tid
    BY <1>1, <1>2, <2>1, Zenon DEF Single
  <2> QED  BY <1>1, <2>1, <2>2, Zenon DEF Owned, Owns
<1>5. Joinable'
  <2> SUFFICES ASSUME NEW h \in handles, h.kept, tcb[h.id].number = h.number, ~tcb[h.id].detached
               PROVE  Recorded(h.id, h.number)'
    BY Zenon DEF Joinable
  <2>1. PICK e \in Entries : Holds(e, h.id) /\ mapped[stacks[e].stack] = h.number
    BY <1>1, Zenon DEF Joinable, Recorded
  <2>2. h.id # me.tid
    BY <1>1, Zenon DEF Gone
  <2>3. e # d
    BY <1>2, <2>1, <2>2, Zenon DEF Holds
  <2>4. stacks'[e] = stacks[e]
    BY <2>3, Zenon
  <2> QED  BY <2>1, <2>4, Zenon DEF Recorded, Holds
<1> QED  BY <1>3, <1>4, <1>5, Zenon

\* mv_thread_join of a thread whose stack is not recorded.
LEMMA ForgetNoneKeeps ==
  ASSUME IInv, Going, me.pc = "forget", me'.pc = "run", \A e \in Entries : ~Holds(e, me.tid),
         NEW x \in [number : {me.number}, kept : {me.kept}, answer : {0}, status : {me.status}],
         joins' = joins \cup {x},
         stacks' = stacks, mapped' = mapped, creates' = creates, handles' = handles
  PROVE  IInv'
<1>1. /\ Types /\ EntryInv /\ JoinInv /\ Unique /\ RecordInv
      /\ tcb' = tcb /\ frame' \in [Slots -> Frame] /\ \A i \in Workers : Live(i)' <=> Live(i)
      /\ WorkerInv' /\ MainInv'
  BY Parts, Zenon DEF Going
<1>2. me.number \in 1 .. creates /\ me.status \in {me.number, CANCELED}
  BY <1>1, Zenon DEF JoinInv
<1>3. Types'
  <2>1. me.kept \in BOOLEAN /\ me.status \in Int
    BY <1>1, Constants, Zenon DEF Types, Frame, me
  <2>2. x \in [number : 1 .. creates, kept : BOOLEAN, answer : {0, -1}, status : Int]
    BY <1>2, <2>1, Zenon
  <2> QED  BY <1>1, <2>2, Zenon DEF Types
<1>4. EntryInv'
  BY <1>1, EntryKept, Zenon
<1>5. CreateInv' /\ JoinInv'
  <2>1. "run" \notin Creating
    BY Zenon DEF Creating
  <2>2. \A j \in joins : j.answer = 0 => j.status \in {j.number, CANCELED}
    BY <1>1, Zenon DEF JoinInv
  <2>3. \A j \in joins' : j.answer = 0 => j.status \in {j.number, CANCELED}
    BY <1>2, <2>2, Zenon
  <2> QED  BY <1>1, <2>1, <2>3, CreateIdle, JoinIdle, Zenon
<1>6. Unique'
  BY <1>1, UniqueKept, Zenon
<1>7. RecordInv'
  <2> SUFFICES ASSUME NoFail'
               PROVE  Single' /\ Owned' /\ Joinable' /\ Joining' /\ Joined'
    BY Zenon DEF RecordInv
  <2>1. Single /\ Owned /\ Joinable /\ Joining /\ Joined
    BY <1>1, Zenon DEF RecordInv, NoFail
  <2>2. Single'
    BY <2>1, Zenon DEF Single, Kept
  <2>3. Owned'
    <3> SUFFICES ASSUME NEW e \in Entries, Kept(e)
                 PROVE  /\ stacks[e].id \in Workers
                        /\ tcb[stacks[e].id].number = mapped[stacks[e].stack] /\ ~tcb[stacks[e].id].detached
      BY <1>1, Zenon DEF Owned, Owns, Kept
    <3>1. stacks[e].id # me.tid
      BY Zenon DEF Holds, Kept
    <3> QED  BY <2>1, <3>1, Zenon DEF Owned, Owns
  <2>4. Joinable' /\ Joining'
    BY <1>1, <2>1, RecordedKept, Zenon DEF Joinable, Joining
  <2>5. ~me.kept
    BY <2>1, Zenon DEF Joining, Recorded
  <2>6. Joined'
    BY <2>1, <2>5, Zenon DEF Joined
  <2> QED  BY <2>2, <2>3, <2>4, <2>6, Zenon
<1> QED  BY <1>1, <1>3, <1>4, <1>5, <1>6, <1>7, Zenon DEF IInv

\* mv_thread_join takes the stack out of the table.
LEMMA ForgetKeeps ==
  ASSUME IInv, Going, me.pc = "forget", NEW d \in Entries, Holds(d, me.tid), stacks'[d] = NoEntry,
         \A e \in Entries : e # d => stacks'[e] = stacks[e],
         stacks' \in [Entries -> [id : Slots \cup {0}, stack : Stacks \cup {None}]],
         me'.pc = "unmap", me'.stack = stacks[d].stack, me'.number = me.number, me'.kept = me.kept,
         me'.status = me.status,
         mapped' = mapped, handles' = handles, creates' = creates, joins' = joins
  PROVE  IInv'
<1>1. /\ Types /\ EntryInv /\ JoinInv /\ Unique /\ RecordInv
      /\ tcb' = tcb /\ frame' \in [Slots -> Frame] /\ \A i \in Workers : Live(i)' <=> Live(i)
      /\ WorkerInv' /\ MainInv'
  BY Parts, Zenon DEF Going
<1>2. /\ EntryInv' /\ \A e \in Entries : stacks'[e].stack # stacks[d].stack
      /\ \A i \in Workers : Live(i) /\ tcb[i].stack = stacks[d].stack => i = me.tid
  BY <1>1, ForgetsEntry, Zenon
<1>3. Types'
  BY <1>1, Zenon DEF Types
<1>4. CreateInv'
  <2>1. "unmap" \notin Creating
    BY Zenon DEF Creating
  <2> QED  BY <2>1, CreateIdle, Zenon
<1>5. JoinInv'
  <2>1. /\ me.number \in 1 .. creates /\ me.status \in {me.number, CANCELED} /\ ~Live(me.tid)
        /\ \A j \in joins : j.answer = 0 => j.status \in {j.number, CANCELED}
    BY <1>1, Zenon DEF JoinInv
  <2>2. stacks[d].stack \in Stacks
    BY <1>1, Zenon DEF Types, Holds
  <2>3. \A i \in Workers : ~(Live(i)' /\ tcb'[i].stack = me'.stack)
    BY <1>1, <1>2, <2>1, Zenon
  <2> QED  BY <1>2, <2>1, <2>2, <2>3, Zenon DEF JoinInv
<1>6. Unique'
  BY <1>1, UniqueKept, Zenon
<1>7. RecordInv'
  <2> SUFFICES ASSUME NoFail'
               PROVE  Single' /\ Owned' /\ Joinable' /\ Joining' /\ Joined'
    BY Zenon DEF RecordInv
  <2>1. Single /\ Joining /\ Joined /\ NoFail
    BY <1>1, Zenon DEF RecordInv, NoFail
  <2>2. Single' /\ Owned' /\ Joinable'
    BY <1>1, <2>1, ForgetsRecord, Zenon
  <2>3. me.kept => mapped[stacks[d].stack] = me.number
    <3> SUFFICES ASSUME me.kept
                 PROVE  mapped[stacks[d].stack] = me.number
      BY Zenon
    <3>1. PICK e \in Entries : Holds(e, me.tid) /\ mapped[stacks[e].stack] = me.number
      BY <2>1, Zenon DEF Joining, Recorded
    <3>2. Kept(e) /\ Kept(d) /\ stacks[e].id = stacks[d].id
      BY <3>1, Zenon DEF Holds, Kept
    <3>3. e = d
      BY <2>1, <3>2, Zenon DEF Single
    <3> QED  BY <3>1, <3>3, Zenon
  <2>4. Joining'
    BY <2>3, Zenon DEF Joining
  <2>5. Joined'
    BY <2>1, Zenon DEF Joined
  <2> QED  BY <2>2, <2>4, <2>5, Zenon
<1> QED  BY <1>1, <1>2, <1>3, <1>4, <1>5, <1>6, <1>7, Zenon DEF IInv

\* mv_thread_detach, of a thread whose stack is not recorded or is.
LEMMA DetachedKeeps ==
  ASSUME IInv, Going, me.pc = "detached", me'.pc = "run",
         \/ stacks' = stacks /\ \A e \in Entries : ~Holds(e, me.tid)
         \/ \E d \in Entries : /\ Holds(d, me.tid) /\ stacks'[d] = NoEntry
                              /\ \A e \in Entries : e # d => stacks'[e] = stacks[e],
         stacks' \in [Entries -> [id : Slots \cup {0}, stack : Stacks \cup {None}]],
         mapped' = mapped, handles' = handles, creates' = creates, joins' = joins
  PROVE  IInv'
<1>1. /\ Types /\ EntryInv /\ JoinInv /\ Unique /\ RecordInv
      /\ tcb' = tcb /\ frame' \in [Slots -> Frame] /\ \A i \in Workers : Live(i)' <=> Live(i)
      /\ WorkerInv' /\ MainInv'
  BY Parts, Zenon DEF Going
<1>2. Types'
  BY <1>1, Zenon DEF Types
<1>3. CreateInv' /\ JoinInv'
  <2>1. "run" \notin Creating
    BY Zenon DEF Creating
  <2>2. \A j \in joins : j.answer = 0 => j.status \in {j.number, CANCELED}
    BY <1>1, Zenon DEF JoinInv
  <2>3. \A j \in joins' : j.answer = 0 => j.status \in {j.number, CANCELED}
    BY <2>2, Zenon
  <2> QED  BY <1>1, <2>1, <2>3, CreateIdle, JoinIdle, Zenon
<1>4. Unique'
  BY <1>1, UniqueKept, Zenon
<1>5. EntryInv' /\ (NoFail => Single' /\ Owned' /\ Joinable')
  <2>1. CASE stacks' = stacks /\ \A e \in Entries : ~Holds(e, me.tid)
    <3>1. EntryInv'
      BY <1>1, <2>1, EntryKept, Zenon
    <3> SUFFICES ASSUME NoFail
                 PROVE  Single' /\ Owned' /\ Joinable'
      BY <3>1, Zenon
    <3>2. Single /\ Owned /\ Joinable
      BY <1>1, Zenon DEF RecordInv
    <3>3. Single'
      BY <2>1, <3>2, Zenon DEF Single, Kept
    <3>4. Owned'
      <4> SUFFICES ASSUME NEW e \in Entries, Kept(e)
                   PROVE  /\ stacks[e].id \in Workers
                          /\ tcb[stacks[e].id].number = mapped[stacks[e].stack] /\ ~tcb[stacks[e].id].detached
        BY <1>1, <2>1, Zenon DEF Owned, Owns, Kept
      <4>1. stacks[e].id # me.tid
        BY <2>1, Zenon DEF Holds, Kept
      <4> QED  BY <3>2, <4>1, Zenon DEF Owned, Owns
    <3>5. Joinable'
      BY <1>1, <2>1, <3>2, RecordedKept, Zenon DEF Joinable
    <3> QED  BY <3>3, <3>4, <3>5, Zenon
  <2>2. ASSUME NEW d \in Entries, Holds(d, me.tid), stacks'[d] = NoEntry,
               \A e \in Entries : e # d => stacks'[e] = stacks[e]
        PROVE  EntryInv' /\ (NoFail => Single' /\ Owned' /\ Joinable')
    <3>1. EntryInv'
      BY <1>1, <2>2, ForgetsEntry, Zenon
    <3>2. NoFail => Single' /\ Owned' /\ Joinable'
      BY <1>1, <2>2, ForgetsRecord, Zenon
    <3> QED  BY <3>1, <3>2, Zenon
  <2> QED  BY <2>1, <2>2, Zenon
<1>6. RecordInv'
  <2> SUFFICES ASSUME NoFail'
               PROVE  Single' /\ Owned' /\ Joinable' /\ Joining' /\ Joined'
    BY Zenon DEF RecordInv
  <2>1. NoFail /\ Joined
    BY <1>1, Zenon DEF RecordInv, NoFail
  <2>2. Joining' /\ Joined'
    BY <2>1, Zenon DEF Joining, Joined
  <2> QED  BY <1>5, <2>1, <2>2, Zenon
<1> QED  BY <1>1, <1>2, <1>3, <1>4, <1>5, <1>6, Zenon DEF IInv

=============================================================================
