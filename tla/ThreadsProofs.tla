---------------------------- MODULE ThreadsProofs ----------------------------
(***************************************************************************)
(* For any number of task slots, table entries, stacks and threads, while  *)
(* one thread creates, joins and detaches the others: no thread loses the  *)
(* stack it stands on, a join hands over the value of the thread it was    *)
(* given, and releases its stack.                                          *)
(***************************************************************************)
EXTENDS ThreadsInv

(* The actions *)

\* Nothing but main's frame and what it does to the table.
LEMMA MainMoves ==
  ASSUME IInv, tcb[Main].state = "LIVE", NEW g \in Frame, g.pc # "canceled",
         frame' = [frame EXCEPT ![Main] = g], tcb' = tcb, mapped' = mapped, creates' = creates
  PROVE  me' = g /\ Going
<1>1. creates' \in Nat /\ creates <= creates'
  BY Parts, Numbers
<1> QED  BY <1>1, MainGoes, Zenon

\* With one caller a call is a call of main().
LEMMA MainCalls ==
  ASSUME OneCaller, NEW t \in Slots, Calls(t)
  PROVE  t = Main /\ tcb[Main].state = "LIVE" /\ me.pc = "run"
BY Zenon DEF OneCaller, Calls, Runs, me

\* A step inside the library is a step of main().
LEMMA MainRuns ==
  ASSUME IInv, NEW t \in Slots, NEW p \in Places \ {"run", "canceled"}, Runs(t, p)
  PROVE  t = Main /\ tcb[Main].state = "LIVE" /\ me.pc = p /\ me \in Frame /\ Main \in Slots
<1>1. t = Main
  BY OnlyMain, Zenon DEF Runs
<1> QED  BY <1>1, Parts, Zenon DEF Runs, me

\* mv_thread_create: the mapping,
LEMMA CreateStep ==
  ASSUME IInv, OneCaller, NEW t \in Slots, Create(t)
  PROVE  IInv'
<1>1. /\ t = Main /\ tcb[Main].state = "LIVE" /\ me.pc = "run" /\ me \in Frame /\ Main \in Slots
      /\ creates < MaxCreates /\ creates' = creates + 1 /\ UNCHANGED <<tcb, stacks, handles, joins>>
  BY MainCalls, Parts, Constants, Zenon DEF Create, me
<1> DEFINE free == {s \in Stacks : mapped[s] = 0}
<1>2. CASE free = {}
  <2>1. UNCHANGED <<mapped, frame>>
    BY <1>2, Zenon DEF Create
  <2> QED  BY <1>1, <2>1, CreateFailsKeeps, Zenon
<1>3. CASE free # {}
  <2>1. Min(free) \in free
    <3>1. free \in SUBSET Nat
      BY Constants, Zenon
    <3> HIDE DEF free
    <3> QED  BY <1>3, <3>1, MinIn, Zenon
  <2>2. PICK s \in Stacks : /\ mapped[s] = 0 /\ mapped' = [mapped EXCEPT ![s] = creates']
                           /\ frame' = [frame EXCEPT ![t].pc = "clone", ![t].stack = s, ![t].number = creates']
    BY <1>3, <2>1, Zenon DEF Create
  <2> HIDE DEF free
  <2>3. PICK n \in Nat : n = creates'
    BY <1>1, Parts, Numbers
  <2> DEFINE g == Maps(me, s, n)
  <2>4. frame' = [frame EXCEPT ![Main] = g]
    BY <1>1, <2>2, <2>3, Zenon DEF me, Maps
  <2>5. g \in Frame /\ g.pc = "clone" /\ g.stack = s /\ g.number = n
    <3>1. me \in Frame
      BY <1>1, Zenon
    <3> QED  BY <3>1, FrameMaps
  <2> HIDE DEF g
  <2> QED  BY <1>1, <2>2, <2>3, <2>4, <2>5, CreateMapsKeeps, ZenonT(60)
<1> QED  BY <1>2, <1>3, Zenon

\* SYS_CLONE,
LEMMA CloneStep ==
  ASSUME IInv, NEW t \in Slots, Clone(t)
  PROVE  IInv'
<1>1. t = Main /\ tcb[Main].state = "LIVE" /\ me.pc = "clone" /\ me \in Frame /\ Main \in Slots
  <2>1. "clone" \in Places \ {"run", "canceled"}
    BY Zenon DEF Places, Creating
  <2> QED  BY <2>1, MainRuns, Zenon DEF Clone
<1>2. In("FREE") # {} /\ In("FREE") \in SUBSET Nat
  BY Constants, Zenon DEF Clone, In
<1>3. Min(In("FREE")) \in In("FREE")
  BY <1>2, MinIn, Zenon
<1>4. PICK i \in Slots : /\ tcb[i].state = "FREE"
                        /\ tcb' = [tcb EXCEPT ![i] = New(frame[t].stack, frame[t].number)]
                        /\ frame' = [frame EXCEPT ![t].pc = "remember", ![t].tid = i, ![i] = AtRest]
  BY <1>3, Zenon DEF Clone, In, New
<1>5. /\ i \in Workers /\ i # Main /\ me.stack \in Stacks /\ me.number \in Nat
      /\ stacks' = stacks /\ mapped' = mapped /\ handles' = handles /\ creates' = creates /\ joins' = joins
  <2>1. i \in Workers /\ i # Main
    BY <1>1, <1>4, Zenon DEF Workers
  <2>2. CreateInv /\ me.pc \in Creating
    BY <1>1, Parts, Zenon DEF Creating
  <2>3. me.stack \in Stacks /\ me.number \in Nat
    BY <1>1, <2>2, Zenon DEF CreateInv, Frame
  <2> QED  BY <2>1, <2>3, Zenon DEF Clone
<1> DEFINE g == [me EXCEPT !.pc = "remember", !.tid = i]
           k == New(me.stack, me.number)
<1>6. frame' = [frame EXCEPT ![Main] = g, ![i] = AtRest]
  BY <1>1, <1>4, Zenon DEF me
<1>7. g \in Frame /\ g.pc = "remember" /\ g.tid = i /\ g.stack = me.stack /\ g.number = me.number
  BY <1>1, FrameClones, Zenon
<1> HIDE DEF g
<1>8. /\ k \in Task /\ k.state = "LIVE" /\ k.stack = me.stack /\ k.number = me.number /\ k.detached = FALSE
      /\ tcb' = [tcb EXCEPT ![i] = k]
  BY <1>1, <1>4, <1>5, NewIs, Zenon DEF me
<1> HIDE DEF k
<1>9. /\ tcb' \in [Slots -> Task] /\ tcb'[i] = k /\ tcb'[Main] = tcb[Main]
      /\ \A j \in Workers : j # i => tcb'[j] = tcb[j]
  BY <1>1, <1>5, <1>8, Parts, Constants, Zenon DEF Types
<1>10. frame' \in [Slots -> Frame] /\ me' = g
  BY <1>1, <1>5, <1>6, <1>7, AtRestIs, Parts, Zenon DEF Types, me
<1>11. \A j \in Workers : frame'[j].pc \in {"run", "canceled"}
  <2>1. frame'[i] = AtRest /\ \A j \in Workers : j # i => frame'[j] = frame[j]
    BY <1>1, <1>5, <1>6, Parts, Constants, Zenon DEF Types, Workers
  <2> QED  BY <2>1, AtRestIs, Parts, Zenon DEF WorkerInv
<1> QED  BY <1>1, <1>4, <1>5, <1>7, <1>8, <1>9, <1>10, <1>11, CloneKeeps, ZenonT(60)

\* a mapping released after a failed clone or by a join,
LEMMA ReleaseStep ==
  ASSUME IInv, NEW t \in Slots, CloneFails(t) \/ Unmap(t)
  PROVE  IInv'
<1>1. "clone" \in Places \ {"run", "canceled"} /\ "unmap" \in Places \ {"run", "canceled"}
  BY Zenon DEF Places, Creating
<1>2. CASE CloneFails(t)
  <2>1. t = Main /\ tcb[Main].state = "LIVE" /\ me.pc = "clone"
    BY <1>1, <1>2, MainRuns, Zenon DEF CloneFails
  <2> QED  BY <1>2, <2>1, ReleaseKeeps, Zenon DEF CloneFails, Rest, me
<1>3. CASE Unmap(t)
  <2>1. t = Main /\ tcb[Main].state = "LIVE" /\ me.pc = "unmap"
    BY <1>1, <1>3, MainRuns, Zenon DEF Unmap
  <2> QED  BY <1>3, <2>1, ReleaseKeeps, Zenon DEF Unmap, Rest, me
<1> QED  BY <1>2, <1>3, Zenon

\* the search of remember_stack for an entry,
LEMMA RememberStep ==
  ASSUME IInv, NEW t \in Slots, Remember(t)
  PROVE  IInv'
<1>1. t = Main /\ tcb[Main].state = "LIVE" /\ me.pc = "remember" /\ me \in Frame /\ Main \in Slots /\ me = frame[t]
  <2>1. "remember" \in Places \ {"run", "canceled"}
    BY Zenon DEF Places, Creating
  <2> QED  BY <2>1, MainRuns, Zenon DEF Remember, me
<1>2. tcb' = tcb /\ stacks' = stacks /\ mapped' = mapped /\ creates' = creates /\ joins' = joins
  BY Zenon DEF Remember
<1> DEFINE free == {e \in Entries : stacks[e].stack = None}
<1>3. CASE free = {}
  <2> DEFINE x == [id |-> me.tid, number |-> me.number, kept |-> FALSE]
  <2>1. handles' = handles \cup {x} /\ frame' = [frame EXCEPT ![Main] = AtRest]
    BY <1>1, <1>3, Zenon DEF Remember, Hands, Rest
  <2>2. x \in [id : {me.tid}, number : {me.number}, kept : {FALSE}]
    BY Zenon
  <2> HIDE DEF x, free
  <2>3. me' = AtRest /\ AtRest.pc = "run" /\ Going
    BY <1>1, <1>2, <2>1, AtRestIs, MainMoves, Zenon
  <2> QED  BY <1>1, <1>2, <2>1, <2>2, <2>3, UnrecordedKeeps, Zenon
<1>4. CASE free # {}
  <2>1. Min(free) \in free
    <3>1. free \in SUBSET Nat
      BY Constants, Zenon
    <3> HIDE DEF free
    <3> QED  BY <1>4, <3>1, MinIn, Zenon
  <2>2. PICK e \in Entries : /\ stacks[e].stack = None
                            /\ frame' = [frame EXCEPT ![t].pc = "store_id", ![t].entry = e]
    BY <1>4, <2>1, Zenon DEF Remember
  <2>3. handles' = handles
    BY <1>4, Zenon DEF Remember
  <2> HIDE DEF free
  <2> DEFINE g == Finds(me, e)
  <2>4. frame' = [frame EXCEPT ![Main] = g]
    BY <1>1, <2>2, Zenon DEF me, Finds
  <2>5. /\ g \in Frame /\ g.pc = "store_id" /\ g.entry = e /\ g.tid = me.tid /\ g.stack = me.stack
        /\ g.number = me.number
    BY <1>1, FrameFinds
  <2> HIDE DEF g
  <2>6. me' = g /\ Going
    BY <1>1, <1>2, <2>4, <2>5, MainMoves, Zenon
  <2>7. ~Kept(me'.entry)
    BY <2>2, <2>5, <2>6, Zenon DEF Kept
  <2> QED  BY <1>1, <1>2, <2>3, <2>5, <2>6, <2>7, FindKeeps, ZenonT(60)
<1> QED  BY <1>3, <1>4, Zenon

\* its store of the id
LEMMA StoreIdStep ==
  ASSUME IInv, NEW t \in Slots, StoreId(t)
  PROVE  IInv'
<1>1. t = Main /\ tcb[Main].state = "LIVE" /\ me.pc = "store_id" /\ me \in Frame /\ Main \in Slots /\ me = frame[t]
  <2>1. "store_id" \in Places \ {"run", "canceled"}
    BY Zenon DEF Places, Creating
  <2> QED  BY <2>1, MainRuns, Zenon DEF StoreId, me
<1>2. /\ tcb' = tcb /\ mapped' = mapped /\ handles' = handles /\ creates' = creates /\ joins' = joins
      /\ stacks' = [stacks EXCEPT ![me.entry].id = me.tid]
  BY <1>1, Zenon DEF StoreId
<1> DEFINE g == [me EXCEPT !.pc = "store_stack"]
<1>3. frame' = [frame EXCEPT ![Main] = g]
  BY <1>1, Zenon DEF StoreId, Goto
<1>4. /\ g \in Frame /\ g.pc = "store_stack" /\ g.entry = me.entry /\ g.tid = me.tid /\ g.stack = me.stack
      /\ g.number = me.number
  <2>1. "store_stack" \in Places
    BY Zenon DEF Places, Creating
  <2> QED  BY <1>1, <2>1, FrameGoes
<1> HIDE DEF g
<1>5. me' = g /\ Going
  BY <1>1, <1>2, <1>3, <1>4, MainMoves, Zenon
<1>6. me.entry \in Entries /\ me.tid \in Slots
  BY <1>1, Creates, Constants, Zenon
<1>7. stacks \in [Entries -> [id : Slots \cup {0}, stack : Stacks \cup {None}]]
  BY Parts, Zenon DEF Types
<1> DEFINE k == [stacks[me.entry] EXCEPT !.id = me.tid]
<1>8. /\ stacks' = [stacks EXCEPT ![me.entry] = k] /\ k.id = me.tid /\ k.stack = stacks[me.entry].stack
      /\ k \in [id : Slots \cup {0}, stack : Stacks \cup {None}]
  BY <1>2, <1>6, <1>7, Zenon
<1> HIDE DEF k
<1>9. /\ stacks' \in [Entries -> [id : Slots \cup {0}, stack : Stacks \cup {None}]]
      /\ stacks'[me.entry] = k /\ \A e \in Entries : e # me.entry => stacks'[e] = stacks[e]
  BY <1>6, <1>7, <1>8, Zenon
<1>10. stacks'[me.entry].id = me.tid /\ \A e \in Entries : stacks'[e].stack = stacks[e].stack
  BY <1>8, <1>9, Zenon
<1> QED  BY <1>1, <1>2, <1>4, <1>5, <1>9, <1>10, StoreIdKeeps, Zenon

\* and of the stack.
LEMMA StoreStackStep ==
  ASSUME IInv, NEW t \in Slots, StoreStack(t)
  PROVE  IInv'
<1>1. t = Main /\ tcb[Main].state = "LIVE" /\ me.pc = "store_stack" /\ me \in Frame /\ Main \in Slots /\ me = frame[t]
  <2>1. "store_stack" \in Places \ {"run", "canceled"}
    BY Zenon DEF Places, Creating
  <2> QED  BY <2>1, MainRuns, Zenon DEF StoreStack, me
<1> DEFINE x == [id |-> me.tid, number |-> me.number, kept |-> TRUE]
<1>2. /\ tcb' = tcb /\ mapped' = mapped /\ creates' = creates /\ joins' = joins
      /\ stacks' = [stacks EXCEPT ![me.entry].stack = me.stack]
      /\ handles' = handles \cup {x} /\ frame' = [frame EXCEPT ![Main] = AtRest]
  BY <1>1, Zenon DEF StoreStack, Hands, Rest
<1>3. x \in [id : {me.tid}, number : {me.number}, kept : {TRUE}]
  BY Zenon
<1> HIDE DEF x
<1>4. me' = AtRest /\ AtRest.pc = "run" /\ Going
  BY <1>1, <1>2, AtRestIs, MainMoves, Zenon
<1>5. me.entry \in Entries /\ me.stack \in Stacks
  BY <1>1, Creates, Zenon
<1>6. stacks \in [Entries -> [id : Slots \cup {0}, stack : Stacks \cup {None}]]
  BY Parts, Zenon DEF Types
<1> DEFINE k == [stacks[me.entry] EXCEPT !.stack = me.stack]
<1>7. /\ stacks' = [stacks EXCEPT ![me.entry] = k] /\ k.id = stacks[me.entry].id /\ k.stack = me.stack
      /\ k \in [id : Slots \cup {0}, stack : Stacks \cup {None}]
  BY <1>2, <1>5, <1>6, Zenon
<1> HIDE DEF k
<1>8. /\ stacks' \in [Entries -> [id : Slots \cup {0}, stack : Stacks \cup {None}]]
      /\ stacks'[me.entry] = k /\ \A e \in Entries : e # me.entry => stacks'[e] = stacks[e]
  BY <1>5, <1>6, <1>7, Zenon
<1>9. stacks'[me.entry].id = stacks[me.entry].id /\ stacks'[me.entry].stack = me.stack
  BY <1>7, <1>8, Zenon
<1> QED  BY <1>1, <1>2, <1>3, <1>4, <1>8, <1>9, StoreStackKeeps, Zenon

\* Main's place after SYS_WAITPID has answered c, of those a thread with number n can end with.
LEMMA Answer ==
  ASSUME Types, NEW n \in 1 .. creates, NEW c \in Codes(n)
  PROVE  c \in Int /\ (c < 0 \/ c \in {n, CANCELED}) /\ ~(n < 0)
<1>1. n \in Nat
  BY Numbers, Zenon
<1>2. c = n \/ c = CANCELED \/ c = -1
  BY Zenon DEF Codes
<1> QED  BY <1>1, <1>2 DEF CANCELED

\* Main's control block alone changes, while it is LIVE or BLOCKED.
LEMMA MainBlock ==
  ASSUME IInv, NEW k \in Task, k.number = 0, tcb' = [tcb EXCEPT ![Main] = k],
         NEW g \in Frame, g.pc # "canceled", frame' = [frame EXCEPT ![Main] = g],
         k.state \in {"LIVE", "BLOCKED"}, k.state = "BLOCKED" => g.pc = "woken",
         mapped' = mapped, creates' = creates
  PROVE  /\ tcb' \in [Slots -> Task] /\ tcb'[Main] = k /\ \A j \in Workers : tcb'[j] = tcb[j]
         /\ frame' \in [Slots -> Frame] /\ me' = g /\ WorkerInv' /\ MainInv'
<1>1. Types /\ WorkerInv /\ MainInv /\ Main \in Slots
  BY Parts, Constants, Zenon
<1>2. tcb' \in [Slots -> Task] /\ tcb'[Main] = k /\ \A j \in Workers : tcb'[j] = tcb[j]
  BY <1>1, Constants, Zenon DEF Types, Workers
<1>3. frame' \in [Slots -> Frame] /\ me' = g /\ \A j \in Workers : frame'[j] = frame[j]
  BY <1>1, Constants, Zenon DEF Types, Workers, me
<1>4. MainInv'
  BY <1>2, <1>3, Zenon DEF MainInv
<1>5. WorkerInv'
  <2> SUFFICES ASSUME NEW j \in Workers
               PROVE  /\ frame'[j].pc \in {"run", "canceled"} /\ tcb'[j].state # "BLOCKED"
                      /\ tcb'[j].state \in {"FREE", "OTHER"} => tcb'[j].number = 0 /\ ~tcb'[j].detached
                      /\ tcb'[j].state \in {"LIVE", "ZOMBIE"} => tcb'[j].number \in 1 .. creates
                      /\ Live(j)' => tcb'[j].stack \in Stacks /\ mapped[tcb'[j].stack] = tcb'[j].number
                      /\ tcb'[j].state = "ZOMBIE" => tcb'[j].code \in Codes(tcb'[j].number)
    BY Zenon DEF WorkerInv, Codes
  <2>1. tcb'[j] = tcb[j] /\ frame'[j] = frame[j]
    BY <1>2, <1>3, Zenon
  <2>2. Live(j)' <=> Live(j)
    BY <2>1, Zenon DEF Live
  <2> QED  BY <1>1, <2>1, <2>2, Zenon DEF WorkerInv
<1> QED  BY <1>2, <1>3, <1>4, <1>5, Zenon

\* A thread's control block alone changes, and main's frame.
LEMMA WorkerBlock ==
  ASSUME IInv, tcb[Main].state = "LIVE", NEW i \in Workers, NEW k \in Task, tcb' = [tcb EXCEPT ![i] = k],
         NEW g \in Frame, g.pc # "canceled", frame' = [frame EXCEPT ![Main] = g],
         k = NoTask \/ (/\ Live(i) /\ k.state = tcb[i].state /\ k.number = tcb[i].number
                       /\ k.stack = tcb[i].stack /\ k.code = tcb[i].code),
         mapped' = mapped, creates' = creates
  PROVE  /\ tcb' \in [Slots -> Task] /\ tcb'[i] = k /\ \A j \in Workers : j # i => tcb'[j] = tcb[j]
         /\ frame' \in [Slots -> Frame] /\ me' = g /\ WorkerInv' /\ MainInv'
         /\ \A j \in Workers : Live(j)' => Live(j) /\ tcb'[j].stack = tcb[j].stack
<1>1. Types /\ WorkerInv /\ MainInv /\ Main \in Slots /\ i \in Slots /\ i # Main
  BY Parts, Constants, Zenon DEF Workers
<1>2. /\ tcb' \in [Slots -> Task] /\ tcb'[i] = k /\ tcb'[Main] = tcb[Main]
      /\ \A j \in Workers : j # i => tcb'[j] = tcb[j]
  BY <1>1, Constants, Zenon DEF Types
<1>3. frame' \in [Slots -> Frame] /\ me' = g /\ \A j \in Workers : frame'[j] = frame[j]
  BY <1>1, Constants, Zenon DEF Types, Workers, me
<1>4. MainInv'
  BY <1>1, <1>2, <1>3, Zenon DEF MainInv
<1>5. WorkerInv'
  <2> SUFFICES ASSUME NEW j \in Workers
               PROVE  /\ frame'[j].pc \in {"run", "canceled"} /\ tcb'[j].state # "BLOCKED"
                      /\ tcb'[j].state \in {"FREE", "OTHER"} => tcb'[j].number = 0 /\ ~tcb'[j].detached
                      /\ tcb'[j].state \in {"LIVE", "ZOMBIE"} => tcb'[j].number \in 1 .. creates
                      /\ tcb'[j].state = "LIVE" =>
                           tcb'[j].stack \in Stacks /\ mapped[tcb'[j].stack] = tcb'[j].number
                      /\ tcb'[j].state = "ZOMBIE" => tcb'[j].code \in Codes(tcb'[j].number)
    BY Zenon DEF WorkerInv, Live, Codes
  <2>1. /\ frame[j].pc \in {"run", "canceled"} /\ tcb[j].state # "BLOCKED"
        /\ tcb[j].state \in {"FREE", "OTHER"} => tcb[j].number = 0 /\ ~tcb[j].detached
        /\ tcb[j].state \in {"LIVE", "ZOMBIE"} => tcb[j].number \in 1 .. creates
        /\ tcb[j].state = "LIVE" => tcb[j].stack \in Stacks /\ mapped[tcb[j].stack] = tcb[j].number
        /\ tcb[j].state = "ZOMBIE" => tcb[j].code \in Codes(tcb[j].number)
    BY <1>1, Zenon DEF WorkerInv, Live
  <2>2. CASE j # i
    BY <1>2, <1>3, <2>1, <2>2, Zenon
  <2>3. CASE j = i /\ k = NoTask
    BY <1>2, <1>3, <2>1, <2>3, NoTaskIs, Zenon
  <2>4. CASE j = i /\ k # NoTask
    <3>1. /\ tcb'[j].state = "LIVE" /\ tcb[j].state = "LIVE" /\ tcb'[j].number = tcb[j].number
          /\ tcb'[j].stack = tcb[j].stack
      BY <1>2, <2>4, Zenon DEF Live
    <3> QED  BY <1>3, <2>1, <3>1, Zenon
  <2> QED  BY <2>2, <2>3, <2>4, Zenon
<1>6. \A j \in Workers : Live(j)' => Live(j) /\ tcb'[j].stack = tcb[j].stack
  <2> SUFFICES ASSUME NEW j \in Workers, tcb'[j].state = "LIVE"
               PROVE  tcb[j].state = "LIVE" /\ tcb'[j].stack = tcb[j].stack
    BY Zenon DEF Live
  <2>1. CASE j # i
    BY <1>2, <2>1, Zenon
  <2>2. CASE j = i
    BY <1>2, <2>2, NoTaskIs, ZenonT(60) DEF Live
  <2> QED  BY <2>1, <2>2, Zenon
<1> QED  BY <1>2, <1>3, <1>4, <1>5, <1>6, Zenon

\* mv_thread_join: the return of SYS_THREAD_JOIN,
LEMMA JoinWokenStep ==
  ASSUME IInv, NEW t \in Slots, JoinWoken(t)
  PROVE  IInv'
<1>1. t = Main /\ tcb[Main].state = "LIVE" /\ me.pc = "woken" /\ me \in Frame /\ Main \in Slots /\ me = frame[t]
  <2>1. "woken" \in Places \ {"run", "canceled"}
    BY Zenon DEF Places, Creating
  <2> QED  BY <2>1, MainRuns, Zenon DEF JoinWoken, me
<1>2. /\ stacks' = stacks /\ mapped' = mapped /\ handles' = handles /\ creates' = creates /\ joins' = joins
      /\ Types /\ RecordInv /\ tcb[Main] \in Task /\ tcb[Main].number = 0
  BY <1>1, Parts, Zenon DEF JoinWoken, MainInv
<1>3. /\ me.tid \in Workers /\ tcb[me.tid].number = me.number /\ tcb[Main].eax \in Codes(me.number)
      /\ ~Live(me.tid) /\ me.number \in 1 .. creates /\ \A h \in handles : h.number # me.number
  BY <1>1, Parts, Zenon DEF JoinInv
<1> DEFINE h == [id |-> me.tid, number |-> me.number, kept |-> me.kept]
           r == tcb[Main].eax
           g == After(h, r)
           k == [tcb[Main] EXCEPT !.eax = 0]
<1>4. frame' = [frame EXCEPT ![Main] = g] /\ tcb' = [tcb EXCEPT ![Main] = k]
  BY <1>1, Zenon DEF JoinWoken, Collected, After
<1>5. r \in Int /\ (r < 0 \/ r \in {me.number, CANCELED})
  BY <1>2, <1>3, Answer, Zenon
<1>6. h.id \in Slots /\ h.id = me.tid /\ h.number \in Nat /\ h.number = me.number /\ h.kept \in BOOLEAN /\ h.kept = me.kept
  BY <1>1, <1>2, <1>3, Numbers, Constants, Zenon DEF Frame
<1> HIDE DEF h
<1>7. /\ g \in Frame /\ g.tid = me.tid /\ g.number = me.number /\ g.kept = me.kept /\ g.status = r
      /\ IF r < 0 THEN g.pc = "failed" ELSE g.pc = "forget"
  BY <1>5, <1>6, FrameCollects, Zenon
<1> HIDE DEF g, r
<1>8. k \in Task /\ k.state = tcb[Main].state /\ k.number = tcb[Main].number
  BY <1>2, TaskAnswered, Zenon
<1> HIDE DEF k
<1>9. /\ tcb' \in [Slots -> Task] /\ \A j \in Workers : tcb'[j] = tcb[j]
      /\ frame' \in [Slots -> Frame] /\ me' = g /\ WorkerInv' /\ MainInv'
  <2>1. g.pc # "canceled" /\ k.state \in {"LIVE", "BLOCKED"} /\ k.state # "BLOCKED"
    BY <1>1, <1>7, <1>8, ZenonT(60)
  <2> QED  BY <1>2, <1>4, <1>7, <1>8, <2>1, MainBlock, ZenonT(60)
<1>10. \A j \in Workers : Live(j)' <=> Live(j)
  BY <1>9, Zenon DEF Live
<1>11. \/ me'.pc = "failed"
       \/ /\ me'.pc = "forget" /\ me'.status \in {me.number, CANCELED}
          /\ me'.kept /\ NoFail => Recorded(me.tid, me.number)
  <2>1. me.kept /\ NoFail => Recorded(me.tid, me.number)
    BY <1>1, <1>2, Zenon DEF RecordInv, Joining
  <2> QED  BY <1>5, <1>7, <1>9, <2>1, Zenon
<1>12. PICK i \in Workers, n \in 1 .. creates : i = me.tid /\ n = me.number
  BY <1>3, Zenon
<1>13. /\ tcb[i].number = n /\ tcb'[i].number \in {0, tcb[i].number} /\ ~Live(i)'
       /\ \A x \in handles' : x.number # n
       /\ me'.tid = i /\ me'.number = n
  BY <1>2, <1>3, <1>7, <1>9, <1>10, <1>12, ZenonT(60)
<1> QED  BY <1>1, <1>2, <1>9, <1>10, <1>11, <1>12, <1>13, CollectKeeps, ZenonT(60)

\* The handle main gives to SYS_WAITPID.
LEMMA HandleIs ==
  ASSUME IInv, NEW h \in handles
  PROVE  /\ h.id \in Workers /\ h.id \in Slots /\ h.number \in 1 .. creates /\ h.number \in Nat /\ h.number # 0
         /\ h.kept \in BOOLEAN /\ \A x \in handles \ {h} : x.number # h.number
<1>1. Types /\ Unique
  BY Parts, Zenon
<1>2. h.id \in Workers /\ h.number \in 1 .. creates /\ h.kept \in BOOLEAN
  BY <1>1, Zenon DEF Types
<1>3. h.id \in Slots /\ h.number \in Nat /\ h.number # 0
  BY <1>1, <1>2, Numbers, Zenon DEF Workers
<1>4. \A x \in handles \ {h} : x.number # h.number
  BY <1>1, Zenon DEF Unique, UniqueHandle
<1> QED  BY <1>2, <1>3, <1>4, Zenon

\* the call of it, which collects, fails or blocks,
LEMMA JoinStep ==
  ASSUME IInv, OneCaller, NEW t \in Slots, NEW h \in handles, Join(t, h)
  PROVE  IInv'
<1>1. /\ t = Main /\ tcb[Main].state = "LIVE" /\ me.pc = "run" /\ me \in Frame /\ Main \in Slots
      /\ stacks' = stacks /\ mapped' = mapped /\ creates' = creates /\ joins' = joins
      /\ handles' = handles \ {h} /\ tcb[h.id].number = h.number
  BY MainCalls, Parts, Constants, Zenon DEF Join, me
<1>2. /\ h.id \in Workers /\ h.id \in Slots /\ h.number \in 1 .. creates /\ h.number \in Nat /\ h.number # 0
      /\ h.kept \in BOOLEAN /\ (\A x \in handles' : x.number # h.number) /\ handles' \subseteq handles
  BY <1>1, HandleIs, Zenon
<1>3. PICK i \in Workers, n \in 1 .. creates : i = h.id /\ n = h.number
  BY <1>2, Zenon
<1>4. CASE tcb[h.id].detached /\ Collected(t, h, -1) /\ UNCHANGED tcb
  <2> DEFINE g == After(h, -1)
  <2>1. frame' = [frame EXCEPT ![Main] = g] /\ tcb' = tcb
    BY <1>1, <1>4, Zenon DEF Collected, After
  <2>2. -1 \in Int /\ -1 < 0
    OBVIOUS
  <2>3. g \in Frame /\ g.tid = i /\ g.number = n /\ g.pc = "failed"
    BY <1>2, <1>3, <2>2, FrameCollects, Zenon
  <2> HIDE DEF g
  <2>4. me' = g /\ Going
    BY <1>1, <2>1, <2>3, MainMoves, Zenon
  <2>5. /\ tcb' \in [Slots -> Task] /\ frame' \in [Slots -> Frame] /\ WorkerInv' /\ MainInv'
        /\ \A j \in Workers : Live(j)' => Live(j) /\ tcb'[j].stack = tcb[j].stack
        /\ \A j \in Workers : j # i => tcb'[j].number = tcb[j].number /\ tcb'[j].detached = tcb[j].detached
    BY <2>1, <2>4, Parts, Zenon DEF Going, Types
  <2>6. /\ tcb[i].number = n /\ tcb'[i].number \in {0, tcb[i].number} /\ me'.pc = "failed" /\ me'.tid = i
        /\ me'.number = n /\ \A x \in handles' : x.number # n
    BY <1>1, <1>2, <1>3, <2>1, <2>3, <2>4, ZenonT(60)
  <2> QED  BY <1>1, <1>2, <2>5, <2>6, CollectKeeps, ZenonT(60)
<1>5. CASE Reaps(tcb[h.id]) /\ Collected(t, h, tcb[h.id].code) /\ tcb' = [tcb EXCEPT ![h.id] = NoTask]
  <2> DEFINE r == tcb[h.id].code
             g == After(h, r)
  <2>1. frame' = [frame EXCEPT ![Main] = g] /\ tcb' = [tcb EXCEPT ![i] = NoTask]
    BY <1>1, <1>3, <1>5, Zenon DEF Collected, After
  <2>2. r \in Int /\ (r < 0 \/ r \in {n, CANCELED}) /\ ~tcb[h.id].detached
    <3>1. r \in Codes(n) /\ ~tcb[h.id].detached
      BY <1>1, <1>2, <1>3, <1>5, Parts, Zenon DEF Reaps, WorkerInv
    <3> QED  BY <3>1, Parts, Answer, Zenon
  <2>3. /\ g \in Frame /\ g.tid = i /\ g.number = n /\ g.kept = h.kept /\ g.status = r
        /\ IF r < 0 THEN g.pc = "failed" ELSE g.pc = "forget"
    BY <1>2, <1>3, <2>2, FrameCollects, ZenonT(60)
  <2> HIDE DEF g, r
  <2>4. /\ tcb' \in [Slots -> Task] /\ tcb'[i] = NoTask /\ \A j \in Workers : j # i => tcb'[j] = tcb[j]
        /\ frame' \in [Slots -> Frame] /\ me' = g /\ WorkerInv' /\ MainInv'
        /\ \A j \in Workers : Live(j)' => Live(j) /\ tcb'[j].stack = tcb[j].stack
    <3>1. g.pc # "canceled"
      BY <2>3, Zenon
    <3> QED  BY <1>1, <2>1, <2>3, <3>1, NoTaskIs, WorkerBlock, Zenon
  <2>5. \A j \in Workers : j # i => tcb'[j].number = tcb[j].number /\ tcb'[j].detached = tcb[j].detached
    BY <2>4, Zenon
  <2>6. /\ tcb[i].number = n /\ tcb'[i].number \in {0, tcb[i].number} /\ ~Live(i)' /\ me'.tid = i
        /\ me'.number = n /\ \A x \in handles' : x.number # n
    BY <1>1, <1>2, <1>3, <2>3, <2>4, NoTaskIs, ZenonT(60) DEF Live
  <2>7. \/ me'.pc = "failed"
        \/ me'.pc = "forget" /\ me'.status \in {n, CANCELED} /\ (me'.kept /\ NoFail => Recorded(i, n))
    <3>1. h.kept /\ NoFail => Recorded(i, n)
      BY <1>1, <1>3, <2>2, Parts, Zenon DEF RecordInv, Joinable
    <3> QED  BY <2>2, <2>3, <2>4, <3>1, Zenon
  <2> QED  BY <1>1, <1>2, <2>4, <2>5, <2>6, <2>7, CollectKeeps, ZenonT(60)
<1>6. CASE /\ ~tcb[h.id].detached /\ ~Reaps(tcb[h.id])
           /\ tcb' = [tcb EXCEPT ![t].state = "BLOCKED", ![t].wait = h.id]
           /\ frame' = [frame EXCEPT ![t] = [AtRest EXCEPT !.pc = "woken", !.tid = h.id, !.number = h.number,
                                                           !.kept = h.kept]]
  <2> DEFINE g == Waiting(h.id, h.number, h.kept)
             k == [tcb[Main] EXCEPT !.state = "BLOCKED", !.wait = h.id]
  <2>1. frame' = [frame EXCEPT ![Main] = g] /\ tcb' = [tcb EXCEPT ![Main] = k]
    BY <1>1, <1>6, Zenon DEF Waiting
  <2>2. g \in Frame /\ g.pc = "woken" /\ g.tid = h.id /\ g.number = h.number /\ g.kept = h.kept
    BY <1>2, FrameWaits
  <2> HIDE DEF g
  <2>3. tcb[Main] \in Task /\ tcb[Main].number = 0 /\ tcb[h.id] \in Task
    BY <1>1, <1>2, Parts, Zenon DEF MainInv
  <2>4. k \in Task /\ k.state = "BLOCKED" /\ k.number = 0 /\ k.wait = h.id
    BY <1>2, <2>3, TaskBlocked, ZenonT(60)
  <2> HIDE DEF k
  <2>5. /\ tcb' \in [Slots -> Task] /\ tcb'[Main] = k /\ \A j \in Workers : tcb'[j] = tcb[j]
        /\ frame' \in [Slots -> Frame] /\ me' = g /\ WorkerInv' /\ MainInv'
    BY <1>1, <2>1, <2>2, <2>4, MainBlock, Zenon
  <2>6. Live(h.id)
    <3>1. tcb[h.id].state \in {"LIVE", "ZOMBIE"}
      BY <1>1, <1>2, <2>3, Parts, ZenonT(60) DEF WorkerInv, Task
    <3> QED  BY <1>6, <3>1, Zenon DEF Reaps, Live
  <2> QED  BY <1>1, <1>6, <2>2, <2>4, <2>5, <2>6, BlocksKeeps, ZenonT(60)
<1> QED  BY <1>4, <1>5, <1>6, Zenon DEF Join

\* the return of -1,
LEMMA JoinFailsStep ==
  ASSUME IInv, NEW t \in Slots, JoinFails(t)
  PROVE  IInv'
<1>1. t = Main /\ tcb[Main].state = "LIVE" /\ me.pc = "failed" /\ me \in Frame /\ Main \in Slots /\ me = frame[t]
  <2>1. "failed" \in Places \ {"run", "canceled"}
    BY Zenon DEF Places, Creating
  <2> QED  BY <2>1, MainRuns, Zenon DEF JoinFails, me
<1> DEFINE x == [number |-> me.number, kept |-> me.kept, answer |-> -1, status |-> me.status]
<1>2. /\ tcb' = tcb /\ stacks' = stacks /\ mapped' = mapped /\ creates' = creates /\ handles' = handles
      /\ joins' = joins \cup {x} /\ frame' = [frame EXCEPT ![Main] = AtRest]
  BY <1>1, Zenon DEF JoinFails, Ends, Rest
<1>3. x \in [number : {me.number}, kept : BOOLEAN, answer : {-1}, status : Int]
  BY <1>1, Zenon DEF Frame
<1> HIDE DEF x
<1>4. me' = AtRest /\ AtRest.pc = "run" /\ Going
  BY <1>1, <1>2, AtRestIs, MainMoves, ZenonT(60)
<1> QED  BY <1>1, <1>2, <1>3, <1>4, JoinFailsKeeps, Zenon

\* What forget_stack does to the table.
LEMMA ForgottenIs ==
  ASSUME IInv, NEW i \in Slots, stacks' = Forgotten(i)
  PROVE  /\ stacks' \in [Entries -> [id : Slots \cup {0}, stack : Stacks \cup {None}]]
         /\ Found(i) = {} => stacks' = stacks /\ \A e \in Entries : ~Holds(e, i)
         /\ Found(i) # {} => /\ Min(Found(i)) \in Entries /\ Holds(Min(Found(i)), i)
                            /\ stacks'[Min(Found(i))] = NoEntry
                            /\ \A e \in Entries : e # Min(Found(i)) => stacks'[e] = stacks[e]
<1>1. stacks \in [Entries -> [id : Slots \cup {0}, stack : Stacks \cup {None}]]
  BY Parts, Zenon DEF Types
<1>2. CASE Found(i) = {}
  <2>1. \A e \in Entries : ~Holds(e, i)
    BY <1>2, Zenon DEF Found
  <2> QED  BY <1>1, <1>2, <2>1, Zenon DEF Forgotten
<1>3. CASE Found(i) # {}
  <2>1. Min(Found(i)) \in Found(i)
    <3>1. Found(i) \in SUBSET Nat
      BY Constants, Zenon DEF Found
    <3> QED  BY <1>3, <3>1, MinIn, Zenon
  <2>2. PICK d \in Entries : d = Min(Found(i)) /\ Holds(d, i)
    BY <2>1, Zenon DEF Found
  <2>3. stacks' = [stacks EXCEPT ![d] = NoEntry]
    BY <1>3, <2>2, Zenon DEF Forgotten
  <2>4. NoEntry \in [id : Slots \cup {0}, stack : Stacks \cup {None}]
    BY Zenon DEF NoEntry
  <2>5. /\ stacks' \in [Entries -> [id : Slots \cup {0}, stack : Stacks \cup {None}]]
        /\ stacks'[d] = NoEntry /\ \A e \in Entries : e # d => stacks'[e] = stacks[e]
    BY <1>1, <2>3, <2>4, Zenon
  <2> QED  BY <1>3, <2>2, <2>5, Zenon
<1> QED  BY <1>2, <1>3, Zenon

\* and forget_stack.
LEMMA ForgetStep ==
  ASSUME IInv, NEW t \in Slots, Forget(t)
  PROVE  IInv'
<1>1. t = Main /\ tcb[Main].state = "LIVE" /\ me.pc = "forget" /\ me \in Frame /\ Main \in Slots /\ me = frame[t]
  <2>1. "forget" \in Places \ {"run", "canceled"}
    BY Zenon DEF Places, Creating
  <2> QED  BY <2>1, MainRuns, Zenon DEF Forget, me
<1>2. tcb' = tcb /\ mapped' = mapped /\ handles' = handles /\ creates' = creates /\ stacks' = Forgotten(me.tid)
  BY <1>1, Zenon DEF Forget
<1>3. me.tid \in Slots
  BY <1>1, GoneIs, Constants, Zenon
<1>4. CASE Found(me.tid) = {}
  <2> DEFINE x == [number |-> me.number, kept |-> me.kept, answer |-> 0, status |-> me.status]
  <2>1. joins' = joins \cup {x} /\ frame' = [frame EXCEPT ![Main] = AtRest]
    BY <1>1, <1>4, Zenon DEF Forget, Rest, Ends
  <2>2. x \in [number : {me.number}, kept : {me.kept}, answer : {0}, status : {me.status}]
    BY Zenon
  <2> HIDE DEF x
  <2>3. me' = AtRest /\ AtRest.pc = "run" /\ Going
    BY <1>1, <1>2, <2>1, AtRestIs, MainMoves, Zenon
  <2>4. stacks' = stacks /\ \A e \in Entries : ~Holds(e, me.tid)
    BY <1>2, <1>3, <1>4, ForgottenIs, Zenon
  <2> QED  BY <1>1, <1>2, <2>1, <2>2, <2>3, <2>4, ForgetNoneKeeps, ZenonT(60)
<1>5. CASE Found(me.tid) # {}
  <2>1. PICK d \in Entries : /\ d = Min(Found(me.tid)) /\ Holds(d, me.tid) /\ stacks'[d] = NoEntry
                            /\ \A e \in Entries : e # d => stacks'[e] = stacks[e]
    BY <1>2, <1>3, <1>5, ForgottenIs, Zenon
  <2>2. stacks' \in [Entries -> [id : Slots \cup {0}, stack : Stacks \cup {None}]]
    BY <1>2, <1>3, ForgottenIs, Zenon
  <2>3. joins' = joins /\ frame' = [frame EXCEPT ![t].pc = "unmap", ![t].stack = stacks[d].stack]
    BY <1>1, <1>5, <2>1, Zenon DEF Forget
  <2>4. stacks[d].stack \in Stacks
    BY <2>1, Parts, Zenon DEF Types, Holds
  <2> DEFINE g == Unmaps(me, stacks[d].stack)
  <2>5. frame' = [frame EXCEPT ![Main] = g]
    BY <1>1, <2>3, Zenon DEF Unmaps, me
  <2>6. /\ g \in Frame /\ g.pc = "unmap" /\ g.stack = stacks[d].stack /\ g.number = me.number
        /\ g.kept = me.kept /\ g.status = me.status
    BY <1>1, <2>4, FrameUnmaps
  <2> HIDE DEF g
  <2>7. me' = g /\ Going
    BY <1>1, <1>2, <2>5, <2>6, MainMoves, ZenonT(60)
  <2> QED  BY <1>1, <1>2, <2>1, <2>2, <2>3, <2>6, <2>7, ForgetKeeps, ZenonT(60)
<1> QED  BY <1>4, <1>5, Zenon

\* mv_thread_detach: its forget_stack,
LEMMA DetachedStep ==
  ASSUME IInv, NEW t \in Slots, Detached(t)
  PROVE  IInv'
<1>1. t = Main /\ tcb[Main].state = "LIVE" /\ me.pc = "detached" /\ me \in Frame /\ Main \in Slots /\ me = frame[t]
  <2>1. "detached" \in Places \ {"run", "canceled"}
    BY Zenon DEF Places, Creating
  <2> QED  BY <2>1, MainRuns, Zenon DEF Detached, me
<1>2. /\ tcb' = tcb /\ mapped' = mapped /\ handles' = handles /\ creates' = creates /\ joins' = joins
      /\ stacks' = Forgotten(me.tid) /\ frame' = [frame EXCEPT ![Main] = AtRest]
  BY <1>1, Zenon DEF Detached, Rest
<1>3. me.tid \in Slots
  BY <1>1, GoneIs, Constants, Zenon
<1>4. me' = AtRest /\ AtRest.pc = "run" /\ Going
  BY <1>1, <1>2, AtRestIs, MainMoves, Zenon
<1>5. stacks' \in [Entries -> [id : Slots \cup {0}, stack : Stacks \cup {None}]]
  BY <1>2, <1>3, ForgottenIs, Zenon
<1>6. \/ stacks' = stacks /\ \A e \in Entries : ~Holds(e, me.tid)
      \/ \E d \in Entries : /\ Holds(d, me.tid) /\ stacks'[d] = NoEntry
                           /\ \A e \in Entries : e # d => stacks'[e] = stacks[e]
  BY <1>2, <1>3, ForgottenIs, Zenon
<1> QED  BY <1>1, <1>2, <1>4, <1>5, <1>6, DetachedKeeps, ZenonT(60)

\* and its call of SYS_THREAD_DETACH.
LEMMA DetachStep ==
  ASSUME IInv, OneCaller, NEW t \in Slots, NEW h \in handles, Detach(t, h)
  PROVE  IInv'
<1>1. /\ t = Main /\ tcb[Main].state = "LIVE" /\ me.pc = "run" /\ me \in Frame /\ Main \in Slots
      /\ stacks' = stacks /\ mapped' = mapped /\ handles' = handles /\ creates' = creates /\ joins' = joins
  BY MainCalls, Parts, Constants, Zenon DEF Detach, me
<1>2. PICK i \in Workers : i = h.id /\ i \in Slots
  BY HandleIs, Zenon
<1>3. Live(i) /\ tcb[i] \in Task
  BY <1>2, Parts, Zenon DEF Detach, IsThread, WorkerInv, Live
<1> DEFINE k == [tcb[i] EXCEPT !.detached = TRUE]
           g == Detaches(me, i)
<1>4. tcb' = [tcb EXCEPT ![i] = k] /\ frame' = [frame EXCEPT ![Main] = g]
  BY <1>1, <1>2, Zenon DEF Detach, Detaches, me
<1>5. g \in Frame /\ g.pc = "detached" /\ g.tid = i
  BY <1>1, <1>2, FrameDetaches
<1> HIDE DEF g
<1>6. /\ k \in Task /\ k.detached = TRUE /\ k.state = tcb[i].state /\ k.number = tcb[i].number
      /\ k.stack = tcb[i].stack /\ k.code = tcb[i].code
  BY <1>3, TaskDetached, Zenon
<1> HIDE DEF k
<1>7. /\ tcb' \in [Slots -> Task] /\ tcb'[i] = k /\ \A j \in Workers : j # i => tcb'[j] = tcb[j]
      /\ frame' \in [Slots -> Frame] /\ me' = g /\ WorkerInv' /\ MainInv'
      /\ \A j \in Workers : Live(j)' => Live(j) /\ tcb'[j].stack = tcb[j].stack
  <2>1. g.pc # "canceled"
    BY <1>5, Zenon
  <2>2. k = NoTask \/ (/\ Live(i) /\ k.state = tcb[i].state /\ k.number = tcb[i].number
                      /\ k.stack = tcb[i].stack /\ k.code = tcb[i].code)
    BY <1>3, <1>6, Zenon
  <2>3. PICK kk \in Task : kk = k
    BY <1>6, Zenon
  <2>4. PICK gg \in Frame : gg = g
    BY <1>5, Zenon
  <2>5. /\ tcb' = [tcb EXCEPT ![i] = kk] /\ frame' = [frame EXCEPT ![Main] = gg] /\ gg.pc # "canceled"
        /\ kk = NoTask \/ (/\ Live(i) /\ kk.state = tcb[i].state /\ kk.number = tcb[i].number
                          /\ kk.stack = tcb[i].stack /\ kk.code = tcb[i].code)
    BY <1>4, <2>1, <2>2, <2>3, <2>4, Zenon
  <2>6. tcb[Main].state = "LIVE" /\ mapped' = mapped /\ creates' = creates
    BY <1>1, Zenon
  <2>7. /\ tcb' \in [Slots -> Task] /\ tcb'[i] = kk /\ \A j \in Workers : j # i => tcb'[j] = tcb[j]
        /\ frame' \in [Slots -> Frame] /\ me' = gg /\ WorkerInv' /\ MainInv'
        /\ \A j \in Workers : Live(j)' => Live(j) /\ tcb'[j].stack = tcb[j].stack
    BY <2>5, <2>6, WorkerBlock, ZenonT(60)
  <2> QED  BY <2>3, <2>4, <2>7, Zenon
<1>8. /\ \A j \in Workers : tcb'[j].number = tcb[j].number
      /\ \A j \in Workers : j # i => tcb'[j].detached = tcb[j].detached
      /\ tcb'[i].detached /\ me'.pc = "detached" /\ me'.tid = i
  BY <1>5, <1>6, <1>7, Zenon
<1> QED  BY <1>1, <1>3, <1>7, <1>8, DetachKeeps, ZenonT(60)

\* mv_thread_cancel and mv_thread_testcancel.
LEMMA RequestStep ==
  ASSUME IInv, OneCaller, NEW t \in Slots, TestCancel(t) \/ \E h \in handles : Cancel(t, h)
  PROVE  IInv'
<1>1. TRUE \in BOOLEAN /\ FALSE \in BOOLEAN
  BY Zenon
<1>2. CASE TestCancel(t)
  <2>1. t \in Workers
    BY <1>2, Zenon DEF TestCancel, Workers
  <2> QED  BY <1>1, <1>2, <2>1, RequestKeeps, ZenonT(60) DEF TestCancel, Goto
<1>3. ASSUME NEW h \in handles, Cancel(t, h)
      PROVE  IInv'
  <2>1. h.id \in Workers
    BY HandleIs, Zenon
  <2> QED  BY <1>1, <1>3, <2>1, RequestKeeps, Zenon DEF Cancel
<1> QED  BY <1>2, <1>3, Zenon

-----------------------------------------------------------------------------
(* The theorems *)

Leader == [NoTask EXCEPT !.state = "LIVE"]

\* main()'s own slot at the start.
LEMMA LeaderIs ==
  Leader \in Task /\ Leader.state = "LIVE" /\ Leader.number = 0
BY Zeros, ZenonT(60) DEF Leader, NoTask, Task

\* The invariant holds at the start,
LEMMA InitHolds ==
  ASSUME Init
  PROVE  IInv /\ StacksReleased
<1>1. /\ tcb = [i \in Slots |-> IF i = Main THEN Leader ELSE NoTask]
      /\ stacks = [e \in Entries |-> NoEntry] /\ mapped = [s \in Stacks |-> 0]
      /\ frame = [i \in Slots |-> AtRest] /\ handles = {} /\ creates = 0 /\ joins = {}
  BY Zenon DEF Init, Leader
<1>2. /\ Main \in Slots /\ tcb[Main] = Leader /\ \A i \in Workers : tcb[i] = NoTask /\ frame[i] = AtRest
      /\ me = AtRest
  BY <1>1, Constants, Zenon DEF Workers, me
<1>3. \A e \in Entries : ~Kept(e)
  BY <1>1, Zenon DEF Kept, NoEntry
<1>4. Types
  <2>1. tcb \in [Slots -> Task]
    BY <1>1, LeaderIs, NoTaskIs, Zenon
  <2>2. frame \in [Slots -> Frame]
    BY <1>1, AtRestIs, Zenon
  <2>3. NoEntry \in [id : Slots \cup {0}, stack : Stacks \cup {None}]
    BY Zenon DEF NoEntry
  <2>4. 0 \in 0 .. 0 /\ 0 \in 0 .. MaxCreates
    BY ThreadsAssumption
  <2>5. stacks \in [Entries -> [id : Slots \cup {0}, stack : Stacks \cup {None}]]
    BY <1>1, <2>3, ZenonT(60)
  <2>6. creates \in 0 .. MaxCreates /\ mapped \in [Stacks -> 0 .. creates]
    BY <1>1, <2>4, Zenon
  <2>7. /\ handles \subseteq [id : Workers, number : 1 .. creates, kept : BOOLEAN]
        /\ joins \subseteq [number : 1 .. creates, kept : BOOLEAN, answer : {0, -1}, status : Int]
    BY <1>1, Zenon
  <2> QED  BY <2>1, <2>2, <2>5, <2>6, <2>7, ZenonT(60) DEF Types
<1>5. WorkerInv
  BY <1>2, NoTaskIs, AtRestIs, ZenonT(60) DEF WorkerInv, Live
<1>6. MainInv
  BY <1>2, LeaderIs, AtRestIs, Zenon DEF MainInv
<1>7. EntryInv
  BY <1>3, Zenon DEF EntryInv
<1>8. me.pc = "run" /\ "run" \notin Creating
  BY <1>2, AtRestIs, Zenon DEF Creating
<1>9. CreateInv
  BY <1>8, Zenon DEF CreateInv
<1>10. JoinInv
  BY <1>1, <1>8, Zenon DEF JoinInv
<1>11. Unique
  <2>1. UniqueTask
    BY <1>2, NoTaskIs, Zenon DEF UniqueTask
  <2>2. UniqueMap /\ UniqueHandle
    BY <1>1, Zenon DEF UniqueMap, UniqueHandle
  <2> QED  BY <2>1, <2>2, Zenon DEF Unique
<1>12. RecordInv
  BY <1>1, <1>3, <1>8, Zenon DEF RecordInv, Single, Owned, Joinable, Joining, Joined
<1>13. StacksReleased
  BY <1>1, Zenon DEF StacksReleased
<1> QED  BY <1>4, <1>5, <1>6, <1>7, <1>9, <1>10, <1>11, <1>12, <1>13, ZenonT(60) DEF IInv

\* and every step keeps it.
LEMMA NextKeeps ==
  ASSUME IInv, OneCaller, [Next]_vars
  PROVE  IInv'
<1>1. ASSUME NEW t \in Slots, Goes(t)
      PROVE  IInv'
  BY <1>1, CloneStep, ReleaseStep, RememberStep, StoreIdStep, StoreStackStep, JoinWokenStep, ForgetStep,
     JoinFailsStep, DetachedStep, ThreadReturnsKeeps, ZenonT(60) DEF Goes
<1>2. ASSUME NEW t \in Slots, Create(t) \/ ThreadReturns(t) \/ TestCancel(t)
      PROVE  IInv'
  BY <1>2, CreateStep, ThreadReturnsKeeps, RequestStep, Zenon
<1>3. ASSUME NEW t \in Slots, NEW h \in handles, Join(t, h) \/ Detach(t, h) \/ Cancel(t, h)
      PROVE  IInv'
  BY <1>3, JoinStep, DetachStep, RequestStep, Zenon
<1>4. ASSUME Launch \/ \E i \in Slots : Leave(i)
      PROVE  IInv'
  BY <1>4, LaunchKeeps, LeaveKeeps, Zenon
<1>5. ASSUME UNCHANGED vars
      PROVE  IInv'
  BY <1>5, StutterKeeps, Zenon
<1> QED  BY <1>1, <1>2, <1>3, <1>4, <1>5, Zenon DEF Next

\* A step that leaves main with a join that failed has neither mapped, released nor ended one.
LEMMA FailsAlone ==
  ASSUME IInv, OneCaller, [Next]_vars, me'.pc = "failed"
  PROVE  mapped' = mapped /\ joins' = joins
<1>1. Types /\ Main \in Slots /\ DOMAIN frame = Slots
  BY Parts, Constants, Zenon DEF Types
<1>2. ASSUME NEW t \in Slots, Rest(t)
      PROVE  t # Main
  <2>1. frame'[t] = AtRest
    BY <1>1, <1>2, Zenon DEF Rest
  <2> QED  BY <2>1, AtRestIs, Zenon DEF me
<1>3. ASSUME NEW t \in Slots, CloneFails(t) \/ Unmap(t) \/ JoinFails(t)
      PROVE  FALSE
  <2>1. Rest(t)
    BY <1>3, Zenon DEF CloneFails, Unmap, JoinFails
  <2>2. frame[t].pc \in {"clone", "unmap", "failed"}
    BY <1>3, Zenon DEF CloneFails, Unmap, JoinFails, Runs
  <2>3. t = Main
    BY <2>2, OnlyMain, Zenon
  <2> QED  BY <1>2, <2>1, <2>3, Zenon
<1>4. ASSUME NEW t \in Slots, Forget(t)
      PROVE  mapped' = mapped /\ joins' = joins
  <2>1. t = Main
    BY <1>4, OnlyMain, Zenon DEF Forget, Runs
  <2>2. ~Rest(t)
    BY <1>2, <2>1, Zenon
  <2> QED  BY <1>4, <2>2, Zenon DEF Forget
<1>5. ASSUME NEW t \in Slots, Create(t)
      PROVE  mapped' = mapped /\ joins' = joins
  <2>1. t = Main
    BY <1>5, MainCalls, Zenon DEF Create
  <2>2. me \in Frame
    BY <1>1, Parts, Zenon DEF me
  <2>3. joins' = joins
    BY <1>5, Zenon DEF Create
  <2>4. CASE mapped' = mapped
    BY <2>3, <2>4, Zenon
  <2>5. CASE mapped' # mapped
    <3>1. PICK s : frame' = [frame EXCEPT ![t].pc = "clone", ![t].stack = s, ![t].number = creates']
      BY <1>5, <2>5, Zenon DEF Create
    <3>2. frame' = [frame EXCEPT ![Main] = Maps(me, s, creates')]
      BY <2>1, <3>1, Zenon DEF me, Maps
    <3>3. me' = Maps(me, s, creates')
      BY <1>1, <3>2, Zenon DEF me
    <3>4. Maps(me, s, creates').pc = "clone"
      BY <2>2, Zenon DEF Maps, Frame
    <3> QED  BY <3>3, <3>4, Zenon
  <2> QED  BY <2>4, <2>5, Zenon
<1>6. ASSUME NEW t \in Slots, Goes(t)
      PROVE  mapped' = mapped /\ joins' = joins
  BY <1>3, <1>4, <1>6, Zenon
     DEF Goes, Clone, Remember, StoreId, StoreStack, JoinWoken, Detached, CanceledExit
<1>7. ASSUME NEW t \in Slots, NEW h \in handles, Join(t, h) \/ Detach(t, h) \/ Cancel(t, h)
      PROVE  mapped' = mapped /\ joins' = joins
  BY <1>7, Zenon DEF Join, Detach, Cancel
<1>8. ASSUME NEW t \in Slots, ThreadReturns(t) \/ TestCancel(t) \/ Launch \/ Leave(t) \/ UNCHANGED vars
      PROVE  mapped' = mapped /\ joins' = joins
  BY <1>8, Zenon DEF ThreadReturns, TestCancel, Launch, Leave, vars
<1> QED  BY <1>1, <1>5, <1>6, <1>7, <1>8, Zenon DEF Next

\* Every step keeps what the joins have released.
LEMMA ReleasedKeeps ==
  ASSUME IInv, IInv', OneCaller, [Next]_vars, StacksReleased
  PROVE  StacksReleased'
<1>1. CASE me'.pc = "failed"
  <2>1. mapped' = mapped /\ joins' = joins
    BY <1>1, FailsAlone, Zenon
  <2> QED  BY <2>1, Zenon DEF StacksReleased
<1>2. CASE me'.pc # "failed"
  <2>1. RecordInv'
    BY Zenon DEF IInv
  <2> QED  BY <1>2, <2>1, Zenon DEF RecordInv, NoFail, Joined, StacksReleased
<1> QED  BY <1>1, <1>2, Zenon

\* c/rt/thread.c, sched.inc: the invariant of the thread calls, one thread calling them.
THEOREM Invariance ==
  ASSUME OneCaller
  PROVE  Spec => [](IInv /\ StacksReleased)
<1>1. Init => IInv /\ StacksReleased
  BY InitHolds, Zenon
<1>2. IInv /\ StacksReleased /\ [Next]_vars => (IInv /\ StacksReleased)'
  BY NextKeeps, ReleasedKeeps, Zenon
<1> QED  BY <1>1, <1>2, PTL DEF Spec

\* thread.c:107-139: a thread that can still run stands on a mapping of its own, and a join
\* that answers 0 hands over the value of the thread it was given.
THEOREM StandCorrect ==
  ASSUME OneCaller
  PROVE  Spec => []ThreadsStand
<1>1. IInv => ThreadsStand
  <2> SUFFICES ASSUME IInv
               PROVE  ThreadsStand
    BY Zenon
  <2>1. WorkerInv /\ JoinInv
    BY Parts, Zenon
  <2>2. \A i \in Alive : i \in Workers /\ Live(i)
    BY <2>1, Zenon DEF Alive, WorkerInv, Workers, Live
  <2>3. \A i \in Alive : mapped[tcb[i].stack] = tcb[i].number
    BY <2>1, <2>2, Zenon DEF WorkerInv
  <2> QED  BY <2>1, <2>3, Zenon DEF ThreadsStand, JoinInv
<1> QED  BY <1>1, Invariance, PTL

\* thread.h:53: once a join has answered 0 the thread's recorded stack is unmapped, as long as
\* no join has answered -1.
THEOREM ReleaseCorrect ==
  ASSUME OneCaller
  PROVE  Spec => []StacksReleased
BY Invariance, PTL

=============================================================================
