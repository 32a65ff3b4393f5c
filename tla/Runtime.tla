------------------------------- MODULE Runtime ------------------------------
(***************************************************************************)
(* The process of a C program around its main (c/rt/start.c, malloc.c's    *)
(* exit, stdlib.c): handlers at exit, the environment, strings on the heap.*)
(***************************************************************************)
EXTENDS Caller, Strings, Numbers

CONSTANT ATEXIT_MAX_FUNCS

-----------------------------------------------------------------------------
(* atexit and exit.  A handler is named by a number; when it runs it registers the
   ones behaviour[h].registers names and then may itself call exit. *)

\* atexit: a full table is refused.
atexit(s, h) ==
  IF Len(s.funcs) >= ATEXIT_MAX_FUNCS THEN [s EXCEPT !.refused = Append(@, h)]
  ELSE [s EXCEPT !.funcs = Append(@, h), !.took = Append(@, h)]
Registering(s, handlers) == FoldLeft(LAMBDA t, h : atexit(t, h), s, handlers)

\* main registers its handlers and returns to _start, which calls exit.
MainReturns(c) == [Registering(c, c.main) EXCEPT !.pc = "exit"]

\* One turn of mv_run_atexit: the entry is taken off before it is called.  A handler
\* that calls exit goes on with the same table in a deeper mv_run_atexit.
\* Fault: the entry is taken off afterwards.
Taken_after(s) == s
Taken(s) == [s EXCEPT !.funcs = Front(@)]
HandlerRuns(s) ==
  LET h == Last(s.funcs)
      r == Registering([Taken(s) EXCEPT !.ran = Append(@, h)], s.behaviour[h].registers)
  IN  [r EXCEPT !.depth = IF s.behaviour[h].exits THEN @ + 1 ELSE @]

ExitMain == call.fn = "exit" /\ call.pc = "main" /\ Loops("exit", MainReturns(call))
ExitRuns == call.fn = "exit" /\ call.pc = "exit" /\ call.funcs # <<>> /\ Loops("exit", HandlerRuns(call))
ExitEnds == call.fn = "exit" /\ call.pc = "exit" /\ call.funcs = <<>> /\ Returns("exit", call.ran)
ExitStart(main, behaviour) ==
  [fn |-> "exit", pc |-> "main", main |-> main, behaviour |-> behaviour, funcs |-> <<>>,
   took |-> <<>>, refused |-> <<>>, ran |-> <<>>, depth |-> 0]

-----------------------------------------------------------------------------
(* getenv: the kernel's slots are walked, an empty one is skipped *)

\* The entry as strncmp and the `=' test see it, with the name after it in memory.
Names1(entry, name) ==
  LET m == Laid(<<entry, name>>) IN
  /\ strncmp(m, 1, Len(entry) + 2, Len(name)) = 0
  /\ At(m, Len(name) + 1) = 61
ValueIn(entry, name) == SubSeq(entry, Len(name) + 2, Len(entry))

getenv(slots, name) ==
  LET hits == {i \in DOMAIN slots : slots[i] # <<>> /\ Names1(slots[i], name)}
  IN  IF name = <<>> \/ hits = {} THEN [found |-> FALSE, value |-> <<>>]
      ELSE [found |-> TRUE, value |-> ValueIn(slots[Min(hits)], name)]
Getenv == Returns("getenv", getenv(call.slots, call.name))

-----------------------------------------------------------------------------
(* strdup, strndup *)

\* The copy's bytes, or none when malloc has no block; m has room for it at d.
strdup(m, d, s, got) == IF got THEN memcpy(m, d, s, strlen(m, s) + 1) ELSE m
strndup(m, d, s, n, got) ==
  LET len == strnlen(m, s, n)
  IN  IF got THEN [memcpy(m, d, s, len) EXCEPT ![d + len] = 0] ELSE m
Dup ==
  LET m == Laid(<<call.s>>) \o [i \in 1 .. Len(call.s) + 1 |-> 255]  d == Len(call.s) + 2 IN
  Returns("dup", [dup |-> strdup(m, d, 1, call.got), ndup |-> strndup(m, d, 1, call.n, call.got)])

RuntimeNext == ExitMain \/ ExitRuns \/ ExitEnds \/ Getenv \/ Dup

-----------------------------------------------------------------------------
(* Properties *)

IndexOf(s, x) == CHOOSE i \in DOMAIN s : s[i] = x
\* How many handlers had run when h was registered (each is registered once).
RunsBefore(h) ==
  LET by == {i \in DOMAIN call.ran : h \in Range(call.behaviour[call.ran[i]].registers)}
  IN  IF by = {} THEN 0 ELSE Min(by)

\* stdlib.c:337-346, "the handlers run newest first, as C says": with handlers that
\* register others or call exit themselves, no handler runs twice, none that was
\* accepted is left out, and of two that were waiting together the newer one ran
\* first, with the table (8 entries in the code) full or not.
NewestFirst ==
  call.fn = "exit" =>
    /\ IsInjective(call.ran) /\ Range(call.ran) \subseteq Range(call.took)
    /\ returned # <<>> => Range(result) = Range(call.took)
    /\ \A i, j \in DOMAIN call.took :
         LET h == call.took[i]  g == call.took[j] IN
         i < j /\ h \in Range(call.ran) =>
           \/ IndexOf(call.ran, h) <= RunsBefore(g)
           \/ g \in Range(call.ran) /\ IndexOf(call.ran, g) < IndexOf(call.ran, h)

\* stdlib.c:294-318: getenv gives the value of the first slot whose whole name is the
\* one asked for, past empty slots and longer names.  stdlib.c:267-288: a duplicate is
\* the string, cut at n, and its terminator, and nothing after it.
RuntimeTexts ==
  /\ Returned("getenv") =>
       LET hits == {i \in DOMAIN call.vars : call.vars[i] # <<>> /\ call.vars[i][1] = call.name}
       IN  result = IF hits = {} \/ call.name = <<>> THEN [found |-> FALSE, value |-> <<>>]
                    ELSE [found |-> TRUE, value |-> call.vars[Min(hits)][2]]
  /\ Returned("dup") /\ call.got =>
       LET d == Len(call.s) + 2  cut == SubSeq(call.s, 1, Min({call.n, Len(call.s)})) IN
       /\ SubSeq(result.dup, d, d + Len(call.s)) = call.s \o <<0>>
       /\ StrAt(result.ndup, d) = cut
       /\ \A a \in d + Len(cut) + 1 .. Len(result.ndup) : result.ndup[a] = 255

=============================================================================
