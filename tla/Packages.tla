------------------------------ MODULE Packages -----------------------------
(***************************************************************************)
(* tools/hbpkg.c: versions and their constraints, names, the metadata      *)
(* file, the order of dependencies, the index that search and list read.   *)
(* Text is a sequence of characters; a key or a package's name may count   *)
(* as one.                                                                 *)
(***************************************************************************)
EXTENDS Caller, Strings, Numbers

CONSTANTS HBPKG_MAX_DEPS,    \* dependencies kept of a list, 32 in the code
          HBPKG_MAX_FILES    \* files kept of a list, 1024 in the code

PlacesOf(s, c) == {i \in DOMAIN s : s[i] = c}
From(s, i) == SubSeq(s, i, Len(s))
\* strchr on a sequence: the first place at or after i, or 0.
Find1(s, c, i) == LET S == {j \in PlacesOf(s, c) : j >= i} IN IF S = {} THEN 0 ELSE Min(S)

-----------------------------------------------------------------------------
(* Versions *)

DigitRun(s) == LET S == {i \in 1 .. Len(s) : digit_value(s[i]) >= 10}
               IN  SubSeq(s, 1, IF S = {} THEN Len(s) ELSE Min(S) - 1)
\* sscanf's "%u.%u.%u": as many of the three as are there; a missing one is 0.
RECURSIVE Numbers3(_, _)
Numbers3(s, n) ==
  LET d == DigitRun(s)  rest == From(s, Len(d) + 1) IN
  IF n = 0 \/ d = <<>> THEN [i \in 1 .. n |-> 0]
  ELSE <<Value(d, 10, 0)>>
         \o (IF CharAt(rest, 1) = "." THEN Numbers3(Tail(rest), n - 1) ELSE [i \in 1 .. n - 1 |-> 0])

semver_parse(str) ==
  LET s    == IF CharAt(str, 1) \in {"v", "V"} THEN Tail(str) ELSE str
      n    == Numbers3(s, 3)
      dash == Find1(s, "-", 1)
  IN  [major |-> n[1], minor |-> n[2], patch |-> n[3],
       pre |-> IF dash = 0 THEN <<>> ELSE From(s, dash + 1)]

\* Letters of a pre-release tag in strcmp's order.
TextOrder(a, b) ==
  LET Code(s) == [i \in DOMAIN s |-> IF s[i] = "." THEN 0 ELSE 1 + digit_value(s[i])]
  IN  LexOrder(Code(a), Code(b))

\* A release comes after its pre-releases.  Fault: it does not.
PreOrder_plain(a, b) == TextOrder(a, b)
PreOrder(a, b) ==
  IF a # <<>> /\ b = <<>> THEN -1 ELSE IF a = <<>> /\ b # <<>> THEN 1 ELSE TextOrder(a, b)
\* (int)a - (int)b of two unsigned numbers, in the width of a word.
IntDiff(a, b) == Signed((Signed(a) - Signed(b)) % Word)
semver_cmp(a, b) ==
  IF a.major # b.major THEN IntDiff(a.major, b.major)
  ELSE IF a.minor # b.minor THEN IntDiff(a.minor, b.minor)
  ELSE IF a.patch # b.patch THEN IntDiff(a.patch, b.patch)
  ELSE PreOrder(a.pre, b.pre)

\* The operators in the order they are tried; a constraint that starts with none, one
\* that starts with `=' included, is a version to be met exactly, all of its text.
Operators1 == <<<<"^">>, <<"~">>, <<">", "=">>, <<"<", "=">>, <<">">>, <<"<">>>>
OperatorOf(constraint) ==
  LET S == {i \in DOMAIN Operators1 : IsPrefix(Operators1[i], constraint)}
  IN  IF S = {} THEN <<>> ELSE Operators1[Min(S)]
semver_satisfies(ver, constraint) ==
  LET op  == OperatorOf(constraint)
      req == semver_parse(From(constraint, Len(op) + 1))
      cmp == semver_cmp(ver, req)
  IN  CASE constraint = <<>> -> TRUE
        [] op = <<"^">> -> ver.major = req.major /\ cmp >= 0
        [] op = <<"~">> -> ver.major = req.major /\ ver.minor = req.minor /\ cmp >= 0
        [] op = <<">", "=">> -> cmp >= 0
        [] op = <<"<", "=">> -> cmp <= 0
        [] op = <<">">> -> cmp > 0
        [] op = <<"<">> -> cmp < 0
        [] OTHER -> cmp = 0

-----------------------------------------------------------------------------
(* Names and metadata *)

\* isalnum, '.', '-' and '_'; every other character here stands for a refused one.
Allowed(c) == digit_value(c) < 16 \/ c \in {".", "-", "_"}
sanitise_name(in, max) ==
  LET out == SubSeq(in, 1, IF Len(in) < max - 1 THEN Len(in) ELSE max - 1)
  IN  IF max < 2 \/ out = <<>> \/ \E i \in DOMAIN out : ~Allowed(out[i]) THEN <<>> ELSE out
\* The package an argument of install names, <<>> when it is refused: what stands
\* before the first '@'; without one, what fits.
argument_name(arg, max) ==
  LET at == Find1(arg, "@", 1) IN
  IF at > max THEN <<>>
  ELSE sanitise_name(SubSeq(arg, 1, IF at # 0 THEN at - 1 ELSE Min({Len(arg), max - 1})), max)

Trimmed(s) ==
  LET S == {i \in DOMAIN s : s[i] # " "} IN IF S = {} THEN <<>> ELSE SubSeq(s, Min(S), Max(S))
Unquoted(s) ==
  IF Len(s) >= 2 /\ s[1] = "\"" /\ Last(s) = "\"" THEN SubSeq(s, 2, Len(s) - 1) ELSE s

\* The end of an item: the next quote; without one the next comma, then the bracket.
ItemEnd(s, p) ==
  IF Find1(s, "\"", p) # 0 THEN Find1(s, "\"", p)
  ELSE IF Find1(s, ",", p) # 0 THEN Find1(s, ",", p) ELSE Find1(s, "]", p)

\* The loop over the list of deps, and of files, from place p on: at most max items.
RECURSIVE Items(_, _, _, _)
Items(s, p, items, max) ==
  LET skip  == {i \in p .. Len(s) : s[i] \notin {" ", ","}}
      start == IF skip = {} THEN Len(s) + 1 ELSE Min(skip)
      q     == IF CharAt(s, start) = "\"" THEN start + 1 ELSE start
      end   == ItemEnd(s, q)
  IN  IF p > Len(s) \/ Len(items) >= max THEN items
      ELSE IF CharAt(s, start) \in {"]", "NUL"} \/ end = 0 THEN items
      ELSE Items(s, end + 1, Append(items, SubSeq(s, q, end - 1)), max)
ListItems(val, items, max) == Items(val, IF CharAt(val, 1) = "[" THEN 2 ELSE 1, items, max)

NoMeta == [name |-> <<>>, version |-> <<>>, deps |-> <<>>, files |-> <<>>]
meta_line(out, line) ==
  LET eq  == Find1(line, "=", 1)
      key == Trimmed(SubSeq(line, 1, eq - 1))
      val == Unquoted(Trimmed(From(line, eq + 1)))
  IN  IF line = <<>> \/ line[1] = "#" \/ eq = 0 THEN out
      ELSE CASE key = <<"name">> -> [out EXCEPT !.name = val]
             [] key = <<"version">> -> [out EXCEPT !.version = val]
             [] key \in {<<"deps">>, <<"dependencies">>} -> [out EXCEPT !.deps = ListItems(val, @, HBPKG_MAX_DEPS)]
             [] key = <<"files">> -> [out EXCEPT !.files = ListItems(val, @, HBPKG_MAX_FILES)]
             [] OTHER -> out

meta_parse_toml(lines) ==
  LET out == FoldLeft(meta_line, NoMeta, lines)
  IN  [meta |-> out, rc |-> IF out.name = <<>> \/ out.version = <<>> THEN -1 ELSE 0]

-----------------------------------------------------------------------------
(* The order of dependencies.  nodes[i] is the list of i's dep_indices; g is *)
(* [visited, stack, order, cycle].                                           *)

\* A node is done.
Done(g, i) == [g EXCEPT !.stack = @ \ {i}, !.visited = @ \cup {i}, !.order = Append(@, i)]

RECURSIVE topo_visit(_, _, _)
topo_visit(nodes, g, i) ==
  LET Visit(h, d) == IF h.cycle \/ d \notin DOMAIN nodes THEN h ELSE topo_visit(nodes, h, d)
      done == FoldLeft(Visit, [g EXCEPT !.stack = @ \cup {i}], nodes[i])
  IN  IF i \in g.stack THEN [g EXCEPT !.cycle = TRUE]
      ELSE IF i \in g.visited THEN g
      ELSE IF done.cycle THEN done ELSE Done(done, i)

topo_sort(nodes) ==
  LET Visit(g, i) == IF g.cycle \/ i \in g.visited THEN g ELSE topo_visit(nodes, g, i)
  IN  FoldLeft(Visit, [visited |-> {}, stack |-> {}, order |-> <<>>, cycle |-> FALSE],
               [i \in 1 .. Len(nodes) |-> i])

-----------------------------------------------------------------------------
(* The index: lines of three fields, tab (9) between them and a newline (10) *)
(* after them, read with strtok.                                             *)

TAB == 9
NEWLINE == 10
Fields(line) ==
  LET m == Laid(<<line, <<TAB>>, <<NEWLINE>>>>)
      n == strtok_r(m, 1, Len(line) + 2, NULL)
      v == strtok_r(n.mem, NULL, Len(line) + 2, n.saveptr)
      d == strtok_r(v.mem, NULL, Len(line) + 4, v.saveptr)
      Text(a) == IF a = NULL THEN <<>> ELSE StrAt(d.mem, a)
  IN  <<Text(n.token), Text(v.token), Text(d.token)>>

Matches(line, query) == LET m == Laid(<<line, query>>) IN strstr(m, 1, Len(line) + 2) # NULL
cmd_search(lines, query) ==
  SelectSeq([i \in DOMAIN lines |-> IF Matches(lines[i], query) THEN Fields(lines[i]) ELSE <<<<>>>>],
            LAMBDA f : <<>> \notin ToSet(f))
db_pkg_list(lines) ==
  SelectSeq([i \in DOMAIN lines |-> Fields(lines[i])], LAMBDA f : <<>> \notin {f[1], f[2]})

-----------------------------------------------------------------------------
(* The calls, and what is true of them *)

Versions == Returns("versions",
  [cmp |-> semver_cmp(semver_parse(call.a), semver_parse(call.b)),
   accepts |-> [op \in ToSet(Operators1) \cup {<<>>} |->
                  semver_satisfies(semver_parse(call.a), op \o call.b)]])
Meta == Returns("meta", meta_parse_toml(call.lines))
Order == Returns("order", topo_sort(call.nodes))
Index == Returns("index", [search |-> cmd_search(call.lines, call.query),
                           list |-> db_pkg_list(call.lines)])

Name == Returns("name", argument_name(call.arg, call.max))

PackagesNext == Versions \/ Meta \/ Name \/ Order \/ Index

NextOf(req, op) ==
  IF op = "^" THEN [req EXCEPT !.major = @ + 1, !.minor = 0, !.patch = 0, !.pre = <<>>]
  ELSE [req EXCEPT !.minor = @ + 1, !.patch = 0, !.pre = <<>>]

\* Version numbers an int can hold; (int) makes the others negative.
InRange(v) == \A n \in {v.major, v.minor, v.patch} : n < Word \div 2

\* hbpkg.c:773-820: versions of numbers below 2^31 are in one order (the opposite of a
\* comparison is the comparison the other way round, and it is transitive), a release
\* comes after its pre-releases, and a constraint accepts an interval of it: `^' and `~'
\* from the version named up to, and without, the next major or minor one, a bare
\* version that version, the others one side of it.
VersionsOrdered ==
  Returned("versions") =>
    LET a == semver_parse(call.a)  b == semver_parse(call.b)
        Pre(v) == v.pre # <<>>
        Before(v, op) == semver_cmp(v, NextOf(b, op)) < 0
        Accepts(op) == result.accepts[op]
    IN  InRange(a) /\ InRange(b) =>
        /\ Sgn(result.cmp) = -Sgn(semver_cmp(b, a))
        /\ \A v \in {semver_parse(t) : t \in call.others} :
             InRange(v) /\ result.cmp <= 0 /\ semver_cmp(b, v) <= 0 => semver_cmp(a, v) <= 0
        /\ Pre(a) /\ ~Pre(b) /\ [a EXCEPT !.pre = <<>>] = b => result.cmp < 0
        /\ \A op \in {"^", "~"} : ~Pre(a) => (Accepts(<<op>>) <=> result.cmp >= 0 /\ Before(a, op))
        /\ Accepts(<<>>) <=> a = b
        /\ Accepts(<<">", "=">>) <=> result.cmp >= 0
        /\ Accepts(<<"<", "=">>) <=> result.cmp <= 0
        /\ Accepts(<<">">>) <=> ~Accepts(<<"<", "=">>)
        /\ Accepts(<<"<">>) <=> ~Accepts(<<">", "=">>)

\* hbpkg.c:826-928 and 1049-1072: the lists of a metadata file are read as written,
\* quoted or bare, with blanks, comments and unknown keys around them, up to the
\* dependencies and the files there is room for; without a name or a version the file
\* is refused.  hbpkg.c:217-236: an argument of install with a version names the
\* package it names without.  hbpkg.c:415-452 and 707-748: search and list show an
\* index line of three fields as it stands.
MetaReadsBack ==
  /\ Returned("meta") =>
       /\ result.meta.deps = SubSeq(call.deps, 1, Min({Len(call.deps), HBPKG_MAX_DEPS}))
       /\ result.meta.files = SubSeq(call.deps, 1, Min({Len(call.deps), HBPKG_MAX_FILES}))
       /\ (result.rc = 0) <=> call.named
  /\ Returned("name") =>
       LET at == Find1(call.arg, "@", 1)
           name == IF at = 0 THEN call.arg ELSE SubSeq(call.arg, 1, at - 1)
           legal == name # <<>> /\ \A i \in DOMAIN name : Allowed(name[i])
       IN  Len(name) < call.max => result = IF legal THEN name ELSE <<>>
  /\ Returned("index") =>
       LET whole == {i \in DOMAIN call.lines : call.rows[i] # <<>>} IN
       /\ ToSet(result.search) = {call.rows[i] : i \in {j \in whole : Matches(call.lines[j], call.query)}}
       /\ ToSet(result.list) = {call.rows[i] : i \in whole}

\* hbpkg.c:1018-1047: topo_sort gives every package once, each after all it depends
\* on, whatever the packages share; it reports a cycle exactly when there is one.
DependenciesSorted ==
  Returned("order") =>
    LET n == Len(call.nodes)
        deps == [i \in 1 .. n |-> ToSet(call.nodes[i]) \cap (1 .. n)]
        sorted == \E rank \in [1 .. n -> 1 .. n] : \A i \in 1 .. n : \A d \in deps[i] : rank[d] < rank[i]
    IN  /\ result.cycle <=> ~sorted
        /\ ~result.cycle =>
             /\ Len(result.order) = n /\ ToSet(result.order) = 1 .. n
             /\ \A i, j \in 1 .. n : result.order[j] \in deps[result.order[i]] => j < i

=============================================================================
