------------------------------ MODULE Sorting ------------------------------
(***************************************************************************)
(* c/rt/stdlib.c: qsort, its insertion sort for when there is no memory,   *)
(* and bsearch.  An element is [key, from], `from' its place in the        *)
(* caller's array; cmp compares keys.                                      *)
(***************************************************************************)
EXTENDS Integers, Sequences, SequencesExt, FiniteSetsExt

Element(k, i) == [key |-> k, from |-> i]
cmp(x, y) == x.key - y.key

\* Whether the right run's element goes first.  Fault: it does on a tie.
Before_tie(x, y) == cmp(x, y) <= 0
Before(x, y) == cmp(x, y) < 0

RECURSIVE MergeRuns(_, _)
MergeRuns(l, r) ==
  IF l = <<>> THEN r ELSE IF r = <<>> THEN l
  ELSE IF Before(Head(r), Head(l)) THEN <<Head(r)>> \o MergeRuns(l, Tail(r))
  ELSE <<Head(l)>> \o MergeRuns(Tail(l), r)

\* One pass: the runs of `width' elements are merged two by two.
Run(a, start, width) == SubSeq(a, start, Min({start + width - 1, Len(a)}))
Pass(a, width) ==
  LET pairs == (Len(a) + 2 * width - 1) \div (2 * width)
      At(p) == MergeRuns(Run(a, 2 * width * (p - 1) + 1, width),
                         Run(a, 2 * width * (p - 1) + width + 1, width))
  IN  FlattenSeq([p \in 1 .. pairs |-> At(p)])

\* "width doubles each pass, alternating between the caller's array and the
\* scratch buffer": the buffer named `src' holds `a'.
RECURSIVE Passes(_, _, _)
Passes(src, a, width) ==
  IF width >= Len(a) THEN [src |-> src, out |-> a]
  ELSE Passes(IF src = "base" THEN "scratch" ELSE "base", Pass(a, width), 2 * width)

\* Where insertion puts element j among the sorted ones before it: it is swapped
\* down until the one on its left is not greater.
Inserted(a, x) ==
  LET k == Cardinality({i \in DOMAIN a : cmp(a[i], x) <= 0}) IN InsertAt(a, k + 1, x)
Insertion(a) == FoldLeft(Inserted, <<>>, a)

\* What qsort leaves in the caller's array and what it frees.  The final copy is
\* made if the last pass wrote the scratch buffer; `src' is freed either way.
qsort(a, memory) ==
  IF Len(a) < 2 THEN [out |-> a, freed |-> "nothing"]
  ELSE IF ~memory THEN [out |-> Insertion(a), freed |-> "nothing"]
  ELSE LET done == Passes("base", a, 1) IN [out |-> done.out, freed |-> done.src]

\* The elements above the middle one.
HalfAbove(n) == n - (n \div 2 + 1)

\* The index of an element equal to the key among the n from lo on, or 0.
RECURSIVE Search(_, _, _, _)
Search(key, a, lo, n) ==
  IF n <= 0 THEN 0
  ELSE LET mid == lo + n \div 2 IN
       IF key = a[mid].key THEN mid
       ELSE IF key > a[mid].key THEN Search(key, a, mid + 1, HalfAbove(n))
       ELSE Search(key, a, lo, n \div 2)
bsearch(key, a) == Search(key, a, 1, Len(a))

=============================================================================
