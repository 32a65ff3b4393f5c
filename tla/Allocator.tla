----------------------------- MODULE Allocator -----------------------------
(***************************************************************************)
(* What c/rt/malloc.c promises: a pointer it returns is 8-aligned and      *)
(* names bytes of the window that no other live allocation has, until the  *)
(* program gives them back.  Heap implements it.                           *)
(***************************************************************************)
EXTENDS Integers

CONSTANT Window             \* the addresses the heap may use

VARIABLE regions            \* the bytes asked for at each live pointer

Bytes(p, n) == p .. p + n - 1

Init == regions = [p \in {} |-> 0]

\* p is handed out for n bytes and the pointers Q are given back.
Grant(p, n, Q) ==
  LET kept == DOMAIN regions \ Q IN
  /\ p \notin kept /\ p % 8 = 0
  /\ Bytes(p, n) \subseteq Window
  /\ \A q \in kept : Bytes(p, n) \cap Bytes(q, regions[q]) = {}
  /\ regions' = [q \in kept \cup {p} |-> IF q = p THEN n ELSE regions[q]]

\* Any pointer that satisfies Grant may be the answer.
Malloc == \E p \in DOMAIN regions' : Grant(p, regions'[p], {})

\* In place or moved.
Realloc ==
  \E q \in DOMAIN regions : \E p \in DOMAIN regions' : Grant(p, regions'[p], {q})

Free ==
  \E q \in DOMAIN regions :
    regions' = [p \in DOMAIN regions \ {q} |-> regions[p]]

Spec == Init /\ [][Malloc \/ Realloc \/ Free]_regions

=============================================================================
