---------------------------- MODULE Transactions ----------------------------
(***************************************************************************)
(* What the metadata journal of HBFS promises its callers: the sectors of  *)
(* the volume change by whole operations.  `store' is what the next mount  *)
(* would find; the one step that changes it replaces every sector that the *)
(* running operation writes, and no other, whatever fails and whenever the *)
(* power goes.                                                             *)
(***************************************************************************)
EXTENDS Naturals

CONSTANTS Sectors,   \* the metadata sectors
          Writes     \* the sets of sectors an operation may write

VARIABLES store,     \* sector -> number of the operation that wrote it last
          number,    \* operations started
          writes     \* the sectors of the running operation, {} between two

Init == store = [x \in Sectors |-> 0] /\ number = 0 /\ writes = {}

Start ==
  /\ writes = {} /\ number' = number + 1 /\ writes' \in Writes
  /\ UNCHANGED store

Install ==
  /\ store' = [x \in Sectors |-> IF x \in writes THEN number ELSE store[x]]
  /\ UNCHANGED <<number, writes>>

\* It answered, or the power went.
End == writes' = {} /\ UNCHANGED <<store, number>>

Next == Start \/ Install \/ End

Spec == Init /\ [][Next]_<<store, number, writes>>
=============================================================================
