------------------------------- MODULE Caller ------------------------------
(***************************************************************************)
(* One call of a function without state of its own: its arguments are      *)
(* chosen, it runs, and `returned' holds what it returned or left.         *)
(***************************************************************************)
EXTENDS Sequences

CONSTANT Calls           \* the calls made, each a record with the function's name

VARIABLES call, returned     \* what the call returned: <<>> while it runs
vars == <<call, returned>>

Init == call \in Calls /\ returned = <<>>

Returns(fn, value) ==
  call.fn = fn /\ returned = <<>> /\ returned' = <<value>> /\ UNCHANGED call

\* One turn of the loop the call is in: `call' also holds its variables.
Loops(fn, locals) ==
  call.fn = fn /\ returned = <<>> /\ call' = locals /\ UNCHANGED returned

Returned(fn) == call.fn = fn /\ returned # <<>>
result == returned[1]

=============================================================================
