------------------------------ MODULE MCHbpkg ------------------------------
(* Three packages that share a dependency.  Either two processes install two *)
(* of them, or one installs and removes.                                      *)
EXTENDS Hbpkg

CONSTANTS pa, pb, pc, q1, q2

Diamond == (pa :> <<pb, pc>>) @@ (pb :> <<pc>>) @@ (pc :> <<>>)
FewFiles == (pa :> 2) @@ (pb :> 0) @@ (pc :> 1)
Installers == [procs |-> {q1, q2}, ops |-> {"install"}, args |-> {<<pb>>, <<pc>>}]
Alone == [procs |-> {q1}, ops |-> {"install", "remove"}, args |-> {<<pa>>, <<pc>>, <<pb, pa>>}]
BothLoads == {Installers, Alone}

=============================================================================
