------------------------------ MODULE MCStdio ------------------------------
(* One stream on one file that other programs replace; two kinds of character. *)
EXTENDS Stdio

CONSTANTS a, nl, p, s1

SmallTexts == {<<a>>, <<nl, a>>, <<a, nl, a>>}

=============================================================================
