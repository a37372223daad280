------------------------------ MODULE MCExec ------------------------------
(* A developer types at an exec session whose detach chord is p, q.        *)
EXTENDS ExecSession

DetachChord == <<"p", "q">>

\* The chord after a key of its own, and a key of it between two others.
Typed == {<<"p", "p", "q">>, <<"a", "p", "b">>}
=============================================================================
