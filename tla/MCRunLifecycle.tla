--------------------------- MODULE MCRunLifecycle ---------------------------
(* Small instances of RunLifecycle.                                       *)
EXTENDS RunLifecycle, TLC

CONSTANTS r1, r2, c1, c2

\* The runs all ask for one name.
OneName == [r \in Runs |-> "work"]

SymmetricClients == Permutations(Clients)
=============================================================================
