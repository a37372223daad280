---------------------------- MODULE MCConnectors ----------------------------
(* One connector in two versions, of which the first signs in with OAuth,  *)
(* one label, one run and two clients.                                     *)
EXTENDS Connectors, TLC

CONSTANTS c1, c2, a1, a2

Symmetry == Permutations({c1, c2}) \cup Permutations({a1, a2})

\* A sign-in's status leaves "pending" once, and only a step that stored the
\* connection makes it "completed"; one that has ended has given up its work, and
\* at most one is open under a label, so two browsers never both end up writing
\* the connection (operations.rs; EndsHonestly and OneSignIn).
OpsHonest == [][EndsHonestly /\ (ConTypeOK /\ OneSignIn)']_conVars
=============================================================================
