------------------------- MODULE MCApprovalSession -------------------------
(* Instances of ApprovalSession for TLC. *)
EXTENDS ApprovalSession

CONSTANTS r1, r2, c1, c2

\* One connector serves both requests, so one answer settles two cards.
OneServesBoth == [r \in Requests |-> {c1}]
=============================================================================
