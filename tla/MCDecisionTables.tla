-------------------------- MODULE MCDecisionTables --------------------------
(* Instances of DecisionTables for TLC. *)
EXTENDS DecisionTables

CONSTANTS r1, r2, h1, h2

\* Both requests name the first destination.
OneHost == [r \in Requests |-> h1]

\* The first destination is reached on two ports, the second on one.
Ports == {<<h1, 1>>, <<h1, 2>>, <<h2, 1>>}
PortsOf == [h \in Hosts |-> {c \in Ports : c[1] = h}]

Typed(match, verdict) == [match |-> match, verdict |-> verdict, approved |-> FALSE]

AllowFirst == <<Typed(PortsOf[h1], "allow")>>
DenyFirst == <<Typed(PortsOf[h1], "deny")>>

\* What a developer types: a rule for one destination, or a backstop.
TypedDeny == {Typed(PortsOf[h1], "deny"), Typed(Ports, "deny")}
=============================================================================
