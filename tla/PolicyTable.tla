---------------------------- MODULE PolicyTable ----------------------------
(***************************************************************************)
(* The rule tables of a policy and what an approval does to one            *)
(* (lns-policy/src/lib.rs and matching.rs, lns-service artifact/policy.rs).*)
(*                                                                         *)
(* A `match` pattern is the set of calls (a host and a port) it names, so  *)
(* destination_covers is set inclusion; `approved` is the note by which an *)
(* approval's own entry is told from one the author typed.                 *)
(***************************************************************************)
EXTENDS Naturals, Sequences, SequencesExt

\* The rule an always-decision on a destination writes.
ApprovedRule(match, verdict) ==
    [match |-> match, verdict |-> verdict, approved |-> TRUE]

\* shadows and tcp_shadows: an old rule names all of what a new one names.
Shadows(old, new) == new.match \subseteq old.match

\* first_shadowing_rule and first_shadowing_tcp_rule
FirstShadowing(table, new) == SelectInSeq(table, LAMBDA old : Shadows(old, new))

\* already_held_as: the note beside an entry never says what it decides.
Held(table, new) ==
    SelectInSeq(table, LAMBDA old : old.match = new.match
                                      /\ old.verdict = new.verdict)

\* place_approved: appended when nothing covers the destination; otherwise
\* nothing is written, and it stands when what the gate reaches says the same.
Stands(table, new) ==
    LET shadow == FirstShadowing(table, new)
        held == Held(table, new)
    IN  \/ shadow = 0
        \/ held # 0 /\ held <= shadow
        \/ held = 0 /\ table[shadow].verdict = new.verdict

\* Mutant: appended although a rule already decides the destination.
PlacedBehind(table, new) ==
    IF Held(table, new) = 0 THEN Append(table, new) ELSE table

Placed(table, new) ==
    IF FirstShadowing(table, new) = 0 /\ Held(table, new) = 0
      THEN Append(table, new) ELSE table

\* approved_for, holds_approved, remove_approved
HoldsApproved(table, match) ==
    \E i \in 1 .. Len(table) : table[i].approved /\ table[i].match = match

RemoveApproved(table, match) ==
    SelectSeq(table, LAMBDA rule : ~(rule.approved /\ rule.match = match))

\* merge_rule_table over the sources, latest first.
MergeEffective(shipped, opened, own) ==
    FoldLeft(LAMBDA merged, rule :
               IF Contains(merged, rule) THEN merged ELSE Append(merged, rule),
             <<>>, own \o opened \o shipped)

\* What the guest's gate says of a call: the first rule that names it, and a
\* call no rule names is asked about.
Gate(table, call) ==
    LET i == SelectInSeq(table, LAMBDA rule : call \in rule.match)
    IN  IF i = 0 THEN "ask" ELSE table[i].verdict

=============================================================================
