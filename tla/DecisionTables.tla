--------------------------- MODULE DecisionTables ---------------------------
(***************************************************************************)
(* What a run has decided: the running rule table, the directory's own     *)
(* table, the decisions file, the entry list and the policy frames, as     *)
(* cards, rows, grants, deadlines, the file watcher and the end of the run *)
(* change them (lns-service approval_flow/session.rs, watcher.rs and       *)
(* entries.rs).                                                            *)
(*                                                                         *)
(* `policy`, `persisted` and `granted` are behind mutexes of their own, so *)
(* a method is one step per lock it takes.  The cards, offers and decision *)
(* frames of the same methods are the subject of ApprovalSession.          *)
(***************************************************************************)
EXTENDS PolicyTable

CONSTANTS
    Requests,     \* ids of the requests the guest may hold
    Hosts,        \* destinations those requests are asked about
    HostOf,       \* HostOf[r]: the destination of request r
    Calls,        \* what the gate tells apart: a host and a port
    Reach,        \* Reach[h]: the calls the pattern of destination h names
    Shipped,      \* the rules of the sandbox's own document
    Opens,        \* the rules the offered connector opens when granted
    UserRules,    \* rules the developer may type into the file
    Tasks,        \* the tasks that run in this instance
    Rows,         \* those of them that answer rows of the entry list
    Serial,       \* an operation starts only when no other is under way;
                  \* the editor writes while the watcher loads all the same
    SaveFails,    \* the disk may refuse a save
    MaxAnswers,   \* bound: answers given on rows
    MaxEdits      \* bound: edits of the file

ASSUME HostsAssumption == HostOf \in [Requests -> Hosts]
ASSUME ReachAssumption == Reach \in [Hosts -> SUBSET Calls]
ASSUME RowsAssumption == /\ Rows \subseteq Tasks
                         /\ Tasks \subseteq Rows \cup
                              {"reader", "cards", "tick", "watcher", "end"}
ASSUME SwitchesAssumption == Serial \in BOOLEAN /\ SaveFails \in BOOLEAN
ASSUME BoundsAssumption == MaxAnswers \in Nat /\ MaxEdits \in Nat

VARIABLES
    asked,      \* ids the guest has sent
    held,       \* keys of the session's `pending` map
    policy,     \* the running table
    persisted,  \* this directory's own table, as the session holds it
    file,       \* decisions.yaml
    granted,    \* the connector has been granted
    entries,    \* the state of each destination's entry, or "none"
    guest,      \* the table of the last policy frame put on the sink
    event,      \* a change of the file the watcher has not taken up
    given,      \* answers given on rows
    edits,      \* edits of the file
    job         \* the locals of each task

vars == <<asked, held, policy, persisted, file, granted, entries, guest,
          event, given, edits, job>>

tables == <<policy, persisted, file, granted, guest, event>>
counts == <<asked, given, edits>>

-----------------------------------------------------------------------------
(* Data *)

Verdicts == {"allow", "deny"}
Rule == [match : SUBSET Calls, verdict : Verdicts, approved : BOOLEAN]
Settled == {"allowed", "denied"}
States == Settled \cup {"none", "undecided", "withdrawn"}

\* AlwaysVerdict::state
StateOf(verdict) == IF verdict = "allow" THEN "allowed" ELSE "denied"

Labels == {"idle", "place", "keep", "compose", "send", "copy", "save", "note",
           "look", "open", "stand", "back", "putrun", "putown",
           "reload", "own", "fold", "install", "list", "rule", "reopen",
           "drain"}
Ops == {"card", "row", "again", "reload", "grant", "lapse", "raise", "end"}

\* The locals of a task.  `table` is the clone it carries, `before` the pair
\* rules_as_they_stand took, `todo` the entries withdraw_run drained.
IdleJob == [pc |-> "idle", op |-> "card", host |-> CHOOSE h \in Hosts : TRUE,
            verdict |-> "allow", table |-> <<>>, before |-> <<<<>>, <<>>>>,
            todo |-> {}]

At(t, label) == t \in Tasks /\ job[t].pc = label
Go(t, label) == job' = [job EXCEPT ![t].pc = label]
Return(t) == job' = [job EXCEPT ![t] = IdleJob]
Busy(t) == job[t].pc # "idle"

\* The first step of an operation of task t.
Begin(t, label, operation, h, v) ==
    /\ At(t, "idle")
    /\ Serial => \A u \in Tasks : ~Busy(u)
    /\ job' = [job EXCEPT ![t] = [IdleJob EXCEPT
                 !.pc = label, !.op = operation, !.host = h, !.verdict = v]]

RuleOf(j) == ApprovedRule(Reach[j.host], j.verdict)

\* effective_over
EffectiveOver(own, opened) ==
    MergeEffective(Shipped, IF opened THEN Opens ELSE <<>>, own)

-----------------------------------------------------------------------------
(* The relay's reader: submit_pending lists the card's entry *)

SubmitPending(r) ==
    /\ r \notin asked
    /\ Begin("reader", "list", "raise", HostOf[r], "allow")
    /\ asked' = asked \cup {r}
    /\ held' = held \cup {r}
    /\ UNCHANGED <<tables, entries, given, edits>>

\* reopen_unless_decided: is the entry listed,
ReopenList ==
    /\ At("reader", "list")
    /\ Go("reader", IF entries[job["reader"].host] # "none"
                      THEN "rule" ELSE "reopen")
    /\ UNCHANGED <<held, tables, entries, counts>>

\* and does the run still hold the rule its own entry wrote?
ReopenRule ==
    /\ At("reader", "rule")
    /\ IF HoldsApproved(policy, Reach[job["reader"].host])
         THEN Return("reader") ELSE Go("reader", "reopen")
    /\ UNCHANGED <<held, tables, entries, counts>>

ReopenRecord ==
    /\ At("reader", "reopen")
    /\ entries' = [entries EXCEPT ![job["reader"].host] = "undecided"]
    /\ Return("reader")
    /\ UNCHANGED <<held, tables, counts>>

-----------------------------------------------------------------------------
(* decision_delivery_loop *)

\* record_decision with an always-verdict, and with a once-verdict, which
\* earns no rule.
RecordDecision(r) ==
    /\ r \in held
    /\ held' = held \ {r}
    /\ \E v \in Verdicts : \/ Begin("cards", "place", "card", HostOf[r], v)
                           \/ Begin("cards", "look", "card", HostOf[r], v)
    /\ UNCHANGED <<tables, entries, counts>>

\* dismiss_request
DismissRequest(r) ==
    /\ r \in held
    /\ held' = held \ {r}
    /\ Begin("cards", "look", "card", HostOf[r], "allow")
    /\ UNCHANGED <<tables, entries, counts>>

\* apply_granted_egress, as far as the grant layer
ApplyGrantedEgress ==
    /\ Opens # <<>>
    /\ ~granted
    /\ granted' = TRUE
    /\ Begin("cards", "own", "grant", IdleJob.host, "allow")
    /\ UNCHANGED <<held, policy, persisted, file, guest, event, entries,
                   counts>>

-----------------------------------------------------------------------------
(* Steps that cards, rows and reloads share *)

\* Mutant: a refused rule is noted as if it stood.
PlaceRuleNotesRefusal(t) ==
    /\ At(t, "place")
    /\ policy' = Placed(policy, RuleOf(job[t]))
    /\ Go(t, IF Stands(policy, RuleOf(job[t])) THEN "keep" ELSE "note")
    /\ UNCHANGED <<held, persisted, file, granted, guest, event, entries,
                   counts>>

\* apply_persistent_rule, under the policy lock
PlaceRule(t) ==
    /\ At(t, "place")
    /\ policy' = Placed(policy, RuleOf(job[t]))
    /\ Go(t, IF Stands(policy, RuleOf(job[t])) THEN "keep"
             ELSE IF job[t].op = "card" THEN "look" ELSE "putrun")
    /\ UNCHANGED <<held, persisted, file, granted, guest, event, entries,
                   counts>>

\* apply_persistent_rule, under the persisted lock
KeepRule(t) ==
    /\ At(t, "keep")
    /\ persisted' = Placed(persisted, RuleOf(job[t]))
    /\ Go(t, "compose")
    /\ UNCHANGED <<held, policy, file, granted, guest, event, entries, counts>>

\* policy_message clones the running table
ComposeFrame(t) ==
    /\ At(t, "compose")
    /\ job' = [job EXCEPT ![t].pc = "send", ![t].table = policy]
    /\ UNCHANGED <<held, tables, entries, counts>>

\* and send_policy_frame puts the frame on the sink
SendPolicyFrame(t) ==
    /\ At(t, "send")
    /\ guest' = job[t].table
    /\ IF job[t].op \in {"reload", "grant"} THEN Return(t) ELSE Go(t, "copy")
    /\ UNCHANGED <<held, policy, persisted, file, granted, event, entries,
                   counts>>

\* save_persisted clones this directory's table
SaveClone(t) ==
    /\ At(t, "copy")
    /\ job' = [job EXCEPT ![t].pc = "save", ![t].table = persisted]
    /\ UNCHANGED <<held, tables, entries, counts>>

\* and installs it over the file, which raises an event of its own
SaveFile(t) ==
    /\ At(t, "save")
    /\ \/ file' = job[t].table /\ event' = TRUE
       \/ SaveFails /\ UNCHANGED <<file, event>>
    /\ Go(t, "note")
    /\ UNCHANGED <<held, policy, persisted, granted, guest, entries, counts>>

\* note, and keep for a row
NoteAnswer(t) ==
    /\ At(t, "note")
    /\ entries' = [entries EXCEPT ![job[t].host] =
                     IF job[t].op = "again" THEN "undecided"
                       ELSE StateOf(job[t].verdict)]
    /\ Return(t)
    /\ UNCHANGED <<held, tables, counts>>

\* After one note_if_open: withdraw_run goes on to the next entry.
Noted(t) == IF job[t].op = "end" THEN Go(t, "drain") ELSE Return(t)

\* note_if_open reads the list
NoteIfOpen(t) ==
    /\ At(t, "look")
    /\ IF entries[job[t].host] \in Settled THEN Noted(t) ELSE Go(t, "open")
    /\ UNCHANGED <<held, tables, entries, counts>>

\* and records under a lock it takes afresh
NoteIfOpenRecord(t) ==
    /\ At(t, "open")
    /\ entries' = [entries EXCEPT ![job[t].host] =
                     IF job[t].op = "end" THEN "withdrawn" ELSE "undecided"]
    /\ Noted(t)
    /\ UNCHANGED <<held, tables, counts>>

-----------------------------------------------------------------------------
(* answer_entry and remove_entry, from the command line or the dashboard *)

AnswerEntry(t, h) ==
    /\ t \in Rows
    /\ given < MaxAnswers
    /\ given' = given + 1
    /\ entries[h] # "none"
    /\ \/ \E v \in Verdicts : Begin(t, "stand", "row", h, v)
       \/ Begin(t, "stand", "again", h, "allow")
    /\ UNCHANGED <<asked, held, tables, entries, edits>>

\* rules_as_they_stand holds both locks
RulesAsTheyStand(t) ==
    /\ At(t, "stand")
    /\ job' = [job EXCEPT ![t].pc = "back",
                          ![t].before = <<policy, persisted>>]
    /\ UNCHANGED <<held, tables, entries, counts>>

\* Mutant: the rule comes out of the running table only.
TakeBackRunningOnly(t) ==
    /\ At(t, "back")
    /\ LET match == Reach[job[t].host]
       IN  /\ policy' = RemoveApproved(policy, match)
           /\ IF job[t].op = "row" THEN Go(t, "place")
              ELSE IF HoldsApproved(policy, match) THEN Go(t, "compose")
              ELSE Return(t)
    /\ UNCHANGED <<held, persisted, file, granted, guest, event, entries,
                   counts>>

\* take_back_rule holds both locks; an `ask again` with no rule to lift out
\* says so and stops.
TakeBackRule(t) ==
    /\ At(t, "back")
    /\ LET match == Reach[job[t].host]
       IN  /\ policy' = RemoveApproved(policy, match)
           /\ persisted' = RemoveApproved(persisted, match)
           /\ IF job[t].op = "row" THEN Go(t, "place")
              ELSE IF HoldsApproved(policy, match) \/ HoldsApproved(persisted, match)
                THEN Go(t, "compose")
              ELSE Return(t)
    /\ UNCHANGED <<held, file, granted, guest, event, entries, counts>>

\* put_rules_back, one lock after the other
PutRunningBack(t) ==
    /\ At(t, "putrun")
    /\ policy' = job[t].before[1]
    /\ Go(t, "putown")
    /\ UNCHANGED <<held, persisted, file, granted, guest, event, entries,
                   counts>>

PutOwnBack(t) ==
    /\ At(t, "putown")
    /\ persisted' = job[t].before[2]
    /\ Return(t)
    /\ UNCHANGED <<held, policy, file, granted, guest, event, entries, counts>>

\* remove_from clears one line of the list, and nothing else
RemoveEntry(t, h) ==
    /\ t \in Rows
    /\ At(t, "idle")
    /\ Serial => \A u \in Tasks : ~Busy(u)
    /\ given < MaxAnswers
    /\ given' = given + 1
    /\ entries[h] # "none"
    /\ entries' = [entries EXCEPT ![h] = "none"]
    /\ UNCHANGED <<asked, held, tables, edits, job>>

-----------------------------------------------------------------------------
(* The developer's editor and the watcher *)

\* A rule typed ahead of the others, or a line deleted.
EditFile ==
    /\ Serial => \A u \in Tasks \ {"watcher"} : ~Busy(u)
    /\ edits < MaxEdits
    /\ edits' = edits + 1
    /\ \/ \E rule \in UserRules : file' = <<rule>> \o file
       \/ \E i \in 1 .. Len(file) : file' = RemoveAt(file, i)
    /\ event' = TRUE
    /\ UNCHANGED <<asked, held, policy, persisted, granted, entries, guest,
                   given, job>>

\* handle_event loads the file as it now stands
HandleEvent ==
    /\ event
    /\ event' = FALSE
    /\ At("watcher", "idle")
    /\ Serial => \A u \in Tasks : ~Busy(u)
    /\ job' = [job EXCEPT !["watcher"].pc = "reload",
                          !["watcher"].op = "reload",
                          !["watcher"].table = file]
    /\ UNCHANGED <<held, policy, persisted, file, granted, guest, entries,
                   counts>>

\* Mutant: changes made while the file was being read count as read.
ApplyExternalPolicyDrains ==
    /\ At("watcher", "reload")
    /\ persisted' = job["watcher"].table
    /\ event' = FALSE
    /\ Go("watcher", "fold")
    /\ UNCHANGED <<held, policy, file, granted, guest, entries, counts>>

\* apply_external_policy replaces this directory's table
ApplyExternalPolicy ==
    /\ At("watcher", "reload")
    /\ persisted' = job["watcher"].table
    /\ Go("watcher", "fold")
    /\ UNCHANGED <<held, policy, file, granted, guest, event, entries, counts>>

\* apply_granted_egress clones it
CloneOwn ==
    /\ At("cards", "own")
    /\ job' = [job EXCEPT !["cards"].pc = "fold", !["cards"].table = persisted]
    /\ UNCHANGED <<held, tables, entries, counts>>

\* Mutant: a reload forgets what the grant opened.
FoldEffectiveUngranted(t) ==
    /\ At(t, "fold")
    /\ job' = [job EXCEPT ![t].pc = "install",
                          ![t].table = EffectiveOver(job[t].table, FALSE)]
    /\ UNCHANGED <<held, tables, entries, counts>>

\* effective_over reads the grant layer before the policy lock is taken
FoldEffective(t) ==
    /\ At(t, "fold")
    /\ job' = [job EXCEPT ![t].pc = "install",
                          ![t].table = EffectiveOver(job[t].table, granted)]
    /\ UNCHANGED <<held, tables, entries, counts>>

InstallEffective(t) ==
    /\ At(t, "install")
    /\ policy' = job[t].table
    /\ Go(t, "compose")
    /\ UNCHANGED <<held, persisted, file, granted, guest, event, entries,
                   counts>>

-----------------------------------------------------------------------------
(* Deadlines and the end of the run *)

\* timeout_one, for a card with no offer
TimeoutOne(r) ==
    /\ r \in held
    /\ held' = held \ {r}
    /\ Begin("tick", "look", "lapse", HostOf[r], "allow")
    /\ UNCHANGED <<tables, entries, counts>>

\* withdraw_run drains the requests
WithdrawRun ==
    /\ At("end", "idle")
    /\ Serial => \A u \in Tasks : ~Busy(u)
    /\ held # {}
    /\ held' = {}
    /\ job' = [job EXCEPT !["end"].pc = "drain", !["end"].op = "end",
                          !["end"].todo = {HostOf[r] : r \in held}]
    /\ UNCHANGED <<tables, entries, counts>>

WithdrawNext ==
    /\ At("end", "drain")
    /\ \/ \E h \in job["end"].todo :
            job' = [job EXCEPT !["end"].pc = "look", !["end"].host = h,
                               !["end"].todo = @ \ {h}]
       \/ job["end"].todo = {} /\ Return("end")
    /\ UNCHANGED <<held, tables, entries, counts>>

-----------------------------------------------------------------------------
(* The specification *)

Init ==
    /\ asked = {} /\ held = {}
    /\ file = <<>> /\ persisted = <<>>
    /\ granted = FALSE
    /\ policy = EffectiveOver(<<>>, FALSE)
    /\ guest = policy
    /\ entries = [h \in Hosts |-> "none"]
    /\ event = FALSE
    /\ given = 0 /\ edits = 0
    /\ job = [t \in Tasks |-> IdleJob]

Reader == \/ \E r \in Requests : SubmitPending(r)
          \/ ReopenList \/ ReopenRule \/ ReopenRecord

Shared(t) == \/ PlaceRule(t) \/ KeepRule(t) \/ ComposeFrame(t)
             \/ SendPolicyFrame(t) \/ SaveClone(t) \/ SaveFile(t)
             \/ NoteAnswer(t) \/ NoteIfOpen(t) \/ NoteIfOpenRecord(t)
             \/ FoldEffective(t) \/ InstallEffective(t)

Cards == \/ \E r \in Requests : RecordDecision(r) \/ DismissRequest(r)
         \/ ApplyGrantedEgress \/ CloneOwn

Row(t) == \/ \E h \in Hosts : AnswerEntry(t, h) \/ RemoveEntry(t, h)
          \/ RulesAsTheyStand(t) \/ TakeBackRule(t)
          \/ PutRunningBack(t) \/ PutOwnBack(t)

Watch == HandleEvent \/ ApplyExternalPolicy

Lapse == \E r \in Requests : TimeoutOne(r)

End == WithdrawRun \/ WithdrawNext

Next == \/ Reader \/ Cards \/ Watch \/ Lapse \/ End \/ EditFile
        \/ \E t \in Rows : Row(t)
        \/ \E t \in Tasks : Shared(t)

\* The next step of the operation task t has under way.
Continue(t) ==
    /\ Busy(t)
    /\ \/ Shared(t) \/ Row(t)
       \/ t = "reader" /\ Reader
       \/ t = "cards" /\ Cards
       \/ t = "watcher" /\ Watch
       \/ t = "end" /\ End

\* An operation that has begun runs on, and the watcher's thread takes up the
\* events the file system raises.
Fairness == (\A t \in Tasks : WF_vars(Continue(t))) /\ WF_vars(HandleEvent)

Safety == Init /\ [][Next]_vars
Spec == Safety /\ Fairness

-----------------------------------------------------------------------------
(* Properties *)

\* Every variable, and every local of every task, has its type.
TypeOK ==
    /\ asked \subseteq Requests /\ held \subseteq asked
    /\ {policy, persisted, file, guest} \subseteq Seq(Rule)
    /\ granted \in BOOLEAN /\ event \in BOOLEAN
    /\ entries \in [Hosts -> States]
    /\ given \in 0 .. MaxAnswers /\ edits \in 0 .. MaxEdits
    /\ \A t \in Tasks :
         LET j == job[t]
         IN  /\ j.pc \in Labels /\ j.op \in Ops
             /\ j.host \in Hosts /\ j.verdict \in Verdicts
             /\ j.table \in Seq(Rule) /\ j.before \in Seq(Rule) \X Seq(Rule)
             /\ j.todo \subseteq Hosts

Quiet == ~event /\ \A t \in Tasks : ~Busy(t)

SameVerdicts(one, other) == \A c \in Calls : Gate(one, c) = Gate(other, c)

\* Every variable has its type (TypeOK), and the rules the run enforces are
\* folded from the file as it stands: once the
\* operations and reloads under way are over, the running table and the one
\* the guest was last sent decide every call as this directory's file, the
\* grant and the shipped document decide it together.
Folded ==
    /\ TypeOK
    /\ Quiet => \A table \in {policy, guest} :
                  SameVerdicts(table, EffectiveOver(file, granted))

\* A destination whose entry says it is decided for good is decided that way
\* by the guest's gate, as long as nobody has edited the file.
EntryHolds ==
    Quiet /\ edits = 0 =>
      \A h \in Hosts : entries[h] \in Settled =>
        \A c \in Reach[h] : StateOf(Gate(guest, c)) = entries[h]
                              /\ Gate(guest, c) # "ask"

\* No table ever holds approvals of one destination both ways, however the
\* answers on cards and rows, the reloads and the put-backs interleave: an
\* answer that contradicts one in force is refused or replaces it.
OneVerdict ==
    \A table \in {policy, persisted, file, guest} :
      \A i, k \in 1 .. Len(table) :
        (table[i].approved /\ table[k].approved /\ table[i].match = table[k].match)
          => table[i].verdict = table[k].verdict

\* While nobody edits the file, reloading what the run itself wrote decides every call as before: an
\* approval is not placed ahead of a rule that already decides part of its
\* destination.
ReloadChangesNothing ==
    [][(edits = 0 /\ At("watcher", "install") /\ ~At("watcher", "install")')
         => SameVerdicts(policy, policy')]_vars

\* What the developer types at the head of the file is enforced in the end,
\* whatever the cards, rows and deadlines of the run are doing, unless an answer
\* given since goes ahead of it.
EditTakesEffect ==
    \A rule \in UserRules :
      LET First == edits = MaxEdits /\ file # <<>> /\ file[1] = rule
      IN  First ~> (~First \/ \A c \in rule.match : Gate(guest, c) = rule.verdict)

=============================================================================
