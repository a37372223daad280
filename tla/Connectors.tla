----------------------------- MODULE Connectors -----------------------------
(***************************************************************************)
(* One installed connector of the service: the document and digest on      *)
(* disk, the connections (values.json) and the decisions of runs           *)
(* (grants.json), all three of crates/lns-service/src/connector/store.rs,  *)
(* and everything that works on them at once: the machine verbs of a       *)
(* client (real.rs, handler.rs, connect.rs), the sign-ins open in the      *)
(* background (operations.rs) and the refresh pass (refresh.rs).           *)
(*                                                                         *)
(* A mutation is a load, a change and a save under one process-wide lock;  *)
(* whatever is read before that lock, and every call to a provider, is a   *)
(* step of its own.  A document is known by its version, which is also     *)
(* its digest; a set of values by the authority it came with and by        *)
(* whether it is armed.  Time is left to the steps: an operation may       *)
(* expire and a connection may be due whenever it could be.                *)
(***************************************************************************)
EXTENDS Naturals, Sequences, FiniteSets, FiniteSetsExt

CONSTANTS Versions,     \* the documents there are to install
          OAuthVersions,\* those whose method signs in with native OAuth
          Labels,       \* the connections a person may name
          Authorities,  \* what an exchange may report
          Runs,         \* run ids, each created once
          Clients,      \* connections of the service's own clients
          MaxCalls,     \* bound: calls the clients make
          MaxOpen,      \* bound: sign-ins opened
          MaxAnswers,   \* bound: finished exchanges with a provider
          MaxHurdles    \* bound: writes that fail and restarts of the service

VARIABLES disk,    \* the document and the digest under the connector's name
          values,  \* the connection each label names
          grants,  \* what each holder decided
          gen,     \* GENERATION, the last generation handed out
          ops,     \* sign-ins, by handle
          asks,    \* exchanges waiting for an answer, by handle
          call,    \* what each client is doing
          pass,    \* the refresh pass
          lock,    \* the writer inside the lock
          runs,    \* the runs created
          past     \* epochs of the labels, and the bounds spent

conVars == <<disk, values, grants, gen, ops, asks, call, pass, lock, runs, past>>

NONE == "none"           \* no document, no authority
ABSENT == << >>          \* no record
RESERVED == "reserved"   \* the name a reservation waits for
Holders == Runs \cup {RESERVED}
OPEN_PER_CONNECTOR == 2

Kind(v) == IF v \in OAuthVersions THEN "oauth" ELSE "code"

Connection ==
    [kind: {"oauth", "code"}, authority: Authorities, armed: BOOLEAN, generation: Nat]
Granted ==
    [verdict: {"granted"}, digest: Versions, connection: Labels, authority: Authorities \cup {NONE}]
Declined == [verdict |-> "declined"]

\* list(): a directory without its document or its digest is skipped.
Listed == disk.doc # NONE /\ disk.dig # NONE

\* Mutant: only the grants that apply to the installed bytes are dropped.
InvalidatesApplying(d, l, a) ==
    /\ d # ABSENT /\ d.verdict = "granted" /\ d.connection = l /\ d.authority # a
    /\ d.digest = disk.dig

\* Which grants a connection of this authority under this label drops.
Invalidates(d, l, a) ==
    d # ABSENT /\ d.verdict = "granted" /\ d.connection = l /\ d.authority # a

\* Mutant: a load leaves GENERATION where the process started it.
LoadedNothing == gen

\* Every load of the connections brings GENERATION up to the highest held.
Loaded == Max({gen} \cup {values[l].generation : l \in {k \in Labels : values[k] # ABSENT}})

Idle == [pc |-> "idle"]
Free == lock = ABSENT
\* complete() holds the operations' lock while it records.
OpsFree == ~Free => lock.by # "op"

Spend(what) == [past EXCEPT ![what] = @ + 1]
\* A connection was stored or dropped: whoever read it before read it late.
Touched(p, ls) == [p EXCEPT !.epoch = [l \in Labels |-> @[l] + IF l \in ls THEN 1 ELSE 0]]
-----------------------------------------------------------------------------
(* The store: one record, in two writes under the lock.                     *)

\* record_locked, first half: the grants this authority does not match go.
RecordGrants(l, new, by) ==
    /\ Free
    /\ grants' = [h \in Holders |->
                     IF Invalidates(grants[h], l, new.authority) THEN ABSENT ELSE grants[h]]
    /\ lock' = [by |-> by.by, who |-> by.who, job |-> "values", label |-> l, new |-> new,
                read |-> by.read, seen |-> by.seen, digest |-> by.digest]

\* record_if_current: only while the digest and the connection are the ones read.
Current(l, digest, previous) ==
    Listed /\ disk.dig = digest /\ values[l] = previous

\* record_locked, second half: a new generation, and the connection stored -
\* or not, with the grants already gone.
Stored(ok) ==
    /\ ~Free /\ lock.job = "values"
    /\ gen' = Loaded + 1
    /\ IF ok
       THEN /\ values' = [values EXCEPT ![lock.label] = [lock.new EXCEPT !.generation = Loaded + 1]]
            /\ past' = Touched(past, {lock.label})
       ELSE /\ past.hurdles < MaxHurdles
            /\ past' = Spend("hurdles")
            /\ UNCHANGED values
    /\ lock' = ABSENT
    /\ UNCHANGED <<disk, grants, asks, runs>>
-----------------------------------------------------------------------------
(* The clients' verbs.                                                      *)

May(c) == call[c] = Idle /\ past.calls < MaxCalls
Do(c, what) == call' = [call EXCEPT ![c] = what]

\* cancel_connector: every sign-in of the connector, or of one label of it.
CancelConnector(ls) ==
    [h \in DOMAIN ops |->
        IF ops[h].label \in ls /\ ops[h].work # ABSENT
        THEN [ops[h] EXCEPT !.work = ABSENT, !.status = "canceled"] ELSE ops[h]]

\* install: the document is written, then its digest; nothing else is asked
\* of the lock in between, but a reader may look.
Install(c, v) ==
    /\ May(c) /\ Free
    /\ disk' = [disk EXCEPT !.doc = v]
    /\ lock' = [by |-> "client", who |-> c, job |-> "digest", new |-> v]
    /\ Do(c, [pc |-> "held"])
    /\ past' = Spend("calls")
    /\ UNCHANGED <<values, grants, gen, ops, asks, pass, runs>>

InstallDigest(c, ok) ==
    /\ ~Free /\ lock.job = "digest" /\ lock.who = c
    /\ IF ok THEN disk' = [disk EXCEPT !.dig = lock.new] /\ UNCHANGED past
             ELSE past.hurdles < MaxHurdles /\ past' = Spend("hurdles") /\ UNCHANGED disk
    /\ lock' = ABSENT
    /\ Do(c, Idle)
    /\ UNCHANGED <<values, grants, gen, ops, asks, pass, runs>>

\* uninstall: sign-ins canceled, then under the lock the connections and
\* after them the directory.
Uninstall(c) ==
    /\ May(c) /\ OpsFree
    /\ ops' = CancelConnector(Labels)
    /\ Do(c, [pc |-> "uninstall"])
    /\ past' = Spend("calls")
    /\ UNCHANGED <<disk, values, grants, gen, asks, pass, lock, runs>>

UninstallConnections(c) ==
    /\ call[c].pc = "uninstall" /\ Free
    /\ values' = [l \in Labels |-> ABSENT]
    /\ past' = Touched(past, {l \in Labels : values[l] # ABSENT})
    /\ lock' = [by |-> "client", who |-> c, job |-> "remove"]
    /\ Do(c, [pc |-> "held"])
    /\ UNCHANGED <<disk, grants, gen, ops, asks, pass, runs>>

UninstallRemove(c) ==
    /\ ~Free /\ lock.job = "remove" /\ lock.who = c
    /\ disk' = [doc |-> NONE, dig |-> NONE]
    /\ lock' = ABSENT
    /\ Do(c, Idle)
    /\ UNCHANGED <<values, grants, gen, ops, asks, pass, runs, past>>

\* disconnect: sign-ins canceled, each connection told to its mechanism,
\* and only then dropped - whatever is held by then.
Disconnect(c, ls) ==
    /\ May(c) /\ OpsFree
    /\ ops' = CancelConnector(ls)
    /\ IF Listed THEN Do(c, [pc |-> "drop", labels |-> ls]) /\ gen' = Loaded
                 ELSE UNCHANGED <<call, gen>>
    /\ past' = Spend("calls")
    /\ UNCHANGED <<disk, values, grants, asks, pass, lock, runs>>

DropConnections(c) ==
    /\ call[c].pc = "drop" /\ Free
    /\ LET gone == {l \in call[c].labels : values[l] # ABSENT}
       IN /\ values' = [l \in Labels |-> IF l \in gone THEN ABSENT ELSE values[l]]
          /\ past' = Touched(past, gone)
    /\ Do(c, Idle)
    /\ UNCHANGED <<disk, grants, gen, ops, asks, pass, lock, runs>>

\* begin: the installed entry is read first.
Begin(c, l) ==
    /\ May(c) /\ Listed
    /\ Do(c, [pc |-> IF Kind(disk.doc) = "oauth" THEN "start" ELSE "mechanism",
              label |-> l, digest |-> disk.dig])
    /\ past' = Spend("calls")
    /\ UNCHANGED <<disk, values, grants, gen, ops, asks, pass, lock, runs>>

\* ... a native sign-in reads the connection it would replace,
StartNative(c) ==
    /\ call[c].pc = "start"
    /\ Do(c, [pc |-> "open", label |-> call[c].label, digest |-> call[c].digest,
              previous |-> values[call[c].label], seen |-> past.epoch[call[c].label]])
    /\ gen' = Loaded
    /\ UNCHANGED <<disk, values, grants, ops, asks, pass, lock, runs, past>>

\* ... and opens an operation, which cancels any other under the label.
OpenOperation(c) ==
    LET me == call[c]
        kept == [h \in DOMAIN ops |->
                    IF ops[h].label = me.label /\ ops[h].work # ABSENT
                    THEN [ops[h] EXCEPT !.work = ABSENT, !.status = "canceled"] ELSE ops[h]]
        active == {h \in DOMAIN kept : kept[h].work # ABSENT}
        fresh == [label |-> me.label, status |-> "pending", chosen |-> FALSE, busy |-> FALSE,
                  thread |-> ABSENT,
                  work |-> [digest |-> me.digest, previous |-> me.previous, seen |-> me.seen]]
    IN /\ me.pc = "open" /\ OpsFree /\ Len(ops) < MaxOpen
       /\ ops' = IF Cardinality(active) >= OPEN_PER_CONNECTOR THEN kept ELSE Append(kept, fresh)
       /\ Do(c, Idle)
       /\ UNCHANGED <<disk, values, grants, gen, asks, pass, lock, runs, past>>

\* A mechanism that asks: the exchange waits in memory under a handle.
MechanismAsks(c) ==
    /\ call[c].pc = "mechanism" /\ Len(asks) < MaxOpen
    /\ asks' = Append(asks, [label |-> call[c].label, digest |-> call[c].digest])
    /\ Do(c, Idle)
    /\ UNCHANGED <<disk, values, grants, gen, ops, pass, lock, runs, past>>

\* settle, Done: what came back is recorded as it is.
MechanismDone(c, a) ==
    /\ call[c].pc = "mechanism" /\ past.answers < MaxAnswers
    /\ RecordGrants(call[c].label,
                    [kind |-> "code", authority |-> a, armed |-> TRUE, generation |-> 0],
                    [by |-> "client", who |-> c, read |-> ABSENT, seen |-> 0, digest |-> call[c].digest])
    /\ Do(c, [pc |-> "held"])
    /\ past' = Spend("answers")
    /\ UNCHANGED <<disk, values, gen, ops, asks, pass, runs>>

MechanismFails(c) ==
    /\ call[c].pc = "mechanism"
    /\ Do(c, Idle)
    /\ UNCHANGED <<disk, values, grants, gen, ops, asks, pass, lock, runs, past>>

ClientStored(c, ok) ==
    /\ Stored(ok)
    /\ lock.by = "client" /\ lock.who = c
    /\ Do(c, Idle)
    /\ UNCHANGED <<ops, pass>>

\* answer: one handle answers once, and only for the bytes it began against.
Answer(c, h) ==
    /\ May(c) /\ asks[h] # ABSENT
    /\ asks' = [asks EXCEPT ![h] = ABSENT]
    /\ IF Listed /\ disk.dig = asks[h].digest
       THEN Do(c, [pc |-> "mechanism", label |-> asks[h].label, digest |-> asks[h].digest])
       ELSE UNCHANGED call
    /\ past' = Spend("calls")
    /\ UNCHANGED <<disk, values, grants, gen, ops, pass, lock, runs>>

\* The person walks away, or the exchange runs out.
Abandon(h) ==
    /\ asks[h] # ABSENT
    /\ asks' = [asks EXCEPT ![h] = ABSENT]
    /\ UNCHANGED <<disk, values, grants, gen, ops, call, pass, lock, runs, past>>

\* grant: the entry, the connection behind the method, its authority and the
\* decision are four looks at the stores; only the last is under the lock.
Grant(c, h, l) ==
    /\ May(c) /\ Listed
    /\ h \in runs \cup {RESERVED}
    /\ Do(c, [pc |-> "pick", holder |-> h, label |-> l, digest |-> disk.dig,
              kind |-> Kind(disk.doc)])
    /\ past' = Spend("calls")
    /\ UNCHANGED <<disk, values, grants, gen, ops, asks, pass, lock, runs>>

GrantPicks(c) ==
    /\ call[c].pc = "pick"
    /\ IF values[call[c].label] # ABSENT
       THEN call' = [call EXCEPT ![c].pc = "authority"]
       ELSE Do(c, Idle)
    /\ gen' = Loaded
    /\ UNCHANGED <<disk, values, grants, ops, asks, pass, lock, runs, past>>

GrantReads(c) ==
    LET held == values[call[c].label]
    IN /\ call[c].pc = "authority"
       /\ Do(c, [pc |-> "decide", holder |-> call[c].holder, digest |-> call[c].digest,
                 label |-> call[c].label, seen |-> past.epoch[call[c].label],
                 authority |-> IF held = ABSENT THEN NONE ELSE held.authority])
       /\ gen' = Loaded
       /\ UNCHANGED <<disk, values, grants, ops, asks, pass, lock, runs, past>>

GrantDecides(c) ==
    LET me == call[c]
    IN /\ me.pc = "decide" /\ Free
       /\ grants' = [grants EXCEPT ![me.holder] =
                        [verdict |-> "granted", digest |-> me.digest, connection |-> me.label,
                         authority |-> me.authority]]
       /\ past' = IF me.seen = past.epoch[me.label] /\ me.authority # NONE
                  THEN [past EXCEPT !.late = @ \ {me.holder}]
                  ELSE [past EXCEPT !.late = @ \cup {me.holder}]
       /\ Do(c, Idle)
       /\ UNCHANGED <<disk, values, gen, ops, asks, pass, lock, runs>>

\* decline, forget and the removal of a run write one row each.
Decide(c, h, d) ==
    /\ May(c) /\ Free /\ h \in runs \cup {RESERVED}
    /\ grants' = [grants EXCEPT ![h] = d]
    /\ past' = [Spend("calls") EXCEPT !.late = @ \ {h}]
    /\ UNCHANGED <<disk, values, gen, ops, asks, call, pass, lock, runs>>

\* take_reservations_for: a run the user named takes what was reserved, a
\* run of another's naming discards it; an answer is never replaced.
CreateRun(r, named) ==
    LET carried == named /\ grants[r] = ABSENT /\ RESERVED \in past.late
    IN /\ r \notin runs /\ Free
       /\ runs' = runs \cup {r}
       /\ grants' = [grants EXCEPT
                       ![RESERVED] = ABSENT,
                       ![r] = IF named /\ @ = ABSENT THEN grants[RESERVED] ELSE @]
       /\ past' = [past EXCEPT !.late = (@ \ {RESERVED}) \cup IF carried THEN {r} ELSE {}]
       /\ UNCHANGED <<disk, values, gen, ops, asks, call, pass, lock>>
-----------------------------------------------------------------------------
(* A sign-in in the background.                                             *)

SetOp(h, o) == ops' = [ops EXCEPT ![h] = o]
Ended(o, status) == [o EXCEPT !.busy = FALSE, !.work = ABSENT, !.status = status, !.thread = ABSENT]

\* select: the person chooses what to ask the provider for.
Select(h) ==
    /\ OpsFree /\ ops[h].work # ABSENT /\ ~ops[h].chosen
    /\ Listed /\ disk.dig = ops[h].work.digest
    /\ SetOp(h, [ops[h] EXCEPT !.chosen = TRUE])
    /\ UNCHANGED <<disk, values, grants, gen, asks, call, pass, lock, runs, past>>

\* claim, and whether the connector is still the one the work began against.
Claim(h) ==
    /\ OpsFree /\ ops[h].work # ABSENT /\ ops[h].chosen /\ ~ops[h].busy
    /\ SetOp(h, [ops[h] EXCEPT !.busy = TRUE,
                               !.thread = [work |-> ops[h].work,
                                           ok |-> Listed /\ disk.dig = ops[h].work.digest]])
    /\ UNCHANGED <<disk, values, grants, gen, asks, call, pass, lock, runs, past>>

Claimed(h) == OpsFree /\ ops[h].thread # ABSENT
\* Mutant: only that the thread still holds the entry is asked.
StillOpenBusy(h) == ops[h].busy

\* complete and advance answer only for work that is still open.
StillOpen(h) == ops[h].work # ABSENT /\ ops[h].busy

AdvancePending(h) ==
    /\ Claimed(h) /\ ops[h].thread.ok
    /\ SetOp(h, [ops[h] EXCEPT !.thread = ABSENT, !.busy = IF StillOpen(h) THEN FALSE ELSE @])
    /\ UNCHANGED <<disk, values, grants, gen, asks, call, pass, lock, runs, past>>

AdvanceFails(h, status) ==
    /\ Claimed(h)
    /\ SetOp(h, IF StillOpen(h) THEN Ended(ops[h], status) ELSE [ops[h] EXCEPT !.thread = ABSENT])
    /\ UNCHANGED <<disk, values, grants, gen, asks, call, pass, lock, runs, past>>

\* complete(save_native): recorded under both locks, or canceled where the
\* connector or the connection is no longer the one the work began with.
AdvanceDone(h, a) ==
    LET work == ops[h].thread.work
    IN /\ Claimed(h) /\ ops[h].thread.ok /\ past.answers < MaxAnswers /\ Free
       /\ past' = Spend("answers")
       /\ IF StillOpen(h) /\ Current(ops[h].label, work.digest, work.previous)
          THEN /\ RecordGrants(ops[h].label,
                               [kind |-> "oauth", authority |-> a, armed |-> TRUE, generation |-> 0],
                               [by |-> "op", who |-> h, read |-> work.previous, seen |-> work.seen, digest |-> work.digest])
               /\ UNCHANGED ops
          ELSE /\ SetOp(h, IF StillOpen(h) THEN Ended(ops[h], "canceled")
                           ELSE [ops[h] EXCEPT !.thread = ABSENT])
               /\ UNCHANGED <<grants, lock>>
       /\ gen' = Loaded
       /\ UNCHANGED <<disk, values, asks, call, pass, runs>>

OperationStored(ok) ==
    /\ Stored(ok)
    /\ lock.by = "op"
    /\ SetOp(lock.who, Ended(ops[lock.who], IF ok THEN "completed" ELSE "failed"))
    /\ UNCHANGED <<call, pass>>

\* sweep, or cancel from the card or the command line.
EndOperation(h, status) ==
    /\ OpsFree /\ ops[h].work # ABSENT
    /\ SetOp(h, [ops[h] EXCEPT !.work = ABSENT, !.status = status])
    /\ UNCHANGED <<disk, values, grants, gen, asks, call, pass, lock, runs, past>>
-----------------------------------------------------------------------------
(* The refresh pass.                                                        *)

Resting == [pc |-> "resting"]
PassVars == <<disk, ops, asks, call, runs>>

Look ==
    /\ pass = Resting /\ Listed
    /\ pass' = [pc |-> "looking", digest |-> disk.dig, kind |-> Kind(disk.doc)]
    /\ UNCHANGED <<PassVars, values, grants, gen, lock, past>>

\* due: of what is held now, the connections that could run out and be renewed.
Due(ls) ==
    /\ pass.pc = "looking"
    /\ \A l \in ls : values[l] # ABSENT /\ values[l].armed
    /\ pass' = [pc |-> "renewing", digest |-> pass.digest, kind |-> pass.kind,
                due |-> [l \in ls |-> [held |-> values[l], seen |-> past.epoch[l]]]]
    /\ gen' = Loaded
    /\ UNCHANGED <<PassVars, values, grants, lock, past>>

Tried(l) ==
    LET rest == DOMAIN pass.due \ {l}
    IN IF rest = {} THEN Resting ELSE [pass EXCEPT !.due = [k \in rest |-> pass.due[k]]]

PassEnds ==
    /\ pass.pc = "renewing" /\ DOMAIN pass.due = {}
    /\ pass' = Resting
    /\ UNCHANGED <<PassVars, values, grants, gen, lock, past>>

\* One answer of a provider recorded if nothing moved meanwhile.
RecordRenewal(l, new) ==
    LET was == pass.due[l]
    IN IF Current(l, pass.digest, was.held)
       THEN /\ RecordGrants(l, new, [by |-> "pass", who |-> l, read |-> was.held, seen |-> was.seen,
                                     digest |-> pass.digest])
            /\ UNCHANGED pass
       ELSE pass' = Tried(l) /\ UNCHANGED <<grants, lock>>

Renewing(l) == pass.pc = "renewing" /\ l \in DOMAIN pass.due /\ Free

\* renew: a connection of another kind than the method's cannot be renewed.
Renewed(l, a) ==
    /\ Renewing(l) /\ pass.due[l].held.kind = pass.kind /\ past.answers < MaxAnswers
    /\ RecordRenewal(l, [kind |-> pass.kind, authority |-> a, armed |-> TRUE, generation |-> 0])
    /\ gen' = Loaded
    /\ past' = Spend("answers")
    /\ UNCHANGED <<PassVars, values>>

\* The provider, or a method that no longer signs in, says reconnect: the
\* values are cleared and the authority stays.
Reconnect(l) ==
    /\ Renewing(l) /\ pass.due[l].held.kind = "oauth"
    /\ RecordRenewal(l, [pass.due[l].held EXCEPT !.armed = FALSE, !.generation = 0])
    /\ gen' = Loaded
    /\ UNCHANGED <<PassVars, values, past>>

RenewFails(l) ==
    /\ pass.pc = "renewing" /\ l \in DOMAIN pass.due /\ (~Free => lock.by # "pass")
    /\ pass' = Tried(l)
    /\ UNCHANGED <<PassVars, values, grants, gen, lock, past>>

PassStored(ok) ==
    /\ Stored(ok)
    /\ lock.by = "pass"
    /\ pass' = Tried(lock.who)
    /\ UNCHANGED <<ops, call>>
-----------------------------------------------------------------------------
\* The service dies and comes back: what is on disk stays.
Crash ==
    /\ past.hurdles < MaxHurdles
    /\ gen' = 0 /\ ops' = << >> /\ asks' = << >> /\ lock' = ABSENT /\ pass' = Resting
    /\ call' = [c \in Clients |-> Idle]
    /\ past' = Spend("hurdles")
    /\ UNCHANGED <<disk, values, grants, runs>>

\* A store as an earlier process left it: perhaps a connector, perhaps one
\* connection of it, perhaps a reservation that consented to what it holds.
ConInit ==
    /\ \E v \in Versions \cup {NONE} : disk = [doc |-> v, dig |-> v]
    /\ \/ values = [l \in Labels |-> ABSENT]
       \/ /\ Listed
          /\ \E l \in Labels, a \in Authorities :
                values = [k \in Labels |-> IF k # l THEN ABSENT
                            ELSE [kind |-> Kind(disk.doc), armed |-> TRUE, generation |-> 1,
                                  authority |-> a]]
    /\ \/ grants = [h \in Holders |-> ABSENT]
       \/ \E l \in Labels :
             /\ values[l] # ABSENT
             /\ grants = [h \in Holders |-> IF h # RESERVED THEN ABSENT
                            ELSE [verdict |-> "granted", digest |-> disk.dig, connection |-> l,
                                  authority |-> values[l].authority]]
    /\ gen = 0 /\ ops = << >> /\ asks = << >> /\ lock = ABSENT /\ pass = Resting /\ runs = {}
    /\ call = [c \in Clients |-> Idle]
    /\ past = [epoch |-> [l \in Labels |-> 0], late |-> {},
               calls |-> 0, answers |-> 0, hurdles |-> 0]

ConNext ==
    \/ \E c \in Clients, v \in Versions : Install(c, v)
    \/ \E c \in Clients, ok \in BOOLEAN : InstallDigest(c, ok) \/ ClientStored(c, ok)
    \/ \E c \in Clients : \/ Uninstall(c) \/ UninstallConnections(c) \/ UninstallRemove(c)
                          \/ DropConnections(c) \/ StartNative(c) \/ OpenOperation(c)
                          \/ MechanismAsks(c) \/ MechanismFails(c)
                          \/ GrantPicks(c) \/ GrantReads(c) \/ GrantDecides(c)
    \/ \E c \in Clients, l \in Labels : Begin(c, l) \/ Disconnect(c, {l})
    \/ \E c \in Clients : Disconnect(c, Labels)
    \/ \E c \in Clients, a \in Authorities : MechanismDone(c, a)
    \/ \E c \in Clients, h \in DOMAIN asks : Answer(c, h)
    \/ \E h \in DOMAIN asks : Abandon(h)
    \/ \E c \in Clients, h \in Holders, l \in Labels : Grant(c, h, l)
    \/ \E c \in Clients, h \in Holders : Decide(c, h, ABSENT) \/ Decide(c, h, Declined)
    \/ \E r \in Runs, named \in BOOLEAN : CreateRun(r, named)
    \/ \E h \in DOMAIN ops : \/ Select(h) \/ Claim(h) \/ AdvancePending(h)
                             \/ AdvanceFails(h, "expired") \/ AdvanceFails(h, "failed")
                             \/ EndOperation(h, "expired") \/ EndOperation(h, "canceled")
    \/ \E h \in DOMAIN ops, a \in Authorities : AdvanceDone(h, a)
    \/ \E ok \in BOOLEAN : OperationStored(ok) \/ PassStored(ok)
    \/ Look \/ PassEnds
    \/ \E ls \in SUBSET Labels : Due(ls)
    \/ \E l \in Labels : Reconnect(l) \/ RenewFails(l)
    \/ \E l \in Labels, a \in Authorities : Renewed(l, a)
    \/ Crash

ConSpec == ConInit /\ [][ConNext]_conVars
-----------------------------------------------------------------------------
Work == [digest: Versions, previous: Connection \cup {ABSENT}, seen: Nat]

\* The type of the stores and of the sign-ins: an operation that left "pending"
\* has given up its work, whichever of sweep, cancel, cancel_connector, complete
\* and the opening of another ended it.
ConTypeOK ==
    /\ disk \in [doc: Versions \cup {NONE}, dig: Versions \cup {NONE}]
    /\ values \in [Labels -> Connection \cup {ABSENT}]
    /\ grants \in [Holders -> Granted \cup {Declined, ABSENT}]
    /\ \A h \in DOMAIN ops :
          /\ ops[h].label \in Labels
          /\ ops[h].work \in Work \cup {ABSENT}
          /\ ops[h].status \in {"pending", "completed", "canceled", "expired", "failed"}
          /\ ops[h].work # ABSENT => ops[h].status = "pending"
    /\ runs \subseteq Runs

\* record_if_current: a finished exchange or renewal is recorded only over the
\* document and the connection it began with, and nothing was stored or dropped
\* under the label since it read - the generation a connection carries is never
\* handed out twice, not even by a process that starts counting again.
LateNeverRecreates ==
    ~Free /\ lock.job = "values" /\ lock.by # "client" =>
        /\ lock.digest = disk.dig
        /\ lock.read = values[lock.label]
        /\ lock.read # ABSENT => lock.seen = past.epoch[lock.label]

\* No grant stands beside a connection of an authority it did not consent to:
\* record_locked drops such grants before it stores the connection, and a write
\* that fails in between leaves too few grants, never too many.  The holders in
\* past.late are those whose decision was taken on an authority that had changed
\* between grant's reads and its write.
NeverWidened ==
    \A h \in Holders \ past.late :
        \A l \in Labels :
            values[l] # ABSENT /\ grants[h] \in Granted /\ grants[h].connection = l =>
                grants[h].authority = values[l].authority

\* At most one sign-in is open under a label: open cancels the one before it,
\* so two browsers can never both end up writing the connection.
OneSignIn ==
    \A h, k \in DOMAIN ops :
        h # k /\ ops[h].work # ABSENT /\ ops[k].work # ABSENT => ops[h].label # ops[k].label

\* A sign-in's outcome is final and true: its status leaves "pending" once, and
\* only a step that stored the connection makes it "completed" - a thread that
\* comes back to an operation canceled or expired meanwhile changes nothing.
EndsHonestly ==
    \A h \in DOMAIN ops \cap DOMAIN ops' :
        ops'[h].status # ops[h].status =>
            /\ ops[h].status = "pending"
            /\ ops'[h].status = "completed" =>
                  values'[ops[h].label] # values[ops[h].label]
=============================================================================
