----------------------------- MODULE AuditChain -----------------------------
(***************************************************************************)
(* One hash-chained audit log and the anchor file beside it: the log of a  *)
(* run, or the machine's durable ledger.                                   *)
(*                                                                         *)
(*   lns-ipc/src/audit.rs        AuditChain, Anchor                        *)
(*   lns-service/src/audit.rs    append_ocsf_at, the record_* family,      *)
(*                               the anchor file                           *)
(*   lns-service/src/ledger.rs   the ledger, appended to under WRITE_LOCK  *)
(*   lns-service/src/relay/      the connection that logs guest events     *)
(*   lns-audit/src/verify.rs     what a reader of the log is told          *)
(*                                                                         *)
(* Three kinds of writer append to a chain.  A "host" writer (a record_*   *)
(* call) reads the anchor, appends one line, and installs the new anchor,  *)
(* under no lock.  A "ledger" writer does the same under the lock.  The    *)
(* "relay" reads the anchor once, when the guest connects, and keeps the   *)
(* head of the chain in memory for as long as the connection lasts.        *)
(*                                                                         *)
(* A line's SHA-256 is modelled by the number of the event it holds: the   *)
(* hash is injective and no two lines hold the same event.  What a line    *)
(* says is left out.  An append is two steps (the write and its fsync) and *)
(* so is an anchor (the rename and the fsync of the directory), because a  *)
(* loss of power tells them apart.                                         *)
(***************************************************************************)
EXTENDS Naturals, Sequences, FiniteSets

CONSTANTS
  Writers,      \* the tasks that append to this chain
  Kind,         \* Kind[w]: "host", "ledger" or "relay"
  Follows,      \* Follows[w]: the writers that are through before w starts
  Todo,         \* Todo[w]: the records a host or ledger writer makes, one by one
  HasEnv,       \* the relay logs the injected environment on every connection
  EventBudget,  \* MAX_AUDIT_EVENTS_PER_RUN
  MaxEvents,    \* bound: lines ever built
  MaxFaults,    \* bound: failed reads, writes and syncs, and crashes
  MaxDamage,    \* bound: times the log is damaged at rest
  MaxReads      \* bound: times the log is read while it is written

ASSUME ConstantsAssumption ==
  /\ Kind \in [Writers -> {"host", "ledger", "relay"}]
  /\ Follows \in [Writers -> SUBSET Writers]
  /\ Todo \in [Writers -> Nat]
  /\ HasEnv \in BOOLEAN
  /\ {EventBudget, MaxEvents, MaxFaults, MaxDamage, MaxReads} \subseteq Nat

NoOne == "nobody"
ASSUME NoOneAssumption == NoOne \notin Writers

VARIABLES
  log,       \* the lines of the log file
  synced,    \* how many of them an fsync has made durable
  anchor,    \* the anchor file as a reader finds it
  durable,   \* the anchor file a loss of power may bring back
  lock,      \* the ledger's WRITE_LOCK: its holder, or NoOne
  pc,        \* where each writer stands
  chain,     \* the AuditChain each writer holds in memory
  line,      \* the line each writer has built and is writing
  budget,    \* the events each relay may still log for its guest
  done,      \* records each host or ledger writer has finished with
  built,     \* lines built so far; the number of the last event
  guest,     \* the events that came from the guest
  acked,     \* events whose append and anchor both succeeded
  faults,    \* faults so far
  damage,    \* damage so far
  reading,   \* the anchor a reader took before it walks the log, or NotReading
  verdict,   \* what the last reader was told
  reads      \* reads so far

vars == <<log, synced, anchor, durable, lock, pc, chain, line, budget, done,
          built, guest, acked, faults, damage, reading, verdict, reads>>

files == <<log, synced, anchor, durable>>
reader == <<reading, verdict, reads>>

GENESIS_PREV_HASH == 0
Absent == [state |-> "absent"]
NotReading == [state |-> "none"]
Present(c) == [state |-> "present", head |-> c.head, count |-> c.count]
Fresh == [head |-> GENESIS_PREV_HASH, count |-> 0]

\* AuditChain::resuming_from_anchor: no readable anchor starts a chain over.
ResumingFrom(a) ==
  IF a.state = "present" THEN [head |-> a.head, count |-> a.count] ELSE Fresh

-----------------------------------------------------------------------------
(* The chain, and the reader of the chain.                                 *)

\* AuditChain::augment_obj: the line names the head, and becomes the head.
Line(c, e) == [event |-> e, prev |-> c.head, text |-> "whole"]
Augmented(c, e) == [head |-> e, count |-> c.count + 1]

\* O_APPEND after a torn line (no newline yet) finishes that line, unreadably.
Appended(lines, l) ==
  IF lines # <<>> /\ lines[Len(lines)].text = "open"
  THEN [lines EXCEPT ![Len(lines)].text = "spoiled"]
  ELSE Append(lines, l)

\* A write cut short leaves a line with no newline.
Torn(lines, l) ==
  IF lines # <<>> /\ lines[Len(lines)].text = "open"
  THEN lines
  ELSE Append(lines, [l EXCEPT !.text = "open"])

PrevOf(lines, i) == IF i = 1 THEN GENESIS_PREV_HASH ELSE lines[i - 1].event

\* check_line, at line i of a walk that got that far.
LineHolds(lines, i) ==
  /\ lines[i].text = "whole"
  /\ lines[i].prev = PrevOf(lines, i)

\* A reader that does not look at the anchor.
VerifyWalkOnly(lines, a) ==
  IF \E i \in DOMAIN lines : ~ LineHolds(lines, i) THEN "broken" ELSE "ok"

\* verify_chain_against_anchor: walk_chain, then check_anchor.
Verify(lines, a) ==
  CASE \E i \in DOMAIN lines : ~ LineHolds(lines, i) -> "broken"
    [] a.state = "absent" -> "no anchor"
    [] a.count # Len(lines) \/ a.head # PrevOf(lines, Len(lines) + 1) -> "truncated"
    [] OTHER -> "ok"

-----------------------------------------------------------------------------
Init ==
  /\ log = <<>> /\ synced = 0
  /\ anchor = Absent /\ durable = Absent
  /\ lock = NoOne
  /\ pc = [w \in Writers |-> IF Kind[w] = "relay" THEN "down" ELSE "idle"]
  /\ chain = [w \in Writers |-> Fresh]
  /\ line = [w \in Writers |-> Line(Fresh, 0)]
  /\ budget = [w \in Writers |-> 0]
  /\ done = [w \in Writers |-> 0]
  /\ built = 0 /\ guest = {} /\ acked = {}
  /\ faults = 0 /\ damage = 0
  /\ reading = NotReading /\ verdict = "none" /\ reads = 0

Goes(w, from, to) == pc[w] = from /\ pc' = [pc EXCEPT ![w] = to]

\* A fault the environment injects, within its bound.
Fault == faults < MaxFaults /\ faults' = faults + 1
NoFault == UNCHANGED faults

\* A host or ledger writer is through with a record; a relay goes on serving,
\* unless the record failed, which ends its connection.
AfterRecord(w, failed) ==
  IF Kind[w] # "relay" \/ failed THEN "idle" ELSE "ready"

Finish(w, from, failed) ==
  /\ Goes(w, from, AfterRecord(w, failed))
  /\ done' = [done EXCEPT ![w] = IF Kind[w] = "relay" THEN @ ELSE @ + 1]
  /\ lock' = IF lock = w THEN NoOne ELSE lock

-----------------------------------------------------------------------------
(* Opening the chain and building a line on it.                            *)

Through(w) == IF Kind[w] = "relay" THEN pc[w] = "over" ELSE done[w] = Todo[w]
Turn(w) == \A v \in Follows[w] : Through(v)
Pending(w) == done[w] < Todo[w] /\ Turn(w) /\ built < MaxEvents

\* What read_anchor returns: the anchor, or nothing when the read fails.
ReadAnchor(c) ==
  \/ c = ResumingFrom(anchor) /\ NoFault
  \/ c = Fresh /\ Fault

\* augment_obj: the next event goes on chain c, and c moves on to it.
Build(w, c) ==
  /\ line' = [line EXCEPT ![w] = Line(c, built + 1)]
  /\ chain' = [chain EXCEPT ![w] = Augmented(c, built + 1)]
  /\ built' = built + 1

\* append_machine_event takes WRITE_LOCK before it looks at the anchor.
Lock(w) ==
  /\ Kind[w] = "ledger" /\ Pending(w)
  /\ lock = NoOne
  /\ lock' = w
  /\ Goes(w, "idle", "locked")
  /\ UNCHANGED <<files, chain, line, budget, done, built, guest, acked, faults, damage, reader>>

\* append_ocsf_at and append_machine_event_at: the anchor is read, and the
\* one line is built on what it says.
Open(w) ==
  /\ \/ Kind[w] = "host" /\ Goes(w, "idle", "write") /\ Pending(w)
     \/ Kind[w] = "ledger" /\ Goes(w, "locked", "write")
  /\ \E c \in {ResumingFrom(anchor), Fresh} : ReadAnchor(c) /\ Build(w, c)
  /\ UNCHANGED <<files, lock, budget, done, guest, acked, damage, reader>>

\* AuditBudget::seeded: the budget resumes where the anchor says it stood.
Seeded ==
  LET spent == ResumingFrom(anchor).count
  IN  IF spent <= EventBudget THEN EventBudget - spent ELSE 0

\* relay::spawn: the accept loop of a boot starts, before the boot records
\* its launch, and seeds its budget.
Spawn(w) ==
  /\ Kind[w] = "relay" /\ \A v \in Follows[w] : Turn(v)
  /\ Goes(w, "down", "idle")
  /\ budget' = [budget EXCEPT ![w] = Seeded]
  /\ UNCHANGED <<files, lock, chain, line, done, built, guest, acked, faults, damage, reader>>

\* A relay that goes on with the chain of its last connection.
ConnectKeepsChain(w) ==
  /\ Kind[w] = "relay" /\ Turn(w) /\ built < MaxEvents
  /\ Goes(w, "idle", IF HasEnv THEN "write" ELSE "ready")
  /\ IF HasEnv THEN Build(w, chain[w]) ELSE UNCHANGED <<chain, line, built>>
  /\ UNCHANGED <<files, lock, budget, done, guest, acked, faults, damage, reader>>

\* handle_connection, up to serve: the anchor is read, once, and the
\* environment event, if there is one, goes first.
Connect(w) ==
  /\ Kind[w] = "relay" /\ Turn(w) /\ built < MaxEvents
  /\ Goes(w, "idle", IF HasEnv THEN "write" ELSE "ready")
  /\ \E c \in {ResumingFrom(anchor), Fresh} :
       /\ ReadAnchor(c)
       /\ IF HasEnv THEN Build(w, c)
                    ELSE chain' = [chain EXCEPT ![w] = c] /\ UNCHANGED <<line, built>>
  /\ UNCHANGED <<files, lock, budget, done, guest, acked, damage, reader>>

\* handle_inbound, an audit_event frame the budget still has room for; one
\* it has no room for is dropped and changes nothing.
Inbound(w) ==
  /\ Kind[w] = "relay" /\ built < MaxEvents
  /\ Goes(w, "ready", "write")
  /\ budget[w] > 0
  /\ budget' = [budget EXCEPT ![w] = @ - 1]
  /\ guest' = guest \cup {built + 1}
  /\ Build(w, chain[w])
  /\ UNCHANGED <<files, lock, done, acked, faults, damage, reader>>

\* The guest hangs up, or is superseded by its own next connection; or the
\* run is over, and the accept loop ends with it.
Disconnect(w) ==
  /\ Kind[w] = "relay"
  /\ Goes(w, "ready", "idle") \/ Goes(w, "ready", "over") \/ Goes(w, "idle", "over")
  /\ UNCHANGED <<files, lock, chain, line, budget, done, built, guest, acked, faults, damage, reader>>

-----------------------------------------------------------------------------
(* Writing the line, then the anchor.                                      *)

\* write_all: the whole line, or an error after none or part of it.
Write(w) ==
  /\ \/ /\ log' = Appended(log, line[w])
        /\ Goes(w, "write", "sync")
        /\ NoFault /\ UNCHANGED <<lock, done>>
     \/ /\ log' \in {log, Torn(log, line[w])}
        /\ Finish(w, "write", TRUE)
        /\ Fault
  /\ UNCHANGED <<synced, anchor, durable, chain, line, budget, built, guest, acked, damage, reader>>

\* A ledger that lets go of its lock once the line is on disk.
SyncUnlocks(w) ==
  /\ synced' = Len(log)
  /\ Goes(w, "sync", "anchor")
  /\ lock' = IF lock = w THEN NoOne ELSE lock
  /\ UNCHANGED <<log, anchor, durable, chain, line, budget, done, built, guest, acked, faults, damage, reader>>

\* sync_all on the log.
Sync(w) ==
  /\ \/ /\ synced' = Len(log)
        /\ Goes(w, "sync", "anchor")
        /\ NoFault /\ UNCHANGED <<lock, done>>
     \/ /\ UNCHANGED synced
        /\ Finish(w, "sync", TRUE)
        /\ Fault
  /\ UNCHANGED <<log, anchor, durable, chain, line, budget, built, guest, acked, damage, reader>>

\* write_anchor_file up to the rename: a synced temporary takes the anchor's
\* place, or the anchor stays as it was.
Install(w) ==
  /\ \/ /\ anchor' = Present(chain[w])
        /\ Goes(w, "anchor", "settle")
        /\ NoFault /\ UNCHANGED <<lock, done>>
     \/ /\ UNCHANGED anchor
        /\ Finish(w, "anchor", TRUE)
        /\ Fault
  /\ UNCHANGED <<log, synced, durable, chain, line, budget, built, guest, acked, damage, reader>>

\* fsync_parent_dir; the writer's record has then been made.
Settle(w) ==
  /\ \/ /\ durable' = anchor
        /\ acked' = acked \cup {line[w].event}
        /\ Finish(w, "settle", FALSE)
        /\ NoFault
     \/ /\ UNCHANGED <<durable, acked>>
        /\ Finish(w, "settle", TRUE)
        /\ Fault
  /\ UNCHANGED <<log, synced, anchor, chain, line, budget, built, guest, damage, reader>>

-----------------------------------------------------------------------------
(* The machine, the disk and the reader.                                   *)

\* The service dies, or the machine loses power: of what no fsync has made
\* durable any prefix stays, its last line perhaps in part; the records in
\* flight are never finished.
Crash ==
  /\ Fault
  /\ \E n \in synced .. Len(log), cut \in BOOLEAN :
       /\ cut => n > synced
       /\ log' = IF cut /\ log[n].text = "whole"
                 THEN [SubSeq(log, 1, n) EXCEPT ![n].text = "open"]
                 ELSE SubSeq(log, 1, n)
       /\ synced' = n
  /\ anchor' \in {anchor, durable} /\ durable' = anchor'
  /\ lock' = NoOne
  /\ pc' = [w \in Writers |-> IF Kind[w] = "relay" THEN "down" ELSE "idle"]
  /\ done' = [w \in Writers |-> IF Kind[w] # "relay" /\ pc[w] # "idle"
                                THEN done[w] + 1 ELSE done[w]]
  /\ UNCHANGED <<chain, line, budget, built, guest, acked, damage, reader>>

\* The log is cut short, or a line of it altered, or two exchanged, at rest.
Damage ==
  /\ damage < MaxDamage /\ damage' = damage + 1
  /\ \/ \E n \in 0 .. Len(log) - 1 : log' = SubSeq(log, 1, n)
     \/ \E i \in DOMAIN log : log' = [log EXCEPT ![i].event = MaxEvents + 1]
     \/ \E i, j \in DOMAIN log : i < j /\ log' = [log EXCEPT ![i] = log[j], ![j] = log[i]]
  /\ synced' = IF synced <= Len(log') THEN synced ELSE Len(log')
  /\ UNCHANGED <<anchor, durable, lock, pc, chain, line, budget, done, built, guest, acked, faults, reader>>

\* verify_chain_with_anchor reads the anchor first ...
ReadersAnchor ==
  /\ reading = NotReading /\ log # <<>>
  /\ reads < MaxReads /\ reads' = reads + 1
  /\ reading' = anchor
  /\ UNCHANGED <<files, lock, pc, chain, line, budget, done, built, guest, acked, faults, damage, verdict>>

\* ... and walks the log after.
ReadersWalk ==
  /\ reading # NotReading
  /\ verdict' = Verify(log, reading)
  /\ reading' = NotReading
  /\ UNCHANGED <<files, lock, pc, chain, line, budget, done, built, guest, acked, faults, damage, reads>>

Step(w) ==
  \/ Lock(w) \/ Open(w) \/ Spawn(w) \/ Connect(w) \/ Inbound(w) \/ Disconnect(w)
  \/ Write(w) \/ Sync(w) \/ Install(w) \/ Settle(w)

Next ==
  \/ \E w \in Writers : Step(w)
  \/ Crash \/ Damage \/ ReadersAnchor \/ ReadersWalk

Spec == Init /\ [][Next]_vars

-----------------------------------------------------------------------------
(* What the chain promises.                                                *)

Places == {"down", "idle", "over", "locked", "ready", "write", "sync", "anchor", "settle"}
Hashes == 0 .. MaxEvents + 1
Lines == [event : Hashes, prev : Hashes, text : {"whole", "open", "spoiled"}]
Chains == [head : Hashes, count : 0 .. MaxEvents]
Anchors == {Absent} \cup {Present(c) : c \in Chains}

\* Every variable has its type; the lock is held by a writer that is
\* appending, and no more lines are durable than there are.
TypeOK ==
  /\ log \in Seq(Lines) /\ synced \in 0 .. Len(log)
  /\ anchor \in Anchors /\ durable \in Anchors
  /\ lock \in Writers \cup {NoOne}
  /\ pc \in [Writers -> Places]
  /\ chain \in [Writers -> Chains] /\ line \in [Writers -> Lines]
  /\ budget \in [Writers -> 0 .. EventBudget]
  /\ done \in [Writers -> Nat]
  /\ built \in 0 .. MaxEvents
  /\ guest \subseteq 1 .. MaxEvents /\ acked \subseteq 1 .. MaxEvents
  /\ faults \in 0 .. MaxFaults /\ damage \in 0 .. MaxDamage

\* Every line carries the hash of the line before it, the first one the
\* genesis hash (augment_obj, whoever appends, across connections and boots),
\* as long as no write has failed and nothing crashed.
EveryLineChained ==
  faults = 0 => \A i \in DOMAIN log : log[i].prev = PrevOf(log, i)

\* Whenever nobody holds the ledger's lock, and no write ever failed, a reader
\* of the ledger finds it whole and level with its anchor: WRITE_LOCK keeps the
\* read of the anchor, the append and the new anchor together.
LedgerVerifies ==
  (lock = NoOne /\ faults = 0 /\ damage = 0 /\ log # <<>>)
    => Verify(log, anchor) = "ok"

\* A log that verifies holds every event that was ever recorded successfully:
\* neither a crash or failed write at any point of an append, nor damage to the
\* log at rest, nor a race of two writers, loses one without the reader being told.
OkMeansComplete ==
  Verify(log, anchor) = "ok"
    => acked \subseteq {log[i].event : i \in DOMAIN log}

\* The guest's events in a run's log never exceed MAX_AUDIT_EVENTS_PER_RUN,
\* however often it reconnects and the run is restarted (AuditBudget::seeded),
\* as long as the anchor could be read and written.
BudgetHolds ==
  faults = 0 => Cardinality({i \in DOMAIN log : log[i].event \in guest}) <= EventBudget

\* A reader that takes the anchor and walks the log while the runs go on
\* recording may find the one behind the other, but it never finds a line that
\* does not follow from the line before, unless a write failed or the log was
\* damaged (verify_chain_with_anchor, walk_chain).
NoFalseAlarm ==
  (faults = 0 /\ damage = 0) => verdict # "broken"
=============================================================================
