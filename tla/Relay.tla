------------------------------- MODULE Relay -------------------------------
(***************************************************************************)
(* The host end of a run's channel to its guest: lns-service/src/relay/.   *)
(*                                                                         *)
(* The approval session puts policy frames and decisions into a queue (its *)
(* sink).  The accept loop takes them, one by one, and hands them to the   *)
(* task of the guest's current connection, or holds on to them while there *)
(* is none; it also takes the connections the guest opens, and lets a new  *)
(* one supersede the one before.  A connection may end at any moment, and  *)
(* whatever is still queued for it is lost with it.                        *)
(*                                                                         *)
(* A policy frame is the number of the table it carries, and a decision    *)
(* the number of the table that was in force when it was taken: the guest  *)
(* looks at its table again when a decision releases a request.  The       *)
(* frames of one task are sent in order; DecisionTables has the races of   *)
(* several.  Guest events and their log are in AuditChain.                 *)
(***************************************************************************)
EXTENDS Naturals, Sequences

CONSTANTS
  Requests,   \* the requests that are decided, each once
  MaxTables,  \* bound: tables installed after the first
  MaxConns    \* bound: connections the guest opens

ASSUME RelayAssumption == MaxTables \in Nat /\ MaxConns \in Nat

VARIABLES
  version,    \* the table the session holds
  job,        \* "idle"; "policy": its frame is due; "answer": a decision is due
  undecided,  \* requests not decided yet
  sink,       \* frames the session has sent and the loop has not taken
  fds,        \* connections the guest opened and the loop has not taken
  loop,       \* "select", "superseding" or "over"
  conn,       \* the connection the loop took last, 0 before the first
  task,       \* its task: "none", "handshake", "serving" or "ended"
  shutdown,   \* the task was told to stop
  hasTx,      \* conn_tx: the loop believes the connection takes frames
  chan,       \* frames queued for the connection
  pending,    \* frames held for the next connection
  opened,     \* connections the guest has opened
  alive,      \* the connection the guest holds open, 0 for none
  table,      \* the table the guest enforces, 0 for none yet
  released    \* decision and table of each request released in the guest

session == <<version, job, undecided>>
accept == <<loop, hasTx, pending>>
link == <<conn, task, shutdown>>
guest == <<opened, alive, table, released>>
vars == <<session, sink, fds, accept, link, chan, guest>>

Policy(v) == [kind |-> "policy", v |-> v]
Decision(r, v) == [kind |-> "decision", r |-> r, v |-> v]
IsPolicy(f) == f.kind = "policy"
IsDecision(f) == f.kind = "decision"

-----------------------------------------------------------------------------
Init ==
  /\ version = 1 /\ job = "idle" /\ undecided = Requests
  /\ sink = <<>> /\ fds = <<>>
  /\ loop = "select" /\ hasTx = FALSE /\ pending = <<>>
  /\ conn = 0 /\ task = "none" /\ shutdown = FALSE
  /\ chan = <<>>
  /\ opened = 0 /\ alive = 0 /\ table = 0 /\ released = {}

-----------------------------------------------------------------------------
(* The session: a table is installed, then its frame is sent, then the     *)
(* decision that called for it.                                            *)

InstallTable ==
  /\ job = "idle" /\ version <= MaxTables
  /\ version' = version + 1 /\ job' = "policy"
  /\ UNCHANGED <<undecided, sink, fds, accept, link, chan, guest>>

SendPolicyFrame ==
  /\ job = "policy"
  /\ sink' = Append(sink, Policy(version))
  /\ job' \in {"idle", "answer"}
  /\ UNCHANGED <<version, undecided, fds, accept, link, chan, guest>>

\* After its table, or on its own for an answer that changes none.
SendDecision(r) ==
  /\ job \in {"idle", "answer"} /\ r \in undecided
  /\ sink' = Append(sink, Decision(r, version))
  /\ undecided' = undecided \ {r} /\ job' = "idle"
  /\ UNCHANGED <<version, fds, accept, link, chan, guest>>

-----------------------------------------------------------------------------
(* The accept loop.                                                        *)

\* The decisions among the frames, in order.
Decisions(frames) ==
  LET kept[n \in 0 .. Len(frames)] ==
        IF n = 0 THEN <<>>
        ELSE IF IsDecision(frames[n]) THEN Append(kept[n - 1], frames[n]) ELSE kept[n - 1]
  IN  kept[Len(frames)]

\* Appending a policy to the buffer like any other frame.
BufferAtEnd(frames, f) ==
  IF IsPolicy(f) THEN Append(Decisions(frames), f) ELSE Append(frames, f)

\* buffer_frame: one policy survives, at the head.
BufferFrame(frames, f) ==
  IF IsPolicy(f)
  THEN <<f>> \o Decisions(frames)
  ELSE Append(frames, f)

\* Seeding a connection with what was buffered and no more.
SeedBuffered(frames, current) == frames

\* Seeding the table only where nothing at all was buffered.
SeedIfEmpty(frames, current) ==
  IF frames # <<>> THEN frames ELSE <<Policy(current)>>

\* seed_frames: a buffered policy leads, or else the table as it stands.
SeedFrames(frames, current) ==
  IF \E i \in DOMAIN frames : IsPolicy(frames[i])
  THEN frames
  ELSE <<Policy(current)>> \o frames

\* The loop takes a connection: the one before is told to stop.
TakeConnection ==
  /\ loop = "select" /\ fds # <<>>
  /\ loop' = "superseding" /\ shutdown' = TRUE
  /\ UNCHANGED <<session, sink, fds, hasTx, pending, conn, task, chan, guest>>

\* supersede_connection has waited the old task out; the new one is seeded.
SeedConnection ==
  /\ loop = "superseding" /\ task \in {"none", "ended"}
  /\ chan' = SeedFrames(pending, version)
  /\ pending' = <<>> /\ hasTx' = TRUE
  /\ conn' = Head(fds) /\ fds' = Tail(fds)
  /\ task' = "handshake" /\ shutdown' = FALSE
  /\ loop' = "select"
  /\ UNCHANGED <<session, sink, guest>>

\* A frame goes to the connection, or, once a send fails, into the buffer.
\* Connections come first: the select is biased.
TakeFrame ==
  /\ loop = "select" /\ fds = <<>> /\ sink # <<>>
  /\ sink' = Tail(sink)
  /\ IF hasTx /\ task # "ended"
     THEN chan' = Append(chan, Head(sink)) /\ UNCHANGED <<hasTx, pending>>
     ELSE /\ hasTx' = FALSE
          /\ pending' = BufferFrame(pending, Head(sink))
          /\ UNCHANGED chan
  /\ UNCHANGED <<session, fds, loop, link, guest>>

\* The run is over: its queues are closed, the loop ends, and dropping the
\* shutdown sender stops the task.
EndRun ==
  /\ loop = "select" /\ fds = <<>>
  /\ loop' = "over" /\ shutdown' = TRUE
  /\ UNCHANGED <<session, sink, fds, hasTx, pending, conn, task, chan, guest>>

-----------------------------------------------------------------------------
(* The connection's task.                                                  *)

\* The handshake ends well, while the guest is there to answer it.  Nothing
\* interrupts it: the task looks at its shutdown only when it serves.
Handshake ==
  /\ task = "handshake" /\ conn = alive
  /\ task' = "serving"
  /\ UNCHANGED <<session, sink, fds, accept, conn, shutdown, chan, guest>>

\* serve: the next frame is written; it reaches the guest if the guest still
\* holds this connection.
Serve ==
  /\ task = "serving" /\ ~ shutdown /\ chan # <<>>
  /\ chan' = Tail(chan)
  /\ LET f == Head(chan)
     IN  IF conn # alive THEN UNCHANGED <<table, released>>
         ELSE IF IsPolicy(f) THEN table' = f.v /\ UNCHANGED released
         ELSE released' = released \cup {[r |-> f.r, v |-> f.v, under |-> table]}
              /\ UNCHANGED table
  /\ UNCHANGED <<session, sink, fds, accept, link, opened, alive>>

\* The task ends on its shutdown, or because the guest is gone; what was
\* queued for it goes with it.
EndTask ==
  /\ \/ task = "serving" /\ (shutdown \/ conn # alive)
     \/ task = "handshake" /\ conn # alive
  /\ task' = "ended" /\ chan' = <<>>
  /\ UNCHANGED <<session, sink, fds, accept, conn, shutdown, guest>>

-----------------------------------------------------------------------------
(* The guest.                                                              *)

\* The guest opens a connection, and has by then given up the one before.
GuestConnects ==
  /\ opened < MaxConns /\ loop # "over"
  /\ opened' = opened + 1 /\ alive' = opened + 1
  /\ fds' = Append(fds, opened + 1)
  /\ UNCHANGED <<session, sink, accept, link, chan, table, released>>

\* The connection breaks, on either side.
GuestDrops ==
  /\ alive # 0 /\ alive' = 0
  /\ UNCHANGED <<session, sink, fds, accept, link, chan, opened, table, released>>

Session == InstallTable \/ SendPolicyFrame \/ \E r \in Requests : SendDecision(r)
AcceptLoop == TakeConnection \/ SeedConnection \/ TakeFrame
Task == Handshake \/ Serve \/ EndTask

Next == Session \/ AcceptLoop \/ EndRun \/ Task \/ GuestConnects \/ GuestDrops

\* The session sends what it has installed, and the loop and its tasks run on.
Fairness == WF_vars(SendPolicyFrame) /\ WF_vars(AcceptLoop) /\ WF_vars(Task)

Spec == Init /\ [][Next]_vars /\ Fairness

-----------------------------------------------------------------------------
(* What the channel promises.                                              *)

Frames == {Policy(v) : v \in 1 .. MaxTables + 1}
            \cup {Decision(r, v) : r \in Requests, v \in 1 .. MaxTables + 1}

\* Every variable has its type, and the buffer holds no policy but at its head.
TypeOK ==
  /\ version \in 1 .. MaxTables + 1 /\ job \in {"idle", "policy", "answer"}
  /\ undecided \subseteq Requests
  /\ {sink, chan, pending} \subseteq Seq(Frames)
  /\ \A i \in DOMAIN pending : IsPolicy(pending[i]) => i = 1
  /\ fds \in Seq(1 .. MaxConns)
  /\ loop \in {"select", "superseding", "over"} /\ hasTx \in BOOLEAN
  /\ conn \in 0 .. MaxConns /\ shutdown \in BOOLEAN
  /\ task \in {"none", "handshake", "serving", "ended"}
  /\ opened \in 0 .. MaxConns /\ alive \in 0 .. opened
  /\ table \in 0 .. MaxTables + 1
  /\ released \subseteq [r : Requests, v : 1 .. MaxTables + 1, under : 0 .. MaxTables + 1]

\* No decision releases a request in a guest whose table is older than the one
\* the decision was taken under, through drops, reconnects and buffering
\* (buffer_frame and seed_frames keep a policy ahead of the decisions).
DecisionCovered == \A d \in released : d.under >= d.v

Route == chan \o sink
Policies(frames) == {i \in DOMAIN frames : IsPolicy(frames[i])}

\* Every variable has its type (TypeOK), and
\* a connection the guest holds leads to the session's table: the last policy
\* on its way is the table's own, or none is and the guest has it already.
NewestOnItsWay ==
  /\ TypeOK
  /\ task \in {"handshake", "serving"} /\ conn = alive /\ ~ shutdown /\ job # "policy"
       => IF Policies(Route) # {}
          THEN \E i \in Policies(Route) : Route[i].v = version /\ \A j \in Policies(Route) : j <= i
          ELSE table = version

\* A guest that keeps a connection ends up with the session's table, whatever
\* happened to the connections before it.
GuestCurrent ==
  (<>[](alive # 0 /\ loop # "over")) => <>[](table = version)
=============================================================================
