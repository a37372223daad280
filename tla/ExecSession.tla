----------------------------- MODULE ExecSession -----------------------------
(***************************************************************************)
(* One `lns exec` session, end to end: the keys typed at the terminal pass *)
(* the detach-chord detector of lns-cli, travel as acknowledged one-shot   *)
(* requests to lns-service, through the session's input channel and the    *)
(* vsock connection to lns-session-broker, which writes them to the        *)
(* child's stdin.  What the child writes travels back over the same        *)
(* connection, the service's frame channel and the client's stream.  Every *)
(* queue is bounded and every hop is a task or a thread of its own.        *)
(***************************************************************************)
EXTENDS Naturals, Sequences

CONSTANTS Keys,       \* the keys of the terminal
          Chord,      \* the detach keys, a non-empty sequence
          Scripts,    \* what the user may type, sequences of keys
          MaxChunk,   \* keys one read of stdin returns, at most
          MaxOut,     \* chunks the child writes, at most
          Cap         \* room in every queue between two hops

ASSUME ExecAssumption ==
  /\ Chord \in Seq(Keys) /\ Chord # << >> /\ Scripts \subseteq Seq(Keys)
  /\ MaxChunk \in Nat /\ MaxOut \in Nat /\ Cap \in Nat

VARIABLES tty,          \* a pty session, or one over three pipes
          daemon,       \* the child leaves a process behind that keeps its output open
          pump,         \* the client's run_stdin_pump task
          cli,          \* the client: reading its stream, or gone and why
          shown,        \* chunks of output the client has printed
          intr,         \* Ctrl-C was forwarded as SessionSignal
          reg,          \* the session is in the run's exec_sessions
          input,        \* the SessionInput channel
          sessionTask,  \* the service's session task
          serving,      \* the service's drive_exec_stream
          frames,       \* the service's frame channel
          stream,       \* the client's response stream
          up, down,     \* the two directions of the vsock connection
          vsock,        \* its ends: shut for reading at the guest, closed by host or guest
          clientLoop,   \* the broker's client_loop thread
          outThread,    \* the broker's output pump thread
          drv,          \* the broker's drive_session thread
          child

pipeVars == <<tty, daemon>>
clientVars == <<pump, cli, shown, intr>>
serviceVars == <<reg, input, sessionTask, serving, frames, stream>>
brokerVars == <<clientLoop, outThread, drv>>
execVars == <<pipeVars, clientVars, serviceVars, up, down, vsock, brokerVars, child>>

In(bytes) == <<"in", bytes>>
Close == <<"close">>
Detach == <<"detach">>
Interrupted == <<"int">>

ExecInit ==
  /\ tty \in BOOLEAN /\ daemon \in BOOLEAN
  /\ \E s \in Scripts :
       pump = [pc |-> "read", script |-> s, at |-> 0, m |-> 0, reqs |-> << >>, next |-> "read"]
  /\ cli = "on" /\ shown = 0 /\ intr = FALSE
  /\ reg = TRUE /\ input = << >> /\ serving = TRUE /\ frames = << >> /\ stream = << >>
  /\ sessionTask = [input |-> TRUE, reader |-> TRUE, exit |-> "none", said |-> FALSE]
  /\ up = << >> /\ down = << >>
  /\ vsock = [ended |-> FALSE, host |-> TRUE, guest |-> TRUE, read |-> TRUE]
  /\ clientLoop = "on" /\ outThread = TRUE /\ drv = [pc |-> "wait", cut |-> FALSE]
  /\ child = [st |-> "up", hup |-> FALSE, stdin |-> << >>, pipe |-> TRUE, reads |-> TRUE,
              eof |-> FALSE, wrote |-> 0, pumped |-> 0]

-----------------------------------------------------------------------------
(* The client. *)

\* DetachChordDetector::feed: a key that does not continue the chord gives back the
\* held ones, and may itself start the chord.
feed(m, b) ==
  CASE b = Chord[m + 1] /\ m + 1 = Len(Chord) -> [m |-> 0, act |-> "trigger", out |-> << >>]
    [] b = Chord[m + 1] /\ m + 1 < Len(Chord) -> [m |-> m + 1, act |-> "hold", out |-> << >>]
    [] b # Chord[m + 1] /\ m = 0 -> [m |-> 0, act |-> "forward", out |-> <<b>>]
    [] b # Chord[m + 1] /\ m > 0 /\ b = Chord[1] ->
         [m |-> 1, act |-> "flush", out |-> SubSeq(Chord, 1, m)]
    [] b # Chord[m + 1] /\ m > 0 /\ b # Chord[1] ->
         [m |-> 0, act |-> "flush", out |-> Append(SubSeq(Chord, 1, m), b)]

drain_pending(pending) == IF pending = << >> THEN << >> ELSE <<In(pending)>>

\* A held key leaves the keys before it in `pending`.
plan_feed_holding(p, f) ==
  CASE f.act = "forward" -> [p EXCEPT !.pending = @ \o f.out]
    [] f.act = "hold" -> p
    [] f.act = "flush" -> [p EXCEPT !.reqs = @ \o <<In(f.out)>>]
    [] f.act = "trigger" -> [p EXCEPT !.reqs = @ \o drain_pending(p.pending) \o <<Detach>>,
                                      !.pending = << >>, !.next = "leave"]

\* plan_feed_target, for a session whose stdin is forwarded and whose chord closes it.
plan_feed_target(p, f) ==
  LET drained == p.reqs \o drain_pending(p.pending)
  IN CASE f.act = "forward" -> [p EXCEPT !.pending = @ \o f.out]
       [] f.act = "hold" -> [p EXCEPT !.reqs = drained, !.pending = << >>]
       [] f.act = "flush" -> [p EXCEPT !.reqs = drained \o <<In(f.out)>>, !.pending = << >>]
       [] f.act = "trigger" -> [p EXCEPT !.reqs = drained \o <<Detach>>, !.pending = << >>,
                                         !.next = "leave"]

\* The next key of a chunk; the keys after the chord are dropped.
PumpKey(p, b) ==
  IF p.next = "leave" THEN p
  ELSE LET f == feed(p.m, b)
       IN [plan_feed_target(p, f) EXCEPT !.m = f.m]

\* pump_with_detector_target: the requests one chunk asks for, in order.
PumpChunk(m0, chunk) ==
  LET fed[n \in 0..Len(chunk)] ==
        IF n = 0 THEN [m |-> m0, pending |-> << >>, reqs |-> << >>, next |-> "read"]
        ELSE PumpKey(fed[n - 1], chunk[n])
      end == fed[Len(chunk)]
  IN [end EXCEPT !.reqs = @ \o drain_pending(end.pending), !.pending = << >>]

After(reqs, next) == IF reqs = << >> THEN next ELSE "send"

ReadStdin ==
  /\ cli = "on" /\ pump.pc = "read"
  /\ \E n \in 1..MaxChunk :
       /\ pump.at + n <= Len(pump.script)
       /\ LET p == PumpChunk(pump.m, SubSeq(pump.script, pump.at + 1, pump.at + n))
          IN pump' = [pump EXCEPT !.pc = After(p.reqs, p.next), !.at = @ + n, !.m = p.m,
                                  !.reqs = p.reqs, !.next = p.next]
  /\ UNCHANGED <<pipeVars, cli, shown, intr, serviceVars, up, down, vsock, brokerVars, child>>

\* The held keys of an unfinished chord are given back before stdin is closed.
StdinEnds ==
  /\ cli = "on" /\ pump.pc = "read" /\ pump.at = Len(pump.script)
  /\ pump' = [pump EXCEPT !.pc = "send", !.m = 0, !.next = "end",
                          !.reqs = drain_pending(SubSeq(Chord, 1, pump.m)) \o <<Close>>]
  /\ UNCHANGED <<pipeVars, cli, shown, intr, serviceVars, up, down, vsock, brokerVars, child>>

\* forward_target_input and handle_session_detach: the reply waits for room in the
\* channel; a session that is gone is answered with an error the client ignores.
Deliver(r) ==
  /\ (reg /\ sessionTask.input) => Len(input) < Cap
  /\ input' = IF reg /\ sessionTask.input THEN Append(input, r) ELSE input
  /\ reg' = (reg /\ r # Detach)

SendOneShot ==
  /\ cli = "on" /\ pump.pc = "send"
  /\ Deliver(Head(pump.reqs))
  /\ pump' = [pump EXCEPT !.reqs = Tail(@), !.pc = After(Tail(pump.reqs), pump.next)]
  /\ UNCHANGED <<pipeVars, cli, shown, intr, sessionTask, serving, frames, stream, up, down, vsock,
                 brokerVars, child>>

\* In raw mode Ctrl-C is a key like any other.
Interrupt ==
  /\ cli = "on" /\ ~tty /\ ~intr
  /\ Deliver(Interrupted)
  /\ intr' = TRUE
  /\ UNCHANGED <<pipeVars, pump, cli, shown, sessionTask, serving, frames, stream, up, down, vsock,
                 brokerVars, child>>

\* drive_targeted_session_with_writers: the finished chord wins over a frame that waits.
Leave ==
  /\ cli = "on" /\ pump.pc = "leave"
  /\ cli' = "detached"
  /\ UNCHANGED <<pipeVars, pump, shown, intr, serviceVars, up, down, vsock, brokerVars, child>>

ReadFrame ==
  /\ cli = "on" /\ pump.pc # "leave" /\ stream # << >>
  /\ stream' = Tail(stream)
  /\ shown' = IF Head(stream) = "o" THEN shown + 1 ELSE shown
  /\ cli' = IF Head(stream) = "o" THEN cli ELSE Head(stream)
  /\ UNCHANGED <<pipeVars, pump, intr, reg, input, sessionTask, serving, frames, up, down, vsock,
                 brokerVars, child>>

ClientKilled ==
  /\ cli = "on"
  /\ cli' = "killed"
  /\ UNCHANGED <<pipeVars, pump, shown, intr, serviceVars, up, down, vsock, brokerVars, child>>

-----------------------------------------------------------------------------
(* The service: the session task's two halves, and the client's stream. *)

PumpInput ==
  /\ sessionTask.input /\ sessionTask.reader /\ input # << >> /\ Len(up) < Cap
  /\ input' = Tail(input)
  /\ up' = Append(up, Head(input))
  /\ UNCHANGED <<pipeVars, clientVars, reg, sessionTask, serving, frames, stream, down, vsock,
                 brokerVars, child>>

\* Only the end of the input ends its pump.
InputStopsClosed ==
  /\ sessionTask.input /\ ~reg /\ input = << >>
  /\ sessionTask' = [sessionTask EXCEPT !.input = FALSE]
  /\ vsock' = [vsock EXCEPT !.ended = TRUE]
  /\ UNCHANGED <<pipeVars, clientVars, reg, input, serving, frames, stream, up, down,
                 brokerVars, child>>

\* pump_session_input ends when the reader is done, or when the last sender is gone and
\* the channel is empty; only then the write half is shut.
InputStops ==
  /\ sessionTask.input
  /\ ~sessionTask.reader \/ (~reg /\ input = << >>)
  /\ sessionTask' = [sessionTask EXCEPT !.input = FALSE]
  /\ vsock' = IF sessionTask.reader THEN [vsock EXCEPT !.ended = TRUE] ELSE vsock
  /\ UNCHANGED <<pipeVars, clientVars, reg, input, serving, frames, stream, up, down,
                 brokerVars, child>>

\* read_server_frames.
ReadServerFrame ==
  /\ sessionTask.reader
  /\ \/ /\ down # << >> /\ Head(down) = "o" /\ Len(frames) < Cap
        /\ down' = Tail(down)
        /\ frames' = Append(frames, "o")
        /\ UNCHANGED sessionTask
     \/ /\ down # << >> /\ Head(down) = "exit"
        /\ down' = Tail(down)
        /\ sessionTask' = [sessionTask EXCEPT !.reader = FALSE, !.exit = "exit"]
        /\ UNCHANGED frames
     \/ /\ down = << >> /\ ~vsock.guest
        /\ sessionTask' = [sessionTask EXCEPT !.reader = FALSE, !.exit = "lost"]
        /\ UNCHANGED <<down, frames>>
  /\ UNCHANGED <<pipeVars, clientVars, reg, input, serving, stream, up, vsock, brokerVars, child>>

ReportExit ==
  /\ serving /\ ~sessionTask.input /\ ~sessionTask.reader /\ ~sessionTask.said /\ Len(frames) < Cap
  /\ frames' = Append(frames, sessionTask.exit)
  /\ sessionTask' = [sessionTask EXCEPT !.said = TRUE]
  /\ UNCHANGED <<pipeVars, clientVars, reg, input, serving, stream, up, down, vsock,
                 brokerVars, child>>

\* drive_exec_stream's end: the session leaves the registry and its task is aborted, which
\* drops both halves of the connection.
Teardown ==
  /\ serving' = FALSE
  /\ reg' = FALSE
  /\ input' = << >>
  /\ sessionTask' = [sessionTask EXCEPT !.input = FALSE, !.reader = FALSE]
  /\ vsock' = [vsock EXCEPT !.ended = TRUE, !.host = FALSE]

PumpExecResponses ==
  /\ serving /\ cli = "on" /\ frames # << >> /\ Len(stream) < Cap
  /\ stream' = Append(stream, Head(frames))
  /\ frames' = Tail(frames)
  /\ IF Head(frames) = "o" THEN UNCHANGED <<serving, reg, input, sessionTask, vsock>> ELSE Teardown
  /\ UNCHANGED <<pipeVars, clientVars, up, down, brokerVars, child>>

SeeClientGone ==
  /\ serving /\ cli # "on"
  /\ Teardown
  /\ UNCHANGED <<pipeVars, clientVars, frames, stream, up, down, brokerVars, child>>

-----------------------------------------------------------------------------
(* The broker and the child. *)

\* client_loop: a frame is applied; a write the child's stdin no longer takes, and a
\* Detach, end the loop.
ClientFrame ==
  /\ clientLoop = "on" /\ vsock.read /\ up # << >>
  /\ LET r == Head(up)
         taken == tty \/ ~child.pipe \/ (child.reads /\ child.st = "up")
     IN /\ child' = CASE r[1] = "in" /\ taken /\ child.pipe /\ child.st = "up" ->
                          [child EXCEPT !.stdin = @ \o r[2]]
                      [] r[1] = "close" -> [child EXCEPT !.pipe = tty, !.eof = TRUE]
                      [] r[1] = "detach" -> [child EXCEPT !.hup = TRUE]
                      [] OTHER -> child
        /\ clientLoop' = CASE r[1] = "in" /\ ~taken -> "deaf"
                           [] r[1] = "detach" -> "off"
                           [] OTHER -> clientLoop
        /\ up' = Tail(up)
  /\ UNCHANGED <<pipeVars, clientVars, serviceVars, down, vsock, outThread, drv>>

\* The end of the stream leaves the child alone.
StreamEndsQuietly ==
  /\ clientLoop = "on" /\ (~vsock.read \/ (up = << >> /\ vsock.ended))
  /\ clientLoop' = "off"
  /\ UNCHANGED <<pipeVars, clientVars, serviceVars, up, down, vsock, outThread, drv, child>>

\* eof_action of a session that dies with its client.
StreamEnds ==
  /\ clientLoop = "on" /\ (~vsock.read \/ (up = << >> /\ vsock.ended))
  /\ clientLoop' = "off"
  /\ child' = [child EXCEPT !.hup = TRUE]
  /\ UNCHANGED <<pipeVars, clientVars, serviceVars, up, down, vsock, outThread, drv>>

ChildWrites ==
  /\ child.st = "up" /\ child.wrote < MaxOut
  /\ child' = [child EXCEPT !.wrote = @ + 1]
  /\ UNCHANGED <<pipeVars, clientVars, serviceVars, up, down, vsock, brokerVars>>

ChildClosesStdin ==
  /\ child.st = "up" /\ child.reads
  /\ child' = [child EXCEPT !.reads = FALSE]
  /\ UNCHANGED <<pipeVars, clientVars, serviceVars, up, down, vsock, brokerVars>>

ChildExits ==
  /\ child.st = "up"
  /\ child' = [child EXCEPT !.st = "exited"]
  /\ UNCHANGED <<pipeVars, clientVars, serviceVars, up, down, vsock, brokerVars>>

\* pump_fd_into_frame: a chunk waits, under the write lock, for room in the connection.
PumpOutput ==
  /\ outThread /\ child.pumped < child.wrote
  /\ \/ /\ vsock.host /\ vsock.guest /\ Len(down) < Cap
        /\ down' = Append(down, "o")
        /\ child' = [child EXCEPT !.pumped = @ + 1]
        /\ UNCHANGED outThread
     \/ /\ ~vsock.host \/ ~vsock.guest
        /\ outThread' = FALSE
        /\ UNCHANGED <<down, child>>
  /\ UNCHANGED <<pipeVars, clientVars, serviceVars, up, vsock, clientLoop, drv>>

OutputEnds ==
  /\ outThread /\ child.pumped = child.wrote /\ child.st # "up" /\ ~daemon
  /\ outThread' = FALSE
  /\ UNCHANGED <<pipeVars, clientVars, serviceVars, up, down, vsock, clientLoop, drv, child>>

WaitChild ==
  /\ drv.pc = "wait" /\ child.st = "exited"
  /\ drv' = [drv EXCEPT !.pc = "drain"]
  /\ child' = [child EXCEPT !.st = "reaped"]
  /\ UNCHANGED <<pipeVars, clientVars, serviceVars, up, down, vsock, clientLoop, outThread>>

\* The exit is reported without waiting for the output.
DrainedAtOnce ==
  /\ drv.pc = "drain"
  /\ drv' = [drv EXCEPT !.pc = "exit"]
  /\ UNCHANGED <<pipeVars, clientVars, serviceVars, up, down, vsock, clientLoop, outThread, child>>

\* Pipes are joined; a pty is waited for PTY_DRAIN_GRACE at most.
Drained ==
  /\ drv.pc = "drain" /\ (tty \/ ~outThread)
  /\ drv' = [drv EXCEPT !.pc = "exit", !.cut = outThread]
  /\ UNCHANGED <<pipeVars, clientVars, serviceVars, up, down, vsock, clientLoop, outThread, child>>

SendExit ==
  /\ drv.pc = "exit"
  /\ vsock.host => Len(down) < Cap
  /\ down' = IF vsock.host THEN Append(down, "exit") ELSE down
  /\ drv' = [drv EXCEPT !.pc = "linger"]
  /\ UNCHANGED <<pipeVars, clientVars, serviceVars, up, vsock, clientLoop, outThread, child>>

\* The client loop ended, or HOST_DRAIN_GRACE passed: reading is shut down.
Linger ==
  /\ drv.pc = "linger"
  /\ drv' = [drv EXCEPT !.pc = "join"]
  /\ vsock' = [vsock EXCEPT !.read = FALSE]
  /\ UNCHANGED <<pipeVars, clientVars, serviceVars, up, down, clientLoop, outThread, child>>

SessionEnds ==
  /\ drv.pc = "join" /\ clientLoop # "on"
  /\ drv' = [drv EXCEPT !.pc = "done"]
  /\ vsock' = [vsock EXCEPT !.guest = FALSE]
  /\ UNCHANGED <<pipeVars, clientVars, serviceVars, up, down, clientLoop, outThread, child>>

-----------------------------------------------------------------------------
\* The tasks and threads, which run on, their grace periods included; what the user
\* types, what the child does and whether the client is killed is left open.
ClientMain == Leave \/ ReadFrame
InputPump == PumpInput \/ InputStops
ExecStream == PumpExecResponses \/ SeeClientGone
ClientLoop == ClientFrame \/ StreamEnds
OutputPump == PumpOutput \/ OutputEnds
DriveSession == WaitChild \/ Drained \/ SendExit \/ Linger \/ SessionEnds

ExecNext ==
  \/ ReadStdin \/ StdinEnds \/ SendOneShot \/ Interrupt \/ ClientMain \/ ClientKilled
  \/ InputPump \/ ReadServerFrame \/ ReportExit \/ ExecStream
  \/ ClientLoop \/ OutputPump \/ DriveSession
  \/ ChildWrites \/ ChildClosesStdin \/ ChildExits

ExecFairness ==
  /\ WF_execVars(SendOneShot) /\ WF_execVars(ClientMain)
  /\ WF_execVars(InputPump) /\ WF_execVars(ReadServerFrame) /\ WF_execVars(ReportExit)
  /\ WF_execVars(ExecStream) /\ WF_execVars(ClientLoop)
  /\ WF_execVars(OutputPump) /\ WF_execVars(DriveSession)

ExecSpec == ExecInit /\ [][ExecNext]_execVars /\ ExecFairness
-----------------------------------------------------------------------------
(* Properties. *)

\* Every queue keeps within its room, the client loop is never both deaf and told to go
\* on, and the child's own counters agree: a forwarded request waits for room
\* (forward_target_input awaits the channel), it is never dropped and never piles up.
ExecTypeOK ==
  /\ \A n \in {Len(input), Len(up), Len(down), Len(frames), Len(stream)} : n <= Cap
  /\ cli \in {"on", "detached", "killed", "exit", "lost"}
  /\ clientLoop \in {"on", "off", "deaf"}
  /\ pump.m < Len(Chord) /\ (pump.pc = "send") = (pump.reqs # << >>)
  /\ shown <= child.pumped /\ child.pumped <= child.wrote
  /\ drv.pc \in {"wait", "drain", "exit", "linger", "join", "done"}

\* What the chord leaves of a script: everything before its first occurrence.
LetThrough(s) ==
  LET At(i) == i + Len(Chord) - 1 <= Len(s) /\ SubSeq(s, i, i + Len(Chord) - 1) = Chord
      starts == {i \in 1..Len(s) : At(i)}
  IN IF starts = {} THEN s
     ELSE SubSeq(s, 1, (CHOOSE i \in starts : \A j \in starts : i <= j) - 1)

IsPrefixOf(s, t) == Len(s) <= Len(t) /\ s = SubSeq(t, 1, Len(s))

\* However the typed keys are cut into reads, requests and frames, the child's stdin is a
\* prefix of what the user typed before the first detach chord, in the order it was typed;
\* and stdin is closed only after every key of it was delivered (the detector holds and
\* gives back the keys of an unfinished chord, run_stdin_pump awaits every reply).
StdinFaithful ==
  /\ IsPrefixOf(child.stdin, LetThrough(pump.script))
  /\ (child.eof /\ child.reads /\ child.st = "up") => child.stdin = pump.script

\* Every queue keeps within its room (ExecTypeOK), and
\* a client that prints the exit code of the session has printed all the child wrote,
\* unless the pty's drain grace cut the output short (drive_session_pipes joins its output
\* threads before send_exit, and every hop keeps the order).
OutputBeforeExit ==
  /\ ExecTypeOK
  /\ (cli = "exit" /\ ~drv.cut) => shown = child.wrote

\* drive_exec_stream's promise that an abandoned exec never outlives its client: once the
\* client is gone the child is hung up or over, unless the broker's client loop had already
\* ended on a write the child's closed stdin refused.
AbandonedIsHungUp ==
  (cli # "on") ~> (child.hup \/ child.st # "up" \/ clientLoop = "deaf")

\* The child's end reaches the client: once it is over, and leaves no process holding its
\* pipes, the client gets an answer or has gone by itself, and the broker's session thread
\* ends (the reader's end wakes the input pump, the grace periods are bounded).
ExitReachesClient ==
  (child.st # "up" /\ (tty \/ ~daemon)) ~> (cli # "on" /\ drv.pc = "done")
=============================================================================
