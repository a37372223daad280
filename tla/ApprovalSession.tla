-------------------------- MODULE ApprovalSession --------------------------
(***************************************************************************)
(* The approval session of one run: the requests its guest holds, the      *)
(* cards the window shows for them, the connector offers a card carries,   *)
(* the sign-in rounds a card drives and the decision frames that wake the  *)
(* guest (lns-service/src/approval_flow/session.rs and window.rs).         *)
(*                                                                         *)
(* Every field of ApprovalSession sits behind a mutex of its own, and the  *)
(* methods run on several tasks of a multi-thread runtime, so a method is  *)
(* one step per lock it takes.  The rule tables and the entry list, which  *)
(* these steps never read, are the subject of DecisionTables.              *)
(***************************************************************************)
EXTENDS Naturals, Sequences, FiniteSets

CONSTANTS
    Requests,     \* ids of the requests the guest may hold
    Connectors,   \* connectors installed on the machine
    Serves,       \* Serves[r]: the connectors whose `serves` covers r
    Nobody,       \* no connector, no request
    Tasks,        \* the tasks that share the session in this instance;
                  \* "refresh": the 30 s connector refresh comes due
    Presses,      \* the card buttons the user presses in this instance
    MaxTurns,     \* bound: sign-in presses, and polls that find progress
    MaxQueue      \* bound: deliveries the window has queued

ASSUME NobodyAssumption == Nobody \notin Connectors /\ Nobody \notin Requests
ASSUME ServesAssumption == Serves \in [Requests -> SUBSET Connectors]
ASSUME TasksAssumption == Tasks \subseteq
                            {"reader", "cards", "tick", "refresh", "rows", "end", "cli"}
ASSUME BoundsAssumption == MaxTurns \in Nat /\ MaxQueue \in Nat

VARIABLES
    asked,      \* ids the guest has sent
    pending,    \* keys of the session's `pending` map
    offer,      \* PendingEntry.offer
    expired,    \* ids whose PendingEntry.expired is set
    due,        \* ids whose PendingEntry.deadline has passed
    offers,     \* connectors the run has not decided, as the session holds them
    granted,    \* keys of the session's `granted` map
    published,  \* the grants the last policy frame carried
    answers,    \* decision frames put on the sink, per request
    rounds,     \* the open sign-in of each card
    settled,    \* count_settled, per request
    withdrawn,  \* withdraw_run has begun
    card,       \* the window's cards
    queue,      \* deliveries from the window to decision_delivery_loop
    decided,    \* the connector store's decision for this run
    live,       \* sign-in handles whose state the connect port still holds
    minted,     \* handles the connect port has opened
    turns,      \* sign-in presses and polls so far
    job         \* the locals of each task

vars == <<asked, pending, offer, expired, due, offers, granted, published,
          answers, rounds, settled, withdrawn, card, queue, decided, live,
          minted, turns, job>>

entryVars == <<pending, offer, expired, due>>
signVars == <<rounds, settled, live, minted>>
windowVars == <<card, queue, turns>>
offerVars == <<offers, granted, published, decided>>

-----------------------------------------------------------------------------
(* Data *)

Verdicts == {"allow", "deny"}
Decisions == Verdicts \cup {"granted", "timeout"}
Buttons == Verdicts \cup {"grant", "decline", "begin", "answer", "dismiss"}
Results == {"asks", "ended", "connected", "failed"}

\* OpenRound: the handle, the offer it was opened for, native OAuth or not.
Round == [handle : Nat \ {0}, conn : Connectors, native : BOOLEAN]
NoRound == [handle |-> 0, conn |-> Nobody, native |-> FALSE]

\* PendingPrompt as drawn, and OfferDraft.sent_at as `waiting`.
Card == [up : BOOLEAN, offer : Connectors \cup {Nobody}, ask : BOOLEAN,
         native : BOOLEAN, seq : Nat, waiting : BOOLEAN]
NoCard == [up |-> FALSE, offer |-> Nobody, ask |-> FALSE, native |-> FALSE,
           seq |-> 0, waiting |-> FALSE]

Labels == {"idle", "match", "attach", "first", "decide", "close", "closed",
           "abandon", "resolve", "grant", "decline", "holders", "unlist",
           "strip", "drop", "open", "lift", "release", "released", "kept",
           "begin", "reply", "settle", "hold", "draw", "show",
           "poll", "polled", "supply", "supplied", "listing", "listed",
           "sweep", "expire", "expiring", "timeout",
           "drain", "clear", "unround", "gone"}

\* The locals of a task: pc is the step it is at, the rest are its operation's.
Job == [pc : Labels, op : Buttons \cup {"none"}, req : Requests \cup {Nobody},
        cur : Requests \cup {Nobody}, conn : Connectors \cup {Nobody},
        late : BOOLEAN, signing : BOOLEAN, held : SUBSET Requests,
        drop : SUBSET Requests, todo : SUBSET Requests,
        polls : SUBSET (Requests \X Round), round : Round \cup {NoRound},
        result : Results,
        shot : Card, seen : SUBSET Connectors, changed : BOOLEAN]

IdleJob == [pc |-> "idle", op |-> "none", req |-> Nobody, cur |-> Nobody,
            conn |-> Nobody, late |-> FALSE, signing |-> FALSE, held |-> {},
            drop |-> {}, todo |-> {}, polls |-> {}, round |-> NoRound,
            result |-> "failed", shot |-> NoCard, seen |-> {},
            changed |-> FALSE]

\* The locals an operation starts with, on request r and connector c.
Started(label, button, r, c) ==
    [IdleJob EXCEPT !.pc = label, !.op = button, !.req = r, !.conn = c]

At(t, label) == t \in Tasks /\ job[t].pc = label

Go(t, label) == job' = [job EXCEPT ![t].pc = label]

\* What a finished operation returns to: the tick walks on, the rest wait.
After(t) == IF t = "tick"
              THEN [IdleJob EXCEPT !.pc = "poll", !.polls = job[t].polls]
              ELSE IdleJob

Return(t) == job' = [job EXCEPT ![t] = After(t)]

-----------------------------------------------------------------------------
(* Steps the operations share *)

\* pending.lock().remove(id), for every id of S.
RemovePending(S) ==
    /\ pending' = pending \ S
    /\ expired' = expired \ S
    /\ due' = due \ S
    /\ offer' = [r \in Requests |-> IF r \in S THEN Nobody ELSE offer[r]]

\* held_for: the requests whose card carries this connector's offer.
HeldFor(c) == {r \in pending : offer[r] = c}

\* offer_of / still_holding.
OfferOf(r) == IF r \in pending THEN offer[r] ELSE Nobody

\* prompt_of, read under the pending lock.
PromptOf(r) == [up |-> TRUE, offer |-> offer[r], ask |-> rounds[r].handle # 0,
                native |-> rounds[r].native, seq |-> settled[r],
                waiting |-> FALSE]

\* insert_pending: a card already up is redrawn in place, and its press stays
\* latched while the settle count it was sent at is the one drawn.
Drawn(old, new) ==
    [new EXCEPT !.waiting = old.up /\ old.waiting /\ old.seq = new.seq]

\* forget_round, then abandon_connect on what it held.
AbandonRound(r) ==
    /\ rounds' = [rounds EXCEPT ![r] = NoRound]
    /\ live' = live \ {rounds[r].handle}

\* send_decision_frame
Send(r, d) == answers' = [answers EXCEPT ![r] = Append(@, d)]

\* Mutant: an expired request is answered a second time.
AnswerEvenLate(r, d, late) == Send(r, d)

\* answer: a request that timed out is one the guest has forgotten.
Answer(r, d, late) == IF late THEN UNCHANGED answers ELSE Send(r, d)

\* send_policy_frame: the grants the frame carries (the rules it carries are
\* DecisionTables').
Publish(g) == published' = g

-----------------------------------------------------------------------------
(* The relay's reader: submit_pending.  The guest names each request once, *)
(* and may repeat one it still waits on.                                   *)

SubmitPending(r) ==
    /\ At("reader", "idle")
    /\ r \in asked => r \in pending
    /\ asked' = asked \cup {r}
    /\ IF r \in pending
         THEN UNCHANGED <<pending, job>>
         ELSE /\ pending' = pending \cup {r}
              /\ job' = [job EXCEPT !["reader"].pc = "match", !["reader"].req = r]
    /\ UNCHANGED <<offer, expired, due, offerVars, answers, signVars,
                   withdrawn, windowVars>>

\* offer_for: exactly one undecided connector serves the destination.
OfferFor ==
    /\ At("reader", "match")
    /\ LET serving == Serves[job["reader"].req] \cap offers
       IN  IF Cardinality(serving) = 1
             THEN \E c \in serving :
                    job' = [job EXCEPT !["reader"].pc = "attach",
                                       !["reader"].conn = c]
             ELSE Go("reader", "first")
    /\ UNCHANGED <<asked, entryVars, offerVars, answers, signVars,
                   withdrawn, windowVars>>

AttachOffer ==
    /\ At("reader", "attach")
    /\ LET j == job["reader"]
       IN  offer' = IF j.req \in pending
                      THEN [offer EXCEPT ![j.req] = j.conn] ELSE offer
    /\ Go("reader", "first")
    /\ UNCHANGED <<asked, pending, expired, due, offerVars, answers, signVars,
                   withdrawn, windowVars>>

PresentFirst ==
    /\ At("reader", "first")
    /\ LET j == job["reader"]
       IN  card' = [card EXCEPT ![j.req] = Drawn(@,
                      [up |-> TRUE, offer |-> j.conn, ask |-> FALSE,
                       native |-> FALSE, seq |-> settled[j.req],
                       waiting |-> FALSE])]
    /\ Return("reader")
    /\ UNCHANGED <<asked, entryVars, offerVars, answers, signVars,
                   withdrawn, queue, turns>>

-----------------------------------------------------------------------------
(* The window.  A press runs under the window's lock on the tray's thread. *)

Queue(b, r) ==
    /\ b \in Presses
    /\ Len(queue) < MaxQueue
    /\ queue' = Append(queue, [act |-> b, req |-> r])

\* deliver: the card leaves with the press.
Deliver(b, r) == Queue(b, r) /\ card' = [card EXCEPT ![r] = NoCard]

PressDecide(r) ==
    /\ card[r].up /\ card[r].offer = Nobody
    /\ \E d \in Verdicts : Deliver(d, r)
    /\ UNCHANGED turns

PressGrant(r) ==
    /\ card[r].up /\ card[r].offer # Nobody
    /\ ~card[r].ask /\ ~card[r].waiting
    /\ Deliver("grant", r)
    /\ UNCHANGED turns

\* `Never here` is drawn unless a native round is on screen.
PressDecline(r) ==
    /\ card[r].up /\ card[r].offer # Nobody
    /\ card[r].waiting \/ ~(card[r].ask /\ card[r].native)
    /\ Queue("decline", r)
    /\ card' = [card EXCEPT ![r].waiting = FALSE]
    /\ UNCHANGED turns

\* Begin and Answer latch the card to the settle count it shows.
PressRound(r) ==
    /\ card[r].up /\ card[r].offer # Nobody /\ ~card[r].waiting
    /\ turns < MaxTurns
    /\ turns' = turns + 1
    /\ Queue(IF card[r].ask THEN "answer" ELSE "begin", r)
    /\ card' = [card EXCEPT ![r].waiting = TRUE]

PressDismiss(r) ==
    /\ card[r].up
    /\ Deliver("dismiss", r)
    /\ UNCHANGED turns

Press(r) ==
    /\ \/ PressDecide(r) \/ PressGrant(r) \/ PressDecline(r)
       \/ PressRound(r) \/ PressDismiss(r)
    /\ UNCHANGED <<asked, entryVars, offerVars, answers, signVars,
                   withdrawn, job>>

-----------------------------------------------------------------------------
(* decision_delivery_loop: one delivery at a time *)

Take(b) ==
    /\ At("cards", "idle")
    /\ queue # <<>>
    /\ Head(queue).act \in b
    /\ queue' = Tail(queue)

Delivered == Head(queue).req

\* record_decision
RecordDecision ==
    /\ Take(Verdicts)
    /\ LET r == Delivered
       IN  IF r \in pending
             THEN /\ RemovePending({r})
                  /\ job' = [job EXCEPT !["cards"] =
                      [Started("decide", Head(queue).act, r, Nobody) EXCEPT
                         !.late = r \in expired]]
             ELSE UNCHANGED <<entryVars, job>>
    /\ UNCHANGED <<asked, offerVars, answers, signVars, withdrawn, card,
                   turns>>

\* notifier.dismiss, the rule's policy frame (DecisionTables), then answer.
RecordDecisionAnswer ==
    /\ At("cards", "decide")
    /\ LET j == job["cards"]
       IN  /\ card' = [card EXCEPT ![j.req] = NoCard]
           /\ Answer(j.req, j.op, j.late)
    /\ Return("cards")
    /\ UNCHANGED <<asked, entryVars, offerVars, signVars, withdrawn,
                   queue, turns>>

\* dismiss_request
DismissRequest ==
    /\ Take({"dismiss"})
    /\ LET r == Delivered
       IN  IF r \in pending
             THEN /\ RemovePending({r})
                  /\ job' = [job EXCEPT !["cards"] =
                      [Started("close", "dismiss", r, Nobody) EXCEPT
                         !.late = r \in expired]]
             ELSE UNCHANGED <<entryVars, job>>
    /\ UNCHANGED <<asked, offerVars, answers, signVars, withdrawn, card,
                   turns>>

DismissRequestRound ==
    /\ At("cards", "close")
    /\ AbandonRound(job["cards"].req)
    /\ Go("cards", "closed")
    /\ UNCHANGED <<asked, entryVars, offerVars, answers, settled, minted,
                   withdrawn, windowVars>>

DismissRequestAnswer ==
    /\ At("cards", "closed")
    /\ LET j == job["cards"]
       IN  /\ card' = [card EXCEPT ![j.req] = NoCard]
           /\ Answer(j.req, "timeout", j.late)
    /\ Return("cards")
    /\ UNCHANGED <<asked, entryVars, offerVars, signVars, withdrawn,
                   queue, turns>>

\* grant_offer, decline_offer and begin_connect read the card's offer first
\* and leave at once where there is none.
OnOffer ==
    /\ Take({"grant", "decline", "begin"})
    /\ LET c == OfferOf(Delivered)
       IN  job' = IF c = Nobody THEN job
                  ELSE [job EXCEPT !["cards"] =
                          Started("abandon", Head(queue).act, Delivered, c)]
    /\ UNCHANGED <<asked, entryVars, offerVars, answers, signVars,
                   withdrawn, card, turns>>

\* Each then abandons the round the card had open.
OnOfferAbandon ==
    /\ At("cards", "abandon")
    /\ AbandonRound(job["cards"].req)
    /\ Go("cards", CASE job["cards"].op = "grant" -> "resolve"
                     [] job["cards"].op = "decline" -> "decline"
                     [] OTHER -> "begin")
    /\ UNCHANGED <<asked, entryVars, offerVars, answers, settled, minted,
                   withdrawn, windowVars>>

-----------------------------------------------------------------------------
(* grant_the, on behalf of a card, of a sign-in that finished or of a row *)

\* A grant made by a sign-in goes on to the card it may have kept.
AfterGrant(t) == IF job[t].signing THEN Go(t, "kept") ELSE Return(t)

\* resolve_connection may fail where the card made a new connection; the
\* requests the grant will release are named before the store is asked.
GrantResolve(t) ==
    /\ At(t, "resolve")
    /\ \/ job' = [job EXCEPT ![t].pc = "grant",
                             ![t].held = HeldFor(job[t].conn)]
       \/ ~job[t].signing /\ Return(t)
    /\ UNCHANGED <<asked, entryVars, offerVars, answers, signVars,
                   withdrawn, windowVars>>

\* port.grant: recorded in the store, or refused.
GrantRecord(t) ==
    /\ At(t, "grant")
    /\ \/ /\ decided' = [decided EXCEPT ![job[t].conn] = "granted"]
          /\ Go(t, "unlist")
       \/ AfterGrant(t) /\ UNCHANGED decided
    /\ UNCHANGED <<asked, entryVars, offers, granted, published, answers,
                   signVars, withdrawn, windowVars>>

\* forget_offer: the list, then the entries, then each stripped card's round.
ForgetOffer(t) ==
    /\ At(t, "unlist")
    /\ offers' = offers \ {job[t].conn}
    /\ Go(t, "strip")
    /\ UNCHANGED <<asked, entryVars, granted, published, decided, answers,
                   signVars, withdrawn, windowVars>>

StripOffer(t) ==
    /\ At(t, "strip")
    /\ offer' = [r \in Requests |->
                   IF r \in HeldFor(job[t].conn) THEN Nobody ELSE offer[r]]
    /\ job' = [job EXCEPT ![t].pc = "drop", ![t].drop = HeldFor(job[t].conn)]
    /\ UNCHANGED <<asked, pending, expired, due, offerVars, answers, signVars,
                   withdrawn, windowVars>>

\* Mutant: the stripped cards' rounds stay open.
DropStrippedNothing(t) ==
    /\ At(t, "drop")
    /\ Go(t, IF job[t].op = "decline" THEN "lift" ELSE "open")
    /\ UNCHANGED <<asked, entryVars, offerVars, answers, signVars,
                   withdrawn, windowVars>>

DropStripped(t) ==
    /\ At(t, "drop")
    /\ \/ \E r \in job[t].drop :
            /\ AbandonRound(r)
            /\ job' = [job EXCEPT ![t].drop = @ \ {r}]
       \/ /\ job[t].drop = {}
          /\ Go(t, IF job[t].op = "decline" THEN "lift" ELSE "open")
          /\ UNCHANGED <<rounds, live>>
    /\ UNCHANGED <<asked, entryVars, offerVars, answers, settled, minted,
                   withdrawn, windowVars>>

\* apply_granted_egress: the grant layer, then the policy frame.
ApplyGrantedEgress(t) ==
    /\ At(t, "open")
    /\ granted' = granted \cup {job[t].conn}
    /\ Publish(granted')
    /\ Go(t, "release")
    /\ UNCHANGED <<asked, entryVars, offers, decided, answers, signVars,
                   withdrawn, windowVars>>

\* Mutant: the released request's card stays on screen.
ReleaseCardKeepsCard(t) ==
    /\ At(t, "release")
    /\ \/ \E r \in job[t].held :
            job' = [job EXCEPT ![t].pc = "released", ![t].cur = r]
       \/ job[t].held = {} /\ AfterGrant(t)
    /\ UNCHANGED <<asked, entryVars, offerVars, answers, signVars,
                   withdrawn, windowVars>>

\* release: the card goes, then the request is answered if it still waits.
ReleaseCard(t) ==
    /\ At(t, "release")
    /\ \/ \E r \in job[t].held :
            /\ card' = [card EXCEPT ![r] = NoCard]
            /\ job' = [job EXCEPT ![t].pc = "released", ![t].cur = r]
       \/ /\ job[t].held = {}
          /\ AfterGrant(t)
          /\ UNCHANGED card
    /\ UNCHANGED <<asked, entryVars, offerVars, answers, signVars,
                   withdrawn, queue, turns>>

ReleaseRequest(t) ==
    /\ At(t, "released")
    /\ LET r == job[t].cur
       IN  IF r \in pending
             THEN RemovePending({r}) /\ Answer(r, "granted", r \in expired)
             ELSE UNCHANGED <<entryVars, answers>>
    /\ job' = [job EXCEPT ![t].pc = "release", ![t].cur = Nobody,
                          ![t].held = @ \ {job[t].cur}]
    /\ UNCHANGED <<asked, offerVars, signVars, withdrawn, windowVars>>

\* A store's refusal keeps the offer, and the card is drawn again.
GrantKept(t) ==
    /\ At(t, "kept")
    /\ IF OfferOf(job[t].req) # Nobody
         THEN job' = [job EXCEPT ![t].pc = "draw", ![t].held = {job[t].req}]
         ELSE Return(t)
    /\ UNCHANGED <<asked, entryVars, offerVars, answers, signVars,
                   withdrawn, windowVars>>

-----------------------------------------------------------------------------
(* decline_offer, after the round is gone *)

\* port.decline: recorded, or refused and the card left as it is.
DeclineRecord(t) ==
    /\ At(t, "decline")
    /\ \/ /\ decided' = [decided EXCEPT ![job[t].conn] = "declined"]
          /\ Go(t, "holders")
       \/ Return(t) /\ UNCHANGED decided
    /\ UNCHANGED <<asked, entryVars, offers, granted, published, answers,
                   signVars, withdrawn, windowVars>>

DeclineHolders(t) ==
    /\ At(t, "holders")
    /\ job' = [job EXCEPT ![t].pc = "unlist",
                          ![t].held = HeldFor(job[t].conn)]
    /\ UNCHANGED <<asked, entryVars, offerVars, answers, signVars,
                   withdrawn, windowVars>>

\* The frame that lifts the hold; then every holder's card is drawn again.
DeclinePublish(t) ==
    /\ At(t, "lift")
    /\ Publish(granted)
    /\ Go(t, "draw")
    /\ UNCHANGED <<asked, entryVars, offers, granted, decided, answers,
                   signVars, withdrawn, windowVars>>

\* represent: the prompt is read under the pending lock and shown after it.
RepresentRead(t) ==
    /\ At(t, "draw")
    /\ \/ \E r \in job[t].held :
            job' = IF r \in pending
                     THEN [job EXCEPT ![t].pc = "show", ![t].cur = r,
                                      ![t].shot = PromptOf(r)]
                     ELSE [job EXCEPT ![t].held = @ \ {r}]
       \/ job[t].held = {} /\ Return(t)
    /\ UNCHANGED <<asked, entryVars, offerVars, answers, signVars,
                   withdrawn, windowVars>>

RepresentShow(t) ==
    /\ At(t, "show")
    /\ LET j == job[t]
       IN  /\ card' = [card EXCEPT ![j.cur] = Drawn(@, j.shot)]
           /\ job' = [job EXCEPT ![t].pc = "draw", ![t].cur = Nobody,
                                 ![t].shot = NoCard, ![t].held = @ \ {j.cur}]
    /\ UNCHANGED <<asked, entryVars, offerVars, answers, signVars,
                   withdrawn, queue, turns>>

-----------------------------------------------------------------------------
(* Sign-in rounds *)

\* One turn of the connect port: it asks under a fresh handle, finishes or
\* fails.  What it asks is its own decision (external).
PortTurn(t, native) ==
    \/ /\ minted' = minted + 1
       /\ live' = live \cup {minted'}
       /\ job' = [job EXCEPT ![t].pc = "settle", ![t].result = "asks",
                    ![t].round = [handle |-> minted', conn |-> job[t].conn,
                                  native |-> native]]
    \/ /\ \E res \in {"connected", "failed"} :
            job' = [job EXCEPT ![t].pc = "settle", ![t].result = res,
                               ![t].round = NoRound]
       /\ UNCHANGED <<live, minted>>

\* begin_connect
BeginConnect(t) ==
    /\ At(t, "begin")
    /\ \E native \in BOOLEAN : PortTurn(t, native)
    /\ UNCHANGED <<asked, entryVars, offerVars, answers, rounds, settled,
                   withdrawn, windowVars>>

\* answer_connect takes the round.  Where it went while the card stayed, the
\* card is drawn again.
AnswerConnect ==
    /\ Take({"answer"})
    /\ LET r == Delivered
       IN  IF rounds[r].handle # 0
             THEN /\ job' = [job EXCEPT !["cards"] =
                      [Started("reply", "answer", r, rounds[r].conn) EXCEPT
                         !.round = rounds[r]]]
                  /\ rounds' = [rounds EXCEPT ![r] = NoRound]
                  /\ UNCHANGED settled
             ELSE /\ IF r \in pending
                       THEN /\ settled' = [settled EXCEPT ![r] = @ + 1]
                            /\ job' = [job EXCEPT !["cards"] = [IdleJob EXCEPT
                                         !.pc = "draw", !.held = {r}]]
                       ELSE UNCHANGED <<settled, job>>
                  /\ UNCHANGED rounds
    /\ UNCHANGED <<asked, entryVars, offerVars, answers, live, minted,
                   withdrawn, card, turns>>

\* port.answer_connect consumes the handle's session; a native one asks on
\* under the same handle; a handle the port refuses is abandoned.
AnswerConnectTurn(t) ==
    /\ At(t, "reply")
    /\ LET j == job[t]
       IN  IF j.round.native
             THEN \/ /\ j.round.handle \in live
                     /\ job' = [job EXCEPT ![t].pc = "settle",
                                           ![t].result = "asks"]
                     /\ UNCHANGED <<live, minted>>
                  \/ /\ live' = live \ {j.round.handle}
                     /\ job' = [job EXCEPT ![t].pc = "settle",
                                           ![t].result = "failed"]
                     /\ UNCHANGED minted
             ELSE \/ /\ minted' = minted + 1
                     /\ live' = (live \ {j.round.handle}) \cup {minted'}
                     /\ job' = [job EXCEPT ![t].pc = "settle",
                                  ![t].result = "asks",
                                  ![t].round = [j.round EXCEPT
                                                  !.handle = minted']]
                  \/ /\ live' = live \ {j.round.handle}
                     /\ \E res \in {"connected", "failed"} :
                          job' = [job EXCEPT ![t].pc = "settle",
                                             ![t].result = res]
                     /\ UNCHANGED minted
    /\ UNCHANGED <<asked, entryVars, offerVars, answers, rounds, settled,
                   withdrawn, windowVars>>

\* Mutant: a round that failed is not counted.
SettleRoundUncounted(t) ==
    /\ At(t, "settle")
    /\ LET j == job[t]
           holding == OfferOf(j.req) = j.conn
       IN  /\ settled' = IF j.result = "failed" THEN settled
                         ELSE [settled EXCEPT ![j.req] = @ + 1]
           /\ live' = IF j.result = "ended" \/ (j.result = "asks" /\ ~holding)
                        THEN live \ {j.round.handle} ELSE live
           /\ CASE j.result = "asks" /\ holding -> Go(t, "hold")
                [] j.result = "connected" /\ holding ->
                     job' = [job EXCEPT ![t].pc = "resolve",
                                        ![t].signing = TRUE]
                [] j.result = "failed" \/ (j.result = "ended" /\ holding) ->
                     job' = [job EXCEPT ![t].pc = "draw", ![t].held = {j.req}]
                [] OTHER -> Return(t)
    /\ UNCHANGED <<asked, entryVars, offerVars, answers, rounds, minted,
                   withdrawn, windowVars>>

\* settle_round up to still_holding.
SettleRound(t) ==
    /\ At(t, "settle")
    /\ LET j == job[t]
           holding == OfferOf(j.req) = j.conn
       IN  /\ settled' = [settled EXCEPT ![j.req] = @ + 1]
           /\ live' = IF j.result = "ended" \/ (j.result = "asks" /\ ~holding)
                        THEN live \ {j.round.handle} ELSE live
           /\ CASE j.result = "asks" /\ holding -> Go(t, "hold")
                [] j.result = "connected" /\ holding ->
                     job' = [job EXCEPT ![t].pc = "resolve",
                                        ![t].signing = TRUE]
                [] j.result = "failed" \/ (j.result = "ended" /\ holding) ->
                     job' = [job EXCEPT ![t].pc = "draw", ![t].held = {j.req}]
                [] OTHER -> Return(t)
    /\ UNCHANGED <<asked, entryVars, offerVars, answers, rounds, minted,
                   withdrawn, windowVars>>

\* hold_round, whatever the card has become since still_holding.
HoldRound(t) ==
    /\ At(t, "hold")
    /\ rounds' = [rounds EXCEPT ![job[t].req] = job[t].round]
    /\ job' = [job EXCEPT ![t].pc = "draw", ![t].held = {job[t].req}]
    /\ UNCHANGED <<asked, entryVars, offerVars, answers, settled, live,
                   minted, withdrawn, windowVars>>

-----------------------------------------------------------------------------
(* The tick: poll_native_rounds, refresh_connector_supply, the deadlines *)

TickStart ==
    /\ At("tick", "idle")
    /\ job' = [job EXCEPT !["tick"].pc = "poll",
                 !["tick"].polls = {<<r, rounds[r]>> :
                                      r \in {q \in Requests : rounds[q].native}}]
    /\ UNCHANGED <<asked, entryVars, offerVars, answers, signVars,
                   withdrawn, windowVars>>

\* poll_connect: unchanged, moved on, finished, failed, or ended by the user
\* or its expiry; a handle no longer open is an error.
PollConnect ==
    /\ At("tick", "poll")
    /\ \/ /\ job["tick"].polls = {}
          /\ Go("tick", IF "refresh" \in Tasks THEN "supply" ELSE "sweep")
          /\ UNCHANGED <<live, turns>>
       \/ \E p \in job["tick"].polls :
            \/ /\ p[2].handle \in live
               /\ job' = [job EXCEPT !["tick"].polls = @ \ {p}]
               /\ UNCHANGED <<live, turns>>
            \/ /\ p[2].handle \in live => turns < MaxTurns
               /\ turns' = IF p[2].handle \in live THEN turns + 1 ELSE turns
               /\ \E res \in IF p[2].handle \in live THEN Results
                             ELSE {"failed"} :
                    /\ job' = [job EXCEPT !["tick"] =
                         [Started("polled", "none", p[1], p[2].conn) EXCEPT
                            !.round = p[2], !.result = res,
                            !.polls = job["tick"].polls \ {p}]]
                    /\ live' = IF res \in {"connected", "failed"}
                                 THEN live \ {p[2].handle} ELSE live
    /\ UNCHANGED <<asked, entryVars, offerVars, answers, rounds, settled,
                   minted, withdrawn, card, queue>>

\* Only the round that was polled is taken.
PollTake ==
    /\ At("tick", "polled")
    /\ LET j == job["tick"]
       IN  IF rounds[j.req].handle = j.round.handle
             THEN /\ rounds' = [rounds EXCEPT ![j.req] = NoRound]
                  /\ Go("tick", "settle")
             ELSE Return("tick") /\ UNCHANGED rounds
    /\ UNCHANGED <<asked, entryVars, offerVars, answers, settled, live,
                   minted, withdrawn, windowVars>>

\* refresh_connector_supply: the store's grants are read, then replace the
\* session's; then its offers; a change of either is published.
ReadSupply ==
    /\ At("tick", "supply")
    /\ job' = [job EXCEPT !["tick"].pc = "supplied",
                 !["tick"].seen = {c \in Connectors : decided[c] = "granted"}]
    /\ UNCHANGED <<asked, entryVars, offerVars, answers, signVars,
                   withdrawn, windowVars>>

\* Mutant: grants the store gained are taken over without a frame.
ReplaceSupplySilently ==
    /\ At("tick", "supplied")
    /\ granted' = job["tick"].seen
    /\ Go("tick", "listing")
    /\ UNCHANGED <<asked, entryVars, offers, published, decided, answers,
                   signVars, withdrawn, windowVars>>

ReplaceSupply ==
    /\ At("tick", "supplied")
    /\ granted' = job["tick"].seen
    /\ job' = [job EXCEPT !["tick"].pc = "listing",
                          !["tick"].changed = granted' # granted]
    /\ UNCHANGED <<asked, entryVars, offers, published, decided, answers,
                   signVars, withdrawn, windowVars>>

ReadOffers ==
    /\ At("tick", "listing")
    /\ job' = [job EXCEPT !["tick"].pc = "listed",
                 !["tick"].seen = {c \in Connectors : decided[c] = "open"}]
    /\ UNCHANGED <<asked, entryVars, offerVars, answers, signVars,
                   withdrawn, windowVars>>

ReplaceOffers ==
    /\ At("tick", "listed")
    /\ offers' = job["tick"].seen
    /\ job' = [job EXCEPT !["tick"] = [IdleJob EXCEPT !.pc = "sweep",
                 !.changed = job["tick"].changed \/ offers' # offers]]
    /\ UNCHANGED <<asked, entryVars, granted, published, decided, answers,
                   signVars, withdrawn, windowVars>>

\* Mutant: a card with an offer never times out.
TickSweepUnoffered ==
    /\ At("tick", "sweep")
    /\ Publish(IF job["tick"].changed THEN granted ELSE published)
    /\ job' = [job EXCEPT !["tick"] = [IdleJob EXCEPT !.pc = "expire",
                 !.todo = {r \in (pending \ expired) \cap due :
                             offer[r] = Nobody}]]
    /\ UNCHANGED <<asked, entryVars, offers, granted, decided, answers,
                   signVars, withdrawn, windowVars>>

\* The frame, where something changed; then the entries past their deadline.
TickSweep ==
    /\ At("tick", "sweep")
    /\ Publish(IF job["tick"].changed THEN granted ELSE published)
    /\ job' = [job EXCEPT !["tick"] = [IdleJob EXCEPT !.pc = "expire",
                 !.todo = {r \in pending \ expired : r \in due}]]
    /\ UNCHANGED <<asked, entryVars, offers, granted, decided, answers,
                   signVars, withdrawn, windowVars>>

\* timeout_one
TimeoutOne ==
    /\ At("tick", "expire")
    /\ \/ \E r \in job["tick"].todo :
            IF r \in pending
              THEN /\ RemovePending({r})
                   /\ job' = [job EXCEPT !["tick"] = [IdleJob EXCEPT
                                !.pc = "expiring", !.cur = r,
                                !.conn = offer[r],
                                !.todo = job["tick"].todo \ {r}]]
              ELSE /\ job' = [job EXCEPT !["tick"].todo = @ \ {r}]
                   /\ UNCHANGED entryVars
       \/ /\ job["tick"].todo = {}
          /\ job' = [job EXCEPT !["tick"] = IdleJob]
          /\ UNCHANGED entryVars
    /\ UNCHANGED <<asked, offerVars, answers, signVars, withdrawn,
                   windowVars>>

\* keep_offer puts an offered entry back, expired; any other card goes.
TimeoutKeep ==
    /\ At("tick", "expiring")
    /\ LET j == job["tick"]
       IN  IF j.conn # Nobody
             THEN /\ pending' = pending \cup {j.cur}
                  /\ expired' = expired \cup {j.cur}
                  /\ offer' = [offer EXCEPT ![j.cur] = j.conn]
                  /\ UNCHANGED <<due, card>>
             ELSE /\ card' = [card EXCEPT ![j.cur] = NoCard]
                  /\ UNCHANGED entryVars
    /\ Go("tick", "timeout")
    /\ UNCHANGED <<asked, offerVars, answers, signVars, withdrawn, queue,
                   turns>>

TimeoutSend ==
    /\ At("tick", "timeout")
    /\ Send(job["tick"].cur, "timeout")
    /\ job' = [job EXCEPT !["tick"] = [IdleJob EXCEPT !.pc = "expire",
                 !.todo = job["tick"].todo]]
    /\ UNCHANGED <<asked, entryVars, offerVars, signVars, withdrawn,
                   windowVars>>

-----------------------------------------------------------------------------
(* The other surfaces *)

\* grant_offered, from the Approvals view.
GrantOffered(c) ==
    /\ At("rows", "idle")
    /\ c \in offers
    /\ job' = [job EXCEPT !["rows"] = Started("resolve", "grant", Nobody, c)]
    /\ UNCHANGED <<asked, entryVars, offerVars, answers, signVars,
                   withdrawn, windowVars>>

\* `lns connector grant` and its like decide in the store alone (external).
StoreDecides(c) ==
    /\ "cli" \in Tasks
    /\ decided[c] = "open"
    /\ \E d \in {"granted", "declined"} : decided' = [decided EXCEPT ![c] = d]
    /\ UNCHANGED <<asked, entryVars, offers, granted, published, answers,
                   signVars, withdrawn, windowVars, job>>

\* withdraw_run, when the relay's accept loop ends.
WithdrawRun ==
    /\ At("end", "idle")
    /\ withdrawn' = TRUE
    /\ Go("end", "drain")
    /\ UNCHANGED <<asked, entryVars, offerVars, answers, signVars,
                   windowVars>>

WithdrawDrain ==
    /\ At("end", "drain")
    /\ RemovePending(pending)
    /\ job' = [job EXCEPT !["end"].pc = "clear", !["end"].held = pending]
    /\ UNCHANGED <<asked, offerVars, answers, signVars, withdrawn,
                   windowVars>>

WithdrawCards ==
    /\ At("end", "clear")
    /\ \/ \E r \in job["end"].held :
            /\ card' = [card EXCEPT ![r] = NoCard]
            /\ job' = [job EXCEPT !["end"].held = @ \ {r}]
       \/ /\ job["end"].held = {}
          /\ Go("end", "unround")
          /\ UNCHANGED card
    /\ UNCHANGED <<asked, entryVars, offerVars, answers, signVars,
                   withdrawn, queue, turns>>

\* abandon_every_round
WithdrawRounds ==
    /\ At("end", "unround")
    /\ rounds' = [r \in Requests |-> NoRound]
    /\ live' = live \ {rounds[r].handle : r \in Requests}
    /\ Go("end", "gone")
    /\ UNCHANGED <<asked, entryVars, offerVars, answers, settled, minted,
                   withdrawn, windowVars>>

\* Time: APPROVAL_TIMEOUT passes for a request.
DeadlinePasses(r) ==
    /\ r \in pending \ due
    /\ due' = due \cup {r}
    /\ UNCHANGED <<asked, pending, offer, expired, offerVars, answers, signVars, withdrawn,
                   windowVars, job>>

-----------------------------------------------------------------------------
(* The specification *)

Init ==
    /\ asked = {} /\ pending = {} /\ expired = {} /\ due = {}
    /\ offer = [r \in Requests |-> Nobody]
    /\ offers = Connectors /\ granted = {} /\ published = {}
    /\ answers = [r \in Requests |-> <<>>]
    /\ rounds = [r \in Requests |-> NoRound]
    /\ settled = [r \in Requests |-> 0]
    /\ withdrawn = FALSE
    /\ card = [r \in Requests |-> NoCard]
    /\ queue = <<>>
    /\ decided = [c \in Connectors |-> "open"]
    /\ live = {} /\ minted = 0 /\ turns = 0
    /\ job = [t \in Tasks |-> IdleJob]

ReaderStep == OfferFor \/ AttachOffer \/ PresentFirst

\* Steps any task that grants, declines, redraws or drives a round may take.
SharedStep(t) ==
    \/ GrantResolve(t) \/ GrantRecord(t) \/ ForgetOffer(t) \/ StripOffer(t)
    \/ DropStripped(t) \/ ApplyGrantedEgress(t) \/ ReleaseCard(t)
    \/ ReleaseRequest(t) \/ GrantKept(t) \/ DeclineRecord(t)
    \/ DeclineHolders(t) \/ DeclinePublish(t) \/ RepresentRead(t)
    \/ RepresentShow(t) \/ BeginConnect(t) \/ AnswerConnectTurn(t)
    \/ SettleRound(t) \/ HoldRound(t)

CardsStep ==
    \/ RecordDecision \/ RecordDecisionAnswer \/ DismissRequest
    \/ DismissRequestRound \/ DismissRequestAnswer \/ OnOffer
    \/ OnOfferAbandon \/ AnswerConnect \/ SharedStep("cards")

TickStep ==
    \/ TickStart \/ PollConnect \/ PollTake \/ ReadSupply \/ ReplaceSupply
    \/ ReadOffers \/ ReplaceOffers \/ TickSweep \/ TimeoutOne \/ TimeoutKeep
    \/ TimeoutSend \/ SharedStep("tick")

EndStep == WithdrawDrain \/ WithdrawCards \/ WithdrawRounds

Next ==
    \/ \E r \in Requests : SubmitPending(r) \/ Press(r) \/ DeadlinePasses(r)
    \/ \E c \in Connectors : GrantOffered(c) \/ StoreDecides(c)
    \/ ReaderStep \/ CardsStep \/ TickStep \/ SharedStep("rows")
    \/ WithdrawRun \/ EndStep

Safety == Init /\ [][Next]_vars

\* Each task is scheduled by the runtime and time passes; the guest and the
\* user owe nothing.
Fairness ==
    /\ WF_vars(ReaderStep)
    /\ WF_vars(CardsStep)
    /\ WF_vars(TickStep)
    /\ WF_vars(SharedStep("rows"))
    /\ WF_vars(EndStep)
    /\ \A r \in Requests : WF_vars(DeadlinePasses(r))

Spec == Safety /\ Fairness

-----------------------------------------------------------------------------
(* Properties *)

\* The locals a task is about to use are set.
Local(j) ==
    /\ j.pc \in {"match", "attach", "first", "decide", "close", "closed",
                 "abandon", "begin", "reply", "polled", "settle", "hold"}
         => j.req \in Requests
    /\ j.pc \in {"abandon", "begin", "reply", "polled", "settle", "hold",
                 "resolve", "grant", "decline", "holders", "unlist", "strip",
                 "drop", "open"}
         => j.conn \in Connectors
    /\ j.pc \in {"reply", "polled", "hold"} => j.round \in Round
    /\ j.pc = "settle" /\ j.result = "asks" => j.round \in Round
    /\ j.pc = "decide" => j.op \in Verdicts
    /\ j.pc \in {"expiring", "timeout"} => j.cur \in asked

JobsOK == job \in [Tasks -> Job] /\ \A t \in Tasks : Local(job[t])

StateOK ==
    /\ asked \subseteq Requests /\ pending \subseteq asked
    /\ expired \subseteq pending /\ due \subseteq pending
    /\ offer \in [Requests -> Connectors \cup {Nobody}]
    /\ \A r \in Requests \ pending : offer[r] = Nobody
    /\ offers \subseteq Connectors /\ granted \subseteq Connectors
    /\ published \subseteq Connectors
    /\ answers \in [Requests -> Seq(Decisions)]
    /\ rounds \in [Requests -> Round \cup {NoRound}] /\ settled \in [Requests -> Nat]
    /\ withdrawn \in BOOLEAN /\ card \in [Requests -> Card]
    /\ queue \in Seq([act : Buttons, req : Requests])
    /\ decided \in [Connectors -> {"open", "granted", "declined"}]
    /\ live \subseteq Nat /\ minted \in Nat /\ turns \in Nat

\* The type of the state; the fields of an entry exist only while the entry
\* is in `pending` (PendingEntry is one value of the map), and a task's locals
\* are set when it uses them.
TypeOK == StateOK /\ JobsOK

\* Every task is between operations and no press is queued.
Quiet ==
    /\ queue = <<>>
    /\ \A t \in Tasks : job[t].pc \in {"idle", "gone"}

\* A request is answered on the wire at most once, whichever of the card, the
\* tick, a grant and a dismissal race for it: each takes the entry out of
\* `pending` before it answers, and an entry put back expired is never
\* answered again (remove_pending, answer, keep_offer).
AnsweredOnce == \A r \in Requests : Len(answers[r]) <= 1

\* Task t has taken r's waiting entry out of `pending` and owes its answer.
Owes(t, r) ==
    \/ /\ t = "cards" /\ job[t].pc \in {"decide", "close", "closed"}
       /\ job[t].req = r /\ ~job[t].late
    \/ /\ t = "tick" /\ job[t].pc \in {"expiring", "timeout"}
       /\ job[t].cur = r

\* The right to answer r is in one place: with the entry while it waits, with
\* the one task that took it, or spent (remove_pending hands out each entry
\* once, and keep_offer puts it back only as expired).
AnswerRight ==
    \A r \in Requests :
        /\ r \in pending \ expired =>
             answers[r] = <<>> /\ \A t \in Tasks : ~Owes(t, r)
        /\ \A t \in Tasks : Owes(t, r) =>
             /\ r \in asked /\ answers[r] = <<>>
             /\ \A u \in Tasks \ {t} : ~Owes(u, r)
        /\ r \notin asked => answers[r] = <<>>
        /\ Len(answers[r]) <= 1

\* The tick walks entries that have not expired (tick_timeouts' filter).
SweepsUnexpired ==
    \A t \in Tasks :
        (t = "tick" /\ job[t].pc \in {"expire", "expiring", "timeout"}) =>
            /\ job[t].todo \cap expired = {}
            /\ job[t].pc # "expire" => job[t].cur \notin job[t].todo

\* One request at most has reached the session: no second card shares an offer.
Alone == \A r, s \in asked : r = s

\* Between operations, a lone card on screen belongs to a request the session
\* holds, shows the offer that request still carries, and neither waits under a
\* connector that has been granted: release, record_decision and dismiss_request
\* take the card with the request, forget_offer strips the offer and represent or
\* release follows, and the grant "releases every request the offer was holding"
\* (grant_the, answering.rs).
LoneCardIsTrue ==
    Quiet /\ Alone => \A r \in Requests :
        /\ card[r].up => r \in pending /\ card[r].offer = offer[r]
        /\ r \in pending =>
             \A c \in {offer[r], card[r].offer} \ {Nobody} : decided[c] # "granted"

\* Between operations, sign-in state the connect port holds belongs to a card
\* that can still answer it: "a card that goes must take its round with it"
\* (hold_round, abandon_round, forget_offer, dismiss_request).
RoundsReachable == Quiet => live \subseteq {rounds[r].handle : r \in pending}

\* Every request the guest holds is eventually answered, unless the run ends:
\* the tick's deadline reaches what the user leaves alone (tick_timeouts).
EveryRequestAnswered ==
    \A r \in Requests :
        r \in asked ~> (answers[r] # <<>> \/ withdrawn)

\* A lone card latched on a sign-in round stops waiting: the round comes back, the
\* card is drawn again at a new count, or it goes (count_settled, represent).
LatchedCardMoves ==
    \A r \in Requests :
        (card[r].waiting /\ card[r].offer # Nobody)
            ~> ~(card[r].waiting /\ card[r].offer # Nobody /\ Alone)

\* However grants made on cards, on rows and by the command line interleave
\* with the periodic refresh, the session's grants and offers end up the
\* store's, and the guest's policy carries those grants
\* (refresh_connector_supply, apply_granted_egress).
SessionConverges ==
    <>[](/\ granted = {c \in Connectors : decided[c] = "granted"}
         /\ offers = {c \in Connectors : decided[c] = "open"}
         /\ published = granted)

=============================================================================
