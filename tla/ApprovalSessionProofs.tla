----------------------- MODULE ApprovalSessionProofs -----------------------
(***************************************************************************)
(* The approval session answers each request at most once, for every set   *)
(* of requests and connectors, every subset of the tasks and every bound.  *)
(* The right to answer a request is in one place (AnswerRight), and each   *)
(* action moves it or leaves it alone.                                     *)
(***************************************************************************)
EXTENDS ApprovalSessionSteps

\* The inductive invariant.
Inv == TypeOK /\ AnswerRight /\ SweepsUnexpired

-----------------------------------------------------------------------------
(* The right to answer *)

\* A step of task t leaves what every other task owes as it is.
LEMMA OwesOthers ==
  ASSUME JobsOK, NEW t, NEW j, Moves(t, j), NEW u \in Tasks, u # t, NEW r
  PROVE  Owes(u, r)' <=> Owes(u, r)
<1>1. job'[u] = job[u]
  BY DEF Moves, JobsOK
<1> QED
  BY <1>1 DEF Owes

\* A task between operations that owe nothing owes nothing.
LEMMA OwesNothing ==
  ASSUME JobsOK, NEW t, Stays(t), NEW r
  PROVE  ~Owes(t, r) /\ ~Owes(t, r)'
<1> PICK j \in Job : Moves(t, j) /\ j.pc \notin Owning
  BY DEF Stays
<1>1. job'[t] = j
  BY DEF Moves, JobsOK
<1>2. job[t].pc \notin Owning
  BY DEF Stays
<1> QED
  BY <1>1, <1>2 DEF Owes, Owning

\* A step of task t keeps the right to answer in one place if it answers only
\* what it owes or takes, and comes to owe only what it owed or takes.
LEMMA RightMoves ==
  ASSUME TypeOK, AnswerRight, asked' = asked,
         NEW t, NEW j, Moves(t, j),
         \A q \in pending' \ expired' :
            q \in pending \ expired /\ answers'[q] = answers[q] /\ ~Owes(t, q)',
         \A q \in Requests : Owes(t, q)' =>
            answers'[q] = answers[q] /\ (Owes(t, q) \/ q \in pending \ expired),
         \A q \in Requests : answers'[q] # answers[q] =>
            /\ Owes(t, q) \/ q \in pending \ expired
            /\ Len(answers'[q]) <= 1
  PROVE  AnswerRight'
<1> SUFFICES ASSUME NEW q \in Requests
             PROVE  /\ q \in pending' \ expired' =>
                         answers'[q] = <<>> /\ \A u \in Tasks : ~Owes(u, q)'
                    /\ \A u \in Tasks : Owes(u, q)' =>
                         /\ q \in asked' /\ answers'[q] = <<>>
                         /\ \A v \in Tasks \ {u} : ~Owes(v, q)'
                    /\ q \notin asked' => answers'[q] = <<>>
                    /\ Len(answers'[q]) <= 1
  BY DEF AnswerRight
<1> DEFINE A(u) == Owes(u, q)
           B(u) == Owes(u, q)'
<1>1. \A u \in Tasks \ {t} : B(u) <=> A(u)
  BY OwesOthers DEF TypeOK
<1>2. /\ t \in Tasks /\ pending \subseteq asked
  BY DEF Moves, TypeOK, StateOK
<1>3. /\ q \in pending \ expired => answers[q] = <<>> /\ \A u \in Tasks : ~A(u)
      /\ \A u \in Tasks : A(u) => /\ q \in asked /\ answers[q] = <<>>
                                  /\ \A v \in Tasks \ {u} : ~A(v)
      /\ q \notin asked => answers[q] = <<>>
      /\ Len(answers[q]) <= 1
  BY DEF AnswerRight
<1>4. /\ q \in pending' \ expired' =>
           q \in pending \ expired /\ answers'[q] = answers[q] /\ ~B(t)
      /\ B(t) => answers'[q] = answers[q] /\ (A(t) \/ q \in pending \ expired)
      /\ answers'[q] # answers[q] =>
           (A(t) \/ q \in pending \ expired) /\ Len(answers'[q]) <= 1
  OBVIOUS
<1> HIDE DEF A, B
<1>5. q \in pending' \ expired' => answers'[q] = <<>> /\ \A u \in Tasks : ~B(u)
  BY <1>1, <1>3, <1>4
<1>6. ASSUME NEW u \in Tasks, B(u)
      PROVE  /\ q \in asked' /\ answers'[q] = <<>>
             /\ \A v \in Tasks \ {u} : ~B(v)
  BY <1>1, <1>2, <1>3, <1>4, <1>6
<1>7. /\ q \notin asked' => answers'[q] = <<>>
      /\ Len(answers'[q]) <= 1
  BY <1>2, <1>3, <1>4
<1> QED
  BY <1>5, <1>6, <1>7 DEF B

\* A step of a task other than the tick, and one of the tick between labels
\* that owe nothing, leaves the walk over the expired entries alone.
LEMMA SweepFrame ==
  ASSUME JobsOK, SweepsUnexpired, expired' \subseteq expired,
         NEW t, NEW j, Moves(t, j), t # "tick" \/ j.pc \notin Owning
  PROVE  SweepsUnexpired'
<1>1. ASSUME NEW u \in Tasks, u # t PROVE job'[u] = job[u]
  BY <1>1 DEF Moves, JobsOK
<1>2. job'[t] = j
  BY DEF Moves, JobsOK
<1> QED
  BY <1>1, <1>2 DEF SweepsUnexpired, Owning

\* A step of a task that owes nothing before or after, and that answers
\* nothing, keeps the invariant if no entry comes to wait or to expire by it.
LEMMA QuietStep ==
  ASSUME Inv, StateOK', asked' = asked, answers' = answers,
         pending' \ expired' \subseteq pending \ expired, expired' \subseteq expired,
         NEW t, Stays(t)
  PROVE  Inv'
<1>1. JobsOK /\ AnswerRight /\ SweepsUnexpired /\ TypeOK
  BY DEF Inv, TypeOK
<1>2. TypeOK'
  BY <1>1, StaysType DEF TypeOK
<1>3. \A q : ~Owes(t, q) /\ ~Owes(t, q)'
  BY <1>1, OwesNothing
<1> PICK j \in Job : Moves(t, j) /\ j.pc \notin Owning
  BY DEF Stays
<1>4. AnswerRight'
  BY <1>1, <1>3, RightMoves
<1>5. SweepsUnexpired'
  BY <1>1, SweepFrame
<1> QED
  BY <1>2, <1>4, <1>5 DEF Inv

\* So does a step that moves no task.
LEMMA IdleStep ==
  ASSUME Inv, StateOK', UNCHANGED <<asked, answers, job>>,
         pending' \ expired' \subseteq pending \ expired, expired' \subseteq expired
  PROVE  Inv'
<1>1. JobsOK'
  BY DEF Inv, TypeOK, JobsOK, Local
<1>2. \A t, q : Owes(t, q)' <=> Owes(t, q)
  BY DEF Owes
<1>3. AnswerRight'
  BY <1>2 DEF Inv, AnswerRight
<1>4. SweepsUnexpired'
  BY DEF Inv, SweepsUnexpired
<1> QED
  BY <1>1, <1>3, <1>4 DEF Inv, TypeOK

-----------------------------------------------------------------------------
(* The actions that move the right to answer *)

\* submit_pending: a new entry waits, and nobody has answered or owes it.
LEMMA SubmitPendingInv ==
  ASSUME Inv, NEW r \in Requests, SubmitPending(r)
  PROVE  Inv'
<1>1. /\ JobsOK /\ job \in Jobs /\ StateOK /\ "reader" \in Tasks
      /\ job["reader"].pc = "idle"
  BY DEF Inv, TypeOK, JobsOK, Jobs, SubmitPending, At
<1>2. StateOK'
  BY <1>1 DEF SubmitPending, StateOK, offerVars, signVars, windowVars
<1>3. CASE r \in pending
  <2>1. /\ UNCHANGED <<answers, job, pending, expired>>
    BY <1>3 DEF SubmitPending
  <2>2. asked' = asked
    BY <1>1, <1>3 DEF SubmitPending, StateOK
  <2> QED
    BY <1>2, <2>1, <2>2, IdleStep
<1>4. CASE r \notin pending
  <2> DEFINE j == [job["reader"] EXCEPT !.pc = "match", !.req = r]
  <2>1. /\ job' = [job EXCEPT !["reader"] = j]
        /\ pending' = pending \cup {r} /\ asked' = asked \cup {r}
        /\ r \notin asked /\ UNCHANGED <<answers, expired>>
    BY Zenon, <1>1, <1>4 DEF SubmitPending, Jobs, Job
  <2>2. "match" \in Labels
    BY DEF Labels
  <2>3. j \in Job /\ j.pc = "match" /\ j.req = r
    <3>1. j \in Job
      BY Zenon, <1>1, <2>2, RecordUpdates, JobFields
    <3>2. j.pc = "match" /\ j.req = r
      BY <1>1, JobFields DEF Job
    <3> QED
      BY <3>1, <3>2
  <2> HIDE DEF j
  <2>4. Moves("reader", j)
    BY <1>1, <2>1, <2>3 DEF Moves, Local
  <2>5. JobsOK'
    BY <1>1, <2>1, <2>4, MovesType
  <2>6. \A u \in Tasks, q \in Requests : Owes(u, q)' <=> Owes(u, q)
    <3>1. \A q \in Requests : ~Owes("reader", q) /\ ~Owes("reader", q)'
      BY DEF Owes
    <3> QED
      BY <1>1, <2>4, <3>1, OwesOthers
  <2>7. /\ answers[r] = <<>> /\ \A u \in Tasks : ~Owes(u, r)
    BY <2>1 DEF Inv, AnswerRight
  <2>8. AnswerRight'
    BY <2>1, <2>6, <2>7 DEF Inv, AnswerRight
  <2>9. SweepsUnexpired'
    BY <1>1, <2>1, <2>4, SweepFrame DEF Inv
  <2> QED
    BY <1>2, <2>5, <2>8, <2>9 DEF Inv, TypeOK
<1> QED
  BY <1>3, <1>4

\* A step that takes a waiting entry's right, or an expired entry's nothing.
LEMMA TakesInv ==
  ASSUME Inv, NEW r \in pending, RemovePending({r}), StateOK',
         UNCHANGED <<asked, answers>>,
         NEW t, NEW j, Moves(t, j), job[t].pc \notin {"decide", "close", "closed",
                                                     "expiring", "timeout"},
         \A q \in Requests : Owes(t, q)' => q = r /\ r \notin expired
  PROVE  TypeOK' /\ AnswerRight' /\ expired' \subseteq expired
<1>1. JobsOK /\ AnswerRight /\ TypeOK /\ pending \subseteq Requests
  BY DEF Inv, TypeOK, StateOK
<1>2. \A q : ~Owes(t, q)
  BY DEF Owes
<1>3. /\ pending' = pending \ {r} /\ expired' = expired \ {r}
  BY DEF RemovePending
<1>4. AnswerRight'
  BY <1>1, <1>2, <1>3, RightMoves
<1> QED
  BY SMTT(30), <1>1, <1>3, <1>4, MovesType DEF TypeOK

\* record_decision takes the entry; the answer follows the rule's frame.
LEMMA RecordDecisionInv ==
  ASSUME Inv, RecordDecision
  PROVE  Inv'
<1> DEFINE r == Head(queue).req
<1>1. /\ JobsOK /\ job \in Jobs /\ StateOK /\ "cards" \in Tasks
      /\ job["cards"].pc = "idle"
  BY DEF Inv, TypeOK, JobsOK, Jobs, RecordDecision, Take, At
<1>2. /\ r \in Requests /\ Head(queue).act \in Buttons \cap Verdicts
      /\ queue' \in Seq([act : Buttons, req : Requests])
  BY SMTT(30), <1>1, QueueType DEF RecordDecision, Take, StateOK
<1>3. CASE r \in pending
  <2> DEFINE i == Started("decide", Head(queue).act, r, Nobody)
             b == r \in expired
             j == [i EXCEPT !.late = b]
  <2>1. /\ RemovePending({r}) /\ job' = [job EXCEPT !["cards"] = j]
        /\ UNCHANGED <<asked, answers>>
    BY <1>3 DEF RecordDecision, Delivered
  <2>2. "decide" \in Labels
    BY DEF Labels
  <2>3. /\ i \in Job /\ i.pc = "decide" /\ i.req = r
        /\ i.op = Head(queue).act
    BY <1>2, <2>2, StartedType
  <2>4. b \in BOOLEAN
    OBVIOUS
  <2> HIDE DEF i, b
  <2>5. /\ j \in Job /\ j.pc = "decide" /\ j.req = r /\ j.late = b
        /\ j.op = Head(queue).act
    <3>1. j \in Job
      BY <2>3, <2>4, RecordUpdates
    <3>2. j.pc = "decide" /\ j.req = r /\ j.late = b /\ j.op = Head(queue).act
      BY <2>3 DEF Job
    <3> QED
      BY <3>1, <3>2
  <2> HIDE DEF j
  <2>6. Moves("cards", j)
    BY <1>1, <1>2, <2>1, <2>5 DEF Moves, Local
  <2>7. job'["cards"] = j
    BY <1>1, <2>1 DEF Jobs
  <2>8. \A q \in Requests : Owes("cards", q)' => q = r /\ r \notin expired
    BY Zenon, <2>5, <2>7 DEF Owes, b
  <2>9. StateOK'
    <3>1. /\ pending' \subseteq asked
          /\ expired' \subseteq pending' /\ due' \subseteq pending'
          /\ offer' \in [Requests -> Connectors \cup {Nobody}]
          /\ \A q \in Requests \ pending' : offer'[q] = Nobody
      BY <1>1, <1>2, <2>1, RemovePendingType
    <3> QED
      BY SMTT(30), <1>1, <1>2, <3>1 DEF RecordDecision, StateOK, offerVars, signVars
  <2>10. TypeOK' /\ AnswerRight' /\ expired' \subseteq expired
    BY <1>1, <1>3, <2>1, <2>6, <2>8, <2>9, TakesInv
  <2>11. SweepsUnexpired'
    BY <1>1, <2>6, <2>10, SweepFrame DEF Inv
  <2> QED
    BY <2>10, <2>11 DEF Inv
<1>4. CASE r \notin pending
  <2>1. UNCHANGED <<asked, answers, job, pending, expired, due, offer>>
    BY <1>4 DEF RecordDecision, Delivered, entryVars
  <2>2. StateOK'
    BY SMTT(30), <1>1, <1>2, <2>1 DEF RecordDecision, StateOK, offerVars, signVars
  <2> QED
    BY <2>1, <2>2, IdleStep
<1> QED
  BY <1>3, <1>4

\* dismiss_request takes the entry the same way.
LEMMA DismissRequestInv ==
  ASSUME Inv, DismissRequest
  PROVE  Inv'
<1> DEFINE r == Head(queue).req
<1>1. /\ JobsOK /\ job \in Jobs /\ StateOK /\ "cards" \in Tasks
      /\ job["cards"].pc = "idle"
  BY DEF Inv, TypeOK, JobsOK, Jobs, DismissRequest, Take, At
<1>2. /\ r \in Requests
      /\ queue' \in Seq([act : Buttons, req : Requests])
  BY SMTT(30), <1>1, QueueType DEF DismissRequest, Take, StateOK
<1>3. CASE r \in pending
  <2> DEFINE i == Started("close", "dismiss", r, Nobody)
             b == r \in expired
             j == [i EXCEPT !.late = b]
  <2>1. /\ RemovePending({r}) /\ job' = [job EXCEPT !["cards"] = j]
        /\ UNCHANGED <<asked, answers>>
    BY <1>3 DEF DismissRequest, Delivered
  <2>2. "close" \in Labels /\ "dismiss" \in Buttons
    BY DEF Labels, Buttons
  <2>3. i \in Job /\ i.pc = "close" /\ i.req = r
    BY <1>2, <2>2, StartedType
  <2>4. b \in BOOLEAN
    OBVIOUS
  <2> HIDE DEF i, b
  <2>5. j \in Job /\ j.pc = "close" /\ j.req = r /\ j.late = b
    <3>1. j \in Job
      BY <2>3, <2>4, RecordUpdates
    <3>2. j.pc = "close" /\ j.req = r /\ j.late = b
      BY <2>3 DEF Job
    <3> QED
      BY <3>1, <3>2
  <2> HIDE DEF j
  <2>6. Moves("cards", j)
    BY <1>1, <1>2, <2>1, <2>5 DEF Moves, Local
  <2>7. job'["cards"] = j
    BY <1>1, <2>1 DEF Jobs
  <2>8. \A q \in Requests : Owes("cards", q)' => q = r /\ r \notin expired
    BY Zenon, <2>5, <2>7 DEF Owes, b
  <2>9. StateOK'
    <3>1. /\ pending' \subseteq asked
          /\ expired' \subseteq pending' /\ due' \subseteq pending'
          /\ offer' \in [Requests -> Connectors \cup {Nobody}]
          /\ \A q \in Requests \ pending' : offer'[q] = Nobody
      BY <1>1, <1>2, <2>1, RemovePendingType
    <3> QED
      BY SMTT(30), <1>1, <1>2, <3>1 DEF DismissRequest, StateOK, offerVars, signVars
  <2>10. TypeOK' /\ AnswerRight' /\ expired' \subseteq expired
    BY <1>1, <1>3, <2>1, <2>6, <2>8, <2>9, TakesInv
  <2>11. SweepsUnexpired'
    BY <1>1, <2>6, <2>10, SweepFrame DEF Inv
  <2> QED
    BY <2>10, <2>11 DEF Inv
<1>4. CASE r \notin pending
  <2>1. UNCHANGED <<asked, answers, job, pending, expired, due, offer>>
    BY <1>4 DEF DismissRequest, Delivered, entryVars
  <2>2. StateOK'
    BY SMTT(30), <1>1, <1>2, <2>1 DEF DismissRequest, StateOK, offerVars, signVars
  <2> QED
    BY <2>1, <2>2, IdleStep
<1> QED
  BY <1>3, <1>4

\* A task that owes r, or took an expired entry, answers and owes nothing more.
LEMMA AnswersInv ==
  ASSUME Inv, UNCHANGED <<asked, pending, expired>>, StateOK',
         NEW t, NEW j, Moves(t, j), j.pc \notin Owning,
         NEW r \in Requests, NEW d, NEW late,
         Answer(r, d, late), late \/ Owes(t, r)
  PROVE  Inv'
<1>1. JobsOK /\ AnswerRight /\ TypeOK /\ SweepsUnexpired /\ StateOK
  BY DEF Inv, TypeOK
<1>2. \A q \in Requests : ~Owes(t, q)'
  <2>1. job'[t] = j
    BY <1>1 DEF Moves, JobsOK
  <2> QED
    BY <2>1 DEF Owes, Owning
<1>3. \A q \in Requests : q # r => answers'[q] = answers[q]
  BY <1>1 DEF Answer, Send, StateOK
<1>4. answers'[r] # answers[r] => Owes(t, r) /\ Len(answers'[r]) <= 1
  <2> SUFFICES ASSUME ~late
               PROVE  Owes(t, r) /\ Len(answers'[r]) <= 1
    BY DEF Answer
  <2>1. t \in Tasks /\ Owes(t, r)
    BY DEF Moves
  <2>2. answers[r] = <<>>
    BY <1>1, <2>1 DEF AnswerRight
  <2>3. answers'[r] = Append(answers[r], d)
    BY SMTT(30), <1>1 DEF Answer, Send, StateOK
  <2> QED
    BY <2>1, <2>2, <2>3
<1>5. r \in pending \ expired => answers'[r] = answers[r]
  <2>1. t \in Tasks
    BY DEF Moves
  <2> QED
    BY <1>1, <1>4, <2>1 DEF AnswerRight
<1>6. pending \subseteq Requests
  BY SMTT(30), <1>1 DEF StateOK
<1>7. AnswerRight'
  BY <1>1, <1>2, <1>3, <1>4, <1>5, <1>6, RightMoves
<1>8. SweepsUnexpired'
  BY <1>1, SweepFrame
<1>9. JobsOK'
  BY <1>1, MovesType
<1> QED
  BY <1>7, <1>8, <1>9 DEF Inv, TypeOK

\* record_decision answers unless the entry had expired.
LEMMA RecordDecisionAnswerInv ==
  ASSUME Inv, RecordDecisionAnswer
  PROVE  Inv'
<1> DEFINE r == job["cards"].req
           d == job["cards"].op
           late == job["cards"].late
<1>1. /\ JobsOK /\ job \in Jobs /\ StateOK /\ "cards" \in Tasks
      /\ job["cards"].pc = "decide" /\ Return("cards")
      /\ Answer(r, d, late)
      /\ UNCHANGED <<asked, pending, offer, expired, due>>
  BY DEF Inv, TypeOK, JobsOK, Jobs, RecordDecisionAnswer, At, entryVars
<1>2. r \in Requests /\ late \in BOOLEAN
  BY SMTT(30), <1>1, JobFields DEF JobsOK, Local
<1>3. Moves("cards", After("cards")) /\ After("cards").pc \notin Owning
  BY SMTT(30), <1>1, ReturnMoves
<1>4. late \/ Owes("cards", r)
  BY <1>1, <1>2 DEF Owes
<1>5. card' \in [Requests -> Card] /\ answers' \in [Requests -> Seq(Decisions)]
  <2>1. card' \in [Requests -> Card]
    BY SMTT(30), <1>1, NothingType, FunctionUpdate DEF RecordDecisionAnswer, StateOK
  <2>2. d \in Decisions
    BY SMTT(30), <1>1 DEF JobsOK, Local, Decisions
  <2> QED
    BY SMTT(30), <1>1, <1>2, <2>1, <2>2, AnswerType
<1>6. StateOK'
  BY SMTT(30), <1>1, <1>5 DEF RecordDecisionAnswer, StateOK, offerVars, signVars
<1> QED
  BY <1>1, <1>2, <1>3, <1>4, <1>6, AnswersInv

\* dismiss_request abandons the card's round before it answers.
LEMMA DismissRequestRoundInv ==
  ASSUME Inv, DismissRequestRound
  PROVE  Inv'
<1> DEFINE j == [job["cards"] EXCEPT !.pc = "closed"]
<1>1. /\ JobsOK /\ job \in Jobs /\ StateOK /\ "cards" \in Tasks
      /\ job["cards"].pc = "close" /\ Go("cards", "closed")
      /\ UNCHANGED <<asked, answers, pending, offer, expired, due>>
  BY DEF Inv, TypeOK, JobsOK, Jobs, DismissRequestRound, At, entryVars
<1>2. StateOK'
  BY Zenon, <1>1, FunctionUpdate DEF DismissRequestRound, AbandonRound, StateOK,
                              offerVars, signVars, windowVars
<1>3. j.pc = "closed" /\ j.req = job["cards"].req /\ j.late = job["cards"].late
  BY <1>1, JobFields DEF Job
<1>4. job["cards"].req \in Requests
  BY <1>1 DEF JobsOK, Local
<1>5. "closed" \in Labels /\ Local(j)
  <2>1. "closed" \in Labels
    BY DEF Labels
  <2> HIDE DEF j
  <2> QED
    BY <1>3, <1>4, <2>1 DEF Local
<1>6. Moves("cards", j)
  BY <1>1, <1>5, GoMoves
<1>7. job'["cards"] = j
  BY <1>1, <1>6 DEF Moves, Jobs
<1> HIDE DEF j
<1>8. \A q : Owes("cards", q)' <=> Owes("cards", q)
  BY SMTT(30), <1>1, <1>3, <1>7 DEF Owes
<1>9. \A q \in pending \ expired : q \in Requests /\ ~Owes("cards", q)
  BY <1>1 DEF Inv, AnswerRight, StateOK
<1>10. AnswerRight'
  BY <1>1, <1>6, <1>8, <1>9, RightMoves DEF Inv
<1>11. SweepsUnexpired'
  BY <1>1, <1>6, SweepFrame DEF Inv
<1> QED
  BY <1>1, <1>2, <1>6, <1>10, <1>11, MovesType DEF Inv, TypeOK

\* dismiss_request answers unless the entry had expired.
LEMMA DismissRequestAnswerInv ==
  ASSUME Inv, DismissRequestAnswer
  PROVE  Inv'
<1> DEFINE r == job["cards"].req
           late == job["cards"].late
<1>1. /\ JobsOK /\ job \in Jobs /\ StateOK /\ "cards" \in Tasks
      /\ job["cards"].pc = "closed" /\ Return("cards")
      /\ Answer(r, "timeout", late)
      /\ UNCHANGED <<asked, pending, offer, expired, due>>
  BY SMTT(30) DEF Inv, TypeOK, JobsOK, Jobs, DismissRequestAnswer, At, entryVars
<1>2. r \in Requests /\ late \in BOOLEAN
  BY <1>1, JobFields DEF JobsOK, Local
<1>3. Moves("cards", After("cards")) /\ After("cards").pc \notin Owning
  BY <1>1, ReturnMoves
<1>4. late \/ Owes("cards", r)
  BY <1>1, <1>2 DEF Owes
<1>5. card' \in [Requests -> Card] /\ answers' \in [Requests -> Seq(Decisions)]
  <2>1. card' \in [Requests -> Card]
    BY <1>1, NothingType, FunctionUpdate DEF DismissRequestAnswer, StateOK
  <2>2. "timeout" \in Decisions
    BY SMTT(30) DEF Decisions
  <2> QED
    BY SMTT(30), <1>1, <1>2, <2>1, <2>2, AnswerType
<1>6. StateOK'
  BY SMTT(30), <1>1, <1>5 DEF DismissRequestAnswer, StateOK, offerVars, signVars
<1> QED
  BY <1>1, <1>2, <1>3, <1>4, <1>6, AnswersInv

\* release answers in the step that takes the entry, so it never owes.
LEMMA ReleaseRequestInv ==
  ASSUME Inv, NEW t \in Tasks, ReleaseRequest(t)
  PROVE  Inv'
<1> DEFINE r == job[t].cur
<1>1. JobsOK /\ TypeOK /\ StateOK /\ AnswerRight /\ SweepsUnexpired
  BY DEF Inv, TypeOK
<1>2. StateOK' /\ asked' = asked /\ Stays(t)
  BY <1>1, ReleaseRequestOK
<1>3. CASE r \in pending
  <2> PICK j \in Job : Moves(t, j) /\ j.pc \notin Owning
    BY <1>2 DEF Stays
  <2>1. /\ pending' = pending \ {r} /\ expired' = expired \ {r}
        /\ Answer(r, "granted", r \in expired) /\ r \in Requests
    BY <1>1, <1>3 DEF ReleaseRequest, RemovePending, StateOK
  <2>2. \A q : ~Owes(t, q) /\ ~Owes(t, q)'
    BY SMTT(30), <1>1, <1>2, OwesNothing
  <2>3. \A q \in Requests : q # r => answers'[q] = answers[q]
    BY SMTT(30), <1>1, <2>1 DEF Answer, Send, StateOK
  <2>4. answers'[r] # answers[r] =>
          r \in pending \ expired /\ Len(answers'[r]) <= 1
    <3> SUFFICES ASSUME r \notin expired
                 PROVE  Len(answers'[r]) <= 1
      BY SMTT(30), <1>3, <2>1 DEF Answer
    <3>1. answers[r] = <<>>
      BY SMTT(30), <1>1, <1>3, <2>1 DEF AnswerRight
    <3>2. answers'[r] = Append(answers[r], "granted")
      BY <1>1, <2>1 DEF Answer, Send, StateOK
    <3> QED
      BY <3>1, <3>2
  <2>5. pending \subseteq Requests
    BY SMTT(30), <1>1 DEF StateOK
  <2>6. AnswerRight'
    <3>1. \A q \in pending' \ expired' :
             q \in pending \ expired /\ answers'[q] = answers[q] /\ ~Owes(t, q)'
      BY SMTT(30), <2>1, <2>2, <2>3, <2>5
    <3>2. \A q \in Requests : Owes(t, q)' =>
             answers'[q] = answers[q] /\ (Owes(t, q) \/ q \in pending \ expired)
      BY Zenon, <2>2
    <3>3. \A q \in Requests : answers'[q] # answers[q] =>
             (Owes(t, q) \/ q \in pending \ expired) /\ Len(answers'[q]) <= 1
      BY SMTT(30), <2>3, <2>4
    <3>4. TypeOK /\ AnswerRight /\ asked' = asked
      BY <1>1, <1>2
    <3> QED
      BY ZenonT(30), <3>1, <3>2, <3>3, <3>4, RightMoves
  <2>7. SweepsUnexpired'
    BY <1>1, <2>1, SweepFrame
  <2> QED
    BY <1>1, <1>2, <2>6, <2>7, StaysType DEF Inv, TypeOK
<1>4. CASE r \notin pending
  <2>1. UNCHANGED <<answers, pending, expired>>
    BY <1>4 DEF ReleaseRequest, entryVars
  <2> QED
    BY <1>2, <2>1, QuietStep
<1> QED
  BY <1>3, <1>4

\* The locals of the tick between two entries.
LEMMA BetweenType ==
  ASSUME NEW S \in SUBSET Requests
  PROVE  LET j == [IdleJob EXCEPT !.pc = "expire", !.todo = S]
         IN  j \in Job /\ j.pc = "expire" /\ j.todo = S
<1>1. "expire" \in Labels
  BY DEF Labels
<1>2. [IdleJob EXCEPT !.pc = "expire", !.todo = S] \in Job
  BY Zenon, <1>1, NothingType, RecordUpdates
<1> QED
  BY <1>2 DEF IdleJob

\* tick_timeouts picks entries that wait, so none it walks has expired.
LEMMA TickSweepInv ==
  ASSUME Inv, TickSweep
  PROVE  Inv'
<1> DEFINE S == {r \in pending \ expired : r \in due}
           j == [IdleJob EXCEPT !.pc = "expire", !.todo = S]
<1>1. /\ JobsOK /\ job \in Jobs /\ StateOK /\ "tick" \in Tasks
      /\ job["tick"].pc = "sweep" /\ job' = [job EXCEPT !["tick"] = j]
      /\ UNCHANGED <<asked, answers, pending, offer, expired, due>>
  BY DEF Inv, TypeOK, JobsOK, Jobs, TickSweep, At, entryVars
<1>2. StateOK'
  BY <1>1 DEF TickSweep, Publish, StateOK, signVars, windowVars
<1>3. S \in SUBSET Requests /\ S \cap expired = {}
  BY <1>1 DEF StateOK
<1> HIDE DEF S
<1>4. j \in Job /\ j.pc = "expire" /\ j.todo = S
  BY Zenon, <1>3, BetweenType
<1> HIDE DEF j
<1>5. Moves("tick", j)
  BY <1>1, <1>4 DEF Moves, Local
<1>6. job'["tick"] = j
  BY <1>1 DEF Jobs
<1>7. \A q : ~Owes("tick", q) /\ ~Owes("tick", q)'
  BY <1>1, <1>4, <1>6 DEF Owes
<1>8. AnswerRight'
  BY <1>1, <1>5, <1>7, RightMoves DEF Inv
<1>9. SweepsUnexpired'
  BY <1>1, <1>3, <1>4, <1>6 DEF SweepsUnexpired
<1> QED
  BY <1>1, <1>2, <1>5, <1>8, <1>9, MovesType DEF Inv, TypeOK

\* timeout_one takes a waiting entry; the walk is over entries that wait.
LEMMA TimeoutOneInv ==
  ASSUME Inv, TimeoutOne
  PROVE  Inv'
<1>1. /\ JobsOK /\ job \in Jobs /\ StateOK /\ "tick" \in Tasks
      /\ job["tick"].pc = "expire" /\ UNCHANGED <<asked, answers>>
  BY Zenon DEF Inv, TypeOK, JobsOK, Jobs, TimeoutOne, At
<1>2. job["tick"].todo \in SUBSET Requests /\ job["tick"].todo \cap expired = {}
  BY <1>1, JobFields DEF Inv, SweepsUnexpired
<1>3. ASSUME NEW r \in job["tick"].todo, r \in pending, RemovePending({r}),
             job' = [job EXCEPT !["tick"] =
                       [IdleJob EXCEPT !.pc = "expiring", !.cur = r,
                                       !.conn = offer[r],
                                       !.todo = job["tick"].todo \ {r}]]
      PROVE  Inv'
  <2> DEFINE S == job["tick"].todo \ {r}
             c == offer[r]
             j == [IdleJob EXCEPT !.pc = "expiring", !.cur = r,
                                  !.conn = c, !.todo = S]
  <2>1. /\ S \in SUBSET Requests /\ S \cap expired = {} /\ r \notin S
        /\ r \in Requests /\ r \notin expired /\ r \in asked
        /\ c \in Connectors \cup {Nobody}
    BY <1>1, <1>2, <1>3 DEF StateOK
  <2>2. job' = [job EXCEPT !["tick"] = j]
    BY <1>3
  <2> HIDE DEF S, c
  <2>3. j \in Job /\ j.pc = "expiring" /\ j.cur = r /\ j.todo = S
    <3>1. "expiring" \in Labels
      BY DEF Labels
    <3>2. j \in Job
      BY ZenonT(30), <2>1, <3>1, NothingType, RecordUpdates
    <3> QED
      BY <3>2 DEF IdleJob
  <2> HIDE DEF j
  <2>4. Moves("tick", j)
    BY <1>1, <2>1, <2>2, <2>3 DEF Moves, Local
  <2>5. job'["tick"] = j
    BY <1>1, <2>2 DEF Jobs
  <2>6. \A q \in Requests : Owes("tick", q)' => q = r /\ r \notin expired
    BY <2>1, <2>3, <2>5 DEF Owes
  <2>7. StateOK'
    <3>1. /\ pending' \subseteq asked
          /\ expired' \subseteq pending' /\ due' \subseteq pending'
          /\ offer' \in [Requests -> Connectors \cup {Nobody}]
          /\ \A q \in Requests \ pending' : offer'[q] = Nobody
      BY <1>1, <1>3, <2>1, RemovePendingType
    <3> QED
      BY Zenon, <1>1, <3>1 DEF TimeoutOne, StateOK, offerVars, signVars, windowVars
  <2>8. TypeOK' /\ AnswerRight' /\ expired' \subseteq expired
    BY SMTT(30), <1>1, <1>3, <2>4, <2>6, <2>7, TakesInv
  <2>9. SweepsUnexpired'
    BY SMTT(30), <1>1, <2>1, <2>3, <2>5, <2>8 DEF SweepsUnexpired
  <2> QED
    BY <2>8, <2>9 DEF Inv
<1>4. ASSUME NEW S \in SUBSET job["tick"].todo,
             job' = [job EXCEPT !["tick"].todo = S], UNCHANGED entryVars
      PROVE  Inv'
  <2> DEFINE j == [job["tick"] EXCEPT !.todo = S]
  <2>1. job' = [job EXCEPT !["tick"] = j] /\ S \in SUBSET Requests
    BY <1>1, <1>2, <1>4 DEF Jobs, Job
  <2>2. j \in Job
    BY SMTT(30), <1>1, <2>1, JobFields, RecordUpdates
  <2>3. j.pc = "expire" /\ j.todo = S
    BY <1>1, JobFields DEF Job
  <2> HIDE DEF j
  <2>4. Moves("tick", j)
    BY <1>1, <2>1, <2>2, <2>3 DEF Moves, Local
  <2>5. job'["tick"] = j
    BY <1>1, <2>1 DEF Jobs
  <2>6. \A q : ~Owes("tick", q) /\ ~Owes("tick", q)'
    BY <1>1, <2>3, <2>5 DEF Owes
  <2>7. StateOK' /\ UNCHANGED <<pending, expired>>
    BY ZenonT(30), <1>1, <1>4 DEF TimeoutOne, StateOK, entryVars, offerVars, signVars, windowVars
  <2>8. AnswerRight'
    BY <1>1, <2>4, <2>6, <2>7, RightMoves DEF Inv
  <2>9. SweepsUnexpired'
    BY <1>1, <1>2, <1>4, <2>3, <2>5, <2>7 DEF SweepsUnexpired
  <2> QED
    BY <1>1, <2>4, <2>7, <2>8, <2>9, MovesType DEF Inv, TypeOK
<1>5. ASSUME job' = [job EXCEPT !["tick"] = IdleJob], UNCHANGED entryVars
      PROVE  Inv'
  <2>1. Moves("tick", IdleJob) /\ IdleJob.pc \notin Owning
    BY Zenon, <1>1, <1>5, NothingType DEF Moves, Local, IdleJob, Owning
  <2>2. job'["tick"] = IdleJob
    BY SMTT(30), <1>1, <1>5 DEF Jobs
  <2>3. \A q : ~Owes("tick", q) /\ ~Owes("tick", q)'
    BY <1>1, <2>2 DEF Owes, IdleJob
  <2>4. StateOK' /\ UNCHANGED <<pending, expired>>
    BY ZenonT(30), <1>1, <1>5 DEF TimeoutOne, StateOK, entryVars, offerVars, signVars, windowVars
  <2>5. AnswerRight'
    BY SMTT(30), <1>1, <2>1, <2>3, <2>4, RightMoves DEF Inv
  <2>6. SweepsUnexpired'
    BY <1>1, <2>1, <2>4, SweepFrame DEF Inv
  <2> QED
    BY <1>1, <2>1, <2>4, <2>5, <2>6, MovesType DEF Inv, TypeOK
<1>6. ASSUME NEW r \in job["tick"].todo,
             job' = [job EXCEPT !["tick"].todo = @ \ {r}], UNCHANGED entryVars
      PROVE  Inv'
  <2>1. job["tick"].todo \ {r} \in SUBSET job["tick"].todo
    OBVIOUS
  <2> QED
    BY Zenon, <1>4, <1>6, <2>1
<1> QED
  BY ZenonT(30), <1>3, <1>5, <1>6 DEF TimeoutOne

\* keep_offer puts the entry back as expired: it waits no more, and the tick
\* still owes its answer.
LEMMA TimeoutKeepInv ==
  ASSUME Inv, TimeoutKeep
  PROVE  Inv'
<1> DEFINE r == job["tick"].cur
           j == [job["tick"] EXCEPT !.pc = "timeout"]
<1>1. /\ JobsOK /\ job \in Jobs /\ StateOK /\ "tick" \in Tasks
      /\ job["tick"].pc = "expiring" /\ Go("tick", "timeout")
      /\ UNCHANGED <<asked, answers>>
  BY SMTT(30) DEF Inv, TypeOK, JobsOK, Jobs, TimeoutKeep, At
<1>2. r \in asked /\ r \in Requests /\ job["tick"].conn \in Connectors \cup {Nobody}
  BY <1>1, JobFields DEF JobsOK, Local, StateOK
<1>3. \/ pending' = pending \cup {r} /\ expired' = expired \cup {r}
      \/ pending' = pending /\ expired' = expired
  BY DEF TimeoutKeep, entryVars
<1>4. StateOK'
  <2>1. CASE job["tick"].conn # Nobody
    <3>1. UNCHANGED <<asked, due, offers, granted, published, answers, rounds,
                      settled, withdrawn, card, queue, decided, live, minted,
                      turns>>
      BY Zenon, <2>1 DEF TimeoutKeep, offerVars, signVars
    <3>2. /\ pending' = pending \cup {r} /\ expired' = expired \cup {r}
          /\ offer' = [offer EXCEPT ![r] = job["tick"].conn]
      BY ZenonT(30), <2>1 DEF TimeoutKeep
    <3> QED
      BY Zenon, <1>1, <1>2, <3>1, <3>2 DEF StateOK
  <2>2. CASE job["tick"].conn = Nobody
    <3>1. card' \in [Requests -> Card]
      BY ZenonT(30), <1>1, <2>2, NothingType, FunctionUpdate DEF TimeoutKeep, StateOK
    <3>2. UNCHANGED <<asked, pending, offer, expired, due, offers, granted,
                      published, answers, rounds, settled, withdrawn, queue,
                      decided, live, minted, turns>>
      BY Zenon, <2>2 DEF TimeoutKeep, entryVars, offerVars, signVars
    <3> QED
      BY <1>1, <3>1, <3>2 DEF StateOK
  <2> QED
    BY SMTT(30), <2>1, <2>2
<1>5. j.pc = "timeout" /\ j.cur = r /\ j.todo = job["tick"].todo
  BY <1>1, JobFields DEF Job
<1>6. "timeout" \in Labels
  BY DEF Labels
<1>7. Moves("tick", j)
  <2>1. Local(j)
    <3> HIDE DEF j
    <3> QED
      BY <1>2, <1>5 DEF Local
  <2> QED
    BY <1>1, <1>6, <2>1, GoMoves
<1>8. job'["tick"] = j
  BY <1>1, <1>7 DEF Moves, Jobs
<1> HIDE DEF j
<1>9. \A q : (Owes("tick", q)' <=> q = r) /\ (Owes("tick", q) <=> q = r)
  BY SMTT(30), <1>1, <1>5, <1>8 DEF Owes
<1>10. r \notin pending \ expired
  BY SMTT(30), <1>1, <1>2, <1>9 DEF Inv, AnswerRight
<1>11. AnswerRight'
  BY SMTT(30), <1>1, <1>3, <1>7, <1>9, <1>10, RightMoves DEF Inv
<1>12. SweepsUnexpired'
  BY SMTT(30), <1>1, <1>3, <1>5, <1>8 DEF Inv, SweepsUnexpired
<1> QED
  BY SMTT(30), <1>1, <1>4, <1>7, <1>11, <1>12, MovesType DEF Inv, TypeOK

\* timeout_one sends the answer it owes and walks on.
LEMMA TimeoutSendInv ==
  ASSUME Inv, TimeoutSend
  PROVE  Inv'
<1> DEFINE r == job["tick"].cur
           S == job["tick"].todo
           j == [IdleJob EXCEPT !.pc = "expire", !.todo = S]
<1>1. /\ JobsOK /\ job \in Jobs /\ StateOK /\ "tick" \in Tasks
      /\ job["tick"].pc = "timeout" /\ job' = [job EXCEPT !["tick"] = j]
      /\ Send(r, "timeout") /\ UNCHANGED <<asked, pending, offer, expired, due>>
  BY DEF Inv, TypeOK, JobsOK, Jobs, TimeoutSend, At, entryVars
<1>2. /\ r \in Requests /\ S \in SUBSET Requests /\ "timeout" \in Decisions
      /\ S \cap expired = {}
  BY <1>1, JobFields DEF JobsOK, Local, StateOK, Decisions, Inv, SweepsUnexpired
<1> HIDE DEF S
<1>3. j \in Job /\ j.pc = "expire" /\ j.todo = S
  BY Zenon, <1>2, BetweenType
<1> HIDE DEF j
<1>4. Moves("tick", j)
  BY <1>1, <1>3 DEF Moves, Local
<1>5. job'["tick"] = j
  BY <1>1 DEF Jobs
<1>6. \A q : ~Owes("tick", q)' /\ (Owes("tick", q) <=> q = r)
  BY SMTT(30), <1>1, <1>3, <1>5 DEF Owes
<1>7. answers[r] = <<>> /\ r \notin pending \ expired
  BY SMTT(30), <1>1, <1>2, <1>6 DEF Inv, AnswerRight
<1>8. /\ answers'[r] = Append(answers[r], "timeout")
      /\ \A q \in Requests : q # r => answers'[q] = answers[q]
  BY <1>1, <1>2 DEF Send, StateOK
<1>9. Len(answers'[r]) <= 1
  BY <1>7, <1>8
<1>10. answers' \in [Requests -> Seq(Decisions)]
  <2>1. Answer(r, "timeout", FALSE)
    BY <1>1 DEF Answer
  <2> QED
    BY Zenon, <1>1, <1>2, <2>1, AnswerType
<1>11. StateOK' /\ pending \subseteq Requests
  BY <1>1, <1>10 DEF TimeoutSend, StateOK, entryVars, offerVars, signVars, windowVars
<1>12. AnswerRight'
  BY ZenonT(30), <1>1, <1>4, <1>6, <1>7, <1>8, <1>9, <1>11, RightMoves DEF Inv
<1>13. SweepsUnexpired'
  BY <1>1, <1>2, <1>3, <1>5 DEF SweepsUnexpired
<1> QED
  BY <1>1, <1>4, <1>11, <1>12, <1>13, MovesType DEF Inv, TypeOK

-----------------------------------------------------------------------------
(* The actions that move no task *)

\* A press changes the window and its queue alone.
LEMMA PressInv ==
  ASSUME Inv, NEW r \in Requests, Press(r)
  PROVE  Inv'
<1>1. StateOK /\ UNCHANGED <<asked, pending, offer, expired, due, answers, job>>
  BY DEF Inv, TypeOK, Press, entryVars
<1>2. \E b \in Buttons : queue' = Append(queue, [act |-> b, req |-> r])
  <2>1. /\ Verdicts \subseteq Buttons
        /\ {"grant", "decline", "begin", "answer", "dismiss"} \subseteq Buttons
    BY DEF Buttons
  <2> QED
    BY Zenon, <2>1 DEF Press, PressDecide, PressGrant, PressDecline, PressRound,
                PressDismiss, Deliver, Queue
<1>3. queue' \in Seq([act : Buttons, req : Requests])
  BY <1>1, <1>2 DEF StateOK
<1>4. turns' \in Nat
  BY <1>1 DEF StateOK, Press, PressDecide, PressGrant, PressDecline, PressRound,
              PressDismiss
<1>5. card' \in [Requests -> Card]
  <2>1. \/ card' = [card EXCEPT ![r] = NoCard]
        \/ \E b \in BOOLEAN : card' = [card EXCEPT ![r].waiting = b]
    BY ZenonT(30) DEF Press, PressDecide, PressGrant, PressDecline, PressRound,
           PressDismiss, Deliver
  <2>2. CASE card' = [card EXCEPT ![r] = NoCard]
    BY SMTT(30), <1>1, <2>2, NothingType DEF StateOK
  <2>3. ASSUME NEW b \in BOOLEAN, card' = [card EXCEPT ![r].waiting = b]
        PROVE  card' \in [Requests -> Card]
    <3>1. [card[r] EXCEPT !.waiting = b] \in Card
      BY ZenonT(30), <1>1 DEF StateOK, Card
    <3> QED
      BY <1>1, <2>3, <3>1 DEF StateOK
  <2> QED
    BY <2>1, <2>2, <2>3
<1>6. StateOK'
  BY <1>1, <1>3, <1>4, <1>5 DEF Press, StateOK, offerVars, signVars
<1> QED
  BY <1>1, <1>6, IdleStep

\* A decision made on the command line, and the passing of time.
LEMMA OutsideInv ==
  ASSUME Inv,
         \/ \E c \in Connectors : StoreDecides(c)
         \/ \E r \in Requests : DeadlinePasses(r)
  PROVE  Inv'
<1>1. ASSUME NEW c \in Connectors, StoreDecides(c) PROVE Inv'
  <2>1. StateOK'
    BY <1>1 DEF StoreDecides, Inv, TypeOK, StateOK, entryVars, signVars, windowVars
  <2>2. UNCHANGED <<asked, answers, job, pending, expired>>
    BY <1>1 DEF StoreDecides, entryVars
  <2> QED
    BY <2>1, <2>2, IdleStep
<1>2. ASSUME NEW r \in Requests, DeadlinePasses(r) PROVE Inv'
  <2>1. StateOK'
    BY <1>2 DEF DeadlinePasses, Inv, TypeOK, StateOK, offerVars, signVars, windowVars
  <2>2. UNCHANGED <<asked, answers, job, pending, expired>>
    BY <1>2 DEF DeadlinePasses
  <2> QED
    BY SMTT(30), <2>1, <2>2, IdleStep
<1> QED
  BY <1>1, <1>2

-----------------------------------------------------------------------------
(* One lemma per task *)

\* The steps of grants, declines, redraws and sign-in rounds, on any task.
LEMMA SharedInv ==
  ASSUME Inv, NEW t, SharedStep(t)
  PROVE  Inv'
<1>1. TypeOK
  BY DEF Inv
<1>2. t \in Tasks
  BY Zenon DEF SharedStep, GrantResolve, GrantRecord, ForgetOffer, StripOffer,
         DropStripped, ApplyGrantedEgress, ReleaseCard, ReleaseRequest,
         GrantKept, DeclineRecord, DeclineHolders, DeclinePublish,
         RepresentRead, RepresentShow, BeginConnect, AnswerConnectTurn,
         SettleRound, HoldRound, At
<1>3. CASE ReleaseRequest(t)
  BY <1>2, <1>3, ReleaseRequestInv
<1>4. CASE ~ReleaseRequest(t)
  <2>1. StateOK' /\ asked' = asked /\ Stays(t)
    BY SMTT(30), <1>1, <1>2, <1>4, GrantResolveOK, GrantRecordOK, ForgetOfferOK,
       StripOfferOK, DropStrippedOK, ApplyGrantedEgressOK, ReleaseCardOK,
       GrantKeptOK, DeclineRecordOK, DeclineHoldersOK, DeclinePublishOK,
       RepresentReadOK, RepresentShowOK, BeginConnectOK, AnswerConnectTurnOK,
       SettleRoundOK, HoldRoundOK DEF SharedStep
  <2>2. UNCHANGED <<answers, pending, expired>>
    BY Zenon, <1>4 DEF SharedStep, GrantResolve, GrantRecord, ForgetOffer, StripOffer,
         DropStripped, ApplyGrantedEgress, ReleaseCard,
         GrantKept, DeclineRecord, DeclineHolders, DeclinePublish,
         RepresentRead, RepresentShow, BeginConnect, AnswerConnectTurn,
         SettleRound, HoldRound, entryVars
  <2> QED
    BY SMTT(30), <2>1, <2>2, QuietStep
<1> QED
  BY <1>3, <1>4

\* The steps of the relay's reader after submit_pending inserted the entry.
LEMMA ReaderInv ==
  ASSUME Inv, ReaderStep
  PROVE  Inv'
<1>1. StateOK' /\ asked' = asked /\ Stays("reader")
  BY OfferForOK, AttachOfferOK, PresentFirstOK DEF Inv, ReaderStep
<1>2. UNCHANGED <<answers, pending, expired>>
  BY DEF ReaderStep, OfferFor, AttachOffer, PresentFirst, entryVars
<1> QED
  BY <1>1, <1>2, QuietStep

\* The steps of decision_delivery_loop.
LEMMA CardsInv ==
  ASSUME Inv, CardsStep
  PROVE  Inv'
<1>1. CASE OnOffer \/ OnOfferAbandon \/ AnswerConnect
  <2>1. StateOK' /\ asked' = asked /\ (UNCHANGED job \/ Stays("cards"))
    BY <1>1, OnOfferOK, OnOfferAbandonOK, AnswerConnectOK DEF Inv
  <2>2. UNCHANGED <<answers, pending, expired>>
    BY <1>1 DEF OnOffer, OnOfferAbandon, AnswerConnect, entryVars
  <2> QED
    BY <2>1, <2>2, QuietStep, IdleStep
<1> QED
  BY SMTT(30), <1>1, RecordDecisionInv, RecordDecisionAnswerInv, DismissRequestInv,
     DismissRequestRoundInv, DismissRequestAnswerInv, SharedInv DEF CardsStep

\* The steps of the tick.
LEMMA TickInv ==
  ASSUME Inv, TickStep
  PROVE  Inv'
<1>1. CASE \/ TickStart \/ PollConnect \/ PollTake \/ ReadSupply
           \/ ReplaceSupply \/ ReadOffers \/ ReplaceOffers
  <2>1. StateOK' /\ asked' = asked /\ Stays("tick")
    BY <1>1, TickStartOK, PollConnectOK, PollTakeOK, ReadSupplyOK,
       ReplaceSupplyOK, ReadOffersOK, ReplaceOffersOK DEF Inv
  <2>2. UNCHANGED <<answers, pending, expired>>
    BY Zenon, <1>1 DEF TickStart, PollConnect, PollTake, ReadSupply, ReplaceSupply,
                ReadOffers, ReplaceOffers, entryVars
  <2> QED
    BY <2>1, <2>2, QuietStep
<1> QED
  BY <1>1, TickSweepInv, TimeoutOneInv, TimeoutKeepInv, TimeoutSendInv,
     SharedInv DEF TickStep

\* A grant from a row begins, and the run's withdrawal.
LEMMA EndInv ==
  ASSUME Inv, (\E c \in Connectors : GrantOffered(c)) \/ WithdrawRun \/ EndStep
  PROVE  Inv'
<1>1. \E t : StateOK' /\ asked' = asked /\ Stays(t)
  BY GrantOfferedOK, WithdrawRunOK, WithdrawDrainOK, WithdrawCardsOK,
     WithdrawRoundsOK DEF Inv, EndStep
<1>2. /\ answers' = answers /\ expired' \subseteq expired
      /\ pending' \ expired' \subseteq pending \ expired
  <2>1. CASE WithdrawDrain
    BY <2>1 DEF WithdrawDrain, RemovePending
  <2>2. CASE ~WithdrawDrain
    BY <2>2 DEF EndStep, GrantOffered, WithdrawRun, WithdrawCards,
                WithdrawRounds, entryVars
  <2> QED
    BY <2>1, <2>2
<1> QED
  BY <1>1, <1>2, QuietStep

\* Every step keeps the inductive invariant.
LEMMA NextInv ==
  ASSUME Inv, [Next]_vars
  PROVE  Inv'
<1>1. CASE UNCHANGED vars
  <2>1. StateOK' /\ UNCHANGED <<asked, answers, job, pending, expired>>
    BY SMTT(30), <1>1 DEF Inv, TypeOK, StateOK, vars
  <2> QED
    BY SMTT(30), <2>1, IdleStep
<1>2. CASE Next
  BY SMTT(30), <1>2, SubmitPendingInv, PressInv, OutsideInv, ReaderInv, CardsInv,
     TickInv, SharedInv, EndInv DEF Next
<1> QED
  BY <1>1, <1>2

\* It holds at the start: nothing is held, shown or answered.
LEMMA InitInv ==
  ASSUME Init
  PROVE  Inv
<1>1. StateOK
  <2>1. <<>> \in Seq(Decisions) /\ <<>> \in Seq([act : Buttons, req : Requests])
    OBVIOUS
  <2>2. /\ answers \in [Requests -> Seq(Decisions)]
        /\ queue \in Seq([act : Buttons, req : Requests])
    BY <2>1 DEF Init
  <2>3. withdrawn \in BOOLEAN
    BY Zenon DEF Init
  <2>4. card \in [Requests -> Card]
    BY NothingType DEF Init
  <2>5. rounds \in [Requests -> Round \cup {NoRound}]
    BY DEF Init
  <2>6. /\ asked = {} /\ pending = {} /\ expired = {} /\ due = {}
        /\ offer = [r \in Requests |-> Nobody]
        /\ offers = Connectors /\ granted = {} /\ published = {}
        /\ settled = [r \in Requests |-> 0]
        /\ decided = [c \in Connectors |-> "open"]
        /\ live = {} /\ minted = 0 /\ turns = 0
    BY DEF Init
  <2> QED
    BY SMTT(30), <2>2, <2>3, <2>4, <2>5, <2>6 DEF StateOK
<1>2. JobsOK
  BY ZenonT(30), NothingType DEF Init, JobsOK, Local, IdleJob
<1>3. \A t \in Tasks : \A r \in Requests : ~Owes(t, r)
  BY DEF Init, Owes, IdleJob
<1>4. AnswerRight
  BY SMTT(30), <1>3 DEF Init, AnswerRight
<1>5. SweepsUnexpired
  BY DEF Init, SweepsUnexpired, IdleJob
<1> QED
  BY SMTT(30), <1>1, <1>2, <1>4, <1>5 DEF Inv, TypeOK

-----------------------------------------------------------------------------
(* Theorems *)

\* The session's state keeps its type: an entry's fields exist only while the
\* entry is in `pending`, and no task uses a local it has not set.
THEOREM TypeCorrect == Safety => []TypeOK
<1>1. Init => Inv
  BY InitInv
<1>2. Inv /\ [Next]_vars => Inv'
  BY NextInv
<1>3. Inv => TypeOK
  BY DEF Inv
<1> QED
  BY <1>1, <1>2, <1>3, PTL DEF Safety

\* The right to answer a request is always in one place: with its waiting
\* entry, with the one task that took the entry, or spent.
THEOREM RightInOnePlace == Safety => []AnswerRight
<1>1. Init => Inv
  BY InitInv
<1>2. Inv /\ [Next]_vars => Inv'
  BY NextInv
<1>3. Inv => AnswerRight
  BY DEF Inv
<1> QED
  BY <1>1, <1>2, <1>3, PTL DEF Safety

\* No request is answered twice on the wire, whatever the user, the tick, the
\* grants, the dismissals and the end of the run do in between.
THEOREM AnsweredAtMostOnce == Safety => []AnsweredOnce
<1>1. AnswerRight => AnsweredOnce
  BY Zenon DEF AnswerRight, AnsweredOnce
<1> QED
  BY <1>1, RightInOnePlace, PTL
=============================================================================
