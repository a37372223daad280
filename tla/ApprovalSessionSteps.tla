------------------------ MODULE ApprovalSessionSteps ------------------------
(***************************************************************************)
(* What each step of ApprovalSession does to the types, for every set of   *)
(* requests and connectors, every subset of the tasks and every bound: one *)
(* lemma per action that leaves the right to answer alone.                 *)
(* ApprovalSessionProofs has the rest and the theorems.                    *)
(***************************************************************************)
EXTENDS ApprovalSession, TLAPS

-----------------------------------------------------------------------------
(* Records and functions *)

Jobs == [Tasks -> Job]

\* The empty card and an idle task's locals have their types.
LEMMA NothingType == NoCard \in Card /\ IdleJob \in Job
  BY NobodyAssumption DEF IdleJob, Job, Labels, Buttons, Verdicts, Results,
                          Round, NoRound, Card, NoCard

\* Updating a function at any point, in its domain or not, keeps its type.
LEMMA FunctionUpdate ==
  ASSUME NEW S, NEW T, NEW f \in [S -> T], NEW x, NEW v \in T
  PROVE  [f EXCEPT ![x] = v] \in [S -> T]
  BY Zenon

\* The type of each local of a task.
LEMMA JobFields ==
  ASSUME NEW f \in Jobs, NEW t \in Tasks
  PROVE  /\ f[t] \in Job
         /\ f[t].pc \in Labels
         /\ f[t].op \in Buttons \cup {"none"}
         /\ f[t].req \in Requests \cup {Nobody}
         /\ f[t].cur \in Requests \cup {Nobody}
         /\ f[t].conn \in Connectors \cup {Nobody}
         /\ f[t].late \in BOOLEAN
         /\ f[t].signing \in BOOLEAN
         /\ f[t].held \in SUBSET Requests
         /\ f[t].drop \in SUBSET Requests
         /\ f[t].todo \in SUBSET Requests
         /\ f[t].polls \in SUBSET (Requests \X Round)
         /\ f[t].round \in Round \cup {NoRound}
         /\ f[t].result \in Results
         /\ f[t].shot \in Card
         /\ f[t].seen \in SUBSET Connectors
         /\ f[t].changed \in BOOLEAN
  BY DEF Jobs, Job

\* A local may be replaced by a value of its type.
LEMMA RecordUpdates ==
  ASSUME NEW j \in Job
  PROVE  /\ \A x \in Labels : [j EXCEPT !.pc = x] \in Job
         /\ \A x \in Buttons \cup {"none"} : [j EXCEPT !.op = x] \in Job
         /\ \A x \in Requests \cup {Nobody} : [j EXCEPT !.req = x] \in Job
         /\ \A x \in Requests \cup {Nobody} : [j EXCEPT !.cur = x] \in Job
         /\ \A x \in Connectors \cup {Nobody} : [j EXCEPT !.conn = x] \in Job
         /\ \A x \in BOOLEAN : [j EXCEPT !.late = x] \in Job
         /\ \A x \in BOOLEAN : [j EXCEPT !.signing = x] \in Job
         /\ \A x \in SUBSET Requests : [j EXCEPT !.held = x] \in Job
         /\ \A x \in SUBSET Requests : [j EXCEPT !.drop = x] \in Job
         /\ \A x \in SUBSET Requests : [j EXCEPT !.todo = x] \in Job
         /\ \A x \in SUBSET (Requests \X Round) : [j EXCEPT !.polls = x] \in Job
         /\ \A x \in Round \cup {NoRound} : [j EXCEPT !.round = x] \in Job
         /\ \A x \in Results : [j EXCEPT !.result = x] \in Job
         /\ \A x \in Card : [j EXCEPT !.shot = x] \in Job
         /\ \A x \in SUBSET Connectors : [j EXCEPT !.seen = x] \in Job
         /\ \A x \in BOOLEAN : [j EXCEPT !.changed = x] \in Job
<1>1. \A x \in Labels : [j EXCEPT !.pc = x] \in Job
  BY DEF Job
<1>2. \A x \in Buttons \cup {"none"} : [j EXCEPT !.op = x] \in Job
  BY DEF Job
<1>3. \A x \in Requests \cup {Nobody} : [j EXCEPT !.req = x] \in Job
  BY DEF Job
<1>4. \A x \in Requests \cup {Nobody} : [j EXCEPT !.cur = x] \in Job
  BY DEF Job
<1>5. \A x \in Connectors \cup {Nobody} : [j EXCEPT !.conn = x] \in Job
  BY DEF Job
<1>6. \A x \in BOOLEAN : [j EXCEPT !.late = x] \in Job
  BY DEF Job
<1>7. \A x \in BOOLEAN : [j EXCEPT !.signing = x] \in Job
  BY DEF Job
<1>8. \A x \in SUBSET Requests : [j EXCEPT !.held = x] \in Job
  BY DEF Job
<1>9. \A x \in SUBSET Requests : [j EXCEPT !.drop = x] \in Job
  BY DEF Job
<1>10. \A x \in SUBSET Requests : [j EXCEPT !.todo = x] \in Job
  BY DEF Job
<1>11. \A x \in SUBSET (Requests \X Round) : [j EXCEPT !.polls = x] \in Job
  BY DEF Job
<1>12. \A x \in Round \cup {NoRound} : [j EXCEPT !.round = x] \in Job
  BY DEF Job
<1>13. \A x \in Results : [j EXCEPT !.result = x] \in Job
  BY DEF Job
<1>14. \A x \in Card : [j EXCEPT !.shot = x] \in Job
  BY DEF Job
<1>15. \A x \in SUBSET Connectors : [j EXCEPT !.seen = x] \in Job
  BY DEF Job
<1>16. \A x \in BOOLEAN : [j EXCEPT !.changed = x] \in Job
  BY DEF Job
<1> QED
  BY Zenon, <1>1, <1>2, <1>3, <1>4, <1>5, <1>6, <1>7, <1>8, <1>9, <1>10, <1>11, <1>12, <1>13, <1>14, <1>15, <1>16

-----------------------------------------------------------------------------
(* Steps of one task *)

\* Labels at which a task owes an answer or walks the expired entries.
Owning == {"decide", "close", "closed", "expire", "expiring", "timeout"}

\* Task t moves to locals j, and no other task moves.
Moves(t, j) ==
    /\ t \in Tasks /\ j \in Job /\ Local(j)
    /\ job' = [job EXCEPT ![t] = j]

\* Task t moves and neither owes an answer before nor after.
Stays(t) ==
    /\ job[t].pc \notin Owning
    /\ \E j \in Job : Moves(t, j) /\ j.pc \notin Owning

\* A step that moves one task keeps every task's locals well typed.
LEMMA MovesType ==
  ASSUME JobsOK, asked \subseteq asked', NEW t, NEW j, Moves(t, j)
  PROVE  JobsOK'
<1>1. job' \in [Tasks -> Job]
  BY DEF JobsOK, Moves
<1>2. ASSUME NEW u \in Tasks PROVE Local(job'[u])
  BY DEF JobsOK, Moves
<1>3. ASSUME NEW u \in Tasks PROVE Local(job[u])'
  BY <1>2 DEF Local
<1> QED
  BY <1>1, <1>3 DEF JobsOK

\* A task that moves between labels that owe nothing keeps its locals typed.
LEMMA StaysType ==
  ASSUME JobsOK, asked \subseteq asked', NEW t, Stays(t)
  PROVE  JobsOK'
  BY MovesType DEF Stays

\* A jump to label l.
LEMMA GoMoves ==
  ASSUME JobsOK, NEW t \in Tasks, NEW l \in Labels, Go(t, l),
         Local([job[t] EXCEPT !.pc = l])
  PROVE  Moves(t, [job[t] EXCEPT !.pc = l])
<1>1. [job[t] EXCEPT !.pc = l] \in Job
  BY RecordUpdates DEF JobsOK
<1> QED
  BY <1>1 DEF Go, Moves

\* The same, between labels that owe nothing.
LEMMA GoStays ==
  ASSUME JobsOK, NEW t \in Tasks, NEW l \in Labels, Go(t, l),
         Local([job[t] EXCEPT !.pc = l]),
         job[t].pc \notin Owning, l \notin Owning
  PROVE  Stays(t)
<1>1. [job[t] EXCEPT !.pc = l].pc = l
  BY DEF JobsOK, Job
<1> QED
  BY Zenon, <1>1, GoMoves DEF Stays, Moves

\* The end of an operation.
LEMMA ReturnMoves ==
  ASSUME JobsOK, NEW t \in Tasks, Return(t)
  PROVE  Moves(t, After(t)) /\ After(t).pc \notin Owning
<1>l. "poll" \in Labels
  BY DEF Labels
<1>1. After(t) \in Job
  BY Zenon, <1>l, NothingType, JobFields, RecordUpdates DEF After, JobsOK, Jobs
<1>2. Local(After(t)) /\ After(t).pc \notin Owning
  BY DEF After, IdleJob, Local, Owning
<1> QED
  BY <1>1, <1>2 DEF Return, Moves

\* The same, from a label that owes nothing.
LEMMA ReturnStays ==
  ASSUME JobsOK, NEW t \in Tasks, Return(t), job[t].pc \notin Owning
  PROVE  Stays(t)
  BY ReturnMoves DEF Stays, Moves

-----------------------------------------------------------------------------
(* The actions cards, tick and rows share.  Each keeps the types, and its  *)
(* task neither owes an answer before it nor after.                        *)

\* grant_the names the requests it will release.
LEMMA GrantResolveOK ==
  ASSUME NEW t \in Tasks, TypeOK, GrantResolve(t)
  PROVE  StateOK' /\ asked' = asked /\ Stays(t)
<1>1. JobsOK /\ job \in Jobs /\ StateOK /\ job[t].pc \notin Owning
  BY DEF TypeOK, JobsOK, Jobs, GrantResolve, At, Owning
<1>2. StateOK' /\ asked' = asked
  BY <1>1  DEF GrantResolve, StateOK, entryVars, offerVars, signVars, windowVars
<1> SUFFICES Stays(t)
  BY <1>2
<1>3. CASE job' = [job EXCEPT ![t].pc = "grant",
                           ![t].held = HeldFor(job[t].conn)]
  <2> DEFINE j == [job[t] EXCEPT !.pc = "grant", !.held = HeldFor(job[t].conn)]
  <2>1. job' = [job EXCEPT ![t] = j]
    BY Zenon, <1>3, <1>1 DEF Jobs, Job
  <2>l. "grant" \in Labels
    BY DEF Labels
  <2>2. j \in Job
    BY Zenon, <2>l, <1>3, <1>1, NothingType, JobFields, RecordUpdates DEF StateOK, HeldFor
  <2>3. Local(j) /\ j.pc \notin Owning
    BY <1>3, <1>1, JobFields DEF Local, JobsOK, Jobs, Job, GrantResolve, At, Owning, StateOK, HeldFor
  <2> QED
    BY Zenon, <1>1, <2>1, <2>2, <2>3 DEF Stays, Moves
<1>4. CASE Return(t)
  BY <1>4, <1>1, ReturnStays
<1> QED
  BY <1>3, <1>4 DEF GrantResolve

\* grant_the asks the store.
LEMMA GrantRecordOK ==
  ASSUME NEW t \in Tasks, TypeOK, GrantRecord(t)
  PROVE  StateOK' /\ asked' = asked /\ Stays(t)
<1>1. JobsOK /\ job \in Jobs /\ StateOK /\ job[t].pc \notin Owning
  BY DEF TypeOK, JobsOK, Jobs, GrantRecord, At, Owning
<1>2. StateOK' /\ asked' = asked
  BY Zenon, <1>1  DEF GrantRecord, StateOK, entryVars, offerVars, signVars, windowVars, AfterGrant
<1> SUFFICES Stays(t)
  BY <1>2
<1>3. CASE Go(t, "unlist")
  <2>1. Local([job[t] EXCEPT !.pc = "unlist"])
    BY <1>1, JobFields DEF Local, JobsOK, Jobs, Job, GrantRecord, At
  <2>l. "unlist" \in Labels
    BY DEF Labels
  <2> QED
    BY <2>l, <1>3, <1>1, <2>1, GoStays DEF Owning
<1>4. CASE AfterGrant(t)
  <2>1. CASE Go(t, "kept")
    <3>1. Local([job[t] EXCEPT !.pc = "kept"])
      BY <1>1, JobFields DEF Local, JobsOK, Jobs, Job
    <3>l. "kept" \in Labels
      BY DEF Labels
    <3> QED
      BY <3>l, <2>1, <1>1, <3>1, GoStays DEF Owning
  <2>2. CASE Return(t)
    BY <2>2, <1>1, ReturnStays
  <2> QED
    BY <1>4, <2>1, <2>2 DEF AfterGrant
<1> QED
  BY <1>3, <1>4 DEF GrantRecord

\* forget_offer takes the connector off the list.
LEMMA ForgetOfferOK ==
  ASSUME NEW t \in Tasks, TypeOK, ForgetOffer(t)
  PROVE  StateOK' /\ asked' = asked /\ Stays(t)
<1>1. JobsOK /\ job \in Jobs /\ StateOK /\ job[t].pc \notin Owning
  BY DEF TypeOK, JobsOK, Jobs, ForgetOffer, At, Owning
<1>2. StateOK' /\ asked' = asked
  BY <1>1  DEF ForgetOffer, StateOK, entryVars, offerVars, signVars, windowVars
<1> SUFFICES Stays(t)
  BY <1>2
<1>3. CASE Go(t, "strip")
  <2>1. Local([job[t] EXCEPT !.pc = "strip"])
    BY <1>1, JobFields DEF Local, JobsOK, Jobs, Job, ForgetOffer, At
  <2>l. "strip" \in Labels
    BY DEF Labels
  <2> QED
    BY <2>l, <1>3, <1>1, <2>1, GoStays DEF Owning
<1> QED
  BY <1>3 DEF ForgetOffer

\* forget_offer takes the offer off every entry.
LEMMA StripOfferOK ==
  ASSUME NEW t \in Tasks, TypeOK, StripOffer(t)
  PROVE  StateOK' /\ asked' = asked /\ Stays(t)
<1>1. JobsOK /\ job \in Jobs /\ StateOK /\ job[t].pc \notin Owning
  BY DEF TypeOK, JobsOK, Jobs, StripOffer, At, Owning
<1>2. StateOK' /\ asked' = asked
  BY <1>1  DEF StripOffer, StateOK, entryVars, offerVars, signVars, windowVars, HeldFor
<1> SUFFICES Stays(t)
  BY <1>2
<1>3. CASE job' = [job EXCEPT ![t].pc = "drop",
                           ![t].drop = HeldFor(job[t].conn)]
  <2> DEFINE j == [job[t] EXCEPT !.pc = "drop", !.drop = HeldFor(job[t].conn)]
  <2>1. job' = [job EXCEPT ![t] = j]
    BY Zenon, <1>3, <1>1 DEF Jobs, Job
  <2>l. "drop" \in Labels
    BY DEF Labels
  <2>2. j \in Job
    BY ZenonT(30), <2>l, <1>3, <1>1, NothingType, JobFields, RecordUpdates DEF StateOK, HeldFor
  <2>3. Local(j) /\ j.pc \notin Owning
    BY <1>3, <1>1, JobFields DEF Local, JobsOK, Jobs, Job, StripOffer, At, Owning, StateOK, HeldFor
  <2> QED
    BY Zenon, <1>1, <2>1, <2>2, <2>3 DEF Stays, Moves
<1> QED
  BY <1>3 DEF StripOffer

\* forget_offer abandons the stripped cards' rounds.
LEMMA DropStrippedOK ==
  ASSUME NEW t \in Tasks, TypeOK, DropStripped(t)
  PROVE  StateOK' /\ asked' = asked /\ Stays(t)
<1>1. JobsOK /\ job \in Jobs /\ StateOK /\ job[t].pc \notin Owning
  BY DEF TypeOK, JobsOK, Jobs, DropStripped, At, Owning
<1>2. StateOK' /\ asked' = asked
  BY Zenon, <1>1, FunctionUpdate DEF DropStripped, StateOK, entryVars, offerVars, signVars, windowVars, AbandonRound
<1> SUFFICES Stays(t)
  BY <1>2
<1>3. CASE \E r \in job[t].drop : job' = [job EXCEPT ![t].drop = @ \ {r}]
  <2> PICK r \in job[t].drop : job' = [job EXCEPT ![t].drop = @ \ {r}]
    BY Zenon, <1>3
  <2> DEFINE j == [job[t] EXCEPT !.drop = @ \ {r}]
  <2>1. job' = [job EXCEPT ![t] = j]
    BY <1>1 DEF Jobs, Job
  <2>2. j \in Job
    BY Zenon, <1>1, JobFields, RecordUpdates
  <2>3. Local(j) /\ j.pc \notin Owning
    BY <1>1, JobFields DEF Local, JobsOK, Jobs, Job, Owning
  <2> QED
    BY Zenon, <1>1, <2>1, <2>2, <2>3 DEF Stays, Moves
<1>4. CASE Go(t, "lift")
  <2>1. Local([job[t] EXCEPT !.pc = "lift"])
    BY <1>1, JobFields DEF Local, JobsOK, Jobs, Job, DropStripped, At
  <2>l. "lift" \in Labels
    BY DEF Labels
  <2> QED
    BY <2>l, <1>4, <1>1, <2>1, GoStays DEF Owning
<1>5. CASE Go(t, "open")
  <2>1. Local([job[t] EXCEPT !.pc = "open"])
    BY <1>1, JobFields DEF Local, JobsOK, Jobs, Job, DropStripped, At
  <2>l. "open" \in Labels
    BY DEF Labels
  <2> QED
    BY <2>l, <1>5, <1>1, <2>1, GoStays DEF Owning
<1> QED
  BY <1>3, <1>4, <1>5 DEF DropStripped

\* apply_granted_egress opens the grant's destinations.
LEMMA ApplyGrantedEgressOK ==
  ASSUME NEW t \in Tasks, TypeOK, ApplyGrantedEgress(t)
  PROVE  StateOK' /\ asked' = asked /\ Stays(t)
<1>1. JobsOK /\ job \in Jobs /\ StateOK /\ job[t].pc \notin Owning
  BY DEF TypeOK, JobsOK, Jobs, ApplyGrantedEgress, At, Owning
<1>2. StateOK' /\ asked' = asked
  <2>1. job[t].conn \in Connectors
    BY <1>1 DEF ApplyGrantedEgress, At, JobsOK, Local
  <2> QED
    BY <1>1, <2>1 DEF ApplyGrantedEgress, Publish, StateOK, entryVars, offerVars, signVars, windowVars
<1> SUFFICES Stays(t)
  BY <1>2
<1>3. CASE Go(t, "release")
  <2>1. Local([job[t] EXCEPT !.pc = "release"])
    BY <1>1, JobFields DEF Local, JobsOK, Jobs, Job, ApplyGrantedEgress, At
  <2>l. "release" \in Labels
    BY DEF Labels
  <2> QED
    BY <2>l, <1>3, <1>1, <2>1, GoStays DEF Owning
<1> QED
  BY <1>3 DEF ApplyGrantedEgress

\* release takes a card down.
LEMMA ReleaseCardOK ==
  ASSUME NEW t \in Tasks, TypeOK, ReleaseCard(t)
  PROVE  StateOK' /\ asked' = asked /\ Stays(t)
<1>1. JobsOK /\ job \in Jobs /\ StateOK /\ job[t].pc \notin Owning
  BY DEF TypeOK, JobsOK, Jobs, ReleaseCard, At, Owning
<1>2. StateOK' /\ asked' = asked
  <2>1. card' \in [Requests -> Card]
    BY ZenonT(30), <1>1, NothingType, FunctionUpdate DEF ReleaseCard, StateOK
  <2> QED
    BY <1>1, <2>1 DEF ReleaseCard, StateOK, entryVars, offerVars, signVars, windowVars
<1> SUFFICES Stays(t)
  BY <1>2
<1>3. CASE \E r \in job[t].held :
             job' = [job EXCEPT ![t].pc = "released", ![t].cur = r]
  <2> PICK r \in job[t].held :
             job' = [job EXCEPT ![t].pc = "released", ![t].cur = r]
    BY Zenon, <1>3
  <2> DEFINE j == [job[t] EXCEPT !.pc = "released", !.cur = r]
  <2>1. job' = [job EXCEPT ![t] = j]
    BY Zenon, <1>1 DEF Jobs, Job
  <2>l. "released" \in Labels
    BY DEF Labels
  <2>2. j \in Job
    BY Zenon, <2>l, <1>1, JobFields, RecordUpdates
  <2>3. Local(j) /\ j.pc \notin Owning
    BY <1>1, JobFields DEF Local, JobsOK, Jobs, Job, Owning
  <2> QED
    BY Zenon, <1>1, <2>1, <2>2, <2>3 DEF Stays, Moves
<1>4. CASE AfterGrant(t)
  <2>1. CASE Go(t, "kept")
    <3>1. Local([job[t] EXCEPT !.pc = "kept"])
      BY <1>1, JobFields DEF Local, JobsOK, Jobs, Job
    <3>l. "kept" \in Labels
      BY DEF Labels
    <3> QED
      BY <3>l, <2>1, <1>1, <3>1, GoStays DEF Owning
  <2>2. CASE Return(t)
    BY <2>2, <1>1, ReturnStays
  <2> QED
    BY <1>4, <2>1, <2>2 DEF AfterGrant
<1> QED
  BY <1>3, <1>4 DEF ReleaseCard

\* A handle, or a native ask, belongs to an open round.
LEMMA RoundFields ==
  ASSUME NEW x \in Round \cup {NoRound}
  PROVE  /\ x.handle \in Nat /\ x.native \in BOOLEAN
         /\ x.handle # 0 \/ x.native => x \in Round
<1>1. CASE x \in Round
  BY <1>1 DEF Round
<1>2. CASE x = NoRound
  BY <1>2 DEF NoRound
<1> QED
  BY <1>1, <1>2

\* Taking entries out of `pending` keeps the types.
LEMMA RemovePendingType ==
  ASSUME StateOK, NEW S \in SUBSET Requests, RemovePending(S)
  PROVE  /\ pending' \subseteq asked
         /\ expired' \subseteq pending' /\ due' \subseteq pending'
         /\ offer' \in [Requests -> Connectors \cup {Nobody}]
         /\ \A r \in Requests \ pending' : offer'[r] = Nobody
  BY DEF StateOK, RemovePending

\* So does answering a request.
LEMMA AnswerType ==
  ASSUME StateOK, NEW r \in Requests, NEW d \in Decisions, NEW late,
         Answer(r, d, late)
  PROVE  answers' \in [Requests -> Seq(Decisions)]
<1>1. CASE answers' = answers
  BY <1>1 DEF StateOK
<1>2. CASE Send(r, d)
  <2>1. Append(answers[r], d) \in Seq(Decisions)
    BY DEF StateOK
  <2> QED
    BY <1>2, <2>1, FunctionUpdate DEF Send, StateOK
<1> QED
  BY <1>1, <1>2 DEF Answer

\* Redrawing a card gives a card.
LEMMA DrawnType ==
  ASSUME NEW old, NEW new \in Card
  PROVE  Drawn(old, new) \in Card
<1> DEFINE b == old.up /\ old.waiting /\ old.seq = new.seq
<1>1. b \in BOOLEAN
  OBVIOUS
<1> HIDE DEF b
<1>2. [new EXCEPT !.waiting = b] \in Card
  BY <1>1 DEF Card
<1> QED
  BY <1>2 DEF Drawn, b

\* release answers a request that still waits, in the step that takes it.
LEMMA ReleaseRequestOK ==
  ASSUME NEW t \in Tasks, TypeOK, ReleaseRequest(t)
  PROVE  StateOK' /\ asked' = asked /\ Stays(t)
<1>1. JobsOK /\ job \in Jobs /\ StateOK /\ job[t].pc \notin Owning
  BY DEF TypeOK, JobsOK, Jobs, ReleaseRequest, At, Owning
<1>2. StateOK' /\ asked' = asked
  <2> DEFINE r == job[t].cur
  <2>1. CASE r \in pending
    <3>1. r \in Requests /\ "granted" \in Decisions
      BY <1>1, <2>1 DEF StateOK, Decisions
    <3>2. RemovePending({r}) /\ Answer(r, "granted", r \in expired)
      BY <2>1 DEF ReleaseRequest
    <3>3. /\ pending' \subseteq asked
          /\ expired' \subseteq pending' /\ due' \subseteq pending'
          /\ offer' \in [Requests -> Connectors \cup {Nobody}]
          /\ \A q \in Requests \ pending' : offer'[q] = Nobody
      BY <1>1, <3>1, <3>2, RemovePendingType
    <3>4. answers' \in [Requests -> Seq(Decisions)]
      BY <1>1, <3>1, <3>2, AnswerType
    <3> QED
      BY SMTT(30), <1>1, <3>3, <3>4 DEF ReleaseRequest, StateOK, entryVars, offerVars, signVars, windowVars
  <2>2. CASE r \notin pending
    BY <1>1, <2>2 DEF ReleaseRequest, StateOK, entryVars, offerVars, signVars, windowVars
  <2> QED
    BY <2>1, <2>2
<1> SUFFICES Stays(t)
  BY <1>2
<1>3. CASE job' = [job EXCEPT ![t].pc = "release", ![t].cur = Nobody,
                           ![t].held = @ \ {job[t].cur}]
  <2> DEFINE j == [job[t] EXCEPT !.pc = "release", !.cur = Nobody,
                              !.held = @ \ {job[t].cur}]
  <2>1. job' = [job EXCEPT ![t] = j]
    BY Zenon, <1>3, <1>1 DEF Jobs, Job
  <2>l. "release" \in Labels
    BY DEF Labels
  <2>2. j \in Job
    BY ZenonT(30), <2>l, <1>3, <1>1, NothingType, JobFields, RecordUpdates DEF StateOK
  <2>3. Local(j) /\ j.pc \notin Owning
    BY <1>3, <1>1, JobFields DEF Local, JobsOK, Jobs, Job, ReleaseRequest, At, Owning, StateOK
  <2> QED
    BY Zenon, <1>1, <2>1, <2>2, <2>3 DEF Stays, Moves
<1> QED
  BY <1>3 DEF ReleaseRequest

\* settle_round goes on to the card a refused grant kept.
LEMMA GrantKeptOK ==
  ASSUME NEW t \in Tasks, TypeOK, GrantKept(t)
  PROVE  StateOK' /\ asked' = asked /\ Stays(t)
<1>1. JobsOK /\ job \in Jobs /\ StateOK /\ job[t].pc \notin Owning
  BY DEF TypeOK, JobsOK, Jobs, GrantKept, At, Owning
<1>2. StateOK' /\ asked' = asked
  BY <1>1  DEF GrantKept, StateOK, entryVars, offerVars, signVars, windowVars
<1> SUFFICES Stays(t)
  BY <1>2
<1>3. CASE OfferOf(job[t].req) # Nobody
  <2> DEFINE j == [job[t] EXCEPT !.pc = "draw", !.held = {job[t].req}]
  <2>1. job' = [job EXCEPT ![t] = j]
    BY Zenon, <1>1, <1>3 DEF Jobs, Job, GrantKept
  <2>2. job[t].req \in Requests
    BY <1>1, <1>3 DEF OfferOf, StateOK
  <2>l. "draw" \in Labels
    BY DEF Labels
  <2>3. j \in Job
    BY ZenonT(30), <2>l, <1>1, <2>2, JobFields, RecordUpdates
  <2>4. Local(j) /\ j.pc \notin Owning
    BY <1>1, JobFields DEF Local, JobsOK, Jobs, Job, Owning
  <2> QED
    BY Zenon, <1>1, <2>1, <2>3, <2>4 DEF Stays, Moves
<1>4. CASE Return(t)
  BY <1>4, <1>1, ReturnStays
<1> QED
  BY <1>3, <1>4 DEF GrantKept

\* decline_offer asks the store.
LEMMA DeclineRecordOK ==
  ASSUME NEW t \in Tasks, TypeOK, DeclineRecord(t)
  PROVE  StateOK' /\ asked' = asked /\ Stays(t)
<1>1. JobsOK /\ job \in Jobs /\ StateOK /\ job[t].pc \notin Owning
  BY DEF TypeOK, JobsOK, Jobs, DeclineRecord, At, Owning
<1>2. StateOK' /\ asked' = asked
  BY Zenon, <1>1  DEF DeclineRecord, StateOK, entryVars, offerVars, signVars, windowVars
<1> SUFFICES Stays(t)
  BY <1>2
<1>3. CASE Go(t, "holders")
  <2>1. Local([job[t] EXCEPT !.pc = "holders"])
    BY <1>1, JobFields DEF Local, JobsOK, Jobs, Job, DeclineRecord, At
  <2>l. "holders" \in Labels
    BY DEF Labels
  <2> QED
    BY <2>l, <1>3, <1>1, <2>1, GoStays DEF Owning
<1>4. CASE Return(t)
  BY <1>4, <1>1, ReturnStays
<1> QED
  BY <1>3, <1>4 DEF DeclineRecord

\* decline_offer names the cards it will draw again.
LEMMA DeclineHoldersOK ==
  ASSUME NEW t \in Tasks, TypeOK, DeclineHolders(t)
  PROVE  StateOK' /\ asked' = asked /\ Stays(t)
<1>1. JobsOK /\ job \in Jobs /\ StateOK /\ job[t].pc \notin Owning
  BY DEF TypeOK, JobsOK, Jobs, DeclineHolders, At, Owning
<1>2. StateOK' /\ asked' = asked
  BY <1>1  DEF DeclineHolders, StateOK, entryVars, offerVars, signVars, windowVars
<1> SUFFICES Stays(t)
  BY <1>2
<1>3. CASE job' = [job EXCEPT ![t].pc = "unlist",
                           ![t].held = HeldFor(job[t].conn)]
  <2> DEFINE j == [job[t] EXCEPT !.pc = "unlist", !.held = HeldFor(job[t].conn)]
  <2>1. job' = [job EXCEPT ![t] = j]
    BY Zenon, <1>3, <1>1 DEF Jobs, Job
  <2>l. "unlist" \in Labels
    BY DEF Labels
  <2>2. j \in Job
    BY ZenonT(30), <2>l, <1>3, <1>1, NothingType, JobFields, RecordUpdates DEF StateOK, HeldFor
  <2>3. Local(j) /\ j.pc \notin Owning
    BY <1>3, <1>1, JobFields DEF Local, JobsOK, Jobs, Job, DeclineHolders, At, Owning, StateOK, HeldFor
  <2> QED
    BY Zenon, <1>1, <2>1, <2>2, <2>3 DEF Stays, Moves
<1> QED
  BY <1>3 DEF DeclineHolders

\* decline_offer sends the frame that lifts the hold.
LEMMA DeclinePublishOK ==
  ASSUME NEW t \in Tasks, TypeOK, DeclinePublish(t)
  PROVE  StateOK' /\ asked' = asked /\ Stays(t)
<1>1. JobsOK /\ job \in Jobs /\ StateOK /\ job[t].pc \notin Owning
  BY DEF TypeOK, JobsOK, Jobs, DeclinePublish, At, Owning
<1>2. StateOK' /\ asked' = asked
  BY <1>1  DEF DeclinePublish, StateOK, entryVars, offerVars, signVars, windowVars, Publish
<1> SUFFICES Stays(t)
  BY <1>2
<1>3. CASE Go(t, "draw")
  <2>1. Local([job[t] EXCEPT !.pc = "draw"])
    BY <1>1, JobFields DEF Local, JobsOK, Jobs, Job, DeclinePublish, At
  <2>l. "draw" \in Labels
    BY DEF Labels
  <2> QED
    BY <2>l, <1>3, <1>1, <2>1, GoStays DEF Owning
<1> QED
  BY <1>3 DEF DeclinePublish

\* represent reads the prompt.
LEMMA RepresentReadOK ==
  ASSUME NEW t \in Tasks, TypeOK, RepresentRead(t)
  PROVE  StateOK' /\ asked' = asked /\ Stays(t)
<1>1. JobsOK /\ job \in Jobs /\ StateOK /\ job[t].pc \notin Owning
  BY ZenonT(30) DEF TypeOK, JobsOK, Jobs, RepresentRead, At, Owning
<1>2. StateOK' /\ asked' = asked
  BY Zenon, <1>1  DEF RepresentRead, StateOK, entryVars, offerVars, signVars, windowVars
<1> SUFFICES Stays(t)
  BY <1>2
<1>3. CASE \E r \in job[t].held \cap pending :
             job' = [job EXCEPT ![t].pc = "show", ![t].cur = r,
                                ![t].shot = PromptOf(r)]
  <2> PICK r \in job[t].held \cap pending :
             job' = [job EXCEPT ![t].pc = "show", ![t].cur = r,
                                ![t].shot = PromptOf(r)]
    BY Zenon, <1>3
  <2> DEFINE j == [job[t] EXCEPT !.pc = "show", !.cur = r, !.shot = PromptOf(r)]
  <2>1. job' = [job EXCEPT ![t] = j]
    BY Zenon, <1>1 DEF Jobs, Job
  <2>2. PromptOf(r) \in Card
    <3> DEFINE asks == rounds[r].handle # 0
    <3>1. asks \in BOOLEAN
      OBVIOUS
    <3>2. rounds[r].native \in BOOLEAN
      BY <1>1, RoundFields DEF StateOK
    <3>3. offer[r] \in Connectors \cup {Nobody} /\ settled[r] \in Nat
      BY <1>1 DEF StateOK
    <3> HIDE DEF asks
    <3>4. [up |-> TRUE, offer |-> offer[r], ask |-> asks,
           native |-> rounds[r].native, seq |-> settled[r],
           waiting |-> FALSE] \in Card
      BY <3>1, <3>2, <3>3 DEF Card
    <3> QED
      BY <3>4 DEF PromptOf, asks
  <2>l. "show" \in Labels
    BY DEF Labels
  <2>3. j \in Job
    BY Zenon, <2>l, <1>1, <2>2, JobFields, RecordUpdates DEF StateOK
  <2>4. Local(j) /\ j.pc \notin Owning
    BY <1>1, JobFields DEF Local, JobsOK, Jobs, Job, Owning
  <2> QED
    BY Zenon, <1>1, <2>1, <2>3, <2>4 DEF Stays, Moves
<1>4. CASE \E r \in job[t].held : job' = [job EXCEPT ![t].held = @ \ {r}]
  <2> PICK r \in job[t].held : job' = [job EXCEPT ![t].held = @ \ {r}]
    BY Zenon, <1>4
  <2> DEFINE j == [job[t] EXCEPT !.held = @ \ {r}]
  <2>1. job' = [job EXCEPT ![t] = j]
    BY <1>1 DEF Jobs, Job
  <2>2. j \in Job
    BY Zenon, <1>1, NothingType, JobFields, RecordUpdates DEF StateOK
  <2>3. Local(j) /\ j.pc \notin Owning
    BY <1>1, JobFields DEF Local, JobsOK, Jobs, Job, Owning
  <2> QED
    BY Zenon, <1>1, <2>1, <2>2, <2>3 DEF Stays, Moves
<1>5. CASE Return(t)
  BY <1>5, <1>1, ReturnStays
<1> QED
  BY Zenon, <1>3, <1>4, <1>5 DEF RepresentRead

\* represent draws it.
LEMMA RepresentShowOK ==
  ASSUME NEW t \in Tasks, TypeOK, RepresentShow(t)
  PROVE  StateOK' /\ asked' = asked /\ Stays(t)
<1>1. JobsOK /\ job \in Jobs /\ StateOK /\ job[t].pc \notin Owning
  BY DEF TypeOK, JobsOK, Jobs, RepresentShow, At, Owning
<1>2. StateOK' /\ asked' = asked
  <2>1. Drawn(card[job[t].cur], job[t].shot) \in Card
    BY <1>1, JobFields, DrawnType
  <2>2. card' \in [Requests -> Card]
    BY <1>1, <2>1, FunctionUpdate DEF RepresentShow, StateOK
  <2> QED
    BY <1>1, <2>2 DEF RepresentShow, StateOK, entryVars, offerVars, signVars, windowVars
<1> SUFFICES Stays(t)
  BY <1>2
<1>3. CASE job' = [job EXCEPT ![t].pc = "draw", ![t].cur = Nobody,
                           ![t].shot = NoCard,
                           ![t].held = @ \ {job[t].cur}]
  <2> DEFINE j == [job[t] EXCEPT !.pc = "draw", !.cur = Nobody, !.shot = NoCard,
                              !.held = @ \ {job[t].cur}]
  <2>1. job' = [job EXCEPT ![t] = j]
    BY Zenon, <1>3, <1>1 DEF Jobs, Job
  <2>l. "draw" \in Labels
    BY DEF Labels
  <2>2. j \in Job
    BY ZenonT(30), <2>l, <1>3, <1>1, NothingType, JobFields, RecordUpdates DEF StateOK
  <2>3. Local(j) /\ j.pc \notin Owning
    BY SMTT(30), <1>3, <1>1, JobFields DEF Local, JobsOK, Jobs, Job, RepresentShow, At, Owning, StateOK
  <2> QED
    BY Zenon, <1>1, <2>1, <2>2, <2>3 DEF Stays, Moves
<1> QED
  BY <1>3 DEF RepresentShow

\* begin_connect opens a sign-in.
LEMMA BeginConnectOK ==
  ASSUME NEW t \in Tasks, TypeOK, BeginConnect(t)
  PROVE  StateOK' /\ asked' = asked /\ Stays(t)
<1>1. JobsOK /\ job \in Jobs /\ StateOK /\ job[t].pc \notin Owning
  BY DEF TypeOK, JobsOK, Jobs, BeginConnect, At, Owning
<1>2. StateOK' /\ asked' = asked
  BY <1>1  DEF BeginConnect, StateOK, entryVars, offerVars, signVars, windowVars, PortTurn
<1> SUFFICES Stays(t)
  BY <1>2
<1>3. CASE \E native \in BOOLEAN :
             job' = [job EXCEPT ![t].pc = "settle", ![t].result = "asks",
                        ![t].round = [handle |-> minted + 1,
                                      conn |-> job[t].conn,
                                      native |-> native]]
  <2> PICK native \in BOOLEAN :
             job' = [job EXCEPT ![t].pc = "settle", ![t].result = "asks",
                        ![t].round = [handle |-> minted + 1,
                                      conn |-> job[t].conn,
                                      native |-> native]]
    BY Zenon, <1>3
  <2> DEFINE o == [handle |-> minted + 1, conn |-> job[t].conn,
                   native |-> native]
             j == [job[t] EXCEPT !.pc = "settle", !.result = "asks", !.round = o]
  <2>1. job' = [job EXCEPT ![t] = j]
    BY Zenon, <1>1 DEF Jobs, Job
  <2>2. o \in Round /\ job[t].req \in Requests /\ job[t].conn \in Connectors
    BY <1>1 DEF BeginConnect, At, JobsOK, Local, Round, StateOK
  <2> HIDE DEF o
  <2>l. "settle" \in Labels
    BY DEF Labels
  <2>3. j \in Job
    BY Zenon, <2>l, <1>1, <2>2, JobFields, RecordUpdates DEF Results
  <2>4. Local(j) /\ j.pc \notin Owning
    BY <1>1, <2>2, JobFields DEF Local, Jobs, Job, Owning
  <2> QED
    BY Zenon, <1>1, <2>1, <2>3, <2>4 DEF Stays, Moves
<1>4. CASE \E res \in {"connected", "failed"} :
             job' = [job EXCEPT ![t].pc = "settle", ![t].result = res,
                                ![t].round = NoRound]
  <2> PICK res \in {"connected", "failed"} :
             job' = [job EXCEPT ![t].pc = "settle", ![t].result = res,
                                ![t].round = NoRound]
    BY Zenon, <1>4
  <2> DEFINE j == [job[t] EXCEPT !.pc = "settle", !.result = res,
                                 !.round = NoRound]
  <2>1. job' = [job EXCEPT ![t] = j]
    BY Zenon, <1>1 DEF Jobs, Job
  <2>2. job[t].req \in Requests /\ job[t].conn \in Connectors
    BY <1>1 DEF BeginConnect, At, JobsOK, Local
  <2>l. "settle" \in Labels
    BY DEF Labels
  <2>3. j \in Job
    BY Zenon, <2>l, <1>1, JobFields, RecordUpdates DEF Results
  <2>4. Local(j) /\ j.pc \notin Owning
    BY <1>1, <2>2, JobFields DEF Local, Jobs, Job, Owning
  <2> QED
    BY Zenon, <1>1, <2>1, <2>3, <2>4 DEF Stays, Moves
<1> QED
  BY SMTT(30), <1>3, <1>4 DEF BeginConnect, PortTurn

\* answer_connect hands the port the user's answer.
LEMMA AnswerConnectTurnOK ==
  ASSUME NEW t \in Tasks, TypeOK, AnswerConnectTurn(t)
  PROVE  StateOK' /\ asked' = asked /\ Stays(t)
<1>1. JobsOK /\ job \in Jobs /\ StateOK /\ job[t].pc \notin Owning
  BY DEF TypeOK, JobsOK, Jobs, AnswerConnectTurn, At, Owning
<1>2. StateOK' /\ asked' = asked
  BY <1>1  DEF AnswerConnectTurn, StateOK, entryVars, offerVars, signVars, windowVars
<1> SUFFICES Stays(t)
  BY <1>2
<1>3. CASE \E res \in {"asks", "connected", "failed"} :
             job' = [job EXCEPT ![t].pc = "settle", ![t].result = res]
  <2> PICK res \in {"asks", "connected", "failed"} :
             job' = [job EXCEPT ![t].pc = "settle", ![t].result = res]
    BY Zenon, <1>3
  <2> DEFINE j == [job[t] EXCEPT !.pc = "settle", !.result = res]
  <2>1. job' = [job EXCEPT ![t] = j]
    BY Zenon, <1>1 DEF Jobs, Job
  <2>2. /\ job[t].req \in Requests /\ job[t].conn \in Connectors
        /\ job[t].round \in Round
    BY <1>1 DEF AnswerConnectTurn, At, JobsOK, Local
  <2>l. "settle" \in Labels
    BY DEF Labels
  <2>3. j \in Job
    BY Zenon, <2>l, <1>1, JobFields, RecordUpdates DEF Results
  <2>4. Local(j) /\ j.pc \notin Owning
    BY <1>1, <2>2, JobFields DEF Local, Jobs, Job, Owning
  <2> QED
    BY Zenon, <1>1, <2>1, <2>3, <2>4 DEF Stays, Moves
<1>4. CASE job' = [job EXCEPT ![t].pc = "settle", ![t].result = "asks",
                           ![t].round = [job[t].round EXCEPT
                                           !.handle = minted + 1]]
  <2> DEFINE o == [job[t].round EXCEPT !.handle = minted + 1]
             j == [job[t] EXCEPT !.pc = "settle", !.result = "asks", !.round = o]
  <2>1. job' = [job EXCEPT ![t] = j]
    BY Zenon, <1>1, <1>4 DEF Jobs, Job
  <2>2. /\ job[t].req \in Requests /\ job[t].conn \in Connectors
        /\ job[t].round \in Round
    BY <1>1 DEF AnswerConnectTurn, At, JobsOK, Local
  <2>3. o \in Round
    <3>1. minted + 1 \in Nat \ {0}
      BY <1>1 DEF StateOK
    <3> QED
      BY <2>2, <3>1 DEF Round
  <2> HIDE DEF o
  <2>l. "settle" \in Labels
    BY DEF Labels
  <2>4. j \in Job
    BY Zenon, <2>l, <1>1, <2>3, JobFields, RecordUpdates DEF Results
  <2>5. Local(j) /\ j.pc \notin Owning
    BY <1>1, <2>2, <2>3, JobFields DEF Local, Jobs, Job, Owning
  <2> QED
    BY Zenon, <1>1, <2>1, <2>4, <2>5 DEF Stays, Moves
<1> QED
  BY <1>3, <1>4 DEF AnswerConnectTurn

\* settle_round counts the turn and chooses what follows.
LEMMA SettleRoundOK ==
  ASSUME NEW t \in Tasks, TypeOK, SettleRound(t)
  PROVE  StateOK' /\ asked' = asked /\ Stays(t)
<1>1. JobsOK /\ job \in Jobs /\ StateOK /\ job[t].pc \notin Owning
  BY DEF TypeOK, JobsOK, Jobs, SettleRound, At, Owning
<1>2. StateOK' /\ asked' = asked
  <2>1. settled' \in [Requests -> Nat]
    <3>1. job[t].req \in Requests
      BY <1>1 DEF SettleRound, At, JobsOK, Local
    <3>2. settled[job[t].req] + 1 \in Nat
      BY <1>1, <3>1 DEF StateOK
    <3> QED
      BY <1>1, <3>2, FunctionUpdate DEF SettleRound, StateOK
  <2>2. live' \subseteq live
    BY <1>1 DEF SettleRound
  <2> QED
    BY <1>1, <2>1, <2>2 DEF SettleRound, StateOK, entryVars, offerVars, signVars, windowVars
<1> SUFFICES Stays(t)
  BY <1>2
<1>3. CASE Go(t, "hold") /\ job[t].result = "asks"
  <2>1. /\ job[t].req \in Requests /\ job[t].conn \in Connectors
        /\ job[t].round \in Round
    BY <1>1, <1>3 DEF SettleRound, At, JobsOK, Local
  <2>2. Local([job[t] EXCEPT !.pc = "hold"])
    BY <1>1, <2>1, JobFields DEF Local, Jobs, Job
  <2>l. "hold" \in Labels
    BY DEF Labels
  <2> QED
    BY <2>l, <1>3, <1>1, <2>2, GoStays DEF Owning
<1>4. CASE job' = [job EXCEPT ![t].pc = "resolve", ![t].signing = TRUE]
  <2> DEFINE j == [job[t] EXCEPT !.pc = "resolve", !.signing = TRUE]
  <2>1. job' = [job EXCEPT ![t] = j]
    BY Zenon, <1>1, <1>4 DEF Jobs, Job
  <2>2. job[t].conn \in Connectors
    BY <1>1 DEF SettleRound, At, JobsOK, Local
  <2>l. "resolve" \in Labels
    BY DEF Labels
  <2>3. j \in Job
    BY Zenon, <2>l, <1>1, JobFields, RecordUpdates
  <2>4. Local(j) /\ j.pc \notin Owning
    BY <1>1, <2>2, JobFields DEF Local, Jobs, Job, Owning
  <2> QED
    BY Zenon, <1>1, <2>1, <2>3, <2>4 DEF Stays, Moves
<1>5. CASE job' = [job EXCEPT ![t].pc = "draw", ![t].held = {job[t].req}]
  <2> DEFINE j == [job[t] EXCEPT !.pc = "draw", !.held = {job[t].req}]
  <2>1. job' = [job EXCEPT ![t] = j]
    BY Zenon, <1>1, <1>5 DEF Jobs, Job
  <2>2. job[t].req \in Requests
    BY <1>1 DEF SettleRound, At, JobsOK, Local
  <2>l. "draw" \in Labels
    BY DEF Labels
  <2>3. j \in Job
    BY Zenon, <2>l, <1>1, <2>2, JobFields, RecordUpdates
  <2>4. Local(j) /\ j.pc \notin Owning
    BY <1>1, JobFields DEF Local, Jobs, Job, Owning
  <2> QED
    BY Zenon, <1>1, <2>1, <2>3, <2>4 DEF Stays, Moves
<1>6. CASE Return(t)
  BY <1>6, <1>1, ReturnStays
<1> QED
  BY <1>3, <1>4, <1>5, <1>6 DEF SettleRound

\* hold_round keeps the round for the card.
LEMMA HoldRoundOK ==
  ASSUME NEW t \in Tasks, TypeOK, HoldRound(t)
  PROVE  StateOK' /\ asked' = asked /\ Stays(t)
<1>1. JobsOK /\ job \in Jobs /\ StateOK /\ job[t].pc \notin Owning
  BY DEF TypeOK, JobsOK, Jobs, HoldRound, At, Owning
<1>2. StateOK' /\ asked' = asked
  BY ZenonT(30), <1>1, FunctionUpdate, JobFields DEF HoldRound, StateOK, entryVars, offerVars, signVars, windowVars
<1> SUFFICES Stays(t)
  BY <1>2
<1>3. CASE job' = [job EXCEPT ![t].pc = "draw", ![t].held = {job[t].req}]
  <2> DEFINE j == [job[t] EXCEPT !.pc = "draw", !.held = {job[t].req}]
  <2>1. job' = [job EXCEPT ![t] = j]
    BY Zenon, <1>1, <1>3 DEF Jobs, Job
  <2>2. job[t].req \in Requests
    BY <1>1 DEF HoldRound, At, JobsOK, Local
  <2>l. "draw" \in Labels
    BY DEF Labels
  <2>3. j \in Job
    BY Zenon, <2>l, <1>1, <2>2, JobFields, RecordUpdates
  <2>4. Local(j) /\ j.pc \notin Owning
    BY <1>1, JobFields DEF Local, Jobs, Job, Owning
  <2> QED
    BY Zenon, <1>1, <2>1, <2>3, <2>4 DEF Stays, Moves
<1> QED
  BY <1>3 DEF HoldRound
-----------------------------------------------------------------------------
(* The actions of one task each *)

\* The locals an operation starts with.
LEMMA StartedType ==
  ASSUME NEW l \in Labels, NEW b \in Buttons \cup {"none"},
         NEW r \in Requests \cup {Nobody},
         NEW c \in Connectors \cup {Nobody}
  PROVE  /\ Started(l, b, r, c) \in Job
         /\ Started(l, b, r, c).pc = l /\ Started(l, b, r, c).op = b
         /\ Started(l, b, r, c).req = r /\ Started(l, b, r, c).conn = c
<1>1. Started(l, b, r, c) \in Job
  BY Zenon, NothingType, RecordUpdates DEF Started
<1> QED
  BY <1>1 DEF Started, IdleJob

\* A queued press is a button and a request.
LEMMA QueueType ==
  ASSUME StateOK, queue # <<>>
  PROVE  /\ Head(queue).act \in Buttons /\ Head(queue).req \in Requests
         /\ Tail(queue) \in Seq([act : Buttons, req : Requests])
<1> DEFINE Press0 == [act : Buttons, req : Requests]
<1>1. queue \in Seq(Press0)
  BY DEF StateOK
<1> HIDE DEF Press0
<1>2. Head(queue) \in Press0 /\ Tail(queue) \in Seq(Press0)
  BY <1>1
<1> QED
  BY <1>2 DEF Press0

\* offer_for finds the one connector that serves the request.
LEMMA OfferForOK ==
  ASSUME TypeOK, OfferFor
  PROVE  StateOK' /\ asked' = asked /\ Stays("reader")
<1>1. /\ JobsOK /\ job \in Jobs /\ StateOK
      /\ "reader" \in Tasks /\ job["reader"].pc \notin Owning
  BY DEF TypeOK, JobsOK, Jobs, OfferFor, At, Owning
<1>2. StateOK' /\ asked' = asked
  BY <1>1  DEF OfferFor, StateOK, entryVars, offerVars, signVars, windowVars
<1> SUFFICES Stays("reader")
  BY <1>2
<1>3. CASE Go("reader", "first")
  <2>1. Local([job["reader"] EXCEPT !.pc = "first"])
    BY <1>1, JobFields DEF Local, JobsOK, Jobs, Job, OfferFor, At
  <2>l. "first" \in Labels
    BY DEF Labels
  <2> QED
    BY <2>l, <1>3, <1>1, <2>1, GoStays DEF Owning
<1>4. CASE \E c \in Connectors :
             job' = [job EXCEPT !["reader"].pc = "attach",
                                !["reader"].conn = c]
  <2> PICK c \in Connectors :
             job' = [job EXCEPT !["reader"].pc = "attach",
                                !["reader"].conn = c]
    BY Zenon, <1>4
  <2> DEFINE j == [job["reader"] EXCEPT !.pc = "attach", !.conn = c]
  <2>0. job["reader"].req \in Requests
    BY Zenon, <1>1 DEF OfferFor, At, JobsOK, Local
  <2>1. job' = [job EXCEPT !["reader"] = j]
    BY Zenon, <1>1 DEF Jobs, Job
  <2>l. "attach" \in Labels
    BY DEF Labels
  <2>2. j \in Job
    BY ZenonT(30), <2>l, <1>1, <2>0, NothingType, JobFields, RecordUpdates
       DEF Buttons, Results, StateOK
  <2>3. Local(j) /\ j.pc \notin Owning
    BY <1>1, <2>0, NothingType, JobFields
       DEF Local, JobsOK, Jobs, Job, IdleJob, Owning
  <2> QED
    BY Zenon, <1>1, <2>1, <2>2, <2>3 DEF Stays, Moves
<1> QED
  BY Zenon, <1>1, <1>3, <1>4, ServesAssumption DEF OfferFor, StateOK

\* submit_pending attaches the offer to the entry, if it is still there.
LEMMA AttachOfferOK ==
  ASSUME TypeOK, AttachOffer
  PROVE  StateOK' /\ asked' = asked /\ Stays("reader")
<1>1. /\ JobsOK /\ job \in Jobs /\ StateOK
      /\ "reader" \in Tasks /\ job["reader"].pc \notin Owning
  BY DEF TypeOK, JobsOK, Jobs, AttachOffer, At, Owning
<1>2. StateOK' /\ asked' = asked
  BY <1>1, JobFields DEF AttachOffer, StateOK, entryVars, offerVars, signVars, windowVars
<1> SUFFICES Stays("reader")
  BY <1>2
<1>3. CASE Go("reader", "first")
  <2>1. Local([job["reader"] EXCEPT !.pc = "first"])
    BY <1>1, JobFields DEF Local, JobsOK, Jobs, Job, AttachOffer, At
  <2>l. "first" \in Labels
    BY DEF Labels
  <2> QED
    BY <2>l, <1>3, <1>1, <2>1, GoStays DEF Owning
<1> QED
  BY <1>3 DEF AttachOffer

\* submit_pending shows the card.
LEMMA PresentFirstOK ==
  ASSUME TypeOK, PresentFirst
  PROVE  StateOK' /\ asked' = asked /\ Stays("reader")
<1>1. /\ JobsOK /\ job \in Jobs /\ StateOK
      /\ "reader" \in Tasks /\ job["reader"].pc \notin Owning
  BY DEF TypeOK, JobsOK, Jobs, PresentFirst, At, Owning
<1>2. StateOK' /\ asked' = asked
  <2> DEFINE r == job["reader"].req
             new == [up |-> TRUE, offer |-> job["reader"].conn, ask |-> FALSE,
                     native |-> FALSE, seq |-> settled[r], waiting |-> FALSE]
  <2>1. r \in Requests
    BY <1>1 DEF PresentFirst, At, JobsOK, Local
  <2>2. new \in Card
    BY SMTT(30), <1>1, <2>1, JobFields DEF StateOK, Card
  <2> HIDE DEF new
  <2>3. Drawn(card[r], new) \in Card
    BY <2>2, DrawnType
  <2>4. card' = [card EXCEPT ![r] = Drawn(card[r], new)]
    BY DEF PresentFirst, new
  <2>5. card' \in [Requests -> Card]
    BY <1>1, <2>3, <2>4, FunctionUpdate DEF StateOK
  <2> QED
    BY SMTT(30), <1>1, <2>5 DEF PresentFirst, StateOK, entryVars, offerVars, signVars, windowVars
<1> SUFFICES Stays("reader")
  BY <1>2
<1>3. CASE Return("reader")
  BY <1>3, <1>1, ReturnStays
<1> QED
  BY <1>3 DEF PresentFirst

\* grant_offer, decline_offer and begin_connect read the card's offer.
LEMMA OnOfferOK ==
  ASSUME TypeOK, OnOffer
  PROVE  StateOK' /\ asked' = asked /\ (UNCHANGED job \/ Stays("cards"))
<1>1. /\ JobsOK /\ job \in Jobs /\ StateOK
      /\ "cards" \in Tasks /\ job["cards"].pc \notin Owning
  BY DEF TypeOK, JobsOK, Jobs, OnOffer, At, Owning, Take, Delivered
<1>2. StateOK' /\ asked' = asked
  BY SMTT(30), <1>1  DEF OnOffer, StateOK, entryVars, offerVars, signVars, windowVars, Take
<1> SUFFICES (UNCHANGED job \/ Stays("cards"))
  BY <1>2
<1>3. CASE UNCHANGED job
  BY <1>3
<1>4. CASE /\ OfferOf(Head(queue).req) # Nobody
            /\ job' = [job EXCEPT !["cards"] =
                          Started("abandon", Head(queue).act, Head(queue).req,
                                  OfferOf(Head(queue).req))]
  <2> DEFINE j == Started("abandon", Head(queue).act, Head(queue).req,
                          OfferOf(Head(queue).req))
  <2>1. /\ Head(queue).act \in Buttons /\ Head(queue).req \in Requests
        /\ OfferOf(Head(queue).req) \in Connectors
    BY SMTT(30), <1>4, <1>1, QueueType DEF OnOffer, Take, StateOK, OfferOf
  <2>2. "abandon" \in Labels
    BY DEF Labels
  <2>3. /\ j \in Job /\ j.pc = "abandon"
        /\ j.req \in Requests /\ j.conn \in Connectors
    BY <2>1, <2>2, StartedType
  <2> HIDE DEF j
  <2>4. Local(j) /\ j.pc \notin Owning
    BY <2>3 DEF Local, Owning
  <2> QED
    BY ZenonT(30), <1>4, <1>1, <2>3, <2>4 DEF Stays, Moves, j
<1> QED
  BY <1>3, <1>4 DEF OnOffer, Take, Delivered

\* They abandon the round the card had open.
LEMMA OnOfferAbandonOK ==
  ASSUME TypeOK, OnOfferAbandon
  PROVE  StateOK' /\ asked' = asked /\ Stays("cards")
<1>1. /\ JobsOK /\ job \in Jobs /\ StateOK
      /\ "cards" \in Tasks /\ job["cards"].pc \notin Owning
  BY DEF TypeOK, JobsOK, Jobs, OnOfferAbandon, At, Owning
<1>2. StateOK' /\ asked' = asked
  BY Zenon, <1>1, FunctionUpdate DEF OnOfferAbandon, StateOK, entryVars, offerVars, signVars, windowVars, AbandonRound
<1> SUFFICES Stays("cards")
  BY <1>2
<1>3. CASE Go("cards", "resolve")
  <2>1. Local([job["cards"] EXCEPT !.pc = "resolve"])
    BY <1>1, JobFields DEF Local, JobsOK, Jobs, Job, OnOfferAbandon, At
  <2>l. "resolve" \in Labels
    BY DEF Labels
  <2> QED
    BY <2>l, <1>3, <1>1, <2>1, GoStays DEF Owning
<1>4. CASE Go("cards", "decline")
  <2>1. Local([job["cards"] EXCEPT !.pc = "decline"])
    BY <1>1, JobFields DEF Local, JobsOK, Jobs, Job, OnOfferAbandon, At
  <2>l. "decline" \in Labels
    BY DEF Labels
  <2> QED
    BY <2>l, <1>4, <1>1, <2>1, GoStays DEF Owning
<1>5. CASE Go("cards", "begin")
  <2>1. Local([job["cards"] EXCEPT !.pc = "begin"])
    BY <1>1, JobFields DEF Local, JobsOK, Jobs, Job, OnOfferAbandon, At
  <2>l. "begin" \in Labels
    BY DEF Labels
  <2> QED
    BY <2>l, <1>5, <1>1, <2>1, GoStays DEF Owning
<1> QED
  BY <1>3, <1>4, <1>5 DEF OnOfferAbandon

\* answer_connect takes the card's round.
LEMMA AnswerConnectOK ==
  ASSUME TypeOK, AnswerConnect
  PROVE  StateOK' /\ asked' = asked /\ (UNCHANGED job \/ Stays("cards"))
<1>1. /\ JobsOK /\ job \in Jobs /\ StateOK
      /\ "cards" \in Tasks /\ job["cards"].pc \notin Owning
  BY DEF TypeOK, JobsOK, Jobs, AnswerConnect, At, Owning, Take, Delivered
<1>2. StateOK' /\ asked' = asked
  <2>1. Head(queue).req \in Requests /\ queue' \in Seq([act : Buttons, req : Requests])
    BY SMTT(30), <1>1, QueueType DEF AnswerConnect, Take, StateOK
  <2>2. rounds' \in [Requests -> Round \cup {NoRound}]
    BY Zenon, <1>1, FunctionUpdate DEF AnswerConnect, StateOK
  <2>3. settled[Head(queue).req] + 1 \in Nat
    BY <1>1, <2>1 DEF StateOK
  <2>4. settled' \in [Requests -> Nat]
    BY ZenonT(30), <1>1, <2>3, FunctionUpdate DEF AnswerConnect, Delivered, StateOK
  <2> QED
    BY SMTT(30), <1>1, <2>1, <2>2, <2>4 DEF AnswerConnect, StateOK, entryVars, offerVars, signVars, windowVars
<1> SUFFICES (UNCHANGED job \/ Stays("cards"))
  BY <1>2
<1>3. CASE UNCHANGED job
  BY <1>3
<1>4. CASE /\ rounds[Head(queue).req].handle # 0
            /\ job' = [job EXCEPT !["cards"] =
                  [Started("reply", "answer", Head(queue).req,
                           rounds[Head(queue).req].conn) EXCEPT
                     !.round = rounds[Head(queue).req]]]
  <2> DEFINE r == Head(queue).req
             i == Started("reply", "answer", r, rounds[r].conn)
             j == [i EXCEPT !.round = rounds[r]]
  <2>1. r \in Requests
    BY <1>1, QueueType DEF AnswerConnect, Take
  <2>2. rounds[r] \in Round
    BY <1>4, <1>1, <2>1, RoundFields DEF StateOK
  <2>3. rounds[r].conn \in Connectors
    BY <2>2 DEF Round
  <2>4. "reply" \in Labels /\ "answer" \in Buttons
    BY DEF Labels, Buttons
  <2>5. /\ i \in Job /\ i.pc = "reply"
        /\ i.req \in Requests /\ i.conn \in Connectors
    BY <2>1, <2>3, <2>4, StartedType
  <2> HIDE DEF i
  <2>l. "begin" \in Labels
    BY DEF Labels
  <2>6. j \in Job
    BY <2>l, <2>2, <2>5, RecordUpdates
  <2>7. Local(j) /\ j.pc \notin Owning
    BY <2>2, <2>5 DEF Local, Owning, Job
  <2> QED
    BY Zenon, <1>4, <1>1, <2>6, <2>7 DEF Stays, Moves, i
<1>5. CASE job' = [job EXCEPT !["cards"] = [IdleJob EXCEPT
                        !.pc = "draw", !.held = {Head(queue).req}]]
  <2> DEFINE j == [IdleJob EXCEPT !.pc = "draw", !.held = {Head(queue).req}]
  <2>0. {Head(queue).req} \in SUBSET Requests
    <3>1. Head(queue).req \in Requests
      BY <1>1, QueueType DEF AnswerConnect, Take
    <3> QED
      BY <3>1
  <2>1. job' = [job EXCEPT !["cards"] = j]
    BY <1>5, <1>1 DEF Jobs, Job
  <2>l. "draw" \in Labels
    BY DEF Labels
  <2>2. j \in Job
    BY ZenonT(30), <2>l, <1>5, <1>1, <2>0, NothingType, JobFields, RecordUpdates
       DEF Buttons, Results, StateOK
  <2>3. Local(j) /\ j.pc \notin Owning
    BY <1>5, <1>1, <2>0, NothingType, JobFields
       DEF Local, JobsOK, Jobs, Job, IdleJob, AnswerConnect, Take, Delivered, At, Owning, StateOK
  <2> QED
    BY Zenon, <1>1, <2>1, <2>2, <2>3 DEF Stays, Moves
<1> QED
  BY <1>3, <1>4, <1>5 DEF AnswerConnect, Take, Delivered

\* poll_native_rounds lists the native rounds.
LEMMA TickStartOK ==
  ASSUME TypeOK, TickStart
  PROVE  StateOK' /\ asked' = asked /\ Stays("tick")
<1>1. /\ JobsOK /\ job \in Jobs /\ StateOK
      /\ "tick" \in Tasks /\ job["tick"].pc \notin Owning
  BY DEF TypeOK, JobsOK, Jobs, TickStart, At, Owning
<1>2. StateOK' /\ asked' = asked
  BY <1>1  DEF TickStart, StateOK, entryVars, offerVars, signVars, windowVars
<1> SUFFICES Stays("tick")
  BY <1>2
<1>3. CASE job' = [job EXCEPT !["tick"].pc = "poll",
                 !["tick"].polls = {<<r, rounds[r]>> :
                                      r \in {q \in Requests : rounds[q].native}}]
  <2> DEFINE j == [job["tick"] EXCEPT !.pc = "poll",
                    !.polls = {<<r, rounds[r]>> :
                                 r \in {q \in Requests : rounds[q].native}}]
  <2>0. {<<r, rounds[r]>> : r \in {q \in Requests : rounds[q].native}}
          \in SUBSET (Requests \X Round)
    BY <1>1, RoundFields DEF StateOK
  <2>1. job' = [job EXCEPT !["tick"] = j]
    BY Zenon, <1>3, <1>1 DEF Jobs, Job
  <2>l. "poll" \in Labels
    BY DEF Labels
  <2>2. j \in Job
    BY ZenonT(30), <2>l, <1>3, <1>1, <2>0, NothingType, JobFields, RecordUpdates
       DEF Buttons, Results, StateOK
  <2>3. Local(j) /\ j.pc \notin Owning
    BY <1>3, <1>1, <2>0, NothingType, JobFields
       DEF Local, JobsOK, Jobs, Job, IdleJob, TickStart, At, Owning, StateOK
  <2> QED
    BY Zenon, <1>1, <2>1, <2>2, <2>3 DEF Stays, Moves
<1> QED
  BY <1>3 DEF TickStart

\* poll_native_rounds polls one of them.
LEMMA PollConnectOK ==
  ASSUME TypeOK, PollConnect
  PROVE  StateOK' /\ asked' = asked /\ Stays("tick")
<1>1. /\ JobsOK /\ job \in Jobs /\ StateOK
      /\ "tick" \in Tasks /\ job["tick"].pc \notin Owning
  BY ZenonT(30) DEF TypeOK, JobsOK, Jobs, PollConnect, At, Owning
<1>2. StateOK' /\ asked' = asked
  <2>1. live' \subseteq live
    BY ZenonT(30) DEF PollConnect
  <2>2. turns' = turns \/ turns' = turns + 1
    BY Zenon DEF PollConnect
  <2>3. turns' \in Nat
    BY <1>1, <2>2 DEF StateOK
  <2> QED
    BY ZenonT(30), <1>1, <2>1, <2>3 DEF PollConnect, StateOK, entryVars, offerVars, signVars, windowVars
<1> SUFFICES Stays("tick")
  BY <1>2
<1>3. CASE Go("tick", "supply")
  <2>1. Local([job["tick"] EXCEPT !.pc = "supply"])
    BY <1>1, JobFields DEF Local, JobsOK, Jobs, Job
  <2>l. "supply" \in Labels
    BY DEF Labels
  <2> QED
    BY <2>l, <1>3, <1>1, <2>1, GoStays DEF Owning
<1>4. CASE Go("tick", "sweep")
  <2>1. Local([job["tick"] EXCEPT !.pc = "sweep"])
    BY <1>1, JobFields DEF Local, JobsOK, Jobs, Job
  <2>l. "sweep" \in Labels
    BY DEF Labels
  <2> QED
    BY <2>l, <1>4, <1>1, <2>1, GoStays DEF Owning
<1>5. CASE \E p \in job["tick"].polls :
             job' = [job EXCEPT !["tick"].polls = @ \ {p}]
  <2> PICK p \in job["tick"].polls :
             job' = [job EXCEPT !["tick"].polls = @ \ {p}]
    BY Zenon, <1>5
  <2> DEFINE j == [job["tick"] EXCEPT !.polls = @ \ {p}]
  <2>1. job' = [job EXCEPT !["tick"] = j]
    BY <1>1 DEF Jobs, Job
  <2>2. j \in Job
    BY Zenon, <1>1, NothingType, JobFields, RecordUpdates
       DEF Buttons, Results, StateOK
  <2>3. Local(j) /\ j.pc \notin Owning
    BY ZenonT(30), <1>1, NothingType, JobFields
       DEF Local, JobsOK, Jobs, Job, IdleJob, PollConnect, At, Owning
  <2> QED
    BY Zenon, <1>1, <2>1, <2>2, <2>3 DEF Stays, Moves
<1>6. CASE \E p \in job["tick"].polls, res \in Results :
             job' = [job EXCEPT !["tick"] =
                       [Started("polled", "none", p[1], p[2].conn) EXCEPT
                          !.round = p[2], !.result = res,
                          !.polls = job["tick"].polls \ {p}]]
  <2> PICK p \in job["tick"].polls, res \in Results :
             job' = [job EXCEPT !["tick"] =
                       [Started("polled", "none", p[1], p[2].conn) EXCEPT
                          !.round = p[2], !.result = res,
                          !.polls = job["tick"].polls \ {p}]]
    BY Zenon, <1>6
  <2> DEFINE i == Started("polled", "none", p[1], p[2].conn)
             j == [i EXCEPT !.round = p[2], !.result = res,
                            !.polls = job["tick"].polls \ {p}]
  <2>1. p \in Requests \X Round
    BY <1>1, JobFields
  <2>2. p[1] \in Requests /\ p[2] \in Round /\ p[2].conn \in Connectors
    BY <2>1 DEF Round
  <2>3. "polled" \in Labels
    BY DEF Labels
  <2>4. /\ i \in Job /\ i.pc = "polled"
        /\ i.req \in Requests /\ i.conn \in Connectors
    BY <2>2, <2>3, StartedType
  <2>5. job' = [job EXCEPT !["tick"] = j]
    OBVIOUS
  <2> HIDE DEF i
  <2>6. job["tick"].polls \ {p} \in SUBSET (Requests \X Round)
    BY <1>1, JobFields
  <2>7. j \in Job
    BY Zenon, <2>2, <2>4, <2>6, RecordUpdates
  <2>8. Local(j) /\ j.pc \notin Owning
    BY <2>2, <2>4 DEF Local, Owning, Job
  <2> QED
    BY Zenon, <1>1, <2>5, <2>7, <2>8 DEF Stays, Moves
<1> QED
  BY ZenonT(30), <1>3, <1>4, <1>5, <1>6 DEF PollConnect, Results

\* poll_native_rounds takes the round it polled.
LEMMA PollTakeOK ==
  ASSUME TypeOK, PollTake
  PROVE  StateOK' /\ asked' = asked /\ Stays("tick")
<1>1. /\ JobsOK /\ job \in Jobs /\ StateOK
      /\ "tick" \in Tasks /\ job["tick"].pc \notin Owning
  BY DEF TypeOK, JobsOK, Jobs, PollTake, At, Owning
<1>2. StateOK' /\ asked' = asked
  BY Zenon, <1>1, FunctionUpdate DEF PollTake, StateOK, entryVars, offerVars, signVars, windowVars
<1> SUFFICES Stays("tick")
  BY <1>2
<1>3. CASE Go("tick", "settle")
  <2>1. /\ job["tick"].req \in Requests /\ job["tick"].conn \in Connectors
        /\ job["tick"].round \in Round
    BY <1>1 DEF PollTake, At, JobsOK, Local
  <2>2. Local([job["tick"] EXCEPT !.pc = "settle"])
    BY <1>1, <2>1, JobFields DEF Local, Jobs, Job
  <2>l. "settle" \in Labels
    BY DEF Labels
  <2> QED
    BY SMTT(30), <2>l, <1>3, <1>1, <2>2, GoStays DEF Owning
<1>4. CASE Return("tick")
  BY <1>4, <1>1, ReturnStays
<1> QED
  BY <1>3, <1>4 DEF PollTake

\* refresh_connector_supply reads the store's grants.
LEMMA ReadSupplyOK ==
  ASSUME TypeOK, ReadSupply
  PROVE  StateOK' /\ asked' = asked /\ Stays("tick")
<1>1. /\ JobsOK /\ job \in Jobs /\ StateOK
      /\ "tick" \in Tasks /\ job["tick"].pc \notin Owning
  BY DEF TypeOK, JobsOK, Jobs, ReadSupply, At, Owning
<1>2. StateOK' /\ asked' = asked
  BY <1>1  DEF ReadSupply, StateOK, entryVars, offerVars, signVars, windowVars
<1> SUFFICES Stays("tick")
  BY <1>2
<1>3. CASE job' = [job EXCEPT !["tick"].pc = "supplied",
                 !["tick"].seen = {c \in Connectors : decided[c] = "granted"}]
  <2> DEFINE j == [job["tick"] EXCEPT !.pc = "supplied",
                    !.seen = {c \in Connectors : decided[c] = "granted"}]
  <2>1. job' = [job EXCEPT !["tick"] = j]
    BY Zenon, <1>3, <1>1 DEF Jobs, Job
  <2>l. "supplied" \in Labels
    BY DEF Labels
  <2>2. j \in Job
    BY ZenonT(30), <2>l, <1>3, <1>1, NothingType, JobFields, RecordUpdates
       DEF Buttons, Results, StateOK
  <2>3. Local(j) /\ j.pc \notin Owning
    BY <1>3, <1>1, NothingType, JobFields
       DEF Local, JobsOK, Jobs, Job, IdleJob, ReadSupply, At, Owning, StateOK
  <2> QED
    BY Zenon, <1>1, <2>1, <2>2, <2>3 DEF Stays, Moves
<1> QED
  BY <1>3 DEF ReadSupply

\* refresh_connector_supply takes them over.
LEMMA ReplaceSupplyOK ==
  ASSUME TypeOK, ReplaceSupply
  PROVE  StateOK' /\ asked' = asked /\ Stays("tick")
<1>1. /\ JobsOK /\ job \in Jobs /\ StateOK
      /\ "tick" \in Tasks /\ job["tick"].pc \notin Owning
  BY DEF TypeOK, JobsOK, Jobs, ReplaceSupply, At, Owning
<1>2. StateOK' /\ asked' = asked
  BY <1>1, JobFields DEF ReplaceSupply, StateOK, entryVars, offerVars, signVars, windowVars
<1> SUFFICES Stays("tick")
  BY <1>2
<1>3. CASE job' = [job EXCEPT !["tick"].pc = "listing",
                          !["tick"].changed = granted' # granted]
  <2> DEFINE j == [job["tick"] EXCEPT !.pc = "listing",
                                      !.changed = granted' # granted]
  <2>1. job' = [job EXCEPT !["tick"] = j]
    BY Zenon, <1>3, <1>1 DEF Jobs, Job
  <2>l. "listing" \in Labels
    BY DEF Labels
  <2>2. j \in Job
    BY ZenonT(30), <2>l, <1>3, <1>1, NothingType, JobFields, RecordUpdates
       DEF Buttons, Results, StateOK
  <2>3. Local(j) /\ j.pc \notin Owning
    BY <1>3, <1>1, NothingType, JobFields
       DEF Local, JobsOK, Jobs, Job, IdleJob, ReplaceSupply, At, Owning, StateOK
  <2> QED
    BY Zenon, <1>1, <2>1, <2>2, <2>3 DEF Stays, Moves
<1> QED
  BY <1>3 DEF ReplaceSupply

\* refresh_connector_supply reads the store's open offers.
LEMMA ReadOffersOK ==
  ASSUME TypeOK, ReadOffers
  PROVE  StateOK' /\ asked' = asked /\ Stays("tick")
<1>1. /\ JobsOK /\ job \in Jobs /\ StateOK
      /\ "tick" \in Tasks /\ job["tick"].pc \notin Owning
  BY DEF TypeOK, JobsOK, Jobs, ReadOffers, At, Owning
<1>2. StateOK' /\ asked' = asked
  BY <1>1  DEF ReadOffers, StateOK, entryVars, offerVars, signVars, windowVars
<1> SUFFICES Stays("tick")
  BY <1>2
<1>3. CASE job' = [job EXCEPT !["tick"].pc = "listed",
                 !["tick"].seen = {c \in Connectors : decided[c] = "open"}]
  <2> DEFINE j == [job["tick"] EXCEPT !.pc = "listed",
                    !.seen = {c \in Connectors : decided[c] = "open"}]
  <2>1. job' = [job EXCEPT !["tick"] = j]
    BY Zenon, <1>3, <1>1 DEF Jobs, Job
  <2>l. "listed" \in Labels
    BY DEF Labels
  <2>2. j \in Job
    BY ZenonT(30), <2>l, <1>3, <1>1, NothingType, JobFields, RecordUpdates
       DEF Buttons, Results, StateOK
  <2>3. Local(j) /\ j.pc \notin Owning
    BY <1>3, <1>1, NothingType, JobFields
       DEF Local, JobsOK, Jobs, Job, IdleJob, ReadOffers, At, Owning, StateOK
  <2> QED
    BY Zenon, <1>1, <2>1, <2>2, <2>3 DEF Stays, Moves
<1> QED
  BY <1>3 DEF ReadOffers

\* refresh_connector_supply takes them over.
LEMMA ReplaceOffersOK ==
  ASSUME TypeOK, ReplaceOffers
  PROVE  StateOK' /\ asked' = asked /\ Stays("tick")
<1>1. /\ JobsOK /\ job \in Jobs /\ StateOK
      /\ "tick" \in Tasks /\ job["tick"].pc \notin Owning
  BY DEF TypeOK, JobsOK, Jobs, ReplaceOffers, At, Owning
<1>2. StateOK' /\ asked' = asked
  BY <1>1, JobFields DEF ReplaceOffers, StateOK, entryVars, offerVars, signVars, windowVars
<1> SUFFICES Stays("tick")
  BY <1>2
<1>3. CASE job' = [job EXCEPT !["tick"] = [IdleJob EXCEPT !.pc = "sweep",
                 !.changed = job["tick"].changed \/ offers' # offers]]
  <2> DEFINE j == [IdleJob EXCEPT !.pc = "sweep",
                    !.changed = job["tick"].changed \/ offers' # offers]
  <2>1. job' = [job EXCEPT !["tick"] = j]
    BY <1>3, <1>1 DEF Jobs, Job
  <2>l. "sweep" \in Labels
    BY DEF Labels
  <2>2. j \in Job
    BY ZenonT(30), <2>l, <1>3, <1>1, NothingType, JobFields, RecordUpdates
       DEF Buttons, Results, StateOK
  <2>3. Local(j) /\ j.pc \notin Owning
    BY SMTT(30), <1>3, <1>1, NothingType, JobFields
       DEF Local, JobsOK, Jobs, Job, IdleJob, ReplaceOffers, At, Owning, StateOK
  <2> QED
    BY Zenon, <1>1, <2>1, <2>2, <2>3 DEF Stays, Moves
<1> QED
  BY <1>3 DEF ReplaceOffers

\* grant_offered grants from a row.
LEMMA GrantOfferedOK ==
  ASSUME NEW c \in Connectors, TypeOK, GrantOffered(c)
  PROVE  StateOK' /\ asked' = asked /\ Stays("rows")
<1>1. /\ JobsOK /\ job \in Jobs /\ StateOK
      /\ "rows" \in Tasks /\ job["rows"].pc \notin Owning
  BY DEF TypeOK, JobsOK, Jobs, GrantOffered, At, Owning
<1>2. StateOK' /\ asked' = asked
  BY <1>1  DEF GrantOffered, StateOK, entryVars, offerVars, signVars, windowVars
<1> SUFFICES Stays("rows")
  BY <1>2
<1>3. Stays("rows")
  <2> DEFINE j == Started("resolve", "grant", Nobody, c)
  <2>1. "resolve" \in Labels /\ "grant" \in Buttons
    BY DEF Labels, Buttons
  <2>2. j \in Job /\ j.pc = "resolve" /\ j.conn = c
    BY <2>1, StartedType
  <2> HIDE DEF j
  <2>3. Local(j) /\ j.pc \notin Owning
    BY <2>2 DEF Local, Owning
  <2> QED
    BY Zenon, <1>1, <2>2, <2>3 DEF GrantOffered, Stays, Moves, j
<1> QED
  BY <1>3 DEF GrantOffered

\* withdraw_run begins.
LEMMA WithdrawRunOK ==
  ASSUME TypeOK, WithdrawRun
  PROVE  StateOK' /\ asked' = asked /\ Stays("end")
<1>1. /\ JobsOK /\ job \in Jobs /\ StateOK
      /\ "end" \in Tasks /\ job["end"].pc \notin Owning
  BY DEF TypeOK, JobsOK, Jobs, WithdrawRun, At, Owning
<1>2. StateOK' /\ asked' = asked
  BY <1>1  DEF WithdrawRun, StateOK, entryVars, offerVars, signVars, windowVars
<1> SUFFICES Stays("end")
  BY <1>2
<1>3. CASE Go("end", "drain")
  <2>1. Local([job["end"] EXCEPT !.pc = "drain"])
    BY <1>1, JobFields DEF Local, JobsOK, Jobs, Job, WithdrawRun, At
  <2>l. "drain" \in Labels
    BY DEF Labels
  <2> QED
    BY <2>l, <1>3, <1>1, <2>1, GoStays DEF Owning
<1> QED
  BY <1>3 DEF WithdrawRun

\* withdraw_run drains the entries.
LEMMA WithdrawDrainOK ==
  ASSUME TypeOK, WithdrawDrain
  PROVE  StateOK' /\ asked' = asked /\ Stays("end")
<1>1. /\ JobsOK /\ job \in Jobs /\ StateOK
      /\ "end" \in Tasks /\ job["end"].pc \notin Owning
  BY DEF TypeOK, JobsOK, Jobs, WithdrawDrain, At, Owning
<1>2. StateOK' /\ asked' = asked
  <2>1. pending \in SUBSET Requests /\ RemovePending(pending)
    BY <1>1 DEF WithdrawDrain, StateOK
  <2>2. /\ pending' \subseteq asked
        /\ expired' \subseteq pending' /\ due' \subseteq pending'
        /\ offer' \in [Requests -> Connectors \cup {Nobody}]
        /\ \A r \in Requests \ pending' : offer'[r] = Nobody
    BY <1>1, <2>1, RemovePendingType
  <2> QED
    BY <1>1, <2>2 DEF WithdrawDrain, StateOK, entryVars, offerVars, signVars, windowVars
<1> SUFFICES Stays("end")
  BY <1>2
<1>3. CASE job' = [job EXCEPT !["end"].pc = "clear", !["end"].held = pending]
  <2> DEFINE j == [job["end"] EXCEPT !.pc = "clear", !.held = pending]
  <2>0. pending \in SUBSET Requests
    BY <1>1 DEF StateOK
  <2>1. job' = [job EXCEPT !["end"] = j]
    BY Zenon, <1>3, <1>1 DEF Jobs, Job
  <2>l. "clear" \in Labels
    BY DEF Labels
  <2>2. j \in Job
    BY ZenonT(30), <2>l, <1>3, <1>1, <2>0, NothingType, JobFields, RecordUpdates
       DEF Buttons, Results, StateOK
  <2>3. Local(j) /\ j.pc \notin Owning
    BY SMTT(30), <1>3, <1>1, <2>0, NothingType, JobFields
       DEF Local, JobsOK, Jobs, Job, IdleJob, WithdrawDrain, At, Owning, StateOK
  <2> QED
    BY Zenon, <1>1, <2>1, <2>2, <2>3 DEF Stays, Moves
<1> QED
  BY <1>3 DEF WithdrawDrain

\* withdraw_run takes the cards down.
LEMMA WithdrawCardsOK ==
  ASSUME TypeOK, WithdrawCards
  PROVE  StateOK' /\ asked' = asked /\ Stays("end")
<1>1. /\ JobsOK /\ job \in Jobs /\ StateOK
      /\ "end" \in Tasks /\ job["end"].pc \notin Owning
  BY DEF TypeOK, JobsOK, Jobs, WithdrawCards, At, Owning
<1>2. StateOK' /\ asked' = asked
  <2>1. card' \in [Requests -> Card]
    BY ZenonT(30), <1>1, NothingType, FunctionUpdate DEF WithdrawCards, StateOK
  <2> QED
    BY <1>1, <2>1 DEF WithdrawCards, StateOK, entryVars, offerVars, signVars, windowVars
<1> SUFFICES Stays("end")
  BY <1>2
<1>3. CASE \E r \in job["end"].held :
             job' = [job EXCEPT !["end"].held = @ \ {r}]
  <2> PICK r \in job["end"].held :
             job' = [job EXCEPT !["end"].held = @ \ {r}]
    BY Zenon, <1>3
  <2> DEFINE j == [job["end"] EXCEPT !.held = @ \ {r}]
  <2>1. job' = [job EXCEPT !["end"] = j]
    BY <1>1 DEF Jobs, Job
  <2>2. j \in Job
    BY ZenonT(30), <1>1, NothingType, JobFields, RecordUpdates
       DEF Buttons, Results, StateOK
  <2>3. Local(j) /\ j.pc \notin Owning
    BY <1>1, NothingType, JobFields
       DEF Local, JobsOK, Jobs, Job, IdleJob, WithdrawCards, At, Owning
  <2> QED
    BY Zenon, <1>1, <2>1, <2>2, <2>3 DEF Stays, Moves
<1>4. CASE Go("end", "unround")
  <2>1. Local([job["end"] EXCEPT !.pc = "unround"])
    BY <1>1, JobFields DEF Local, JobsOK, Jobs, Job, WithdrawCards, At
  <2>l. "unround" \in Labels
    BY DEF Labels
  <2> QED
    BY <2>l, <1>4, <1>1, <2>1, GoStays DEF Owning
<1> QED
  BY <1>3, <1>4 DEF WithdrawCards

\* withdraw_run abandons every round.
LEMMA WithdrawRoundsOK ==
  ASSUME TypeOK, WithdrawRounds
  PROVE  StateOK' /\ asked' = asked /\ Stays("end")
<1>1. /\ JobsOK /\ job \in Jobs /\ StateOK
      /\ "end" \in Tasks /\ job["end"].pc \notin Owning
  BY DEF TypeOK, JobsOK, Jobs, WithdrawRounds, At, Owning
<1>2. StateOK' /\ asked' = asked
  BY Zenon, <1>1  DEF WithdrawRounds, StateOK, entryVars, offerVars, signVars, windowVars
<1> SUFFICES Stays("end")
  BY <1>2
<1>3. CASE Go("end", "gone")
  <2>1. Local([job["end"] EXCEPT !.pc = "gone"])
    BY <1>1, JobFields DEF Local, JobsOK, Jobs, Job, WithdrawRounds, At
  <2>l. "gone" \in Labels
    BY DEF Labels
  <2> QED
    BY <2>l, <1>3, <1>1, <2>1, GoStays DEF Owning
<1> QED
  BY <1>3 DEF WithdrawRounds
=============================================================================
