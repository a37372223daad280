---------------------------- MODULE RelayProofs ----------------------------
(***************************************************************************)
(* No decision reaches a guest whose table is older than the decision's,   *)
(* and a connection the guest holds leads to the session's table: for any  *)
(* number of requests, tables and connections.                             *)
(*                                                                         *)
(* The frames on their way to the guest are one queue, its channel and the *)
(* sink behind it; those kept for the next connection are another, the     *)
(* buffer and the sink behind it.  In either, the last policy before a     *)
(* decision is no older than the decision: that is what every step keeps.  *)
(***************************************************************************)
EXTENDS Relay, SequenceTheorems, NaturalsInduction, WellFoundedInduction, TLAPS

\* The last policy among the first n frames of q, if there is one, is no older
\* than v: an older one has a later one behind it.
Reaches(q, n, v) ==
  \A j \in 1 .. n : IsPolicy(q[j]) /\ q[j].v < v =>
    \E k \in j + 1 .. n : IsPolicy(q[k]) /\ q[k].v >= v

\* A table t, or a policy among the first n frames, is no older than v.
Known(q, n, v, t) == t >= v \/ \E k \in 1 .. n : IsPolicy(q[k]) /\ q[k].v >= v

\* Every decision of q follows a policy that is no older, as far as q tells.
Covered(q) == \A i \in DOMAIN q : IsDecision(q[i]) => Reaches(q, i - 1, q[i].v)

\* And the table a guest has already tells the rest.
KnownTo(q, t) == \A i \in DOMAIN q : IsDecision(q[i]) => Known(q, i - 1, q[i].v, t)

Active == {"handshake", "serving"}

\* What the variables hold, whatever the bounds.
Types ==
  /\ version \in 1 .. MaxTables + 1 /\ job \in {"idle", "policy", "answer"}
  /\ undecided \subseteq Requests
  /\ sink \in Seq(Frames) /\ chan \in Seq(Frames) /\ pending \in Seq(Frames)
  /\ fds \in Seq(1 .. MaxConns)
  /\ loop \in {"select", "superseding", "over"} /\ hasTx \in BOOLEAN
  /\ conn \in 0 .. MaxConns /\ shutdown \in BOOLEAN
  /\ task \in {"none", "handshake", "serving", "ended"}
  /\ opened \in 0 .. MaxConns /\ alive \in 0 .. opened
  /\ table \in 0 .. MaxTables + 1
  /\ released \subseteq [r : Requests, v : 1 .. MaxTables + 1, under : 0 .. MaxTables + 1]

\* The loop buffers only while it has no connection to send to, a policy is
\* buffered at the head, and a connection is one the guest opened.
LoopInv ==
  /\ task \in Active => hasTx
  /\ hasTx => pending = <<>>
  /\ \A i \in DOMAIN pending : IsPolicy(pending[i]) => i = 1
  /\ loop = "superseding" => fds # <<>>
  /\ task \in Active => conn # 0
  /\ conn <= opened /\ \A i \in DOMAIN fds : fds[i] <= opened

\* Frames are sent in the order of their tables, none from the future.
OrderInv ==
  /\ \A i \in DOMAIN sink : sink[i].v <= version
  /\ \A i \in DOMAIN pending : pending[i].v <= version
  /\ \A i, j \in DOMAIN sink : i <= j => sink[i].v <= sink[j].v
  /\ \A i \in DOMAIN pending, j \in DOMAIN sink : pending[i].v <= sink[j].v
  /\ \A i \in DOMAIN chan : chan[i].v <= version
  /\ table <= version

\* What the next connection is to be sent, ...
KeptInv ==
  /\ Covered(pending \o sink)
  /\ job # "policy" => Reaches(pending \o sink, Len(pending \o sink), version)

\* ... and what the one the guest holds is on its way to get.
SentInv ==
  task \in Active /\ conn = alive =>
    /\ Covered(chan \o sink) /\ KnownTo(chan \o sink, table)
    /\ job # "policy" =>
         /\ Reaches(chan \o sink, Len(chan \o sink), version)
         /\ Known(chan \o sink, Len(chan \o sink), version, table)

RelayInv == Types /\ LoopInv /\ OrderInv /\ KeptInv /\ SentInv /\ DecisionCovered

-----------------------------------------------------------------------------
(* The decisions of a buffer.                                              *)

\* Induction over the numbers, for a set of them.
LEMMA SetInduction ==
  ASSUME NEW S, 0 \in S, \A n \in Nat : n \in S => n + 1 \in S
  PROVE  Nat \subseteq S
<1> DEFINE R == {ss \in Nat \X Nat : ss[1] < ss[2]}
           T == Nat \ S
<1> SUFFICES ASSUME T # {} PROVE FALSE
  OBVIOUS
<1>1. IsWellFoundedOn(R, Nat)
  BY NatLessThanWellFounded, Zenon DEF OpToRel
<1>2. T \subseteq Nat
  OBVIOUS
<1> HIDE DEF T, R
<1>3. PICK x \in T : \A y \in T : ~ (<<y, x>> \in R)
  BY <1>1, <1>2, WFMin, Zenon
<1>4. \A y \in T : ~ (y < x)
  BY <1>2, <1>3, Zenon DEF R
<1> QED
  BY <1>3, <1>4 DEF T

\* The function Decisions computes with exists: one for the first m frames
\* extends to one for the next.
LEMMA KeptExists ==
  ASSUME NEW F, NEW q \in Seq(F)
  PROVE  \E kept \in [0 .. Len(q) -> Seq(F)] :
           kept = [n \in 0 .. Len(q) |->
                    IF n = 0 THEN <<>>
                    ELSE IF IsDecision(q[n]) THEN Append(kept[n - 1], q[n]) ELSE kept[n - 1]]
<1> DEFINE Step(g, n) == IF n = 0 THEN <<>>
                         ELSE IF IsDecision(q[n]) THEN Append(g[n - 1], q[n]) ELSE g[n - 1]
           Upto(m) == \E g \in [0 .. m -> Seq(F)] : \A n \in 0 .. m : g[n] = Step(g, n)
           S == {m \in Nat : m <= Len(q) => Upto(m)}
<1>1. Upto(0)
  <2> DEFINE g == [n \in 0 .. 0 |-> <<>>]
  <2>1. g \in [0 .. 0 -> Seq(F)] /\ \A n \in 0 .. 0 : g[n] = Step(g, n)
    OBVIOUS
  <2> QED
    BY <2>1, Zenon
<1>2. ASSUME NEW m \in Nat, m + 1 <= Len(q), Upto(m) PROVE Upto(m + 1)
  <2>1. PICK g \in [0 .. m -> Seq(F)] : \A n \in 0 .. m : g[n] = Step(g, n)
    BY <1>2, Zenon
  <2> DEFINE new == IF IsDecision(q[m + 1]) THEN Append(g[m], q[m + 1]) ELSE g[m]
             h == [n \in 0 .. m + 1 |-> IF n = m + 1 THEN new ELSE g[n]]
  <2>2. q[m + 1] \in F /\ g[m] \in Seq(F)
    BY <1>2
  <2>3. new \in Seq(F)
    BY <2>2
  <2> HIDE DEF new
  <2>4. h \in [0 .. m + 1 -> Seq(F)]
    BY <2>3
  <2>5. ASSUME NEW n \in 0 .. m + 1 PROVE h[n] = Step(h, n)
    <3>1. CASE n = m + 1
      <4>1. h[n] = new /\ h[n - 1] = g[m] /\ n # 0
        BY <3>1
      <4> QED
        BY <3>1, <4>1 DEF new
    <3>2. CASE n \in 0 .. m
      <4>1. h[n] = g[n] /\ (n # 0 => h[n - 1] = g[n - 1])
        BY <3>2
      <4> QED
        BY <2>1, <3>2, <4>1, Zenon
    <3> QED
      BY <3>1, <3>2
  <2> HIDE DEF h, Step
  <2> QED
    BY <2>4, <2>5, Zenon
<1> HIDE DEF Upto
<1>3. Nat \subseteq S
  <2>1. 0 \in S
    BY <1>1
  <2>2. \A m \in Nat : m \in S => m + 1 \in S
    BY <1>2
  <2> HIDE DEF S
  <2> QED
    BY <2>1, <2>2, SetInduction
<1>4. Upto(Len(q))
  BY <1>3
<1>5. PICK g \in [0 .. Len(q) -> Seq(F)] : \A n \in 0 .. Len(q) : g[n] = Step(g, n)
  BY <1>4, Zenon DEF Upto
<1>6. g = [n \in 0 .. Len(q) |-> Step(g, n)]
  BY <1>5
<1> QED
  BY <1>6, Zenon

\* The decisions of a buffer are a sequence of its decisions.
LEMMA DecisionsFacts ==
  ASSUME NEW F, NEW q \in Seq(F)
  PROVE  /\ Decisions(q) \in Seq(F)
         /\ \A i \in DOMAIN Decisions(q) :
              IsDecision(Decisions(q)[i]) /\ \E j \in DOMAIN q : Decisions(q)[i] = q[j]
<1> DEFINE Rec(g) == g = [n \in 0 .. Len(q) |->
                       IF n = 0 THEN <<>>
                       ELSE IF IsDecision(q[n]) THEN Append(g[n - 1], q[n]) ELSE g[n - 1]]
           kept == CHOOSE g : Rec(g)
<1>1. Decisions(q) = kept[Len(q)]
  BY DEF Decisions
<1>2. PICK f \in [0 .. Len(q) -> Seq(F)] : Rec(f)
  BY KeptExists
<1>3. Rec(kept)
  BY <1>2, Zenon
<1> HIDE DEF kept
<1> DEFINE Fine(n) == /\ kept[n] \in Seq(F)
                      /\ \A i \in DOMAIN kept[n] :
                           IsDecision(kept[n][i]) /\ \E j \in DOMAIN q : kept[n][i] = q[j]
           S == {n \in Nat : n <= Len(q) => Fine(n)}
<1>4. Fine(0)
  <2>1. kept[0] = <<>>
    BY <1>3
  <2> QED
    BY <2>1
<1>5. ASSUME NEW n \in Nat, n + 1 <= Len(q), Fine(n) PROVE Fine(n + 1)
  <2>1. kept[n + 1] = IF IsDecision(q[n + 1]) THEN Append(kept[n], q[n + 1]) ELSE kept[n]
    <3>1. n + 1 \in 0 .. Len(q) /\ n + 1 # 0 /\ (n + 1) - 1 = n
      <4>1. n \in Nat /\ n + 1 <= Len(q) /\ Len(q) \in Nat
        BY <1>5
      <4> QED
        BY <4>1
    <3>2. ASSUME NEW m \in 0 .. Len(q), m # 0
          PROVE  kept[m] = IF IsDecision(q[m]) THEN Append(kept[m - 1], q[m]) ELSE kept[m - 1]
      BY <1>3, <3>2, Zenon
    <3> HIDE DEF Rec
    <3> QED
      BY <3>1, <3>2
  <2>2. q[n + 1] \in F /\ n + 1 \in DOMAIN q
    BY <1>5
  <2>3. CASE ~ IsDecision(q[n + 1])
    BY <1>5, <2>1, <2>3
  <2>4. CASE IsDecision(q[n + 1])
    <3> DEFINE k == kept[n]
               k1 == kept[n + 1]
    <3>1. k \in Seq(F) /\ k1 = Append(k, q[n + 1])
      BY <1>5, <2>1, <2>4
    <3>2. \A i \in DOMAIN k : IsDecision(k[i]) /\ \E j \in DOMAIN q : k[i] = q[j]
      BY <1>5
    <3> HIDE DEF k, k1
    <3>3. k1 \in Seq(F) /\ DOMAIN k1 = 1 .. Len(k) + 1 /\ k1[Len(k) + 1] = q[n + 1]
          /\ \A i \in 1 .. Len(k) : k1[i] = k[i]
      BY <2>2, <3>1
    <3>4. \A i \in DOMAIN k1 : IsDecision(k1[i]) /\ \E j \in DOMAIN q : k1[i] = q[j]
      BY <2>2, <2>4, <3>1, <3>2, <3>3
    <3> QED
      BY <3>3, <3>4 DEF k1
  <2> QED
    BY <2>3, <2>4
<1> HIDE DEF Fine
<1>6. Nat \subseteq S
  <2>1. 0 \in S
    BY <1>4
  <2>2. \A n \in Nat : n \in S => n + 1 \in S
    BY <1>5
  <2> HIDE DEF S
  <2> QED
    BY <2>1, <2>2, SetInduction
<1>7. Fine(Len(q))
  BY <1>6
<1> QED
  BY <1>1, <1>7 DEF Fine
-----------------------------------------------------------------------------
(* Frames and queues of them.                                              *)

\* What a frame is.
LEMMA FrameFacts ==
  /\ \A f \in Frames : f.v \in Nat /\ f.v \in 1 .. MaxTables + 1 /\ (IsDecision(f) <=> ~ IsPolicy(f))
                       /\ (IsDecision(f) => f.r \in Requests)
  /\ \A v \in 1 .. MaxTables + 1 : Policy(v) \in Frames /\ IsPolicy(Policy(v)) /\ Policy(v).v = v
  /\ \A r \in Requests, v \in 1 .. MaxTables + 1 :
       Decision(r, v) \in Frames /\ IsDecision(Decision(r, v)) /\ Decision(r, v).v = v
<1>1. \A v : Policy(v).kind = "policy" /\ Policy(v).v = v
  BY DEF Policy
<1>2. \A r, v : Decision(r, v).kind = "decision" /\ Decision(r, v).v = v /\ Decision(r, v).r = r
  BY DEF Decision
<1>3. 1 .. MaxTables + 1 \subseteq Nat
  BY RelayAssumption
<1>4. ASSUME NEW f \in Frames
      PROVE  /\ f.v \in 1 .. MaxTables + 1 /\ (IsDecision(f) <=> ~ IsPolicy(f))
             /\ IsDecision(f) => f.r \in Requests
  <2>1. ASSUME NEW v \in 1 .. MaxTables + 1, f = Policy(v)
        PROVE  f.v \in 1 .. MaxTables + 1 /\ f.kind = "policy"
    BY <1>1, <2>1
  <2>2. ASSUME NEW r \in Requests, NEW v \in 1 .. MaxTables + 1, f = Decision(r, v)
        PROVE  f.v \in 1 .. MaxTables + 1 /\ f.kind = "decision" /\ f.r \in Requests
    BY <1>2, <2>2
  <2> QED
    BY <2>1, <2>2 DEF Frames, IsPolicy, IsDecision
<1> QED
  BY <1>1, <1>2, <1>3, <1>4 DEF Frames, IsPolicy, IsDecision

\* The first and the other frames of a queue.
LEMMA QueueFacts ==
  ASSUME NEW q \in Seq(Frames), q # <<>>
  PROVE  /\ Head(q) \in Frames /\ Head(q) = q[1] /\ Tail(q) \in Seq(Frames)
         /\ Len(q) \in Nat \ {0} /\ Len(Tail(q)) = Len(q) - 1
         /\ \A i \in 1 .. Len(q) - 1 : Tail(q)[i] = q[i + 1]
OBVIOUS

\* What is in a queue.
LEMMA ElementFacts ==
  ASSUME NEW S, NEW q \in Seq(S)
  PROVE  \A i \in DOMAIN q : q[i] \in S
OBVIOUS

\* One queue behind another.
LEMMA ConcatFacts ==
  ASSUME NEW p \in Seq(Frames), NEW s \in Seq(Frames)
  PROVE  /\ p \o s \in Seq(Frames) /\ Len(p \o s) = Len(p) + Len(s)
         /\ \A i \in 1 .. Len(p) : (p \o s)[i] = p[i]
         /\ \A i \in 1 .. Len(s) : (p \o s)[Len(p) + i] = s[i]
OBVIOUS

\* A frame that moves from one to the other leaves the two together as they were.
LEMMA MovedAlong ==
  ASSUME NEW p \in Seq(Frames), NEW s \in Seq(Frames), s # <<>>
  PROVE  Append(p, Head(s)) \o Tail(s) = p \o s
<1>1. Append(p, Head(s)) \in Seq(Frames) /\ Tail(s) \in Seq(Frames) /\ Len(Append(p, Head(s))) = Len(p) + 1
  BY QueueFacts
<1>2. Append(p, Head(s)) = p \o <<Head(s)>>
  BY QueueFacts, AppendIsConcat
<1>3. s = <<Head(s)>> \o Tail(s)
  BY QueueFacts
<1>4. <<Head(s)>> \in Seq(Frames)
  BY QueueFacts
<1> QED
  BY <1>1, <1>2, <1>3, <1>4, ConcatAssociative

\* A frame sent is one more of the two together.
LEMMA SentLast ==
  ASSUME NEW p \in Seq(Frames), NEW s \in Seq(Frames), NEW f \in Frames
  PROVE  p \o Append(s, f) = Append(p \o s, f)
<1>1. Append(s, f) = s \o <<f>> /\ Append(p \o s, f) = (p \o s) \o <<f>> /\ <<f>> \in Seq(Frames)
  BY AppendIsConcat, ConcatFacts
<1> QED
  BY <1>1, ConcatAssociative

\* A frame taken from the first is one less of the two together.
LEMMA TakenFirst ==
  ASSUME NEW p \in Seq(Frames), NEW s \in Seq(Frames), p # <<>>
  PROVE  Tail(p \o s) = Tail(p) \o s /\ p \o s # <<>> /\ Head(p \o s) = Head(p)
<1>1. p = <<Head(p)>> \o Tail(p) /\ Tail(p) \in Seq(Frames) /\ <<Head(p)>> \in Seq(Frames)
  BY QueueFacts
<1>2. p \o s = <<Head(p)>> \o (Tail(p) \o s)
  BY <1>1, ConcatAssociative
<1>3. Tail(p) \o s \in Seq(Frames)
  BY <1>1, ConcatFacts
<1> QED
  BY <1>2, <1>3, QueueFacts

-----------------------------------------------------------------------------
(* Decisions and the policies before them.                                 *)

\* A frame sent: a policy changes nothing for those before it, and a decision
\* goes behind the policy it was taken under.
LEMMA AppendCovered ==
  ASSUME NEW q \in Seq(Frames), NEW f \in Frames, NEW t \in Nat, Covered(q)
  PROVE  /\ (IsDecision(f) => Reaches(q, Len(q), f.v)) => Covered(Append(q, f))
         /\ KnownTo(q, t) /\ (IsDecision(f) => Known(q, Len(q), f.v, t)) => KnownTo(Append(q, f), t)
         /\ \A v \in Nat : Reaches(q, Len(q), v) /\ (IsPolicy(f) => f.v >= v) =>
              Reaches(Append(q, f), Len(q) + 1, v)
         /\ \A v \in Nat : Known(q, Len(q), v, t) => Known(Append(q, f), Len(q) + 1, v, t)
         /\ IsPolicy(f) => /\ Reaches(Append(q, f), Len(q) + 1, f.v)
                           /\ Known(Append(q, f), Len(q) + 1, f.v, t)
<1> DEFINE a == Append(q, f)
<1>1. a \in Seq(Frames) /\ Len(a) = Len(q) + 1 /\ Len(q) \in Nat /\ DOMAIN a = 1 .. Len(q) + 1
      /\ a[Len(q) + 1] = f /\ \A i \in 1 .. Len(q) : a[i] = q[i]
  OBVIOUS
<1>2. DOMAIN q = 1 .. Len(q) /\ \A i \in 1 .. Len(q) : q[i] \in Frames
  OBVIOUS
<1> HIDE DEF a
<1>3. ASSUME NEW n \in 0 .. Len(q), NEW v \in Nat
      PROVE  (Reaches(q, n, v) => Reaches(a, n, v)) /\ (Known(q, n, v, t) => Known(a, n, v, t))
  <2>1. \A j \in 1 .. n : a[j] = q[j]
    BY <1>1
  <2>2. \A j \in 1 .. n : \A k \in j + 1 .. n : k \in 1 .. n
    BY <1>1
  <2>3. Known(q, n, v, t) => Known(a, n, v, t)
    BY <2>1 DEF Known
  <2>4. Reaches(q, n, v) => Reaches(a, n, v)
    BY <2>1, <2>2 DEF Reaches
  <2> QED
    BY <2>3, <2>4
<1>4. \A i \in 1 .. Len(q) : i - 1 \in 0 .. Len(q) /\ q[i].v \in Nat
  BY <1>2, FrameFacts
<1>5. f.v \in Nat /\ Len(q) \in 0 .. Len(q) /\ (Len(q) + 1) - 1 = Len(q)
  BY <1>1, FrameFacts
<1>6. (IsDecision(f) => Reaches(q, Len(q), f.v)) => Covered(a)
  BY <1>1, <1>2, <1>3, <1>4, <1>5 DEF Covered
<1>7. KnownTo(q, t) /\ (IsDecision(f) => Known(q, Len(q), f.v, t)) => KnownTo(a, t)
  BY <1>1, <1>2, <1>3, <1>4, <1>5 DEF KnownTo
<1>8. \A v \in Nat : Reaches(q, Len(q), v) /\ (IsPolicy(f) => f.v >= v) => Reaches(a, Len(q) + 1, v)
  BY <1>1, <1>2, <1>5 DEF Reaches
<1>9. \A v \in Nat : Known(q, Len(q), v, t) => Known(a, Len(q) + 1, v, t)
  BY <1>1 DEF Known
<1>10. IsPolicy(f) => Reaches(a, Len(q) + 1, f.v) /\ Known(a, Len(q) + 1, f.v, t)
  BY <1>1, <1>2, <1>5 DEF Reaches, Known
<1> QED
  BY <1>6, <1>7, <1>8, <1>9, <1>10 DEF a

\* A frame taken by the guest: a policy becomes its table, and a decision finds
\* the table it needs.
LEMMA TailCovered ==
  ASSUME NEW q \in Seq(Frames), q # <<>>, Covered(q), NEW t \in Nat
  PROVE  /\ Covered(Tail(q))
         /\ \A v \in Nat : Reaches(q, Len(q), v) => Reaches(Tail(q), Len(Tail(q)), v)
         /\ KnownTo(q, t) /\ IsDecision(Head(q)) => t >= Head(q).v /\ KnownTo(Tail(q), t)
         /\ IsPolicy(Head(q)) => KnownTo(Tail(q), Head(q).v)
         /\ \A v \in Nat : Known(q, Len(q), v, t) /\ IsDecision(Head(q)) =>
              Known(Tail(q), Len(Tail(q)), v, t)
         /\ \A v \in Nat : Reaches(q, Len(q), v) /\ IsPolicy(Head(q)) =>
              Known(Tail(q), Len(Tail(q)), v, Head(q).v)
<1> DEFINE s == Tail(q)
           f == Head(q)
<1>1. /\ f \in Frames /\ f = q[1] /\ s \in Seq(Frames) /\ Len(q) \in Nat \ {0}
      /\ Len(s) = Len(q) - 1 /\ \A i \in 1 .. Len(q) - 1 : s[i] = q[i + 1]
      /\ DOMAIN s = 1 .. Len(q) - 1 /\ DOMAIN q = 1 .. Len(q)
  BY QueueFacts
<1> HIDE DEF s, f
<1>2. \A i \in 1 .. Len(q) : q[i].v \in Nat
  BY FrameFacts
<1>3. ASSUME NEW n \in 0 .. Len(q) - 1, NEW v \in Nat, Reaches(q, n + 1, v)
      PROVE  Reaches(s, n, v) /\ (IsPolicy(f) => Known(s, n, v, f.v))
  <2>1. ASSUME NEW j \in 1 .. n, IsPolicy(s[j]), s[j].v < v
        PROVE  \E k \in j + 1 .. n : IsPolicy(s[k]) /\ s[k].v >= v
    <3>1. j + 1 \in 1 .. n + 1 /\ s[j] = q[j + 1]
      BY <1>1
    <3>2. PICK k \in (j + 1) + 1 .. n + 1 : IsPolicy(q[k]) /\ q[k].v >= v
      BY <1>3, <2>1, <3>1 DEF Reaches
    <3>3. k - 1 \in j + 1 .. n /\ s[k - 1] = q[k]
      BY <1>1
    <3> QED
      BY <3>2, <3>3
  <2>2. ASSUME IsPolicy(f), ~ (f.v >= v) PROVE \E k \in 1 .. n : IsPolicy(s[k]) /\ s[k].v >= v
    <3>1. 1 \in 1 .. n + 1 /\ q[1].v < v
      BY <1>1, <1>2, <2>2
    <3>2. PICK k \in 1 + 1 .. n + 1 : IsPolicy(q[k]) /\ q[k].v >= v
      BY <1>1, <1>3, <2>2, <3>1 DEF Reaches
    <3>3. k - 1 \in 1 .. n /\ s[k - 1] = q[k]
      BY <1>1
    <3> QED
      BY <3>2, <3>3
  <2> QED
    BY <2>1, <2>2 DEF Reaches, Known
<1>4. ASSUME NEW n \in 0 .. Len(q) - 1, NEW v \in Nat, Known(q, n + 1, v, t), IsDecision(f)
      PROVE  Known(s, n, v, t)
  <2> SUFFICES ASSUME NEW k \in 1 .. n + 1, IsPolicy(q[k]), q[k].v >= v
               PROVE  \E j \in 1 .. n : IsPolicy(s[j]) /\ s[j].v >= v
    BY <1>4 DEF Known
  <2>1. k # 1
    BY <1>1, <1>4, FrameFacts
  <2>2. k - 1 \in 1 .. n /\ s[k - 1] = q[k]
    BY <1>1, <2>1
  <2> QED
    BY <2>2
<1>5. \A i \in DOMAIN s : /\ i + 1 \in DOMAIN q /\ s[i] = q[i + 1] /\ q[i + 1].v \in Nat
                          /\ i - 1 \in 0 .. Len(q) - 1 /\ (i + 1) - 1 = (i - 1) + 1
  BY <1>1, <1>2
<1>6. Covered(s) /\ (IsPolicy(f) => KnownTo(s, f.v))
  BY <1>3, <1>5, Zenon DEF Covered, KnownTo
<1>7. ASSUME KnownTo(q, t), IsDecision(f) PROVE t >= f.v /\ KnownTo(s, t)
  <2>1. 1 \in DOMAIN q /\ 1 - 1 = 0
    BY <1>1
  <2>2. t >= f.v
    BY <1>1, <1>7, <2>1 DEF KnownTo, Known
  <2> QED
    BY <1>4, <1>5, <1>7, <2>2 DEF KnownTo
<1>8. Len(q) - 1 \in 0 .. Len(q) - 1 /\ (Len(q) - 1) + 1 = Len(q)
  BY <1>1
<1>9. \A v \in Nat : Reaches(q, Len(q), v) => Reaches(s, Len(s), v) /\ (IsPolicy(f) => Known(s, Len(s), v, f.v))
  BY <1>1, <1>3, <1>8
<1>10. \A v \in Nat : Known(q, Len(q), v, t) /\ IsDecision(f) => Known(s, Len(s), v, t)
  BY <1>1, <1>4, <1>8
<1> QED
  BY <1>6, <1>7, <1>9, <1>10 DEF s, f

\* A connection is seeded with a policy ahead of all else: the one buffered, or
\* the session's own table, which no frame is ahead of.
LEMMA SeedCovered ==
  ASSUME NEW p \in Seq(Frames), NEW s \in Seq(Frames), NEW w \in 1 .. MaxTables + 1, NEW t \in Nat,
         Covered(p \o s), \A i \in DOMAIN p : IsPolicy(p[i]) => i = 1,
         \A i \in DOMAIN p : p[i].v <= w, \A i \in DOMAIN s : s[i].v <= w
  PROVE  /\ SeedFrames(p, w) \in Seq(Frames)
         /\ \A i \in DOMAIN SeedFrames(p, w) : SeedFrames(p, w)[i].v <= w
         /\ Covered(SeedFrames(p, w) \o s) /\ KnownTo(SeedFrames(p, w) \o s, t)
         /\ Reaches(p \o s, Len(p \o s), w) =>
              /\ Reaches(SeedFrames(p, w) \o s, Len(SeedFrames(p, w) \o s), w)
              /\ Known(SeedFrames(p, w) \o s, Len(SeedFrames(p, w) \o s), w, t)
<1> DEFINE x == p \o s
           c == SeedFrames(p, w)
           q == c \o s
           Seeded == /\ c \in Seq(Frames) /\ \A i \in DOMAIN c : c[i].v <= w
                     /\ Covered(q) /\ KnownTo(q, t)
                     /\ Reaches(x, Len(x), w) => Reaches(q, Len(q), w) /\ Known(q, Len(q), w, t)
<1>1. x \in Seq(Frames) /\ Len(x) \in Nat /\ DOMAIN x = 1 .. Len(x) /\ w \in Nat
  BY ConcatFacts, FrameFacts, RelayAssumption
<1>2. \A i \in 1 .. Len(x) : x[i] \in Frames /\ x[i].v \in Nat /\ x[i].v <= w
  <2>1. \A i \in 1 .. Len(x) : x[i] = IF i <= Len(p) THEN p[i] ELSE s[i - Len(p)]
    BY ConcatProperties
  <2>2. \A i \in 1 .. Len(x) : x[i].v <= w
    BY <2>1, ConcatFacts
  <2> QED
    BY <1>1, <2>2, FrameFacts
<1> SUFFICES Seeded
  OBVIOUS
<1>3. CASE \E i \in DOMAIN p : IsPolicy(p[i])
  <2>1. c = p /\ q = x
    BY <1>3, Zenon DEF SeedFrames
  <2>2. 1 \in DOMAIN p /\ IsPolicy(p[1])
    BY <1>3
  <2>3. Len(x) >= 1 /\ x[1] = p[1]
    BY <2>2, ConcatFacts
  <2> HIDE DEF x, c, q
  <2>4. ASSUME NEW n \in 1 .. Len(x), NEW v \in Nat, Reaches(x, n, v) PROVE Known(x, n, v, t)
    <3>1. CASE x[1].v >= v
      BY <2>2, <2>3, <2>4, <3>1 DEF Known
    <3>2. CASE x[1].v < v
      <4>1. PICK k \in 1 + 1 .. n : IsPolicy(x[k]) /\ x[k].v >= v
        BY <2>2, <2>3, <2>4, <3>2 DEF Reaches
      <4> QED
        BY <4>1 DEF Known
    <3> QED
      BY <1>1, <1>2, <2>3, <3>1, <3>2
  <2>5. KnownTo(x, t)
    <3> SUFFICES ASSUME NEW i \in DOMAIN x, IsDecision(x[i]) PROVE Known(x, i - 1, x[i].v, t)
      BY DEF KnownTo
    <3>1. i # 1
      BY <1>1, <1>2, <2>2, <2>3, FrameFacts
    <3>2. i - 1 \in 1 .. Len(x) /\ x[i].v \in Nat
      BY <1>1, <1>2, <3>1
    <3>3. Reaches(x, i - 1, x[i].v)
      BY Zenon DEF Covered, x
    <3> QED
      BY <2>4, <3>2, <3>3
  <2>6. Reaches(x, Len(x), w) => Known(x, Len(x), w, t)
    BY <1>1, <2>3, <2>4
  <2> QED
    BY <2>1, <2>5, <2>6 DEF x
<1>4. CASE ~ \E i \in DOMAIN p : IsPolicy(p[i])
  <2>1. c = <<Policy(w)>> \o p /\ Policy(w) \in Frames /\ IsPolicy(Policy(w)) /\ Policy(w).v = w
    BY <1>4, FrameFacts DEF SeedFrames
  <2>2. c \in Seq(Frames) /\ \A i \in DOMAIN c : c[i].v <= w
    <3>1. <<Policy(w)>> \in Seq(Frames) /\ Len(<<Policy(w)>>) = 1
      BY <2>1
    <3>2. c \in Seq(Frames) /\ Len(c) = 1 + Len(p) /\ c[1] = Policy(w)
          /\ \A i \in 1 .. Len(p) : c[1 + i] = p[i]
      BY <2>1, <3>1, ConcatFacts
    <3>3. ASSUME NEW i \in DOMAIN c PROVE c[i].v <= w
      <4>1. i = 1 \/ (i - 1 \in 1 .. Len(p) /\ 1 + (i - 1) = i)
        BY <3>2
      <4> QED
        BY <1>1, <2>1, <3>2, <4>1
    <3> QED
      BY <3>2, <3>3
  <2>3. q = <<Policy(w)>> \o x
    BY <2>1, ConcatAssociative
  <2>4. /\ q \in Seq(Frames) /\ Len(q) = Len(x) + 1 /\ q[1] = Policy(w) /\ DOMAIN q = 1 .. Len(x) + 1
        /\ \A i \in 1 .. Len(x) : q[i + 1] = x[i]
    BY <1>1, <2>1, <2>3, ConcatFacts
  <2> HIDE DEF x, c, q
  <2>5. ASSUME NEW n \in 0 .. Len(x), NEW v \in Nat, v <= w, Reaches(x, n, v)
        PROVE  Reaches(q, n + 1, v) /\ Known(q, n + 1, v, t)
    <3>1. 1 \in 1 .. n + 1 /\ IsPolicy(q[1]) /\ q[1].v >= v
      BY <1>1, <2>1, <2>4, <2>5
    <3>2. Known(q, n + 1, v, t)
      BY <3>1 DEF Known
    <3>3. ASSUME NEW j \in 1 .. n + 1, IsPolicy(q[j]), q[j].v < v
          PROVE  \E k \in j + 1 .. n + 1 : IsPolicy(q[k]) /\ q[k].v >= v
      <4>1. j # 1
        BY <1>1, <2>1, <2>4, <2>5, <3>3
      <4>2. j - 1 \in 1 .. n /\ q[j] = x[j - 1]
        BY <1>1, <2>4, <4>1
      <4>3. PICK k \in (j - 1) + 1 .. n : IsPolicy(x[k]) /\ x[k].v >= v
        BY <2>5, <3>3, <4>2 DEF Reaches
      <4>4. k + 1 \in j + 1 .. n + 1 /\ q[k + 1] = x[k]
        BY <1>1, <2>4, <4>2
      <4> QED
        BY <4>3, <4>4
    <3> QED
      BY <3>2, <3>3 DEF Reaches
  <2>6. ASSUME NEW i \in DOMAIN q, IsDecision(q[i])
        PROVE  Reaches(q, i - 1, q[i].v) /\ Known(q, i - 1, q[i].v, t)
    <3>1. i # 1
      BY <2>1, <2>4, <2>6, FrameFacts
    <3>2. i - 1 \in 1 .. Len(x) /\ q[i] = x[i - 1] /\ i - 2 \in 0 .. Len(x) /\ (i - 2) + 1 = i - 1
          /\ (i - 1) - 1 = i - 2
      BY <1>1, <2>4, <3>1
    <3>3. Reaches(x, i - 2, q[i].v) /\ q[i].v \in Nat /\ q[i].v <= w
      BY <1>1, <1>2, <2>6, <3>2, Zenon DEF Covered, x
    <3> QED
      BY <2>5, <3>2, <3>3
  <2>7. Reaches(x, Len(x), w) => Reaches(q, Len(q), w) /\ Known(q, Len(q), w, t)
    BY <1>1, <2>4, <2>5, SMTT(30)
  <2> QED
    BY <2>2, <2>6, <2>7 DEF Covered, KnownTo
<1> QED
  BY <1>3, <1>4

\* A policy is buffered ahead of the decisions that are buffered already, all
\* taken under older tables.
LEMMA BufferCovered ==
  ASSUME NEW p \in Seq(Frames), NEW s \in Seq(Frames), s # <<>>, IsPolicy(Head(s)),
         Covered(p \o s), \A i \in DOMAIN p : p[i].v <= Head(s).v
  PROVE  /\ Covered((<<Head(s)>> \o Decisions(p)) \o Tail(s))
         /\ \A v \in Nat : Reaches(p \o s, Len(p \o s), v) =>
              Reaches((<<Head(s)>> \o Decisions(p)) \o Tail(s),
                      Len((<<Head(s)>> \o Decisions(p)) \o Tail(s)), v)
<1> DEFINE f == Head(s)
           D == Decisions(p)
           b == <<f>> \o D
           y == b \o Tail(s)
           x == p \o s
           m == Len(p)
           d == Len(D)
           l == Len(s) - 1
<1>1. D \in Seq(Frames) /\ d \in Nat /\ \A i \in 1 .. d : IsDecision(D[i]) /\ D[i].v <= f.v
  BY DecisionsFacts
<1>2. /\ f \in Frames /\ f = s[1] /\ f.v \in Nat /\ Tail(s) \in Seq(Frames) /\ l \in Nat /\ m \in Nat
      /\ Len(Tail(s)) = l /\ \A i \in 1 .. l : Tail(s)[i] = s[i + 1]
  BY QueueFacts, FrameFacts
<1> HIDE DEF f, D
<1>3. b \in Seq(Frames) /\ Len(b) = 1 + d /\ b[1] = f /\ \A i \in 1 .. d : b[1 + i] = D[i]
  <2>1. <<f>> \in Seq(Frames) /\ Len(<<f>>) = 1
    BY <1>2
  <2> QED
    BY <1>1, <2>1, ConcatFacts
<1>4. /\ x \in Seq(Frames) /\ Len(x) = m + 1 + l /\ DOMAIN x = 1 .. m + 1 + l
      /\ \A k \in m + 1 .. m + 1 + l : x[k] = s[k - m]
  <2>1. x \in Seq(Frames) /\ Len(x) = m + Len(s)
        /\ \A k \in 1 .. m + Len(s) : x[k] = IF k <= m THEN p[k] ELSE s[k - m]
    BY ConcatProperties
  <2> QED
    BY <1>2, <2>1
<1> HIDE DEF b
<1>5. /\ y \in Seq(Frames) /\ Len(y) = 1 + d + l /\ DOMAIN y = 1 .. 1 + d + l
      /\ y[1] = f /\ \A k \in 2 .. 1 + d : y[k] = D[k - 1]
      /\ \A k \in 2 + d .. 1 + d + l : y[k] = s[k - d]
  <2>1. y \in Seq(Frames) /\ Len(y) = 1 + d + l
        /\ \A k \in 1 .. 1 + d + l : y[k] = IF k <= 1 + d THEN b[k] ELSE Tail(s)[k - (1 + d)]
    <3>1. b \in Seq(Frames) /\ Tail(s) \in Seq(Frames) /\ Len(b) = 1 + d /\ Len(Tail(s)) = l
      BY <1>2, <1>3
    <3> HIDE DEF b, d, l
    <3>2. y \in Seq(Frames) /\ Len(y) = Len(b) + Len(Tail(s))
          /\ \A k \in 1 .. Len(b) + Len(Tail(s)) : y[k] = IF k <= Len(b) THEN b[k] ELSE Tail(s)[k - Len(b)]
      BY <3>1, ConcatProperties, Zenon
    <3> QED
      BY <3>1, <3>2, Zenon
  <2>2. \A k \in 2 .. 1 + d : y[k] = D[k - 1]
    <3> SUFFICES ASSUME NEW k \in 2 .. 1 + d PROVE y[k] = D[k - 1]
      OBVIOUS
    <3>1. k - 1 \in 1 .. d /\ 1 + (k - 1) = k /\ k \in 1 .. 1 + d + l /\ k <= 1 + d
      BY <1>1, <1>2
    <3> QED
      BY <1>3, <2>1, <3>1, Zenon
  <2>3. \A k \in 2 + d .. 1 + d + l : y[k] = s[k - d]
    <3> SUFFICES ASSUME NEW k \in 2 + d .. 1 + d + l PROVE y[k] = s[k - d]
      OBVIOUS
    <3>1. k - (1 + d) \in 1 .. l /\ k \in 1 .. 1 + d + l /\ ~ (k <= 1 + d) /\ (k - (1 + d)) + 1 = k - d
      BY <1>1, <1>2
    <3> QED
      BY <1>2, <2>1, <3>1
  <2>4. y[1] = f
    BY <1>1, <1>2, <1>3, <2>1
  <2> QED
    BY <2>1, <2>2, <2>3, <2>4
<1> HIDE DEF x, y, m, d, l
<1>6. ASSUME NEW n \in 0 .. l, NEW v \in Nat, Reaches(x, m + 1 + n, v)
      PROVE  Reaches(y, 1 + d + n, v)
  <2> SUFFICES ASSUME NEW j \in 1 .. 1 + d + n, IsPolicy(y[j]), y[j].v < v
               PROVE  \E k \in j + 1 .. 1 + d + n : IsPolicy(y[k]) /\ y[k].v >= v
    BY DEF Reaches
  <2>1. ASSUME NEW i \in m + 1 .. m + 1 + n, y[j] = x[i], j <= i - m + d
        PROVE  \E k \in j + 1 .. 1 + d + n : IsPolicy(y[k]) /\ y[k].v >= v
    <3>1. i \in 1 .. m + 1 + n
      BY <1>2
    <3>2. PICK k \in i + 1 .. m + 1 + n : IsPolicy(x[k]) /\ x[k].v >= v
      BY <1>6, <2>1, <3>1 DEF Reaches
    <3>3. k \in m + 1 .. m + 1 + l /\ k - m + d \in 2 + d .. 1 + d + l
          /\ k - m + d \in j + 1 .. 1 + d + n /\ (k - m + d) - d = k - m
      BY <1>1, <1>2, <2>1
    <3>4. y[k - m + d] = x[k]
      BY <1>4, <1>5, <3>3, Zenon
    <3> QED
      BY <3>2, <3>3, <3>4
  <2>2. CASE j = 1
    <3>1. m + 1 \in m + 1 .. m + 1 + n /\ m + 1 \in m + 1 .. m + 1 + l /\ j <= (m + 1) - m + d /\ (m + 1) - m = 1
      BY <1>1, <1>2, <2>2
    <3>2. y[j] = x[m + 1]
      BY <1>2, <1>4, <1>5, <2>2, <3>1, Zenon
    <3> QED
      BY <2>1, <3>1, <3>2
  <2>3. CASE j \in 2 .. 1 + d
    <3>1. j - 1 \in 1 .. d /\ j \in 1 .. Len(y)
      BY <1>1, <1>2, <1>5, <2>3
    <3>2. IsDecision(y[j]) /\ y[j] \in Frames
      BY <1>1, <1>5, <2>3, <3>1
    <3> QED
      BY <3>2, FrameFacts
  <2>4. CASE j > 1 + d
    <3>1. /\ j \in 2 + d .. 1 + d + l /\ j - d + m \in m + 1 .. m + 1 + l
          /\ j - d + m \in m + 1 .. m + 1 + n
          /\ (j - d + m) - m = j - d /\ j <= (j - d + m) - m + d
      BY <1>1, <1>2, <2>4
    <3>2. y[j] = x[j - d + m]
      BY <1>4, <1>5, <3>1
    <3> QED
      BY <2>1, <3>1, <3>2
  <2> QED
    BY <1>1, <2>2, <2>3, <2>4
<1>7. ASSUME NEW i \in DOMAIN y, IsDecision(y[i]) PROVE Reaches(y, i - 1, y[i].v)
  <2>1. i # 1
    BY <1>2, <1>5, <1>7, FrameFacts DEF f
  <2>2. CASE i \in 2 .. 1 + d
    <3>1. i - 1 \in 1 .. d /\ y[i] \in Frames
      BY <1>1, <1>5, <2>2
    <3>2. y[i].v <= f.v /\ y[i].v \in Nat
      BY <1>1, <1>5, <2>2, <3>1, FrameFacts, Zenon
    <3>3. \A j \in 1 .. i - 1 : IsPolicy(y[j]) => j = 1
      <4> SUFFICES ASSUME NEW j \in 1 .. i - 1, j # 1 PROVE ~ IsPolicy(y[j])
        OBVIOUS
      <4>1. j - 1 \in 1 .. d /\ j \in 2 .. 1 + d /\ j \in 1 .. Len(y)
        BY <1>1, <1>2, <1>5, <2>2
      <4>2. IsDecision(y[j]) /\ y[j] \in Frames
        BY <1>1, <1>5, <4>1
      <4> QED
        BY <4>2, FrameFacts
    <3> QED
      BY <1>2, <1>5, <3>2, <3>3 DEF Reaches
  <2>3. CASE i > 1 + d
    <3> DEFINE g == i - d + m
               n == i - d - 2
    <3>1. /\ g \in m + 1 .. m + 1 + l /\ g \in DOMAIN x /\ g - m = i - d /\ i \in 2 + d .. 1 + d + l
          /\ g - 1 = m + 1 + n /\ n \in 0 .. l /\ 1 + d + n = i - 1
      <4>1. i \in 1 .. 1 + d + l /\ DOMAIN x = 1 .. m + 1 + l
        BY <1>4, <1>5
      <4>2. i \in 2 + d .. 1 + d + l
        BY <1>1, <1>2, <2>3, <4>1
      <4>3. g \in m + 1 .. m + 1 + l /\ g - m = i - d
        BY <1>1, <1>2, <4>2, SMTT(30)
      <4>4. g - 1 = m + 1 + n /\ n \in 0 .. l /\ 1 + d + n = i - 1
        <5>1. d \in Nat /\ l \in Nat /\ m \in Nat /\ i \in Int
          BY <1>1, <1>2, <4>2
        <5>2. 2 + d <= i /\ i <= 1 + d + l
          BY <4>2, <5>1
        <5> QED
          BY <5>1, <5>2, SMTT(30)
      <4>5. g \in 1 .. m + 1 + l
        BY <1>1, <1>2, <4>3
      <4> QED
        BY <4>1, <4>2, <4>3, <4>4, <4>5
    <3> HIDE DEF g, n
    <3>2. x[g] = y[i] /\ x[g] \in Frames
      BY <1>4, <1>5, <3>1, SMTT(30)
    <3>3. y[i].v \in Nat
      BY <3>2, FrameFacts
    <3>4. Reaches(x, g - 1, y[i].v)
      BY <1>7, <3>1, <3>2, Zenon DEF Covered, x
    <3> QED
      BY <1>6, <3>1, <3>2, <3>3, <3>4, Zenon
  <2> QED
    BY <1>1, <1>5, <2>1, <2>2, <2>3
<1>8. \A v \in Nat : Reaches(x, Len(x), v) => Reaches(y, Len(y), v)
  BY <1>2, <1>4, <1>5, <1>6
<1> QED
  BY <1>7, <1>8, Zenon DEF Covered, x, y, b, D, f

\* The frames behind others are covered by themselves.
LEMMA SuffixCovered ==
  ASSUME NEW p \in Seq(Frames), NEW s \in Seq(Frames), Covered(p \o s)
  PROVE  /\ Covered(s)
         /\ \A v \in Nat : Reaches(p \o s, Len(p \o s), v) => Reaches(s, Len(s), v)
<1> DEFINE x == p \o s
           m == Len(p)
           l == Len(s)
<1>1. /\ m \in Nat /\ l \in Nat /\ DOMAIN x = 1 .. m + l /\ Len(x) = m + l /\ DOMAIN s = 1 .. l
      /\ \A i \in 1 .. l : s[i] \in Frames
  BY ConcatFacts
<1>2. \A k \in m + 1 .. m + l : x[k] = s[k - m]
  BY <1>1, ConcatProperties
<1> HIDE DEF x, m, l
<1>3. ASSUME NEW n \in 0 .. l, NEW v \in Nat, Reaches(x, m + n, v)
      PROVE  Reaches(s, n, v)
  <2> SUFFICES ASSUME NEW j \in 1 .. n, IsPolicy(s[j]), s[j].v < v
               PROVE  \E k \in j + 1 .. n : IsPolicy(s[k]) /\ s[k].v >= v
    BY DEF Reaches
  <2>1. m + j \in 1 .. m + n /\ m + j \in m + 1 .. m + l /\ (m + j) - m = j
    BY <1>1
  <2>2. x[m + j] = s[j]
    BY <1>2, <2>1
  <2>3. PICK k \in m + j + 1 .. m + n : IsPolicy(x[k]) /\ x[k].v >= v
    BY <1>3, <2>1, <2>2 DEF Reaches
  <2>4. k \in m + 1 .. m + l /\ k - m \in j + 1 .. n
    BY <1>1
  <2> QED
    BY <1>2, <2>3, <2>4
<1>4. ASSUME NEW i \in DOMAIN s, IsDecision(s[i]) PROVE Reaches(s, i - 1, s[i].v)
  <2>1. m + i \in 1 .. m + l /\ m + i \in m + 1 .. m + l /\ (m + i) - m = i
        /\ (m + i) - 1 = m + (i - 1) /\ i - 1 \in 0 .. l
    BY <1>1
  <2>2. x[m + i] = s[i] /\ s[i].v \in Nat
    BY <1>1, <1>2, <2>1, FrameFacts, Zenon
  <2>3. Reaches(x, m + (i - 1), s[i].v)
    BY <1>1, <1>4, <2>1, <2>2, Zenon DEF Covered, x
  <2> QED
    BY <1>3, <2>1, <2>2, <2>3
<1>5. l \in 0 .. l
  BY <1>1
<1> QED
  BY <1>1, <1>3, <1>4, <1>5 DEF Covered, x, l

\* A set of positions has a last one.
LEMMA LastOne ==
  ASSUME NEW n \in Nat, NEW P, P \subseteq 1 .. n, P # {}
  PROVE  \E i \in P : \A j \in P : j <= i
<1> DEFINE Has(m) == \A Q : Q \subseteq 1 .. m /\ Q # {} => \E i \in Q : \A j \in Q : j <= i
           S == {m \in Nat : Has(m)}
<1>1. 0 \in S
  OBVIOUS
<1>2. ASSUME NEW m \in Nat, m \in S PROVE m + 1 \in S
  <2> SUFFICES ASSUME NEW Q, Q \subseteq 1 .. m + 1, Q # {}
               PROVE  \E i \in Q : \A j \in Q : j <= i
    OBVIOUS
  <2>1. CASE m + 1 \in Q
    BY <2>1
  <2>2. CASE m + 1 \notin Q
    <3>1. Q \subseteq 1 .. m
      BY <2>2
    <3> QED
      BY <1>2, <3>1, Zenon
  <2> QED
    BY <2>1, <2>2
<1> HIDE DEF S
<1>3. n \in S
  BY <1>1, <1>2, SetInduction
<1> QED
  BY <1>3, Zenon DEF S

-----------------------------------------------------------------------------
(* The steps of the session.                                               *)

\* Two queues of the state, and what the invariant says of each frame in them.
LEMMA QueuesInState ==
  ASSUME Types
  PROVE  /\ chan \o sink \in Seq(Frames) /\ pending \o sink \in Seq(Frames)
         /\ version \in Nat \ {0} /\ table \in Nat
         /\ \A q \in Seq(Frames) : \A i \in DOMAIN q : q[i] \in Frames /\ q[i].v \in Nat
BY RelayAssumption, ConcatFacts, FrameFacts DEF Types

\* A table installed makes none of the frames newer than the session's.
LEMMA InstallStep ==
  ASSUME RelayInv, InstallTable
  PROVE  RelayInv'
<1> USE DEF RelayInv
<1>1. Types'
  BY RelayAssumption DEF InstallTable, Types, accept, link, guest
<1>2. LoopInv'
  BY DEF InstallTable, LoopInv, accept, link, guest
<1>3. OrderInv'
  <2>1. version' = version + 1 /\ UNCHANGED <<sink, chan, pending, table>>
    BY Zenon DEF InstallTable, accept, guest
  <2>2. version \in Nat /\ table \in Nat /\ {sink, chan, pending} \subseteq Seq(Frames)
    BY QueuesInState, Zenon DEF Types
  <2>3. \A n \in Nat : n <= version => n <= version'
    BY <2>1, <2>2
  <2>4. \A q \in Seq(Frames) : \A i \in DOMAIN q : q[i].v \in Nat
    BY QueuesInState, Zenon
  <2> QED
    BY <2>1, <2>2, <2>3, <2>4, Zenon DEF OrderInv
<1>4. KeptInv' /\ SentInv' /\ DecisionCovered'
  BY DEF InstallTable, KeptInv, SentInv, DecisionCovered, accept, link, guest
<1> QED
  BY <1>1, <1>2, <1>3, <1>4

\* A frame of the session's own table goes to the end of both queues.
LEMMA SentFrame ==
  ASSUME RelayInv, NEW f \in Frames, f.v = version, sink' = Append(sink, f),
         IsPolicy(f) \/ job # "policy",
         UNCHANGED <<version, fds, accept, link, chan, guest>>
  PROVE  LoopInv' /\ OrderInv' /\ KeptInv' /\ SentInv' /\ DecisionCovered'
<1> USE DEF RelayInv
<1>1. LoopInv' /\ DecisionCovered'
  BY DEF LoopInv, DecisionCovered, accept, link, guest
<1>2. OrderInv'
  <2>1. sink \in Seq(Frames) /\ version \in Nat
    BY QueuesInState, Zenon DEF Types
  <2>2. \A i \in DOMAIN sink' : sink'[i] = f \/ (i \in DOMAIN sink /\ sink'[i] = sink[i])
    BY <2>1, SMTT(30)
  <2>3. \A i, j \in DOMAIN sink' : i <= j => sink'[i].v <= sink'[j].v
    <3> SUFFICES ASSUME NEW i \in DOMAIN sink', NEW j \in DOMAIN sink', i <= j
                 PROVE  sink'[i].v <= sink'[j].v
      OBVIOUS
    <3>1. CASE j = Len(sink) + 1
      <4>1. sink'[j] = f
        BY <2>1, <3>1
      <4>2. \A k \in DOMAIN sink : sink[k].v <= f.v
        BY Zenon DEF OrderInv
      <4>3. f.v <= f.v
        BY <2>1
      <4> QED
        BY <2>2, <4>1, <4>2, <4>3, Zenon
    <3>2. CASE j # Len(sink) + 1
      <4>1. i \in DOMAIN sink /\ j \in DOMAIN sink /\ sink'[i] = sink[i] /\ sink'[j] = sink[j]
        BY <2>1, <3>2
      <4> QED
        BY <4>1 DEF OrderInv
    <3> QED
      BY <3>1, <3>2, Zenon
  <2>4. UNCHANGED <<version, pending, chan, table>>
    BY DEF accept, guest
  <2>5. \A i \in DOMAIN sink' : sink'[i].v <= version
    <3>1. version <= version
      BY <2>1
    <3> QED
      BY <2>2, <3>1, Zenon DEF OrderInv
  <2>6. \A i \in DOMAIN pending, j \in DOMAIN sink' : pending[i].v <= sink'[j].v
    BY <2>2, Zenon DEF OrderInv
  <2> QED
    BY <2>3, <2>4, <2>5, <2>6, Zenon DEF OrderInv
<1>3. version \in Nat /\ table \in Nat /\ sink \in Seq(Frames)
  BY QueuesInState, Zenon DEF Types
<1>4. ASSUME NEW p \in Seq(Frames), Covered(p \o sink),
             job # "policy" => Reaches(p \o sink, Len(p \o sink), version)
      PROVE  /\ Covered(p \o sink')
             /\ Reaches(p \o sink', Len(p \o sink'), version)
             /\ KnownTo(p \o sink, table)
                  /\ (job # "policy" => Known(p \o sink, Len(p \o sink), version, table)) =>
                KnownTo(p \o sink', table) /\ Known(p \o sink', Len(p \o sink'), version, table)
  <2> DEFINE q == p \o sink
  <2>1. q \in Seq(Frames) /\ p \o sink' = Append(q, f) /\ Len(Append(q, f)) = Len(q) + 1
    BY <1>3, ConcatFacts, SentLast
  <2>2. IsDecision(f) => job # "policy"
    BY FrameFacts
  <2>3. IsDecision(f) \/ IsPolicy(f)
    BY FrameFacts
  <2> HIDE DEF q
  <2>4. /\ Covered(q)
        /\ job # "policy" => Reaches(q, Len(q), version)
    BY <1>4 DEF q
  <2>5. Covered(Append(q, f)) /\ Reaches(Append(q, f), Len(q) + 1, version)
    BY <1>3, <2>1, <2>2, <2>3, <2>4, AppendCovered
  <2>6. KnownTo(q, table) /\ (job # "policy" => Known(q, Len(q), version, table)) =>
          KnownTo(Append(q, f), table) /\ Known(Append(q, f), Len(q) + 1, version, table)
    BY <1>3, <2>1, <2>2, <2>3, <2>4, AppendCovered
  <2> QED
    BY <2>1, <2>5, <2>6 DEF q
<1>5. KeptInv'
  <2>1. pending' = pending /\ version' = version /\ pending \in Seq(Frames)
    BY DEF accept, Types
  <2> QED
    BY <1>4, <2>1, Zenon DEF KeptInv
<1>6. SentInv'
  <2>1. UNCHANGED <<chan, version, table, task, conn, alive>> /\ chan \in Seq(Frames)
    BY DEF link, guest, Types
  <2> QED
    BY <1>4, <2>1, Zenon DEF SentInv
<1> QED
  BY <1>1, <1>2, <1>5, <1>6

\* The frame of the table, ...
LEMMA PolicyStep ==
  ASSUME RelayInv, SendPolicyFrame
  PROVE  RelayInv'
<1>1. Policy(version) \in Frames /\ IsPolicy(Policy(version)) /\ Policy(version).v = version
  BY FrameFacts DEF RelayInv, Types
<1>2. Types'
  BY <1>1 DEF RelayInv, SendPolicyFrame, Types, accept, link, guest
<1> QED
  BY <1>1, <1>2, SentFrame DEF SendPolicyFrame, RelayInv

\* ... and a decision taken under it.
LEMMA DecisionStep ==
  ASSUME RelayInv, NEW r \in Requests, SendDecision(r)
  PROVE  RelayInv'
<1>1. /\ Decision(r, version) \in Frames /\ IsDecision(Decision(r, version))
      /\ Decision(r, version).v = version /\ job # "policy"
  BY FrameFacts DEF RelayInv, Types, SendDecision
<1>2. Types'
  BY <1>1 DEF RelayInv, SendDecision, Types, accept, link, guest
<1> QED
  BY <1>1, <1>2, SentFrame DEF SendDecision, RelayInv

-----------------------------------------------------------------------------
(* The steps of the accept loop.                                           *)

\* The connection before is told to stop, and nothing moves.
LEMMA TakeConnectionStep ==
  ASSUME RelayInv, TakeConnection
  PROVE  RelayInv'
<1> USE DEF RelayInv
<1>1. Types'
  BY DEF TakeConnection, Types, session, guest
<1>2. LoopInv'
  BY DEF TakeConnection, LoopInv, guest
<1>3. OrderInv' /\ KeptInv' /\ SentInv' /\ DecisionCovered'
  BY Zenon DEF TakeConnection, OrderInv, KeptInv, SentInv, DecisionCovered, session, guest
<1> QED
  BY <1>1, <1>2, <1>3

\* The new connection gets the buffer, behind a policy.
LEMMA SeedStep ==
  ASSUME RelayInv, SeedConnection
  PROVE  RelayInv'
<1> USE DEF RelayInv
<1>1. /\ pending \in Seq(Frames) /\ sink \in Seq(Frames) /\ version \in 1 .. MaxTables + 1
      /\ table \in Nat /\ version \in Nat
  BY QueuesInState DEF Types
<1>2. /\ Covered(pending \o sink) /\ \A i \in DOMAIN pending : IsPolicy(pending[i]) => i = 1
      /\ \A i \in DOMAIN pending : pending[i].v <= version
      /\ \A i \in DOMAIN sink : sink[i].v <= version
  BY Zenon DEF KeptInv, LoopInv, OrderInv
<1>3. /\ chan' \in Seq(Frames) /\ \A i \in DOMAIN chan' : chan'[i].v <= version
      /\ Covered(chan' \o sink) /\ KnownTo(chan' \o sink, table)
      /\ Reaches(pending \o sink, Len(pending \o sink), version) =>
           Reaches(chan' \o sink, Len(chan' \o sink), version)
             /\ Known(chan' \o sink, Len(chan' \o sink), version, table)
  <2>1. chan' = SeedFrames(pending, version)
    BY DEF SeedConnection
  <2> QED
    BY <1>1, <1>2, <2>1, SeedCovered, Zenon
<1>4. /\ UNCHANGED <<version, job, undecided, sink, opened, alive, table, released>>
      /\ pending' = <<>> /\ hasTx' = TRUE /\ conn' = Head(fds) /\ fds' = Tail(fds)
      /\ task' = "handshake" /\ shutdown' = FALSE /\ loop' = "select"
  BY DEF SeedConnection, session, guest
<1>5. /\ fds \in Seq(1 .. MaxConns) /\ fds # <<>> /\ Head(fds) \in 1 .. MaxConns /\ Head(fds) = fds[1]
      /\ 1 \in DOMAIN fds /\ Tail(fds) \in Seq(1 .. MaxConns)
      /\ \A i \in DOMAIN Tail(fds) : i + 1 \in DOMAIN fds /\ Tail(fds)[i] = fds[i + 1]
  <2>1. fds \in Seq(1 .. MaxConns) /\ fds # <<>>
    BY DEF Types, LoopInv, SeedConnection
  <2>2. /\ Head(fds) = fds[1] /\ Len(fds) \in Nat \ {0} /\ DOMAIN fds = 1 .. Len(fds)
        /\ Tail(fds) \in Seq(1 .. MaxConns) /\ DOMAIN Tail(fds) = 1 .. Len(fds) - 1
        /\ \A i \in 1 .. Len(fds) - 1 : Tail(fds)[i] = fds[i + 1]
    BY <2>1
  <2>3. 1 \in DOMAIN fds
    BY <2>2
  <2>4. fds[1] \in 1 .. MaxConns
    BY <2>1, <2>3, ElementFacts, Zenon
  <2> QED
    BY <2>1, <2>2, <2>3, <2>4
<1>6. <<>> \in Seq(Frames)
  OBVIOUS
<1>7. Types'
  <2>1. conn' \in 0 .. MaxConns
    BY <1>4, <1>5, RelayAssumption
  <2> QED
    BY <1>3, <1>4, <1>5, <1>6, <2>1, Zenon DEF Types
<1>8. LoopInv'
  BY <1>4, <1>5, RelayAssumption DEF LoopInv
<1>9. OrderInv'
  <2>1. \A i \in DOMAIN pending' : FALSE
    BY <1>4
  <2> QED
    BY <1>3, <1>4, <2>1, Zenon DEF OrderInv
<1>10. KeptInv'
  <2>1. pending' \o sink' = sink
    BY <1>1, <1>4, ConcatEmptySeq
  <2>2. Covered(sink) /\ (job # "policy" => Reaches(sink, Len(sink), version))
    BY <1>1, SuffixCovered DEF KeptInv
  <2> QED
    BY <1>4, <2>1, <2>2 DEF KeptInv
<1>11. SentInv'
  BY <1>3, <1>4, Zenon DEF KeptInv, SentInv
<1>12. DecisionCovered'
  BY <1>4 DEF DecisionCovered
<1> QED
  BY <1>7, <1>8, <1>9, <1>10, <1>11, <1>12

\* What is left of the sink when its first frame is taken.
LEMMA SinkTaken ==
  ASSUME RelayInv, sink # <<>>
  PROVE  /\ Head(sink) \in Frames /\ Tail(sink) \in Seq(Frames) /\ Head(sink).v <= version
         /\ \A i \in DOMAIN Tail(sink) : Tail(sink)[i].v <= version /\ Head(sink).v <= Tail(sink)[i].v
         /\ \A i, j \in DOMAIN Tail(sink) : i <= j => Tail(sink)[i].v <= Tail(sink)[j].v
         /\ \A i \in DOMAIN pending : /\ pending[i].v <= Head(sink).v
                                      /\ \A j \in DOMAIN Tail(sink) : pending[i].v <= Tail(sink)[j].v
<1>1. sink \in Seq(Frames)
  BY DEF RelayInv, Types
<1>2. /\ Head(sink) \in Frames /\ Head(sink) = sink[1] /\ 1 \in DOMAIN sink /\ Tail(sink) \in Seq(Frames)
      /\ \A i \in DOMAIN Tail(sink) :
           i \in Nat /\ i + 1 \in DOMAIN sink /\ Tail(sink)[i] = sink[i + 1] /\ 1 <= i + 1
  BY <1>1, QueueFacts
<1>3. \A i, j \in DOMAIN Tail(sink) : i <= j => i + 1 <= j + 1
  BY <1>2
<1> QED
  BY <1>2, <1>3 DEF RelayInv, OrderInv

\* A frame for the connection moves along its queue.
LEMMA DirectStep ==
  ASSUME RelayInv, TakeFrame, hasTx /\ task # "ended"
  PROVE  RelayInv'
<1> USE DEF RelayInv
<1>1. /\ sink # <<>> /\ sink' = Tail(sink) /\ chan' = Append(chan, Head(sink))
      /\ UNCHANGED <<version, job, undecided, fds, loop, conn, task, shutdown, hasTx, pending>>
      /\ UNCHANGED <<opened, alive, table, released>>
  BY DEF TakeFrame, session, link, guest
<1>2. sink \in Seq(Frames) /\ chan \in Seq(Frames) /\ version \in Nat /\ pending = <<>>
  BY QueuesInState DEF Types, LoopInv
<1>3. /\ chan' \in Seq(Frames)
      /\ \A i \in DOMAIN chan' : (i \in DOMAIN chan /\ chan'[i] = chan[i]) \/ chan'[i] = Head(sink)
  BY <1>1, <1>2, SinkTaken
<1>4. Types'
  BY <1>1, <1>3, SinkTaken, Zenon DEF Types
<1>5. LoopInv' /\ DecisionCovered'
  BY <1>1 DEF LoopInv, DecisionCovered
<1>6. OrderInv'
  BY <1>1, <1>2, <1>3, SinkTaken, Zenon DEF OrderInv
<1>7. KeptInv'
  <2>1. pending \o sink = sink /\ pending' \o sink' = Tail(sink)
    BY <1>1, <1>2, SinkTaken, ConcatEmptySeq
  <2>2. Covered(sink) /\ (job # "policy" => Reaches(sink, Len(sink), version))
    BY <2>1 DEF KeptInv
  <2>3. 0 \in Nat
    OBVIOUS
  <2>4. Covered(Tail(sink)) /\ (job # "policy" => Reaches(Tail(sink), Len(Tail(sink)), version))
    BY <1>1, <1>2, <2>2, <2>3, TailCovered
  <2> QED
    BY <1>1, <2>1, <2>4, Zenon DEF KeptInv
<1>8. SentInv'
  <2>1. chan' \o sink' = chan \o sink
    BY <1>1, <1>2, MovedAlong
  <2> QED
    BY <1>1, <2>1, Zenon DEF SentInv
<1> QED
  BY <1>4, <1>5, <1>6, <1>7, <1>8

\* A frame held for the next connection: a decision goes to the end of the
\* buffer, a policy to its head.
LEMMA BufferStep ==
  ASSUME RelayInv, TakeFrame, ~ (hasTx /\ task # "ended")
  PROVE  RelayInv'
<1> USE DEF RelayInv
<1> DEFINE f == Head(sink)
<1>1. /\ sink # <<>> /\ sink' = Tail(sink) /\ hasTx' = FALSE /\ pending' = BufferFrame(pending, f)
      /\ UNCHANGED <<version, job, undecided, fds, loop, conn, task, shutdown, chan>>
      /\ UNCHANGED <<opened, alive, table, released>>
  BY DEF TakeFrame, session, link, guest
<1>2. sink \in Seq(Frames) /\ pending \in Seq(Frames) /\ version \in Nat /\ f \in Frames /\ f.v \in Nat
  BY <1>1, QueuesInState, SinkTaken, FrameFacts, Zenon DEF Types
<1>3. task \notin Active
  BY DEF LoopInv, Active
<1>4. /\ pending' \in Seq(Frames)
      /\ \A i \in DOMAIN pending' : pending'[i] = f \/ \E j \in DOMAIN pending : pending'[i] = pending[j]
      /\ \A i \in DOMAIN pending' : IsPolicy(pending'[i]) => i = 1
      /\ Covered(pending' \o sink')
      /\ \A v \in Nat : Reaches(pending \o sink, Len(pending \o sink), v) =>
           Reaches(pending' \o sink', Len(pending' \o sink'), v)
  <2>1. CASE IsPolicy(f)
    <3> DEFINE D == Decisions(pending)
    <3>1. pending' = <<f>> \o D
      BY <1>1, <2>1 DEF BufferFrame
    <3>2. D \in Seq(Frames) /\ \A i \in DOMAIN D : IsDecision(D[i]) /\ \E j \in DOMAIN pending : D[i] = pending[j]
      BY <1>2, DecisionsFacts
    <3>3. \A i \in DOMAIN pending : pending[i].v <= f.v
      BY <1>1, SinkTaken, Zenon
    <3>4. Covered(pending' \o sink') /\ \A v \in Nat : Reaches(pending \o sink, Len(pending \o sink), v) =>
            Reaches(pending' \o sink', Len(pending' \o sink'), v)
      BY <1>1, <1>2, <2>1, <3>1, <3>3, BufferCovered, Zenon DEF KeptInv
    <3> HIDE DEF D, f
    <3>5. <<f>> \in Seq(Frames) /\ Len(<<f>>) = 1
      BY <1>2
    <3>6. /\ pending' \in Seq(Frames) /\ Len(pending') = 1 + Len(D)
          /\ \A k \in 1 .. 1 + Len(D) : pending'[k] = IF k <= 1 THEN f ELSE D[k - 1]
      BY <3>1, <3>2, <3>5, ConcatProperties, SMTT(30)
    <3>7. ASSUME NEW i \in DOMAIN pending', i # 1
          PROVE  i - 1 \in DOMAIN D /\ pending'[i] = D[i - 1] /\ D[i - 1] \in Frames
      BY <3>2, <3>6, <3>7, SMTT(30)
    <3>8. ASSUME NEW i \in DOMAIN pending', i = 1 PROVE pending'[i] = f
      BY <3>2, <3>6, <3>8
    <3> QED
      BY <3>2, <3>4, <3>6, <3>7, <3>8, FrameFacts, SMTT(30)
  <2>2. CASE ~ IsPolicy(f)
    <3>1. pending' = Append(pending, f)
      BY <1>1, <2>2 DEF BufferFrame
    <3>2. pending' \o sink' = pending \o sink
      BY <1>1, <1>2, <3>1, MovedAlong, Zenon
    <3>3. /\ pending' \in Seq(Frames)
          /\ \A i \in DOMAIN pending' : (i \in DOMAIN pending /\ pending'[i] = pending[i]) \/ pending'[i] = f
      BY <1>2, <3>1
    <3> QED
      BY <2>2, <3>2, <3>3, Zenon DEF KeptInv, LoopInv
  <2> QED
    BY <2>1, <2>2, Zenon
<1> HIDE DEF f
<1>5. Types'
  BY <1>1, <1>4, SinkTaken, Zenon DEF Types
<1>6. LoopInv' /\ SentInv' /\ DecisionCovered'
  BY <1>1, <1>3, <1>4, Zenon DEF LoopInv, SentInv, DecisionCovered
<1>7. OrderInv'
  <2>1. \A i \in DOMAIN pending' : /\ pending'[i].v <= version
                                   /\ \A j \in DOMAIN Tail(sink) : pending'[i].v <= Tail(sink)[j].v
    BY <1>1, <1>4, SinkTaken, Zenon DEF f, OrderInv
  <2> QED
    BY <1>1, <2>1, SinkTaken, Zenon DEF OrderInv
<1>8. KeptInv'
  BY <1>1, <1>2, <1>4, Zenon DEF KeptInv
<1> QED
  BY <1>5, <1>6, <1>7, <1>8

\* The run's end tells the task to stop, and nothing moves.
LEMMA EndRunStep ==
  ASSUME RelayInv, EndRun
  PROVE  RelayInv'
<1> USE DEF RelayInv
<1>1. Types'
  BY DEF EndRun, Types, session, guest
<1>2. LoopInv'
  BY DEF EndRun, LoopInv, guest
<1>3. OrderInv' /\ KeptInv' /\ SentInv' /\ DecisionCovered'
  BY Zenon DEF EndRun, OrderInv, KeptInv, SentInv, DecisionCovered, session, guest
<1> QED
  BY <1>1, <1>2, <1>3

-----------------------------------------------------------------------------
(* The steps of the connection's task and of the guest.                    *)

\* The handshake done, the same frames are on their way.
LEMMA HandshakeStep ==
  ASSUME RelayInv, Handshake
  PROVE  RelayInv'
<1> USE DEF RelayInv
<1>1. Types'
  BY DEF Handshake, Types, session, accept, guest
<1>2. LoopInv'
  BY DEF Handshake, LoopInv, accept, guest, Active
<1>3. OrderInv' /\ KeptInv' /\ DecisionCovered'
  BY Zenon DEF Handshake, OrderInv, KeptInv, DecisionCovered, session, accept, guest
<1>4. SentInv'
  BY DEF Handshake, SentInv, session, accept, guest, Active
<1> QED
  BY <1>1, <1>2, <1>3, <1>4

\* A frame written: where it reaches the guest, a policy becomes its table, and
\* a decision finds a table no older than its own.
LEMMA ServeStep ==
  ASSUME RelayInv, Serve
  PROVE  RelayInv'
<1> USE DEF RelayInv
<1> DEFINE f == Head(chan)
           q == chan \o sink
<1>1. /\ chan # <<>> /\ chan' = Tail(chan) /\ task \in Active
      /\ UNCHANGED <<version, job, undecided, sink, fds, loop, hasTx, pending>>
      /\ UNCHANGED <<conn, task, shutdown, opened, alive>>
  BY DEF Serve, session, accept, link, Active
<1>2. /\ chan \in Seq(Frames) /\ sink \in Seq(Frames) /\ q \in Seq(Frames) /\ table \in Nat /\ version \in Nat
      /\ f \in Frames /\ f.v \in 1 .. MaxTables + 1 /\ f.v \in Nat /\ Tail(chan) \in Seq(Frames)
      /\ \A i \in DOMAIN Tail(chan) : Tail(chan)[i].v <= version
      /\ f.v <= version
  <2>1. chan \in Seq(Frames) /\ sink \in Seq(Frames) /\ q \in Seq(Frames) /\ table \in Nat /\ version \in Nat
    BY QueuesInState DEF Types
  <2>2. /\ f \in Frames /\ f = chan[1] /\ 1 \in DOMAIN chan /\ Tail(chan) \in Seq(Frames)
        /\ \A i \in DOMAIN Tail(chan) : i + 1 \in DOMAIN chan /\ Tail(chan)[i] = chan[i + 1]
    BY <1>1, <2>1, QueueFacts
  <2>3. f.v \in 1 .. MaxTables + 1 /\ f.v \in Nat
    BY <2>2, FrameFacts, Zenon
  <2> QED
    BY <2>1, <2>2, <2>3, Zenon DEF OrderInv
<1>3. q # <<>> /\ Head(q) = f /\ Tail(q) = chan' \o sink'
  BY <1>1, <1>2, TakenFirst, Zenon
<1>4. KeptInv' /\ LoopInv'
  BY <1>1 DEF KeptInv, LoopInv
<1> DEFINE Rest == Types' /\ OrderInv' /\ SentInv' /\ DecisionCovered'
<1> SUFFICES Rest
  BY <1>4
<1>5. CASE conn # alive
  <2>1. UNCHANGED <<table, released>>
    BY <1>5 DEF Serve
  <2>2. Types'
    BY <1>1, <1>2, <2>1, Zenon DEF Types
  <2>3. OrderInv'
    BY <1>1, <1>2, <2>1, Zenon DEF OrderInv
  <2>4. SentInv' /\ DecisionCovered'
    BY <1>1, <1>5, <2>1 DEF SentInv, DecisionCovered
  <2> QED
    BY <2>2, <2>3, <2>4
<1>6. ASSUME conn = alive
      PROVE  /\ Covered(q) /\ KnownTo(q, table)
             /\ job # "policy" => Reaches(q, Len(q), version) /\ Known(q, Len(q), version, table)
  BY <1>1, <1>6 DEF SentInv
<1> HIDE DEF q
<1>7. CASE conn = alive /\ IsPolicy(f)
  <2>1. table' = f.v /\ UNCHANGED released
    BY <1>7, Zenon DEF Serve
  <2>2. Types'
    <3>1. table' \in 0 .. MaxTables + 1
      BY <1>2, <2>1, RelayAssumption
    <3> QED
      BY <1>1, <1>2, <2>1, <3>1, Zenon DEF Types
  <2>3. OrderInv'
    BY <1>1, <1>2, <2>1, Zenon DEF OrderInv
  <2>4. /\ Covered(Tail(q)) /\ KnownTo(Tail(q), f.v)
        /\ job # "policy" => Reaches(Tail(q), Len(Tail(q)), version) /\ Known(Tail(q), Len(Tail(q)), version, f.v)
    BY <1>2, <1>3, <1>6, <1>7, TailCovered, Zenon
  <2>5. SentInv' /\ DecisionCovered'
    BY <1>1, <1>3, <2>1, <2>4, Zenon DEF SentInv, DecisionCovered
  <2> QED
    BY <2>2, <2>3, <2>5
<1>8. CASE conn = alive /\ ~ IsPolicy(f)
  <2> DEFINE e == [r |-> f.r, v |-> f.v, under |-> table]
  <2>1. released' = released \cup {e} /\ table' = table
    BY <1>8 DEF Serve
  <2>2. e \in [r : Requests, v : 1 .. MaxTables + 1, under : 0 .. MaxTables + 1] /\ e.under = table /\ e.v = f.v
    <3>1. f.r \in Requests /\ table \in 0 .. MaxTables + 1
      BY <1>2, <1>8, FrameFacts, Zenon DEF Types
    <3> QED
      BY <1>2, <3>1
  <2> HIDE DEF e
  <2>3. Types'
    BY <1>1, <1>2, <2>1, <2>2, Zenon DEF Types
  <2>4. OrderInv'
    BY <1>1, <1>2, <2>1, Zenon DEF OrderInv
  <2>5. IsDecision(f)
    BY <1>2, <1>8, FrameFacts
  <2>6. /\ Covered(Tail(q)) /\ KnownTo(Tail(q), table) /\ table >= f.v
        /\ job # "policy" => Reaches(Tail(q), Len(Tail(q)), version) /\ Known(Tail(q), Len(Tail(q)), version, table)
    BY <1>2, <1>3, <1>6, <1>8, <2>5, TailCovered, Zenon
  <2>7. SentInv'
    BY <1>1, <1>3, <2>1, <2>6, Zenon DEF SentInv
  <2>8. DecisionCovered'
    BY <2>1, <2>2, <2>6 DEF DecisionCovered
  <2> QED
    BY <2>3, <2>4, <2>7, <2>8
<1> QED
  BY <1>5, <1>7, <1>8

\* A task that ends takes its queue with it.
LEMMA EndTaskStep ==
  ASSUME RelayInv, EndTask
  PROVE  RelayInv'
<1> USE DEF RelayInv
<1>1. Types'
  BY DEF EndTask, Types, session, accept, guest
<1>2. LoopInv' /\ SentInv'
  BY DEF EndTask, LoopInv, SentInv, accept, guest, Active
<1>3. /\ UNCHANGED <<version, job, sink, pending, table, released>>
      /\ \A i \in DOMAIN chan' : FALSE
  <2>1. chan' = <<>>
    BY DEF EndTask
  <2>2. UNCHANGED <<version, job, sink, pending, table, released>>
    BY Zenon DEF EndTask, session, accept, guest
  <2> QED
    BY <2>1, <2>2
<1>4. OrderInv' /\ KeptInv' /\ DecisionCovered'
  BY <1>3, Zenon DEF OrderInv, KeptInv, DecisionCovered
<1> QED
  BY <1>1, <1>2, <1>4

\* A connection opened is none the loop has taken, ...
LEMMA ConnectsStep ==
  ASSUME RelayInv, GuestConnects
  PROVE  RelayInv'
<1> USE DEF RelayInv
<1>1. /\ opened < MaxConns /\ opened' = opened + 1 /\ alive' = opened + 1 /\ fds' = Append(fds, opened + 1)
      /\ UNCHANGED <<version, job, undecided, sink, loop, hasTx, pending>>
      /\ UNCHANGED <<conn, task, shutdown, chan, table, released>>
  BY DEF GuestConnects, session, accept, link
<1>2. opened \in Nat /\ opened + 1 \in 1 .. MaxConns /\ fds \in Seq(1 .. MaxConns) /\ conn \in Nat
  BY <1>1, RelayAssumption DEF Types
<1>3. /\ fds' \in Seq(1 .. MaxConns) /\ fds' # <<>>
      /\ \A i \in DOMAIN fds' : (i \in DOMAIN fds /\ fds'[i] = fds[i]) \/ fds'[i] = opened + 1
  BY <1>1, <1>2
<1>4. \A i \in DOMAIN fds : fds[i] \in Nat
  <2>1. \A i \in DOMAIN fds : fds[i] \in 1 .. MaxConns
    BY <1>2, ElementFacts, Zenon
  <2> QED
    BY <2>1, RelayAssumption
<1>5. Types'
  <2>1. opened' \in 0 .. MaxConns /\ alive' \in 0 .. opened'
    BY <1>1, <1>2, RelayAssumption
  <2> QED
    BY <1>1, <1>3, <2>1, Zenon DEF Types
<1>6. LoopInv'
  <2>1. conn' <= opened' /\ \A i \in DOMAIN fds' : fds'[i] <= opened'
    BY <1>1, <1>2, <1>3, <1>4 DEF LoopInv
  <2> QED
    BY <1>1, <1>3, <2>1 DEF LoopInv
<1>7. conn' # alive'
  BY <1>1, <1>2 DEF LoopInv
<1>8. OrderInv' /\ KeptInv' /\ SentInv' /\ DecisionCovered'
  BY <1>1, <1>7, Zenon DEF OrderInv, KeptInv, SentInv, DecisionCovered
<1> QED
  BY <1>5, <1>6, <1>8

\* ... and a connection dropped is none the guest holds.
LEMMA DropsStep ==
  ASSUME RelayInv, GuestDrops
  PROVE  RelayInv'
<1> USE DEF RelayInv
<1>1. Types'
  BY DEF GuestDrops, Types, session, accept, link
<1>2. LoopInv'
  BY DEF GuestDrops, LoopInv, accept, link
<1>3. OrderInv' /\ KeptInv' /\ DecisionCovered'
  BY Zenon DEF GuestDrops, OrderInv, KeptInv, DecisionCovered, session, accept, link
<1>4. SentInv'
  BY DEF GuestDrops, SentInv, LoopInv, session, accept, link
<1> QED
  BY <1>1, <1>2, <1>3, <1>4

-----------------------------------------------------------------------------
(* The channel.                                                            *)

\* The relay starts with empty queues.
LEMMA RelayInit == Init => RelayInv
<1> SUFFICES ASSUME Init PROVE RelayInv
  OBVIOUS
<1>1. Types
  <2>1. 1 \in 1 .. MaxTables + 1 /\ 0 \in 0 .. MaxConns /\ 0 \in 0 .. MaxTables + 1 /\ 0 \in 0 .. 0
    BY RelayAssumption
  <2>2. <<>> \in Seq(Frames) /\ <<>> \in Seq(1 .. MaxConns)
    OBVIOUS
  <2> QED
    BY <2>1, <2>2, Zenon DEF Init, Types
<1>2. LoopInv /\ OrderInv /\ DecisionCovered
  BY DEF Init, LoopInv, OrderInv, DecisionCovered, Active
<1>3. <<>> \o <<>> = <<>>
  OBVIOUS
<1>4. KeptInv /\ SentInv
  BY <1>3, SMTT(30) DEF Init, KeptInv, SentInv, Covered, Reaches, Active
<1> QED
  BY <1>1, <1>2, <1>4 DEF RelayInv

\* Every step of the relay, its session and its guest keeps the invariant.
LEMMA RelayStep == RelayInv /\ [Next]_vars => RelayInv'
<1> SUFFICES ASSUME RelayInv, [Next]_vars PROVE RelayInv'
  OBVIOUS
<1>1. CASE Session
  BY <1>1, InstallStep, PolicyStep, DecisionStep DEF Session
<1>2. CASE AcceptLoop
  BY <1>2, TakeConnectionStep, SeedStep, DirectStep, BufferStep DEF AcceptLoop
<1>3. CASE EndRun
  BY <1>3, EndRunStep
<1>4. CASE Task
  BY <1>4, HandshakeStep, ServeStep, EndTaskStep DEF Task
<1>5. CASE GuestConnects
  BY <1>5, ConnectsStep
<1>6. CASE GuestDrops
  BY <1>6, DropsStep
<1>7. CASE UNCHANGED vars
  <2>1. Types' /\ LoopInv' /\ OrderInv'
    BY <1>7, Zenon DEF RelayInv, vars, session, accept, link, guest, Types, LoopInv, OrderInv
  <2>2. KeptInv' /\ SentInv' /\ DecisionCovered'
    BY <1>7 DEF RelayInv, vars, session, accept, link, guest, KeptInv, SentInv, DecisionCovered
  <2> QED
    BY <2>1, <2>2 DEF RelayInv
<1> QED
  BY <1>1, <1>2, <1>3, <1>4, <1>5, <1>6, <1>7 DEF Next

LEMMA RelayInvariant == Spec => []RelayInv
BY RelayInit, RelayStep, PTL DEF Spec

\* No decision releases a request in a guest whose table is older than the one
\* the decision was taken under, through drops, reconnects and buffering
\* (buffer_frame, seed_frames, supersede_connection and serve).
THEOREM DecisionsAreCovered == Spec => []DecisionCovered
<1>1. RelayInv => DecisionCovered
  BY DEF RelayInv
<1> QED
  BY <1>1, RelayInvariant, PTL

\* A connection the guest holds leads to the session's table: the last policy
\* queued for it is the table's own, or there is none and the guest has it.
THEOREM NewestIsOnItsWay == Spec => []NewestOnItsWay
<1>1. RelayInv => TypeOK
  BY DEF RelayInv, Types, LoopInv, TypeOK
<1>2. RelayInv => NewestOnItsWay
  <2> SUFFICES ASSUME RelayInv, task \in {"handshake", "serving"}, conn = alive, ~ shutdown, job # "policy"
               PROVE  IF Policies(Route) # {}
                      THEN \E i \in Policies(Route) : Route[i].v = version /\ \A j \in Policies(Route) : j <= i
                      ELSE table = version
    BY <1>1 DEF NewestOnItsWay
  <2> DEFINE q == chan \o sink
  <2>1. /\ q \in Seq(Frames) /\ Len(q) \in Nat /\ DOMAIN q = 1 .. Len(q) /\ version \in Nat /\ table \in Nat
        /\ \A i \in DOMAIN q : q[i].v \in Nat
    BY QueuesInState DEF RelayInv
  <2>2. \A i \in DOMAIN q : q[i].v <= version
    <3>1. chan \in Seq(Frames) /\ sink \in Seq(Frames)
      BY DEF RelayInv, Types
    <3>2. \A i \in DOMAIN q : (i \in DOMAIN chan /\ q[i] = chan[i]) \/ (i - Len(chan) \in DOMAIN sink /\ q[i] = sink[i - Len(chan)])
      BY <3>1
    <3> QED
      BY <3>2 DEF RelayInv, OrderInv
  <2>3. Reaches(q, Len(q), version) /\ Known(q, Len(q), version, table) /\ table <= version
    BY Zenon DEF RelayInv, SentInv, OrderInv, Active
  <2> HIDE DEF q
  <2>4. Policies(q) = {} => table = version
    BY <2>1, <2>3 DEF Known, Policies
  <2>5. ASSUME Policies(q) # {}
        PROVE  \E i \in Policies(q) : q[i].v = version /\ \A j \in Policies(q) : j <= i
    <3>1. Policies(q) \subseteq 1 .. Len(q)
      BY <2>1 DEF Policies
    <3>2. PICK i \in Policies(q) : \A j \in Policies(q) : j <= i
      BY <2>1, <2>5, <3>1, LastOne, Zenon
    <3>3. i \in 1 .. Len(q) /\ IsPolicy(q[i])
      BY <3>1 DEF Policies
    <3>4. ~ (q[i].v < version)
      <4> SUFFICES ASSUME q[i].v < version PROVE FALSE
        OBVIOUS
      <4>1. PICK k \in i + 1 .. Len(q) : IsPolicy(q[k])
        BY <2>3, <3>3 DEF Reaches
      <4>2. k \in 1 .. Len(q) /\ k > i
        BY <2>1, <3>3
      <4> QED
        BY <2>1, <3>2, <3>3, <4>1, <4>2 DEF Policies
    <3> QED
      BY <2>1, <2>2, <3>2, <3>3, <3>4
  <2> QED
    BY <2>4, <2>5, Zenon DEF Route, q
<1> QED
  BY <1>2, RelayInvariant, PTL
=============================================================================
