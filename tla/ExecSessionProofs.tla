-------------------------- MODULE ExecSessionProofs --------------------------
(***************************************************************************)
(* A client that prints the exit code of its session has printed all the   *)
(* command wrote: for any keys, chord, script, amount of output and room   *)
(* in the queues, however the hops interleave and whoever goes first.      *)
(***************************************************************************)
EXTENDS ExecSession, NaturalsInduction, WellFoundedInduction, TLAPS

-----------------------------------------------------------------------------
(* Queues of output: chunks, and a mark for the end.                       *)

Marked(q) == \E i \in DOMAIN q : q[i] # "o"
OneMark(q) == \A i, j \in DOMAIN q : q[i] # "o" /\ q[j] # "o" => i = j
Outs(q) == IF Marked(q) THEN Len(q) - 1 ELSE Len(q)

\* Only the last item may be a mark, and it is e.
Marks(q, e) == \A i \in DOMAIN q : q[i] # "o" => i = Len(q) /\ q[i] = e

\* What an item added to a queue, and one taken from it, leaves in its places.
LEMMA Appended ==
  ASSUME NEW S, NEW q \in Seq(S), NEW x
  PROVE  /\ Len(q) \in Nat /\ DOMAIN q = 1 .. Len(q)
         /\ Len(Append(q, x)) = Len(q) + 1 /\ DOMAIN Append(q, x) = 1 .. Len(q) + 1
         /\ Append(q, x)[Len(q) + 1] = x /\ \A i \in 1 .. Len(q) : Append(q, x)[i] = q[i]
         /\ x \in S => Append(q, x) \in Seq(S)
<1> DEFINE T == S \cup {x}
<1>1. q \in Seq(T) /\ x \in T
  OBVIOUS
<1> HIDE DEF T
<1>2. /\ Len(q) \in Nat /\ DOMAIN q = 1 .. Len(q)
      /\ Len(Append(q, x)) = Len(q) + 1 /\ DOMAIN Append(q, x) = 1 .. Len(q) + 1
      /\ Append(q, x)[Len(q) + 1] = x /\ \A i \in 1 .. Len(q) : Append(q, x)[i] = q[i]
  BY <1>1
<1>3. x \in S => Append(q, x) \in Seq(S)
  OBVIOUS
<1> QED
  BY <1>2, <1>3

\* An item taken from the front of a queue.
LEMMA Taken ==
  ASSUME NEW S, NEW q \in Seq(S), q # << >>
  PROVE  /\ Len(q) \in Nat \ {0} /\ DOMAIN q = 1 .. Len(q) /\ Head(q) = q[1] /\ Head(q) \in S
         /\ Tail(q) \in Seq(S) /\ Len(Tail(q)) = Len(q) - 1 /\ DOMAIN Tail(q) = 1 .. Len(q) - 1
         /\ \A i \in 1 .. Len(q) - 1 : Tail(q)[i] = q[i + 1]
OBVIOUS

\* A chunk of output added to a queue.
LEMMA ChunkAppended ==
  ASSUME NEW S, NEW q \in Seq(S)
  PROVE  /\ Marked(Append(q, "o")) <=> Marked(q)
         /\ Outs(Append(q, "o")) = Outs(q) + 1
         /\ OneMark(q) => OneMark(Append(q, "o"))
         /\ ~ Marked(q) => \A e : Marks(Append(q, "o"), e)
<1> DEFINE y == Append(q, "o")
<1>1. /\ Len(q) \in Nat /\ DOMAIN q = 1 .. Len(q) /\ Len(y) = Len(q) + 1 /\ DOMAIN y = 1 .. Len(q) + 1
      /\ y[Len(q) + 1] = "o" /\ \A i \in 1 .. Len(q) : y[i] = q[i]
  BY Appended
<1> HIDE DEF y
<1>2. \A i \in DOMAIN y : y[i] # "o" => i \in DOMAIN q /\ q[i] = y[i]
  <2> SUFFICES ASSUME NEW i \in DOMAIN y, y[i] # "o" PROVE i \in DOMAIN q /\ q[i] = y[i]
    OBVIOUS
  <2>1. i \in 1 .. Len(q)
    BY <1>1
  <2> QED
    BY <1>1, <2>1
<1>3. \A i \in DOMAIN q : i \in DOMAIN y /\ y[i] = q[i]
  BY <1>1
<1>4. Marked(y) <=> Marked(q)
  BY <1>2, <1>3, Zenon DEF Marked
<1>5. Outs(y) = Outs(q) + 1
  BY <1>1, <1>4 DEF Outs
<1>6. OneMark(q) => OneMark(y)
  BY <1>2, Zenon DEF OneMark
<1>7. ~ Marked(q) => \A e : Marks(y, e)
  BY <1>4, Zenon DEF Marked, Marks
<1> QED
  BY <1>4, <1>5, <1>6, <1>7 DEF y

\* The mark added to a queue that has none.
LEMMA MarkAppended ==
  ASSUME NEW S, NEW q \in Seq(S), ~ Marked(q), NEW x, x # "o"
  PROVE  /\ Marked(Append(q, x)) /\ OneMark(Append(q, x)) /\ Marks(Append(q, x), x)
         /\ Outs(Append(q, x)) = Outs(q)
<1> DEFINE y == Append(q, x)
<1>1. /\ Len(q) \in Nat /\ DOMAIN q = 1 .. Len(q) /\ Len(y) = Len(q) + 1 /\ DOMAIN y = 1 .. Len(q) + 1
      /\ y[Len(q) + 1] = x /\ \A i \in 1 .. Len(q) : y[i] = q[i]
  BY Appended
<1> HIDE DEF y
<1>2. ASSUME NEW i \in DOMAIN y, y[i] # "o" PROVE i = Len(y) /\ y[i] = x
  <2>1. i \notin 1 .. Len(q)
    BY <1>1, <1>2, Zenon DEF Marked
  <2>2. i = Len(q) + 1
    BY <1>1, <2>1
  <2> QED
    BY <1>1, <2>2, Zenon
<1>3. Len(q) + 1 \in DOMAIN y
  BY <1>1
<1>4. Marked(y) /\ OneMark(y) /\ Marks(y, x)
  BY <1>1, <1>2, <1>3, Zenon DEF Marked, OneMark, Marks
<1>5. Outs(y) = Outs(q)
  BY <1>1, <1>4 DEF Outs
<1> QED
  BY <1>4, <1>5 DEF y

\* A chunk taken from a queue.
LEMMA ChunkTaken ==
  ASSUME NEW S, NEW q \in Seq(S), q # << >>, Head(q) = "o"
  PROVE  /\ Marked(Tail(q)) <=> Marked(q)
         /\ Outs(q) = Outs(Tail(q)) + 1
         /\ OneMark(q) => OneMark(Tail(q))
         /\ \A e : Marks(q, e) => Marks(Tail(q), e)
<1> DEFINE y == Tail(q)
<1>1. /\ Len(q) \in Nat \ {0} /\ DOMAIN q = 1 .. Len(q) /\ q[1] = "o"
      /\ Len(y) = Len(q) - 1 /\ DOMAIN y = 1 .. Len(q) - 1
      /\ \A i \in 1 .. Len(q) - 1 : y[i] = q[i + 1]
  BY Taken
<1> HIDE DEF y
<1>2. \A i \in DOMAIN y : i + 1 \in DOMAIN q /\ y[i] = q[i + 1] /\ i \in Nat
  BY <1>1
<1>3. \A i \in DOMAIN q : q[i] # "o" => i - 1 \in DOMAIN y /\ y[i - 1] = q[i]
  <2> SUFFICES ASSUME NEW i \in DOMAIN q, q[i] # "o" PROVE i - 1 \in DOMAIN y /\ y[i - 1] = q[i]
    OBVIOUS
  <2>1. i # 1
    BY <1>1
  <2>2. i - 1 \in 1 .. Len(q) - 1 /\ (i - 1) + 1 = i
    BY <1>1, <2>1
  <2> QED
    BY <1>1, <2>2
<1>4. Marked(y) <=> Marked(q)
  BY <1>2, <1>3, Zenon DEF Marked
<1>5. Outs(q) = Outs(y) + 1
  BY <1>1, <1>4 DEF Outs
<1>6. OneMark(q) => OneMark(y)
  <2> SUFFICES ASSUME OneMark(q), NEW i \in DOMAIN y, NEW j \in DOMAIN y, y[i] # "o", y[j] # "o"
               PROVE  i = j
    BY DEF OneMark
  <2>1. i + 1 = j + 1
    BY <1>2, Zenon DEF OneMark
  <2> QED
    BY <1>2, <2>1
<1>7. ASSUME NEW e, Marks(q, e) PROVE Marks(y, e)
  <2> SUFFICES ASSUME NEW i \in DOMAIN y, y[i] # "o" PROVE i = Len(y) /\ y[i] = e
    BY DEF Marks
  <2>1. i + 1 = Len(q) /\ y[i] = e
    BY <1>2, <1>7, Zenon DEF Marks
  <2> QED
    BY <1>1, <1>2, <2>1
<1> QED
  BY <1>4, <1>5, <1>6, <1>7 DEF y

\* The mark taken from a queue: none is left, and nothing was behind a last one.
LEMMA MarkTaken ==
  ASSUME NEW S, NEW q \in Seq(S), q # << >>, Head(q) # "o", OneMark(q)
  PROVE  /\ Marked(q) /\ ~ Marked(Tail(q)) /\ Outs(q) = Outs(Tail(q))
         /\ \A e : Marks(q, e) => Tail(q) = << >> /\ Head(q) = e
<1> DEFINE y == Tail(q)
<1>1. /\ Len(q) \in Nat \ {0} /\ DOMAIN q = 1 .. Len(q) /\ q[1] = Head(q)
      /\ Len(y) = Len(q) - 1 /\ DOMAIN y = 1 .. Len(q) - 1 /\ y \in Seq(S)
      /\ \A i \in 1 .. Len(q) - 1 : y[i] = q[i + 1]
  BY Taken
<1> HIDE DEF y
<1>2. 1 \in DOMAIN q /\ q[1] # "o"
  BY <1>1
<1>3. Marked(q)
  BY <1>2, Zenon DEF Marked
<1>4. ~ Marked(y)
  <2> SUFFICES ASSUME NEW i \in DOMAIN y, y[i] # "o" PROVE FALSE
    BY DEF Marked
  <2>1. i + 1 \in DOMAIN q /\ y[i] = q[i + 1] /\ i + 1 # 1
    BY <1>1
  <2> QED
    BY <1>2, <2>1, Zenon DEF OneMark
<1>5. Outs(q) = Outs(y)
  BY <1>1, <1>3, <1>4 DEF Outs
<1>6. ASSUME NEW e, Marks(q, e) PROVE y = << >> /\ Head(q) = e
  <2>1. Len(q) = 1 /\ q[1] = e
    BY <1>2, <1>6, Zenon DEF Marks
  <2>2. Len(y) = 0
    BY <1>1, <2>1
  <2> QED
    BY <1>1, <2>1, <2>2
<1> QED
  BY <1>3, <1>4, <1>5, <1>6 DEF y

\* A queue holds as many chunks as items, or one less.
LEMMA OutsFacts ==
  ASSUME NEW S, NEW q \in Seq(S)
  PROVE  Outs(q) \in Nat /\ Outs(<< >>) = 0 /\ ~ Marked(<< >>) /\ (~ Marked(q) => \A e : Marks(q, e))
         /\ \A e : Marks(q, e) => OneMark(q)
<1>1. Marked(q) => Len(q) # 0
  BY DEF Marked
<1>2. Outs(q) \in Nat
  BY <1>1 DEF Outs
<1>3. Outs(<< >>) = 0 /\ ~ Marked(<< >>)
  BY DEF Outs, Marked
<1>4. ~ Marked(q) => \A e : Marks(q, e)
  BY Zenon DEF Marked, Marks
<1>5. \A e : Marks(q, e) => OneMark(q)
  BY Zenon DEF Marks, OneMark
<1> QED
  BY <1>2, <1>3, <1>4, <1>5

-----------------------------------------------------------------------------
(* The keys of a chunk.                                                    *)

\* A set of numbers with 0 and the successor of each of its members has them all.
LEMMA NumbersFromZero ==
  ASSUME NEW S, 0 \in S, \A n \in Nat : n \in S => n + 1 \in S
  PROVE  Nat \subseteq S
<1> DEFINE R == {ss \in Nat \X Nat : ss[1] < ss[2]}
           T == Nat \ S
<1> SUFFICES ASSUME T # {} PROVE FALSE
  OBVIOUS
<1>1. IsWellFoundedOn(R, Nat)
  BY NatLessThanWellFounded, Zenon DEF OpToRel
<1>2. T \subseteq Nat
  OBVIOUS
<1> HIDE DEF T, R
<1>3. PICK x \in T : \A y \in T : ~ (<<y, x>> \in R)
  BY <1>1, <1>2, WFMin, Zenon
<1>4. \A y \in T : ~ (y < x)
  BY <1>2, <1>3, Zenon DEF R
<1> QED
  BY <1>3, <1>4 DEF T

Places == 0 .. Len(Chord) - 1

\* What one chunk has come to after some of its keys.
Fed(p) ==
  /\ DOMAIN p = {"m", "pending", "reqs", "next"}
  /\ p.m \in Places /\ p.next \in {"read", "leave"}

\* The detector never holds the whole chord.
LEMMA FeedFacts ==
  ASSUME NEW m \in Places, NEW b
  PROVE  /\ feed(m, b).m \in Places
         /\ feed(m, b).act \in {"forward", "hold", "flush", "trigger"}
<1>1. Len(Chord) \in Nat \ {0}
  BY ExecAssumption
<1>2. 0 \in Places /\ (m > 0 => 1 \in Places) /\ m + 1 <= Len(Chord) /\ (m + 1 < Len(Chord) => m + 1 \in Places)
  BY <1>1 DEF Places
<1>3. m = 0 \/ m > 0
  BY <1>1 DEF Places
<1>4. m + 1 = Len(Chord) \/ m + 1 < Len(Chord)
  BY <1>1, <1>2 DEF Places
<1>5. CASE b = Chord[m + 1] /\ m + 1 = Len(Chord)
  <2>1. feed(m, b) = [m |-> 0, act |-> "trigger", out |-> << >>]
    BY <1>1, <1>5 DEF feed, Places
  <2> QED
    BY <1>2, <2>1
<1>6. CASE b = Chord[m + 1] /\ m + 1 < Len(Chord)
  <2>1. feed(m, b) = [m |-> m + 1, act |-> "hold", out |-> << >>]
    BY <1>1, <1>6 DEF feed, Places
  <2> QED
    BY <1>2, <1>6, <2>1
<1>7. CASE b # Chord[m + 1] /\ m = 0
  <2>1. feed(m, b) = [m |-> 0, act |-> "forward", out |-> <<b>>]
    BY <1>1, <1>7 DEF feed, Places
  <2> QED
    BY <1>2, <2>1
<1>8. CASE b # Chord[m + 1] /\ m > 0 /\ b = Chord[1]
  <2>1. feed(m, b) = [m |-> 1, act |-> "flush", out |-> SubSeq(Chord, 1, m)]
    BY <1>1, <1>8 DEF feed, Places
  <2> QED
    BY <1>2, <1>8, <2>1
<1>9. CASE b # Chord[m + 1] /\ m > 0 /\ b # Chord[1]
  <2>1. feed(m, b) = [m |-> 0, act |-> "flush", out |-> Append(SubSeq(Chord, 1, m), b)]
    BY <1>1, <1>9 DEF feed, Places
  <2> QED
    BY <1>2, <2>1
<1> QED
  BY <1>3, <1>4, <1>5, <1>6, <1>7, <1>8, <1>9

\* A key leaves the detector within the chord, whatever it makes of the pending keys.
LEMMA PumpKeyFacts ==
  ASSUME NEW p, Fed(p), NEW b
  PROVE  Fed(PumpKey(p, b))
<1>1. CASE p.next = "leave"
  BY <1>1 DEF PumpKey
<1>2. CASE p.next # "leave"
  <2> DEFINE f == feed(p.m, b)
             t == plan_feed_target(p, f)
  <2>1. f.m \in Places /\ f.act \in {"forward", "hold", "flush", "trigger"}
    BY FeedFacts DEF Fed
  <2> HIDE DEF f
  <2>2. DOMAIN t = {"m", "pending", "reqs", "next"} /\ t.next \in {"read", "leave"}
    <3>1. CASE f.act = "forward"
      BY <3>1 DEF plan_feed_target, Fed
    <3>2. CASE f.act = "hold"
      BY <3>2 DEF plan_feed_target, Fed
    <3>3. CASE f.act = "flush"
      BY <3>3 DEF plan_feed_target, Fed
    <3>4. CASE f.act = "trigger"
      BY <3>4 DEF plan_feed_target, Fed
    <3> QED
      BY <2>1, <3>1, <3>2, <3>3, <3>4, Zenon
  <2>3. PumpKey(p, b) = [t EXCEPT !.m = f.m]
    BY <1>2 DEF PumpKey, f
  <2> HIDE DEF t
  <2> QED
    BY <2>1, <2>2, <2>3 DEF Fed
<1> QED
  BY <1>1, <1>2

\* The recursion over the keys has a solution.
LEMMA FedExists ==
  ASSUME NEW m0 \in Places, NEW chunk \in Seq(Keys)
  PROVE  \E fed : fed = [n \in 0 .. Len(chunk) |->
           IF n = 0 THEN [m |-> m0, pending |-> << >>, reqs |-> << >>, next |-> "read"]
           ELSE PumpKey(fed[n - 1], chunk[n])]
<1> DEFINE start == [m |-> m0, pending |-> << >>, reqs |-> << >>, next |-> "read"]
           Key(g, n) == IF n = 0 THEN start ELSE PumpKey(g[n - 1], chunk[n])
           Upto(m) == \E g : \A n \in 0 .. m : g[n] = Key(g, n)
           S == {m \in Nat : Upto(m)}
<1> HIDE DEF start
<1>1. Upto(0)
  <2> DEFINE g == [n \in 0 .. 0 |-> start]
  <2>1. \A n \in 0 .. 0 : g[n] = Key(g, n)
    OBVIOUS
  <2> QED
    BY <2>1, Zenon
<1>2. ASSUME NEW m \in Nat, Upto(m) PROVE Upto(m + 1)
  <2>1. PICK g : \A n \in 0 .. m : g[n] = Key(g, n)
    BY <1>2, Zenon
  <2> DEFINE new == PumpKey(g[m], chunk[m + 1])
             h == [n \in 0 .. m + 1 |-> IF n = m + 1 THEN new ELSE g[n]]
  <2> HIDE DEF new
  <2>2. ASSUME NEW n \in 0 .. m + 1 PROVE h[n] = Key(h, n)
    <3>1. CASE n = m + 1
      <4>1. h[n] = new /\ h[n - 1] = g[m] /\ n # 0
        BY <3>1
      <4> QED
        BY <3>1, <4>1 DEF new
    <3>2. CASE n \in 0 .. m
      <4>1. h[n] = g[n] /\ (n # 0 => h[n - 1] = g[n - 1])
        BY <3>2
      <4> QED
        BY <2>1, <3>2, <4>1, Zenon
    <3> QED
      BY <3>1, <3>2
  <2> HIDE DEF h, Key
  <2> QED
    BY <2>2, Zenon
<1> HIDE DEF Upto
<1>3. Nat \subseteq S
  <2>1. 0 \in S
    BY <1>1
  <2>2. \A m \in Nat : m \in S => m + 1 \in S
    BY <1>2
  <2> HIDE DEF S
  <2> QED
    BY <2>1, <2>2, NumbersFromZero
<1>4. Upto(Len(chunk))
  BY <1>3
<1>5. PICK g : \A n \in 0 .. Len(chunk) : g[n] = Key(g, n)
  BY <1>4, Zenon DEF Upto
<1> DEFINE f == [n \in 0 .. Len(chunk) |-> g[n]]
<1>6. ASSUME NEW n \in 0 .. Len(chunk) PROVE f[n] = Key(f, n)
  <2>1. f[n] = g[n] /\ (n # 0 => f[n - 1] = g[n - 1])
    OBVIOUS
  <2> QED
    BY <1>5, <2>1, Zenon
<1>7. f = [n \in 0 .. Len(chunk) |-> Key(f, n)]
  <2> DEFINE k == [n \in 0 .. Len(chunk) |-> Key(f, n)]
  <2>1. \A n \in 0 .. Len(chunk) : f[n] = k[n]
    BY <1>6, Zenon
  <2> HIDE DEF Key
  <2> QED
    BY <2>1
<1> HIDE DEF f
<1> QED
  BY <1>7, Zenon DEF start

\* What a read of stdin comes to.
LEMMA PumpChunkFacts ==
  ASSUME NEW m0 \in Places, NEW chunk \in Seq(Keys)
  PROVE  PumpChunk(m0, chunk).m \in Places /\ PumpChunk(m0, chunk).next \in {"read", "leave"}
<1> DEFINE start == [m |-> m0, pending |-> << >>, reqs |-> << >>, next |-> "read"]
           Rec(g) == g = [n \in 0 .. Len(chunk) |->
                            IF n = 0 THEN start ELSE PumpKey(g[n - 1], chunk[n])]
           fed == CHOOSE g : Rec(g)
           end == fed[Len(chunk)]
           S == {n \in Nat : n <= Len(chunk) => Fed(fed[n])}
<1>1. PumpChunk(m0, chunk)
        = [end EXCEPT !.reqs = end.reqs \o drain_pending(end.pending), !.pending = << >>]
  BY DEF PumpChunk
<1>2. Rec(fed)
  BY FedExists, Zenon
<1>3. Fed(start)
  BY DEF Fed
<1> HIDE DEF fed, start
<1>4. \A n \in 0 .. Len(chunk) : fed[n] = IF n = 0 THEN start ELSE PumpKey(fed[n - 1], chunk[n])
  BY <1>2, Zenon
<1> HIDE DEF Rec
<1>5. 0 \in S
  <2>1. 0 \in 0 .. Len(chunk)
    OBVIOUS
  <2>2. fed[0] = start
    BY <1>4, <2>1, Zenon
  <2> QED
    BY <1>3, <2>2
<1>6. ASSUME NEW n \in Nat, n \in S PROVE n + 1 \in S
  <2> SUFFICES ASSUME n + 1 <= Len(chunk) PROVE Fed(fed[n + 1])
    OBVIOUS
  <2>1. n <= Len(chunk) /\ n + 1 \in 0 .. Len(chunk) /\ n + 1 # 0 /\ (n + 1) - 1 = n
    BY <1>6
  <2>2. Fed(fed[n])
    BY <1>6, <2>1
  <2>3. fed[n + 1] = PumpKey(fed[n], chunk[n + 1])
    BY <1>4, <2>1
  <2> QED
    BY <2>2, <2>3, PumpKeyFacts
<1>7. Nat \subseteq S
  <2> HIDE DEF S
  <2> QED
    BY <1>5, <1>6, NumbersFromZero
<1>8. Fed(end)
  BY <1>7
<1> HIDE DEF end
<1> QED
  BY <1>1, <1>8 DEF Fed

-----------------------------------------------------------------------------
(* The invariant.                                                          *)

IsSeq(q) == \E S : q \in Seq(S)

\* The way in: the client's pump, the channel and the connection to the broker.
InputInv ==
  /\ DOMAIN pump = {"pc", "script", "at", "m", "reqs", "next"}
  /\ pump.script \in Scripts /\ pump.at \in Nat /\ pump.m \in Places
  /\ pump.next \in {"read", "leave", "end"} /\ (pump.pc = "send" <=> pump.reqs # << >>)
  /\ IsSeq(input) /\ Len(input) <= Cap /\ IsSeq(up) /\ Len(up) <= Cap
  /\ clientLoop \in {"on", "off", "deaf"}

Steps == {"wait", "drain", "exit", "linger", "join", "done"}
Tasks == [input : BOOLEAN, reader : BOOLEAN, exit : {"none", "exit", "lost"}, said : BOOLEAN]
Ends == [ended : BOOLEAN, host : BOOLEAN, guest : BOOLEAN, read : BOOLEAN]
Drives == [pc : Steps, cut : BOOLEAN]
Chunks == {"o", "exit", "lost"}

\* Types of the way out.
OutTypes ==
  /\ down \in Seq({"o", "exit"}) /\ frames \in Seq(Chunks) /\ stream \in Seq(Chunks)
  /\ Len(down) <= Cap /\ Len(frames) <= Cap /\ Len(stream) <= Cap
  /\ cli \in {"on", "detached", "killed", "exit", "lost"} /\ shown \in Nat
  /\ sessionTask \in Tasks /\ vsock \in Ends /\ drv \in Drives
  /\ serving \in BOOLEAN /\ outThread \in BOOLEAN
  /\ DOMAIN child = {"st", "hup", "stdin", "pipe", "reads", "eof", "wrote", "pumped"}
  /\ child.st \in {"up", "exited", "reaped"}
  /\ child.wrote \in Nat /\ child.pumped \in Nat /\ child.pumped <= child.wrote

\* Every chunk the output thread has sent is printed or in one of the queues.
Count == shown + Outs(stream) + Outs(frames) + Outs(down) = child.pumped

\* The broker: the exit goes into the connection once and, unless the drain was
\* cut short, behind all that the child wrote.
BrokerInv ==
  /\ OneMark(down)
  /\ drv.pc \in {"wait", "drain", "exit"} => ~ Marked(down) /\ sessionTask.exit # "exit"
  /\ sessionTask.exit = "exit" => ~ Marked(down)
  /\ drv.pc \in {"wait", "drain"} => ~ drv.cut
  /\ drv.pc # "done" => vsock.guest
  /\ ~ outThread => (child.pumped = child.wrote /\ child.st # "up") \/ ~ vsock.host \/ ~ vsock.guest
  /\ ~ drv.cut =>
       /\ Marks(down, "exit")
       /\ drv.pc \notin {"wait", "drain"} => ~ outThread
       /\ sessionTask.exit = "exit" => down = << >>
       /\ Marked(down) \/ sessionTask.exit = "exit" =>
            child.pumped = child.wrote /\ child.st # "up"

\* The service and the client: an end is passed on once, last, and as it was read.
ServiceInv ==
  /\ sessionTask.reader <=> serving /\ sessionTask.exit = "none"
  /\ sessionTask.said => sessionTask.exit # "none"
  /\ Marks(frames, sessionTask.exit) /\ (Marked(frames) => sessionTask.said)
  /\ Marks(stream, sessionTask.exit) /\ (Marked(stream) => ~ serving /\ frames = << >>)
  /\ cli \in {"exit", "lost"} =>
       stream = << >> /\ frames = << >> /\ ~ serving /\ cli = sessionTask.exit

ExecInv == InputInv /\ OutTypes /\ Count /\ BrokerInv /\ ServiceInv

\* The invariant is what the theorem is about, and more.
LEMMA ExecInvSuffices == ExecInv => OutputBeforeExit
<1> SUFFICES ASSUME ExecInv PROVE OutputBeforeExit
  OBVIOUS
<1>1. /\ shown \in Nat /\ child.pumped \in Nat /\ child.wrote \in Nat /\ child.pumped <= child.wrote
      /\ Outs(stream) \in Nat /\ Outs(frames) \in Nat /\ Outs(down) \in Nat /\ Outs(<< >>) = 0
      /\ shown + Outs(stream) + Outs(frames) + Outs(down) = child.pumped
  BY OutsFacts DEF ExecInv, OutTypes, Count
<1>2. shown <= child.pumped
  BY <1>1
<1>3. ASSUME cli = "exit", ~ drv.cut PROVE shown = child.wrote
  <2>1. stream = << >> /\ frames = << >> /\ sessionTask.exit = "exit"
    BY <1>3, Zenon DEF ExecInv, ServiceInv
  <2>2. down = << >> /\ child.pumped = child.wrote
    BY <1>3, <2>1, Zenon DEF ExecInv, BrokerInv
  <2> QED
    BY <1>1, <2>1, <2>2
<1>4. pump.m < Len(Chord)
  <2>1. Len(Chord) \in Nat /\ pump.m \in 0 .. Len(Chord) - 1
    BY ExecAssumption DEF ExecInv, InputInv, Places
  <2> QED
    BY <2>1
<1>5. drv.pc \in Steps
  BY DEF ExecInv, OutTypes, Drives
<1>6. \A n \in {Len(input), Len(up), Len(down), Len(frames), Len(stream)} : n <= Cap
  BY Zenon DEF ExecInv, InputInv, OutTypes
<1>7. (pump.pc = "send") = (pump.reqs # << >>)
  BY Zenon DEF ExecInv, InputInv
<1>8. ExecTypeOK
  BY <1>1, <1>2, <1>4, <1>5, <1>6, <1>7, Zenon DEF ExecInv, InputInv, OutTypes, ExecTypeOK, Steps
<1> QED
  BY <1>3, <1>8, Zenon DEF OutputBeforeExit

\* A new session has sent nothing.
LEMMA ExecInitInv == ExecInit => ExecInv
<1> SUFFICES ASSUME ExecInit PROVE ExecInv
  OBVIOUS
<1>1. << >> \in Seq({"o", "exit"}) /\ << >> \in Seq(Chunks) /\ Len(<< >>) = 0 /\ Len(<< >>) <= Cap
  BY ExecAssumption
<1>2. Outs(<< >>) = 0 /\ ~ Marked(<< >>) /\ OneMark(<< >>) /\ \A e : Marks(<< >>, e)
  BY <1>1, OutsFacts
<1>3. InputInv
  <2>1. PICK s \in Scripts :
          pump = [pc |-> "read", script |-> s, at |-> 0, m |-> 0, reqs |-> << >>, next |-> "read"]
    BY DEF ExecInit
  <2>2. 0 \in Places
    BY ExecAssumption DEF Places
  <2>3. /\ DOMAIN pump = {"pc", "script", "at", "m", "reqs", "next"} /\ pump.script = s
        /\ pump.at = 0 /\ pump.m = 0 /\ pump.next = "read" /\ pump.pc = "read" /\ pump.reqs = << >>
    BY <2>1
  <2>4. input = << >> /\ up = << >> /\ clientLoop = "on"
    BY DEF ExecInit
  <2> QED
    BY <1>1, <2>2, <2>3, <2>4 DEF InputInv, IsSeq
<1>4. /\ down = << >> /\ frames = << >> /\ stream = << >> /\ cli = "on" /\ shown = 0
      /\ serving = TRUE /\ outThread = TRUE
  BY DEF ExecInit
<1>5. sessionTask \in Tasks /\ sessionTask.reader /\ sessionTask.exit = "none" /\ ~ sessionTask.said
  BY DEF ExecInit, Tasks
<1>6. vsock \in Ends /\ vsock.guest
  BY DEF ExecInit, Ends
<1>7. drv \in Drives /\ drv.pc = "wait" /\ ~ drv.cut
  BY DEF ExecInit, Drives, Steps
<1>8. /\ DOMAIN child = {"st", "hup", "stdin", "pipe", "reads", "eof", "wrote", "pumped"}
      /\ child.st = "up" /\ child.wrote = 0 /\ child.pumped = 0
  BY DEF ExecInit
<1>9. OutTypes
  BY <1>1, <1>4, <1>5, <1>6, <1>7, <1>8 DEF OutTypes
<1>10. Count
  BY <1>2, <1>4, <1>8 DEF Count
<1>11. BrokerInv
  BY <1>2, <1>4, <1>5, <1>6, <1>7, Zenon DEF BrokerInv
<1>12. ServiceInv
  BY <1>2, <1>4, <1>5, Zenon DEF ServiceInv
<1> QED
  BY <1>3, <1>9, <1>10, <1>11, <1>12 DEF ExecInv

-----------------------------------------------------------------------------
(* The way in.                                                             *)

\* Queues of requests stay sequences, one longer or one shorter.
LEMMA SequenceKept ==
  ASSUME NEW q, IsSeq(q)
  PROVE  /\ Len(q) \in Nat
         /\ \A x : IsSeq(Append(q, x)) /\ Len(Append(q, x)) = Len(q) + 1
         /\ q # << >> => IsSeq(Tail(q)) /\ Len(Tail(q)) = Len(q) - 1 /\ Len(q) > 0
<1>1. PICK S : q \in Seq(S)
  BY DEF IsSeq
<1>2. Len(q) \in Nat
  BY <1>1
<1>3. ASSUME NEW x PROVE IsSeq(Append(q, x)) /\ Len(Append(q, x)) = Len(q) + 1
  <2>1. q \in Seq(S \cup {x}) /\ x \in S \cup {x}
    BY <1>1
  <2>2. Append(q, x) \in Seq(S \cup {x}) /\ Len(Append(q, x)) = Len(q) + 1
    BY <2>1
  <2> QED
    BY <2>2, Zenon DEF IsSeq
<1>4. ASSUME q # << >> PROVE IsSeq(Tail(q)) /\ Len(Tail(q)) = Len(q) - 1 /\ Len(q) > 0
  <2>1. Tail(q) \in Seq(S) /\ Len(Tail(q)) = Len(q) - 1 /\ Len(q) > 0
    BY <1>1, <1>4
  <2> QED
    BY <2>1, Zenon DEF IsSeq
<1> QED
  BY <1>2, <1>3, <1>4

\* A request is put into the channel when there is room, or answered with an error.
LEMMA DeliverKeeps ==
  ASSUME IsSeq(input), Len(input) <= Cap, NEW r, Deliver(r)
  PROVE  IsSeq(input)' /\ Len(input') <= Cap
<1>1. input' = input \/ (input' = Append(input, r) /\ Len(input) < Cap)
  BY Zenon DEF Deliver
<1>2. Len(input) \in Nat /\ IsSeq(Append(input, r)) /\ Len(Append(input, r)) = Len(input) + 1
  BY SequenceKept, Zenon
<1>3. CASE input' = input
  BY <1>3 DEF IsSeq
<1>4. CASE input' = Append(input, r) /\ Len(input) < Cap
  <2>1. Len(input) + 1 <= Cap
    BY <1>2, <1>4, ExecAssumption
  <2> QED
    BY <1>2, <1>4, <2>1 DEF IsSeq
<1> QED
  BY <1>1, <1>3, <1>4

\* A step that leaves the way in alone.
LEMMA InputSame ==
  ASSUME InputInv, UNCHANGED <<pump, input, up, clientLoop>>
  PROVE  InputInv'
BY Zenon DEF InputInv, IsSeq

\* run_stdin_pump reads a chunk and sends what it asks for before it reads on.
LEMMA ReadStdinInput ==
  ASSUME InputInv, ReadStdin
  PROVE  InputInv'
<1>1. PICK n \in 1 .. MaxChunk :
        /\ pump.at + n <= Len(pump.script)
        /\ LET p == PumpChunk(pump.m, SubSeq(pump.script, pump.at + 1, pump.at + n))
           IN pump' = [pump EXCEPT !.pc = After(p.reqs, p.next), !.at = pump.at + n, !.m = p.m,
                                   !.reqs = p.reqs, !.next = p.next]
  BY DEF ReadStdin
<1> DEFINE chunk == SubSeq(pump.script, pump.at + 1, pump.at + n)
           p == PumpChunk(pump.m, chunk)
<1>2. chunk \in Seq(Keys)
  <2>1. pump.script \in Seq(Keys) /\ pump.at \in Nat /\ n \in Nat \ {0}
    BY <1>1, ExecAssumption DEF InputInv
  <2> QED
    BY <1>1, <2>1
<1> HIDE DEF chunk
<1>3. p.m \in Places /\ p.next \in {"read", "leave"}
  BY <1>2, PumpChunkFacts DEF InputInv
<1>4. pump' = [pump EXCEPT !.pc = After(p.reqs, p.next), !.at = pump.at + n, !.m = p.m,
                           !.reqs = p.reqs, !.next = p.next]
  BY <1>1 DEF chunk
<1> HIDE DEF p
<1>5. /\ DOMAIN pump' = {"pc", "script", "at", "m", "reqs", "next"}
      /\ pump'.script = pump.script /\ pump'.at = pump.at + n /\ pump'.m = p.m
      /\ pump'.next = p.next /\ pump'.reqs = p.reqs /\ pump'.pc = After(p.reqs, p.next)
  BY <1>4 DEF InputInv
<1>6. pump'.at \in Nat
  BY <1>1, <1>5 DEF InputInv
<1>7. pump'.pc = "send" <=> pump'.reqs # << >>
  BY <1>3, <1>5 DEF After
<1>8. UNCHANGED <<input, up, clientLoop>>
  BY DEF ReadStdin, serviceVars, brokerVars
<1> QED
  BY <1>3, <1>5, <1>6, <1>7, <1>8, Zenon DEF InputInv, IsSeq

\* The end of stdin: the held keys, if any, and a close are always something to send.
LEMMA StdinEndsInput ==
  ASSUME InputInv, StdinEnds
  PROVE  InputInv'
<1> DEFINE reqs == drain_pending(SubSeq(Chord, 1, pump.m)) \o <<Close>>
<1>1. pump' = [pump EXCEPT !.pc = "send", !.m = 0, !.next = "end", !.reqs = reqs]
  BY DEF StdinEnds
<1>2. reqs # << >>
  BY DEF drain_pending
<1> HIDE DEF reqs
<1>3. 0 \in Places
  BY ExecAssumption DEF Places
<1>4. /\ DOMAIN pump' = {"pc", "script", "at", "m", "reqs", "next"}
      /\ pump'.script = pump.script /\ pump'.at = pump.at /\ pump'.m = 0
      /\ pump'.next = "end" /\ pump'.reqs = reqs /\ pump'.pc = "send"
  BY <1>1 DEF InputInv
<1>5. UNCHANGED <<input, up, clientLoop>>
  BY DEF StdinEnds, serviceVars, brokerVars
<1> QED
  BY <1>2, <1>3, <1>4, <1>5, Zenon DEF InputInv, IsSeq

\* A request is sent, and the pump goes on when it was the last.
LEMMA SendOneShotInput ==
  ASSUME InputInv, SendOneShot
  PROVE  InputInv'
<1>1. pump' = [pump EXCEPT !.reqs = Tail(pump.reqs), !.pc = After(Tail(pump.reqs), pump.next)]
  BY DEF SendOneShot
<1>2. /\ DOMAIN pump' = {"pc", "script", "at", "m", "reqs", "next"}
      /\ pump'.script = pump.script /\ pump'.at = pump.at /\ pump'.m = pump.m
      /\ pump'.next = pump.next /\ pump'.reqs = Tail(pump.reqs)
      /\ pump'.pc = After(Tail(pump.reqs), pump.next)
  BY <1>1 DEF InputInv
<1>3. pump'.pc = "send" <=> pump'.reqs # << >>
  BY <1>2 DEF InputInv, After
<1>4. IsSeq(input)' /\ Len(input') <= Cap
  BY DeliverKeeps, Zenon DEF InputInv, SendOneShot
<1>5. UNCHANGED <<up, clientLoop>>
  BY DEF SendOneShot, brokerVars
<1> QED
  BY <1>2, <1>3, <1>4, <1>5, Zenon DEF InputInv, IsSeq

\* A forwarded Ctrl-C waits for room like any request.
LEMMA InterruptInput ==
  ASSUME InputInv, Interrupt
  PROVE  InputInv'
<1>1. IsSeq(input)' /\ Len(input') <= Cap
  BY DeliverKeeps, Zenon DEF InputInv, Interrupt
<1>2. UNCHANGED <<pump, up, clientLoop>>
  BY DEF Interrupt, brokerVars
<1> QED
  BY <1>1, <1>2, Zenon DEF InputInv, IsSeq

\* pump_session_input moves a request on when there is room in the connection.
LEMMA PumpInputInput ==
  ASSUME InputInv, PumpInput
  PROVE  InputInv'
<1>1. input # << >> /\ input' = Tail(input) /\ up' = Append(up, Head(input)) /\ Len(up) < Cap
  BY DEF PumpInput
<1>2. IsSeq(Tail(input)) /\ Len(Tail(input)) = Len(input) - 1 /\ Len(input) \in Nat
  BY <1>1, SequenceKept, Zenon DEF InputInv
<1>3. /\ IsSeq(Append(up, Head(input))) /\ Len(Append(up, Head(input))) = Len(up) + 1
      /\ Len(up) \in Nat
  BY SequenceKept, Zenon DEF InputInv
<1>4. Len(input') <= Cap /\ Len(up') <= Cap
  <2>1. Len(input) <= Cap /\ Cap \in Nat
    BY ExecAssumption DEF InputInv
  <2> QED
    BY <1>1, <1>2, <1>3, <2>1
<1>5. IsSeq(input)' /\ IsSeq(up)'
  BY <1>1, <1>2, <1>3 DEF IsSeq
<1>6. UNCHANGED <<pump, clientLoop>>
  BY DEF PumpInput, clientVars, brokerVars
<1> QED
  BY <1>4, <1>5, <1>6, Zenon DEF InputInv

\* The end of the exec stream empties the channel.
LEMMA TeardownInput ==
  ASSUME InputInv, input' \in {input, << >>}, UNCHANGED <<pump, up, clientLoop>>
  PROVE  InputInv'
<1>1. IsSeq(<< >>) /\ Len(<< >>) <= Cap
  BY ExecAssumption DEF IsSeq
<1>2. IsSeq(input)' /\ Len(input') <= Cap
  BY <1>1, Zenon DEF InputInv, IsSeq
<1> QED
  BY <1>2, Zenon DEF InputInv, IsSeq

\* The broker takes a frame off the connection.
LEMMA ClientFrameInput ==
  ASSUME InputInv, ClientFrame
  PROVE  InputInv'
<1>1. up # << >> /\ up' = Tail(up) /\ clientLoop' \in {"on", "off", "deaf"}
  BY DEF ClientFrame, InputInv
<1>2. IsSeq(Tail(up)) /\ Len(Tail(up)) = Len(up) - 1 /\ Len(up) \in Nat
  BY <1>1, SequenceKept, Zenon DEF InputInv
<1>3. Len(up') <= Cap
  <2>1. Len(up) <= Cap /\ Cap \in Nat
    BY ExecAssumption DEF InputInv
  <2> QED
    BY <1>1, <1>2, <2>1
<1>4. IsSeq(up)'
  BY <1>1, <1>2 DEF IsSeq
<1>5. UNCHANGED <<pump, input>>
  BY DEF ClientFrame, clientVars, serviceVars
<1> QED
  BY <1>1, <1>3, <1>4, <1>5, Zenon DEF InputInv, IsSeq

-----------------------------------------------------------------------------
(* The way out.                                                            *)

OutInv == OutTypes /\ Count /\ BrokerInv /\ ServiceInv

\* What the steps of the session task make of its record.
LEMMA TaskFields ==
  ASSUME NEW t \in Tasks
  PROVE  /\ [t EXCEPT !.input = FALSE] \in Tasks
         /\ [t EXCEPT !.input = FALSE].reader = t.reader
         /\ [t EXCEPT !.input = FALSE].exit = t.exit /\ [t EXCEPT !.input = FALSE].said = t.said
         /\ [t EXCEPT !.said = TRUE] \in Tasks /\ [t EXCEPT !.said = TRUE].said
         /\ [t EXCEPT !.said = TRUE].reader = t.reader /\ [t EXCEPT !.said = TRUE].exit = t.exit
         /\ [t EXCEPT !.input = FALSE, !.reader = FALSE] \in Tasks
         /\ ~ [t EXCEPT !.input = FALSE, !.reader = FALSE].reader
         /\ [t EXCEPT !.input = FALSE, !.reader = FALSE].exit = t.exit
         /\ [t EXCEPT !.input = FALSE, !.reader = FALSE].said = t.said
         /\ \A e \in {"exit", "lost"} :
              /\ [t EXCEPT !.reader = FALSE, !.exit = e] \in Tasks
              /\ ~ [t EXCEPT !.reader = FALSE, !.exit = e].reader
              /\ [t EXCEPT !.reader = FALSE, !.exit = e].exit = e
              /\ [t EXCEPT !.reader = FALSE, !.exit = e].said = t.said
<1>1. /\ [t EXCEPT !.input = FALSE] \in Tasks
      /\ [t EXCEPT !.input = FALSE].reader = t.reader
      /\ [t EXCEPT !.input = FALSE].exit = t.exit /\ [t EXCEPT !.input = FALSE].said = t.said
  BY Zenon DEF Tasks
<1>2. /\ [t EXCEPT !.said = TRUE] \in Tasks /\ [t EXCEPT !.said = TRUE].said
      /\ [t EXCEPT !.said = TRUE].reader = t.reader /\ [t EXCEPT !.said = TRUE].exit = t.exit
  BY Zenon DEF Tasks
<1>3. /\ [t EXCEPT !.input = FALSE, !.reader = FALSE] \in Tasks
      /\ ~ [t EXCEPT !.input = FALSE, !.reader = FALSE].reader
      /\ [t EXCEPT !.input = FALSE, !.reader = FALSE].exit = t.exit
      /\ [t EXCEPT !.input = FALSE, !.reader = FALSE].said = t.said
  BY Zenon DEF Tasks
<1>4. ASSUME NEW e \in {"exit", "lost"}
      PROVE  /\ [t EXCEPT !.reader = FALSE, !.exit = e] \in Tasks
             /\ ~ [t EXCEPT !.reader = FALSE, !.exit = e].reader
             /\ [t EXCEPT !.reader = FALSE, !.exit = e].exit = e
             /\ [t EXCEPT !.reader = FALSE, !.exit = e].said = t.said
  BY Zenon DEF Tasks
<1> QED
  BY <1>1, <1>2, <1>3, <1>4, Zenon

\* What the steps make of the ends of the connection.
LEMMA EndsFields ==
  ASSUME NEW v \in Ends
  PROVE  /\ [v EXCEPT !.ended = TRUE] \in Ends
         /\ [v EXCEPT !.ended = TRUE].host = v.host /\ [v EXCEPT !.ended = TRUE].guest = v.guest
         /\ [v EXCEPT !.ended = TRUE, !.host = FALSE] \in Ends
         /\ ~ [v EXCEPT !.ended = TRUE, !.host = FALSE].host
         /\ [v EXCEPT !.ended = TRUE, !.host = FALSE].guest = v.guest
         /\ [v EXCEPT !.read = FALSE] \in Ends
         /\ [v EXCEPT !.read = FALSE].host = v.host /\ [v EXCEPT !.read = FALSE].guest = v.guest
         /\ [v EXCEPT !.guest = FALSE] \in Ends
         /\ ~ [v EXCEPT !.guest = FALSE].guest /\ [v EXCEPT !.guest = FALSE].host = v.host
<1>1. /\ [v EXCEPT !.ended = TRUE] \in Ends
      /\ [v EXCEPT !.ended = TRUE].host = v.host /\ [v EXCEPT !.ended = TRUE].guest = v.guest
  BY Zenon DEF Ends
<1>2. /\ [v EXCEPT !.ended = TRUE, !.host = FALSE] \in Ends
      /\ ~ [v EXCEPT !.ended = TRUE, !.host = FALSE].host
      /\ [v EXCEPT !.ended = TRUE, !.host = FALSE].guest = v.guest
  BY Zenon DEF Ends
<1>3. /\ [v EXCEPT !.read = FALSE] \in Ends
      /\ [v EXCEPT !.read = FALSE].host = v.host /\ [v EXCEPT !.read = FALSE].guest = v.guest
  BY Zenon DEF Ends
<1>4. /\ [v EXCEPT !.guest = FALSE] \in Ends
      /\ ~ [v EXCEPT !.guest = FALSE].guest /\ [v EXCEPT !.guest = FALSE].host = v.host
  BY Zenon DEF Ends
<1> QED
  BY <1>1, <1>2, <1>3, <1>4, Zenon

\* What the steps make of the state of the session thread.
LEMMA DriveFields ==
  ASSUME NEW d \in Drives, NEW p \in Steps
  PROVE  /\ [d EXCEPT !.pc = p] \in Drives /\ [d EXCEPT !.pc = p].pc = p
         /\ [d EXCEPT !.pc = p].cut = d.cut
BY Zenon DEF Drives

\* A step that leaves the output where it is, and lets at most the client go.
LEMMA OutSame ==
  ASSUME OutInv, UNCHANGED <<down, frames, stream, shown, serving, outThread, drv>>,
         cli' = cli \/ cli' \in {"detached", "killed"},
         sessionTask' \in Tasks, sessionTask'.reader = sessionTask.reader,
         sessionTask'.exit = sessionTask.exit, sessionTask'.said = sessionTask.said,
         vsock' \in Ends, vsock'.host = vsock.host, vsock'.guest = vsock.guest,
         DOMAIN child' = DOMAIN child, child'.st = child.st,
         child'.wrote = child.wrote, child'.pumped = child.pumped
  PROVE  OutInv'
<1>1. OutTypes'
  BY Zenon DEF OutInv, OutTypes
<1>2. Count'
  BY Zenon DEF OutInv, Count
<1>3. BrokerInv'
  BY Zenon DEF OutInv, BrokerInv
<1>4. ServiceInv'
  <2>1. cli' \in {"exit", "lost"} => cli' = cli
    OBVIOUS
  <2> QED
    BY <2>1, Zenon DEF OutInv, ServiceInv
<1> QED
  BY <1>1, <1>2, <1>3, <1>4, Zenon DEF OutInv

\* The client prints a chunk, or takes the end, behind which nothing is left.
LEMMA ReadFrameOut ==
  ASSUME OutInv, ReadFrame
  PROVE  OutInv'
<1>1. /\ cli = "on" /\ stream # << >> /\ stream' = Tail(stream)
      /\ UNCHANGED <<down, frames, serving, outThread, drv, sessionTask, vsock, child>>
  BY Zenon DEF ReadFrame, brokerVars
<1>2. /\ stream \in Seq(Chunks) /\ Len(stream) <= Cap /\ shown \in Nat
      /\ Outs(frames) \in Nat /\ Outs(down) \in Nat
  BY OutsFacts, Zenon DEF OutInv, OutTypes
<1>3. /\ stream' \in Seq(Chunks) /\ Len(stream') = Len(stream) - 1 /\ Len(stream) \in Nat
      /\ Head(stream) \in Chunks
  BY <1>1, <1>2, Taken, Zenon
<1>4. Len(stream') <= Cap
  BY <1>2, <1>3, ExecAssumption
<1>5. BrokerInv'
  BY <1>1, Zenon DEF OutInv, BrokerInv
<1>6. Outs(stream) \in Nat /\ Outs(stream') \in Nat
  BY <1>2, <1>3, OutsFacts, Zenon
<1>7. CASE Head(stream) = "o"
  <2>1. shown' = shown + 1 /\ cli' = cli
    BY <1>7 DEF ReadFrame
  <2>2. /\ (Marked(stream') <=> Marked(stream)) /\ Outs(stream) = Outs(stream') + 1
        /\ \A e : Marks(stream, e) => Marks(stream', e)
    BY <1>1, <1>2, <1>7, ChunkTaken, Zenon
  <2>3. OutTypes'
    <3>1. shown' \in Nat
      BY <1>2, <2>1
    <3> QED
      BY <1>1, <1>3, <1>4, <2>1, <3>1, Zenon DEF OutInv, OutTypes
  <2>4. Count'
    <3>1. shown + Outs(stream) + Outs(frames) + Outs(down) = child.pumped
      BY Zenon DEF OutInv, Count
    <3>2. shown' + Outs(stream') + Outs(frames) + Outs(down) = child.pumped
      BY <1>2, <1>6, <2>1, <2>2, <3>1
    <3> QED
      BY <1>1, <3>2, Zenon DEF Count
  <2>5. ServiceInv'
    <3>1. cli' \notin {"exit", "lost"}
      BY <1>1, <2>1
    <3> QED
      BY <1>1, <2>1, <2>2, <3>1, Zenon DEF OutInv, ServiceInv
  <2> QED
    BY <1>5, <2>3, <2>4, <2>5 DEF OutInv
<1>8. CASE Head(stream) # "o"
  <2>1. shown' = shown /\ cli' = Head(stream) /\ cli' \in {"exit", "lost"}
    BY <1>3, <1>8 DEF ReadFrame, Chunks
  <2>2. Marks(stream, sessionTask.exit)
    BY Zenon DEF OutInv, ServiceInv
  <2>3. /\ Marked(stream) /\ Outs(stream) = Outs(stream') /\ stream' = << >>
        /\ cli' = sessionTask.exit
    BY <1>1, <1>2, <1>8, <2>1, <2>2, MarkTaken, OutsFacts, Zenon
  <2>4. OutTypes'
    BY <1>1, <1>3, <1>4, <2>1 DEF OutInv, OutTypes
  <2>5. Count'
    BY <1>1, <2>1, <2>3, Zenon DEF OutInv, Count
  <2>6. ServiceInv'
    <3>1. \A e : Marks(stream', e)
      BY <1>3, <2>3, OutsFacts, Zenon
    <3>2. ~ Marked(stream')
      BY <1>3, <2>3, OutsFacts, Zenon
    <3>3. ~ serving /\ frames = << >>
      BY <2>3, Zenon DEF OutInv, ServiceInv
    <3> QED
      BY <1>1, <2>3, <3>1, <3>2, <3>3, Zenon DEF OutInv, ServiceInv
  <2> QED
    BY <1>5, <2>4, <2>5, <2>6 DEF OutInv
<1> QED
  BY <1>7, <1>8

\* The service passes a chunk on, takes the exit, or finds the connection closed.
LEMMA ReadServerFrameOut ==
  ASSUME OutInv, ReadServerFrame
  PROVE  OutInv'
<1>1. /\ sessionTask.reader
      /\ UNCHANGED <<cli, shown, stream, serving, outThread, drv, vsock, child>>
  BY Zenon DEF ReadServerFrame, clientVars, brokerVars
<1>2. serving /\ sessionTask.exit = "none" /\ ~ sessionTask.said
  BY <1>1, Zenon DEF OutInv, ServiceInv
<1>3. ~ Marked(frames) /\ ~ Marked(stream) /\ cli \notin {"exit", "lost"}
  BY <1>2, Zenon DEF OutInv, ServiceInv
<1>4. /\ down \in Seq({"o", "exit"}) /\ frames \in Seq(Chunks) /\ stream \in Seq(Chunks)
      /\ Len(down) <= Cap /\ Len(frames) <= Cap /\ shown \in Nat /\ sessionTask \in Tasks
      /\ Outs(frames) \in Nat /\ Outs(down) \in Nat /\ Outs(stream) \in Nat
  BY OutsFacts, Zenon DEF OutInv, OutTypes
<1>5. \A e : Marks(frames, e) /\ Marks(stream, e)
  BY <1>3, <1>4, OutsFacts, Zenon
<1>6. ASSUME down # << >>
      PROVE  /\ Tail(down) \in Seq({"o", "exit"}) /\ Len(Tail(down)) <= Cap
             /\ Outs(Tail(down)) \in Nat
  <2>1. Tail(down) \in Seq({"o", "exit"}) /\ Len(Tail(down)) = Len(down) - 1 /\ Len(down) \in Nat
    BY <1>4, <1>6, Taken, Zenon
  <2>2. Len(Tail(down)) <= Cap
    BY <1>4, <2>1, ExecAssumption
  <2> QED
    BY <2>1, <2>2, OutsFacts, Zenon
<1>7. CASE /\ down # << >> /\ Head(down) = "o" /\ Len(frames) < Cap
           /\ down' = Tail(down) /\ frames' = Append(frames, "o") /\ UNCHANGED sessionTask
  <2>1. /\ (Marked(down') <=> Marked(down)) /\ Outs(down) = Outs(down') + 1
        /\ (OneMark(down) => OneMark(down')) /\ (Marks(down, "exit") => Marks(down', "exit"))
    BY <1>4, <1>7, ChunkTaken, Zenon
  <2>2. /\ ~ Marked(frames') /\ Outs(frames') = Outs(frames) + 1 /\ \A e : Marks(frames', e)
    BY <1>3, <1>4, <1>7, ChunkAppended, Zenon
  <2>3. frames' \in Seq(Chunks) /\ Len(frames') <= Cap
    <3>1. "o" \in Chunks
      BY DEF Chunks
    <3>2. frames' \in Seq(Chunks) /\ Len(frames') = Len(frames) + 1 /\ Len(frames) \in Nat
      BY <1>4, <1>7, <3>1, Appended, Zenon
    <3> QED
      BY <1>7, <3>2, ExecAssumption
  <2>4. OutTypes'
    BY <1>1, <1>6, <1>7, <2>3, Zenon DEF OutInv, OutTypes
  <2>5. Count'
    <3>1. shown + Outs(stream) + Outs(frames) + Outs(down) = child.pumped
      BY Zenon DEF OutInv, Count
    <3>2. shown + Outs(stream) + Outs(frames') + Outs(down') = child.pumped
      BY <1>4, <1>6, <1>7, <2>1, <2>2, <3>1
    <3> QED
      BY <1>1, <3>2, Zenon DEF Count
  <2>6. BrokerInv'
    BY <1>1, <1>2, <1>7, <2>1, Zenon DEF OutInv, BrokerInv
  <2>7. ServiceInv'
    BY <1>1, <1>2, <1>3, <1>5, <1>7, <2>2, Zenon DEF OutInv, ServiceInv
  <2> QED
    BY <2>4, <2>5, <2>6, <2>7 DEF OutInv
<1>8. CASE /\ down # << >> /\ Head(down) = "exit" /\ down' = Tail(down) /\ UNCHANGED frames
           /\ sessionTask' = [sessionTask EXCEPT !.reader = FALSE, !.exit = "exit"]
  <2>1. /\ sessionTask' \in Tasks /\ ~ sessionTask'.reader /\ sessionTask'.exit = "exit"
        /\ sessionTask'.said = sessionTask.said
    BY <1>4, <1>8, TaskFields, Zenon
  <2>2. OneMark(down) /\ "exit" # "o"
    BY DEF OutInv, BrokerInv
  <2>3. /\ Marked(down) /\ ~ Marked(down') /\ Outs(down) = Outs(down')
        /\ Marks(down, "exit") => down' = << >>
    BY <1>4, <1>8, <2>2, MarkTaken, Zenon
  <2>4. OutTypes'
    BY <1>1, <1>6, <1>8, <2>1, Zenon DEF OutInv, OutTypes
  <2>5. Count'
    BY <1>1, <1>8, <2>3, Zenon DEF OutInv, Count
  <2>6. BrokerInv'
    <3>1. OneMark(down') /\ Marks(down', "exit")
      BY <2>3, Zenon DEF OneMark, Marks, Marked
    <3>2. drv.pc \notin {"wait", "drain", "exit"}
      BY <2>3, Zenon DEF OutInv, BrokerInv
    <3>3. drv.pc \notin {"wait", "drain"}
      BY <3>2
    <3> QED
      BY <1>1, <2>1, <2>3, <3>1, <3>2, <3>3, Zenon DEF OutInv, BrokerInv
  <2>7. ServiceInv'
    <3>1. "exit" # "none"
      OBVIOUS
    <3> QED
      BY <1>1, <1>2, <1>3, <1>5, <1>8, <2>1, <3>1, Zenon DEF OutInv, ServiceInv
  <2> QED
    BY <2>4, <2>5, <2>6, <2>7 DEF OutInv
<1>9. CASE /\ sessionTask' = [sessionTask EXCEPT !.reader = FALSE, !.exit = "lost"]
           /\ UNCHANGED <<down, frames>>
  <2>1. /\ sessionTask' \in Tasks /\ ~ sessionTask'.reader /\ sessionTask'.exit = "lost"
        /\ sessionTask'.said = sessionTask.said
    BY <1>4, <1>9, TaskFields, Zenon
  <2>2. "lost" # "exit" /\ "lost" # "none"
    OBVIOUS
  <2>3. OutTypes'
    BY <1>1, <1>9, <2>1, Zenon DEF OutInv, OutTypes
  <2>4. Count'
    BY <1>1, <1>9, Zenon DEF OutInv, Count
  <2>5. BrokerInv'
    BY <1>1, <1>9, <2>1, <2>2, Zenon DEF OutInv, BrokerInv
  <2>6. ServiceInv'
    BY <1>1, <1>2, <1>3, <1>5, <1>9, <2>1, <2>2, Zenon DEF OutInv, ServiceInv
  <2> QED
    BY <2>3, <2>4, <2>5, <2>6 DEF OutInv
<1> QED
  BY <1>7, <1>8, <1>9, Zenon DEF ReadServerFrame

\* The session task reports the end, behind the chunks it has passed on.
LEMMA ReportExitOut ==
  ASSUME OutInv, ReportExit
  PROVE  OutInv'
<1>1. /\ serving /\ ~ sessionTask.reader /\ ~ sessionTask.said /\ Len(frames) < Cap
      /\ frames' = Append(frames, sessionTask.exit)
      /\ sessionTask' = [sessionTask EXCEPT !.said = TRUE]
      /\ UNCHANGED <<cli, shown, stream, down, serving, outThread, drv, vsock, child>>
  BY Zenon DEF ReportExit, clientVars, brokerVars
<1>2. /\ frames \in Seq(Chunks) /\ stream \in Seq(Chunks) /\ sessionTask \in Tasks
  BY Zenon DEF OutInv, OutTypes
<1>3. ~ Marked(frames) /\ sessionTask.exit # "none"
  BY <1>1, Zenon DEF OutInv, ServiceInv
<1>4. ~ Marked(stream) /\ cli \notin {"exit", "lost"}
  BY <1>1, Zenon DEF OutInv, ServiceInv
<1>5. sessionTask.exit \in Chunks /\ sessionTask.exit # "o"
  BY <1>2, <1>3 DEF Tasks, Chunks
<1>6. /\ sessionTask' \in Tasks /\ sessionTask'.said /\ ~ sessionTask'.reader
      /\ sessionTask'.exit = sessionTask.exit
  BY <1>1, <1>2, TaskFields, Zenon
<1>7. /\ Marked(frames') /\ Marks(frames', sessionTask.exit) /\ Outs(frames') = Outs(frames)
  BY <1>1, <1>2, <1>3, <1>5, MarkAppended, Zenon
<1>8. frames' \in Seq(Chunks) /\ Len(frames') <= Cap
  <2>1. frames' \in Seq(Chunks) /\ Len(frames') = Len(frames) + 1 /\ Len(frames) \in Nat
    BY <1>1, <1>2, <1>5, Appended, Zenon
  <2> QED
    BY <1>1, <2>1, ExecAssumption
<1>9. OutTypes'
  BY <1>1, <1>6, <1>8, Zenon DEF OutInv, OutTypes
<1>10. Count'
  BY <1>1, <1>7, Zenon DEF OutInv, Count
<1>11. BrokerInv'
  BY <1>1, <1>6, Zenon DEF OutInv, BrokerInv
<1>12. ServiceInv'
  BY <1>1, <1>3, <1>4, <1>6, <1>7, Zenon DEF OutInv, ServiceInv
<1> QED
  BY <1>9, <1>10, <1>11, <1>12 DEF OutInv

\* The end of the exec stream closes the host's end of the connection.
LEMMA TeardownFields ==
  ASSUME OutInv, Teardown
  PROVE  /\ ~ serving' /\ sessionTask' \in Tasks /\ ~ sessionTask'.reader
         /\ sessionTask'.exit = sessionTask.exit /\ sessionTask'.said = sessionTask.said
         /\ vsock' \in Ends /\ ~ vsock'.host /\ vsock'.guest = vsock.guest /\ serving' \in BOOLEAN
<1>1. /\ serving' = FALSE /\ vsock' = [vsock EXCEPT !.ended = TRUE, !.host = FALSE]
      /\ sessionTask' = [sessionTask EXCEPT !.input = FALSE, !.reader = FALSE]
  BY DEF Teardown
<1>2. sessionTask \in Tasks /\ vsock \in Ends
  BY Zenon DEF OutInv, OutTypes
<1> QED
  BY <1>1, <1>2, TaskFields, EndsFields, Zenon

\* A frame goes into the client's stream, and an end ends the exec stream.
LEMMA PumpResponsesOut ==
  ASSUME OutInv, PumpExecResponses
  PROVE  OutInv'
<1>1. /\ serving /\ cli = "on" /\ frames # << >> /\ Len(stream) < Cap
      /\ stream' = Append(stream, Head(frames)) /\ frames' = Tail(frames)
      /\ UNCHANGED <<cli, shown, down, outThread, drv, child>>
  BY Zenon DEF PumpExecResponses, clientVars, brokerVars
<1>2. /\ frames \in Seq(Chunks) /\ stream \in Seq(Chunks) /\ Len(frames) <= Cap /\ shown \in Nat
      /\ Outs(frames) \in Nat /\ Outs(down) \in Nat /\ Outs(stream) \in Nat
  BY OutsFacts, Zenon DEF OutInv, OutTypes
<1>3. ~ Marked(stream) /\ Marks(frames, sessionTask.exit) /\ cli \notin {"exit", "lost"}
  BY <1>1, Zenon DEF OutInv, ServiceInv
<1>4. /\ frames' \in Seq(Chunks) /\ stream' \in Seq(Chunks) /\ Len(frames') <= Cap /\ Len(stream') <= Cap
  <2>1. /\ Tail(frames) \in Seq(Chunks) /\ Len(Tail(frames)) = Len(frames) - 1
        /\ Len(frames) \in Nat /\ Head(frames) \in Chunks
    BY <1>1, <1>2, Taken, Zenon
  <2>2. /\ stream' \in Seq(Chunks) /\ Len(stream') = Len(stream) + 1 /\ Len(stream) \in Nat
    BY <1>1, <1>2, <2>1, Appended, Zenon
  <2> QED
    BY <1>1, <1>2, <2>1, <2>2, ExecAssumption
<1>5. CASE Head(frames) = "o"
  <2>1. UNCHANGED <<serving, sessionTask, vsock>>
    BY <1>5, Zenon DEF PumpExecResponses
  <2>2. /\ (Marked(frames') <=> Marked(frames)) /\ Outs(frames) = Outs(frames') + 1
        /\ Marks(frames', sessionTask.exit)
    BY <1>1, <1>2, <1>3, <1>5, ChunkTaken, Zenon
  <2>3. ~ Marked(stream') /\ Outs(stream') = Outs(stream) + 1 /\ \A e : Marks(stream', e)
    BY <1>1, <1>2, <1>3, <1>5, ChunkAppended, Zenon
  <2>4. OutTypes'
    BY <1>1, <1>4, <2>1, Zenon DEF OutInv, OutTypes
  <2>5. Count'
    <3>1. shown + Outs(stream) + Outs(frames) + Outs(down) = child.pumped
      BY Zenon DEF OutInv, Count
    <3>2. Outs(frames') \in Nat
      BY <1>4, OutsFacts, Zenon
    <3>3. shown + Outs(stream') + Outs(frames') + Outs(down) = child.pumped
      BY <1>2, <2>2, <2>3, <3>1, <3>2
    <3> QED
      BY <1>1, <3>3, Zenon DEF Count
  <2>6. BrokerInv'
    BY <1>1, <2>1, Zenon DEF OutInv, BrokerInv
  <2>7. ServiceInv'
    BY <1>1, <1>3, <2>1, <2>2, <2>3, Zenon DEF OutInv, ServiceInv
  <2> QED
    BY <2>4, <2>5, <2>6, <2>7 DEF OutInv
<1>6. CASE Head(frames) # "o"
  <2>1. Teardown
    BY <1>6, Zenon DEF PumpExecResponses
  <2>2. /\ ~ serving' /\ sessionTask' \in Tasks /\ ~ sessionTask'.reader
        /\ sessionTask'.exit = sessionTask.exit /\ sessionTask'.said = sessionTask.said
        /\ vsock' \in Ends /\ ~ vsock'.host /\ vsock'.guest = vsock.guest /\ serving' \in BOOLEAN
    BY <2>1, TeardownFields, Zenon
  <2>3. OneMark(frames)
    BY <1>2, <1>3, OutsFacts, Zenon
  <2>4. /\ ~ Marked(frames') /\ Outs(frames) = Outs(frames') /\ frames' = << >>
        /\ Head(frames) = sessionTask.exit
    BY <1>1, <1>2, <1>3, <1>6, <2>3, MarkTaken, Zenon
  <2>5. Marks(stream', sessionTask.exit) /\ Outs(stream') = Outs(stream)
    BY <1>1, <1>2, <1>3, <1>6, <2>4, MarkAppended, Zenon
  <2>6. \A e : Marks(frames', e)
    BY <1>4, <2>4, OutsFacts, Zenon
  <2>7. OutTypes'
    BY <1>1, <1>4, <2>2, Zenon DEF OutInv, OutTypes
  <2>8. Count'
    BY <1>1, <2>4, <2>5, Zenon DEF OutInv, Count
  <2>9. BrokerInv'
    BY <1>1, <2>2, Zenon DEF OutInv, BrokerInv
  <2>10. ServiceInv'
    BY <1>1, <1>3, <2>2, <2>4, <2>5, <2>6, Zenon DEF OutInv, ServiceInv
  <2> QED
    BY <2>7, <2>8, <2>9, <2>10 DEF OutInv
<1> QED
  BY <1>5, <1>6

\* The service sees that the client has gone.
LEMMA ClientGoneOut ==
  ASSUME OutInv, SeeClientGone
  PROVE  OutInv'
<1>1. /\ serving /\ Teardown
      /\ UNCHANGED <<cli, shown, frames, stream, down, outThread, drv, child>>
  BY Zenon DEF SeeClientGone, clientVars, brokerVars
<1>2. /\ ~ serving' /\ sessionTask' \in Tasks /\ ~ sessionTask'.reader
      /\ sessionTask'.exit = sessionTask.exit /\ sessionTask'.said = sessionTask.said
      /\ vsock' \in Ends /\ ~ vsock'.host /\ vsock'.guest = vsock.guest /\ serving' \in BOOLEAN
  BY <1>1, TeardownFields, Zenon
<1>3. OutTypes'
  BY <1>1, <1>2, Zenon DEF OutInv, OutTypes
<1>4. Count'
  BY <1>1, Zenon DEF OutInv, Count
<1>5. BrokerInv'
  BY <1>1, <1>2, Zenon DEF OutInv, BrokerInv
<1>6. ServiceInv'
  BY <1>1, <1>2, Zenon DEF OutInv, ServiceInv
<1> QED
  BY <1>3, <1>4, <1>5, <1>6 DEF OutInv

\* The child writes only while it is up, and no exit is on its way by then.
LEMMA ChildOut ==
  ASSUME OutInv, ChildWrites \/ ChildExits
  PROVE  OutInv'
<1>1. /\ child.st = "up"
      /\ UNCHANGED <<cli, shown, frames, stream, down, serving, sessionTask, vsock, outThread, drv>>
  BY Zenon DEF ChildWrites, ChildExits, clientVars, serviceVars, brokerVars
<1>2. /\ DOMAIN child' = DOMAIN child /\ child'.st \in {"up", "exited"}
      /\ child'.wrote \in Nat /\ child.wrote <= child'.wrote /\ child'.pumped = child.pumped
      /\ child'.st = "up" \/ child'.wrote = child.wrote
  <2>1. CASE child' = [child EXCEPT !.wrote = child.wrote + 1]
    <3>1. DOMAIN child' = DOMAIN child /\ child'.st = child.st /\ child'.wrote = child.wrote + 1
          /\ child'.pumped = child.pumped
      BY <2>1 DEF OutInv, OutTypes
    <3>2. child.wrote \in Nat
      BY DEF OutInv, OutTypes
    <3>3. child'.wrote \in Nat /\ child.wrote <= child'.wrote
      BY <3>1, <3>2
    <3> QED
      BY <1>1, <3>1, <3>3
  <2>2. CASE child' = [child EXCEPT !.st = "exited"]
    <3>1. DOMAIN child' = DOMAIN child /\ child'.st = "exited" /\ child'.wrote = child.wrote
          /\ child'.pumped = child.pumped
      BY <2>2 DEF OutInv, OutTypes
    <3>2. child.wrote \in Nat
      BY DEF OutInv, OutTypes
    <3>3. child.wrote <= child.wrote
      BY <3>2
    <3> QED
      BY <3>1, <3>2, <3>3, Zenon
  <2> QED
    BY <2>1, <2>2 DEF ChildWrites, ChildExits
<1>3. child'.pumped <= child'.wrote
  <2>1. child.pumped \in Nat /\ child.wrote \in Nat /\ child.pumped <= child.wrote
    BY DEF OutInv, OutTypes
  <2> QED
    BY <1>2, <2>1
<1>4. OutTypes'
  <2>1. child'.st \in {"up", "exited", "reaped"}
    BY <1>2
  <2> QED
    BY <1>1, <1>2, <1>3, <2>1, Zenon DEF OutInv, OutTypes
<1>5. Count'
  BY <1>1, <1>2, Zenon DEF OutInv, Count
<1>6. BrokerInv'
  BY <1>1, <1>2, Zenon DEF OutInv, BrokerInv
<1>7. ServiceInv'
  BY <1>1, Zenon DEF OutInv, ServiceInv
<1> QED
  BY <1>4, <1>5, <1>6, <1>7 DEF OutInv

\* The output thread sends a chunk, ahead of any exit, or finds nobody to send to.
LEMMA PumpOutputOut ==
  ASSUME OutInv, PumpOutput
  PROVE  OutInv'
<1>1. /\ outThread /\ child.pumped < child.wrote
      /\ UNCHANGED <<cli, shown, frames, stream, serving, sessionTask, vsock, drv>>
  BY Zenon DEF PumpOutput, clientVars, serviceVars
<1>2. /\ down \in Seq({"o", "exit"}) /\ child.wrote \in Nat /\ child.pumped \in Nat /\ shown \in Nat
      /\ Outs(frames) \in Nat /\ Outs(down) \in Nat /\ Outs(stream) \in Nat
  BY OutsFacts, Zenon DEF OutInv, OutTypes
<1>3. CASE /\ Len(down) < Cap /\ down' = Append(down, "o") /\ UNCHANGED outThread
           /\ child' = [child EXCEPT !.pumped = child.pumped + 1]
  <2>1. /\ DOMAIN child' = DOMAIN child /\ child'.st = child.st /\ child'.wrote = child.wrote
        /\ child'.pumped = child.pumped + 1
    BY <1>3 DEF OutInv, OutTypes
  <2>2. child'.pumped \in Nat /\ child'.pumped <= child'.wrote
    BY <1>1, <1>2, <2>1
  <2>3. /\ (Marked(down') <=> Marked(down)) /\ Outs(down') = Outs(down) + 1
        /\ (OneMark(down) => OneMark(down')) /\ (~ Marked(down) => Marks(down', "exit"))
    BY <1>2, <1>3, ChunkAppended, Zenon
  <2>4. down' \in Seq({"o", "exit"}) /\ Len(down') <= Cap
    <3>1. down' \in Seq({"o", "exit"}) /\ Len(down') = Len(down) + 1 /\ Len(down) \in Nat
      BY <1>2, <1>3, Appended
    <3> QED
      BY <1>3, <3>1, ExecAssumption
  <2>5. OutTypes'
    BY <1>1, <1>3, <2>1, <2>2, <2>4, Zenon DEF OutInv, OutTypes
  <2>6. Count'
    <3>1. shown + Outs(stream) + Outs(frames) + Outs(down) = child.pumped
      BY Zenon DEF OutInv, Count
    <3>2. shown + Outs(stream) + Outs(frames) + Outs(down') = child'.pumped
      BY <1>2, <2>1, <2>3, <3>1
    <3> QED
      BY <1>1, <3>2, Zenon DEF Count
  <2>7. BrokerInv'
    <3>1. ~ drv.cut => drv.pc \in {"wait", "drain"}
      BY <1>1, Zenon DEF OutInv, BrokerInv
    <3>2. drv.pc \in {"wait", "drain"} => drv.pc \in {"wait", "drain", "exit"}
      OBVIOUS
    <3>3. ~ drv.cut => ~ Marked(down) /\ sessionTask.exit # "exit"
      BY <3>1, <3>2, Zenon DEF OutInv, BrokerInv
    <3> QED
      BY <1>1, <1>3, <2>3, <3>1, <3>3, Zenon DEF OutInv, BrokerInv
  <2>8. ServiceInv'
    BY <1>1, Zenon DEF OutInv, ServiceInv
  <2> QED
    BY <2>5, <2>6, <2>7, <2>8 DEF OutInv
<1>4. CASE (~ vsock.host \/ ~ vsock.guest) /\ outThread' = FALSE /\ UNCHANGED <<down, child>>
  <2>1. OutTypes'
    BY <1>1, <1>4, Zenon DEF OutInv, OutTypes
  <2>2. Count'
    BY <1>1, <1>4, Zenon DEF OutInv, Count
  <2>3. BrokerInv'
    BY <1>1, <1>4, Zenon DEF OutInv, BrokerInv
  <2>4. ServiceInv'
    BY <1>1, Zenon DEF OutInv, ServiceInv
  <2> QED
    BY <2>1, <2>2, <2>3, <2>4 DEF OutInv
<1> QED
  BY <1>3, <1>4, Zenon DEF PumpOutput

\* The output thread comes to the end of what the child wrote.
LEMMA OutputEndsOut ==
  ASSUME OutInv, OutputEnds
  PROVE  OutInv'
<1>1. /\ child.pumped = child.wrote /\ child.st # "up" /\ outThread' = FALSE
      /\ UNCHANGED <<cli, shown, down, frames, stream, serving, sessionTask, vsock, drv, child>>
  BY Zenon DEF OutputEnds, clientVars, serviceVars
<1>2. OutTypes'
  BY <1>1, Zenon DEF OutInv, OutTypes
<1>3. Count'
  BY <1>1, Zenon DEF OutInv, Count
<1>4. BrokerInv'
  BY <1>1, Zenon DEF OutInv, BrokerInv
<1>5. ServiceInv'
  BY <1>1, Zenon DEF OutInv, ServiceInv
<1> QED
  BY <1>2, <1>3, <1>4, <1>5 DEF OutInv

\* The session thread reaps the child and waits for its output, ...
LEMMA WaitChildOut ==
  ASSUME OutInv, WaitChild
  PROVE  OutInv'
<1>1. /\ drv.pc = "wait" /\ drv' = [drv EXCEPT !.pc = "drain"]
      /\ child.st = "exited" /\ child' = [child EXCEPT !.st = "reaped"]
      /\ UNCHANGED <<cli, shown, down, frames, stream, serving, sessionTask, vsock, outThread>>
  BY Zenon DEF WaitChild, clientVars, serviceVars
<1>2. drv' \in Drives /\ drv'.pc = "drain" /\ drv'.cut = drv.cut
  <2>1. drv \in Drives /\ "drain" \in Steps
    BY DEF OutInv, OutTypes, Steps
  <2> QED
    BY <1>1, <2>1, DriveFields, Zenon
<1>3. /\ DOMAIN child' = DOMAIN child /\ child'.st = "reaped" /\ child'.wrote = child.wrote
      /\ child'.pumped = child.pumped
  BY <1>1 DEF OutInv, OutTypes
<1>4. OutTypes'
  <2>1. child'.st \in {"up", "exited", "reaped"}
    BY <1>3
  <2> QED
    BY <1>1, <1>2, <1>3, <2>1, Zenon DEF OutInv, OutTypes
<1>5. Count'
  BY <1>1, <1>3, Zenon DEF OutInv, Count
<1>6. BrokerInv'
  <2>1. ~ Marked(down) /\ sessionTask.exit # "exit" /\ ~ drv.cut /\ vsock.guest
    <3>1. drv.pc \in {"wait", "drain", "exit"} /\ drv.pc \in {"wait", "drain"} /\ drv.pc # "done"
      BY <1>1
    <3> QED
      BY <3>1, Zenon DEF OutInv, BrokerInv
  <2>2. "drain" \in {"wait", "drain"} /\ "reaped" # "up" /\ child.st # "up"
    BY <1>1
  <2> QED
    BY <1>1, <1>2, <1>3, <2>1, <2>2, Zenon DEF OutInv, BrokerInv
<1>7. ServiceInv'
  BY <1>1, Zenon DEF OutInv, ServiceInv
<1> QED
  BY <1>4, <1>5, <1>6, <1>7 DEF OutInv

\* ... to the end, or to the end of the grace period, ...
LEMMA DrainedOut ==
  ASSUME OutInv, Drained
  PROVE  OutInv'
<1>1. /\ drv.pc = "drain" /\ drv' = [drv EXCEPT !.pc = "exit", !.cut = outThread]
      /\ UNCHANGED <<cli, shown, down, frames, stream, serving, sessionTask, vsock, outThread, child>>
  BY Zenon DEF Drained, clientVars, serviceVars
<1>2. drv' \in Drives /\ drv'.pc = "exit" /\ drv'.cut = outThread
  <2>1. drv \in Drives /\ "exit" \in Steps /\ outThread \in BOOLEAN
    BY DEF OutInv, OutTypes, Steps
  <2>2. CASE outThread = TRUE
    <3>1. drv' = [drv EXCEPT !.pc = "exit", !.cut = TRUE]
      BY <1>1, <2>2
    <3>2. drv' \in Drives /\ drv'.pc = "exit" /\ drv'.cut = TRUE
      BY <2>1, <3>1 DEF Drives
    <3> QED
      BY <2>2, <3>2
  <2>3. CASE outThread = FALSE
    <3>1. drv' = [drv EXCEPT !.pc = "exit", !.cut = FALSE]
      BY <1>1, <2>3
    <3>2. drv' \in Drives /\ drv'.pc = "exit" /\ drv'.cut = FALSE
      BY <2>1, <3>1 DEF Drives
    <3> QED
      BY <2>3, <3>2
  <2> QED
    BY <2>1, <2>2, <2>3
<1>3. OutTypes'
  BY <1>1, <1>2, Zenon DEF OutInv, OutTypes
<1>4. Count'
  BY <1>1, Zenon DEF OutInv, Count
<1>5. BrokerInv'
  <2>1. ~ Marked(down) /\ sessionTask.exit # "exit" /\ ~ drv.cut /\ vsock.guest
    <3>1. drv.pc \in {"wait", "drain", "exit"} /\ drv.pc \in {"wait", "drain"} /\ drv.pc # "done"
      BY <1>1
    <3> QED
      BY <3>1, Zenon DEF OutInv, BrokerInv
  <2>2. "exit" \notin {"wait", "drain"}
    OBVIOUS
  <2> QED
    BY <1>1, <1>2, <2>1, <2>2, Zenon DEF OutInv, BrokerInv
<1>6. ServiceInv'
  BY <1>1, Zenon DEF OutInv, ServiceInv
<1> QED
  BY <1>3, <1>4, <1>5, <1>6 DEF OutInv

\* ... and sends the exit, behind all of it unless the grace period cut it off.
LEMMA SendExitOut ==
  ASSUME OutInv, SendExit
  PROVE  OutInv'
<1>1. /\ drv.pc = "exit" /\ drv' = [drv EXCEPT !.pc = "linger"]
      /\ vsock.host => Len(down) < Cap /\ down' = Append(down, "exit")
      /\ ~ vsock.host => down' = down
      /\ UNCHANGED <<cli, shown, frames, stream, serving, sessionTask, vsock, outThread, child>>
  BY Zenon DEF SendExit, clientVars, serviceVars
<1>2. drv' \in Drives /\ drv'.pc = "linger" /\ drv'.cut = drv.cut
  <2>1. drv \in Drives /\ "linger" \in Steps
    BY DEF OutInv, OutTypes, Steps
  <2> QED
    BY <1>1, <2>1, DriveFields, Zenon
<1>3. /\ ~ Marked(down) /\ sessionTask.exit # "exit" /\ vsock.guest
      /\ ~ drv.cut => ~ outThread
  <2>1. drv.pc \in {"wait", "drain", "exit"} /\ drv.pc \notin {"wait", "drain"} /\ drv.pc # "done"
    BY <1>1
  <2> QED
    BY <2>1, Zenon DEF OutInv, BrokerInv
<1>4. "linger" \notin {"wait", "drain", "exit"} /\ "linger" \notin {"wait", "drain"}
  OBVIOUS
<1>5. down \in Seq({"o", "exit"}) /\ Len(down) <= Cap
  BY Zenon DEF OutInv, OutTypes
<1>6. ServiceInv'
  BY <1>1, Zenon DEF OutInv, ServiceInv
<1>7. CASE vsock.host
  <2>1. /\ Marked(down') /\ OneMark(down') /\ Marks(down', "exit") /\ Outs(down') = Outs(down)
    <3>1. "exit" # "o"
      OBVIOUS
    <3> QED
      BY <1>1, <1>3, <1>5, <1>7, <3>1, MarkAppended, Zenon
  <2>2. down' \in Seq({"o", "exit"}) /\ Len(down') <= Cap
    <3>1. down' \in Seq({"o", "exit"}) /\ Len(down') = Len(down) + 1 /\ Len(down) \in Nat
      BY <1>1, <1>5, <1>7, Appended
    <3> QED
      BY <1>1, <1>7, <3>1, ExecAssumption
  <2>3. OutTypes'
    BY <1>1, <1>2, <2>2, Zenon DEF OutInv, OutTypes
  <2>4. Count'
    BY <1>1, <2>1, Zenon DEF OutInv, Count
  <2>5. ~ drv.cut => child.pumped = child.wrote /\ child.st # "up"
    BY <1>3, <1>7, Zenon DEF OutInv, BrokerInv
  <2>6. BrokerInv'
    BY <1>1, <1>2, <1>3, <1>4, <2>1, <2>5, Zenon DEF OutInv, BrokerInv
  <2> QED
    BY <1>6, <2>3, <2>4, <2>6 DEF OutInv
<1>8. CASE ~ vsock.host
  <2>1. down' = down
    BY <1>1, <1>8, Zenon
  <2>2. OutTypes'
    BY <1>1, <1>2, <2>1, Zenon DEF OutInv, OutTypes
  <2>3. Count'
    BY <1>1, <2>1, Zenon DEF OutInv, Count
  <2>4. BrokerInv'
    BY <1>1, <1>2, <1>3, <1>4, <2>1, Zenon DEF OutInv, BrokerInv
  <2> QED
    BY <1>6, <2>2, <2>3, <2>4 DEF OutInv
<1> QED
  BY <1>7, <1>8

\* The session thread shuts the connection down, half by half.
LEMMA EndingOut ==
  ASSUME OutInv, Linger \/ SessionEnds
  PROVE  OutInv'
<1>1. UNCHANGED <<cli, shown, down, frames, stream, serving, sessionTask, outThread, child>>
  BY Zenon DEF Linger, SessionEnds, clientVars, serviceVars
<1>2. drv \in Drives /\ vsock \in Ends /\ "join" \in Steps /\ "done" \in Steps
  BY DEF OutInv, OutTypes, Steps
<1>3. drv.pc \in {"linger", "join"}
  BY DEF Linger, SessionEnds
<1>4. /\ drv' \in Drives /\ drv'.pc \in {"join", "done"} /\ drv'.cut = drv.cut
      /\ vsock' \in Ends /\ vsock'.host = vsock.host /\ (vsock'.guest => vsock.guest)
      /\ drv'.pc # "done" => vsock'.guest = vsock.guest
  <2>1. CASE Linger
    <3>1. drv' = [drv EXCEPT !.pc = "join"] /\ vsock' = [vsock EXCEPT !.read = FALSE]
      BY <2>1, Zenon DEF Linger
    <3>2. /\ drv' \in Drives /\ drv'.pc = "join" /\ drv'.cut = drv.cut
      BY <1>2, <3>1, DriveFields, Zenon
    <3>3. vsock' \in Ends /\ vsock'.host = vsock.host /\ vsock'.guest = vsock.guest
      BY <1>2, <3>1, EndsFields, Zenon
    <3> QED
      BY <3>2, <3>3, Zenon
  <2>2. CASE SessionEnds
    <3>1. drv' = [drv EXCEPT !.pc = "done"] /\ vsock' = [vsock EXCEPT !.guest = FALSE]
      BY <2>2, Zenon DEF SessionEnds
    <3>2. /\ drv' \in Drives /\ drv'.pc = "done" /\ drv'.cut = drv.cut
      BY <1>2, <3>1, DriveFields, Zenon
    <3>3. vsock' \in Ends /\ vsock'.host = vsock.host /\ ~ vsock'.guest
      BY <1>2, <3>1, EndsFields, Zenon
    <3> QED
      BY <3>2, <3>3, Zenon
  <2> QED
    BY <2>1, <2>2, Zenon
<1>5. OutTypes'
  BY <1>1, <1>4, Zenon DEF OutInv, OutTypes
<1>6. Count'
  BY <1>1, Zenon DEF OutInv, Count
<1>7. BrokerInv'
  <2>1. /\ drv'.pc \notin {"wait", "drain", "exit"} /\ drv'.pc \notin {"wait", "drain"}
        /\ drv.pc \notin {"wait", "drain"} /\ drv.pc # "done"
    BY <1>3, <1>4
  <2> QED
    BY <1>1, <1>4, <2>1, Zenon DEF OutInv, BrokerInv
<1>8. ServiceInv'
  BY <1>1, Zenon DEF OutInv, ServiceInv
<1> QED
  BY <1>5, <1>6, <1>7, <1>8 DEF OutInv

-----------------------------------------------------------------------------
(* Every step.                                                             *)

\* The steps of the client.
LEMMA ClientSteps ==
  ASSUME ExecInv, ReadStdin \/ StdinEnds \/ SendOneShot \/ Interrupt \/ ClientMain \/ ClientKilled
  PROVE  ExecInv'
<1>1. InputInv /\ OutInv
  BY DEF ExecInv, OutInv
<1>2. CASE ReadFrame
  <2>1. UNCHANGED <<pump, input, up, clientLoop>>
    BY <1>2, Zenon DEF ReadFrame, brokerVars
  <2> QED
    BY <1>1, <1>2, <2>1, InputSame, ReadFrameOut, Zenon DEF ExecInv, OutInv
<1>3. CASE ~ ReadFrame
  <2>1. /\ UNCHANGED <<down, frames, stream, shown, serving, outThread, drv, sessionTask, vsock, child>>
        /\ cli' = cli \/ cli' \in {"detached", "killed"}
    BY <1>3 DEF ReadStdin, StdinEnds, SendOneShot, Interrupt, ClientMain, Leave, ClientKilled,
           serviceVars, brokerVars
  <2>2. sessionTask \in Tasks /\ vsock \in Ends
    BY <1>1, Zenon DEF OutInv, OutTypes
  <2>3. OutInv'
    BY <1>1, <2>1, <2>2, OutSame, Zenon
  <2>4. ASSUME Leave \/ ClientKilled PROVE UNCHANGED <<pump, input, up, clientLoop>>
    BY <2>4, Zenon DEF Leave, ClientKilled, serviceVars, brokerVars
  <2>5. InputInv'
    BY <1>1, <1>3, <2>4, InputSame, ReadStdinInput, StdinEndsInput, SendOneShotInput,
       InterruptInput, Zenon DEF ClientMain
  <2> QED
    BY <2>3, <2>5, Zenon DEF ExecInv, OutInv
<1> QED
  BY <1>2, <1>3

\* The steps of the service.
LEMMA ServiceSteps ==
  ASSUME ExecInv, InputPump \/ ReadServerFrame \/ ReportExit \/ ExecStream
  PROVE  ExecInv'
<1>1. InputInv /\ OutInv
  BY DEF ExecInv, OutInv
<1>2. sessionTask \in Tasks /\ vsock \in Ends
  BY <1>1, Zenon DEF OutInv, OutTypes
<1>3. CASE PumpInput
  <2>1. UNCHANGED <<down, frames, stream, shown, serving, outThread, drv, sessionTask, vsock, child, cli>>
    BY <1>3, Zenon DEF PumpInput, clientVars, brokerVars
  <2> QED
    BY <1>1, <1>2, <1>3, <2>1, PumpInputInput, OutSame, Zenon DEF ExecInv, OutInv
<1>4. CASE InputStops
  <2>1. /\ UNCHANGED <<down, frames, stream, shown, serving, outThread, drv, child, cli>>
        /\ UNCHANGED <<pump, input, up, clientLoop>>
        /\ sessionTask' = [sessionTask EXCEPT !.input = FALSE]
        /\ vsock' = vsock \/ vsock' = [vsock EXCEPT !.ended = TRUE]
    BY <1>4, Zenon DEF InputStops, clientVars, brokerVars
  <2>2. /\ sessionTask' \in Tasks /\ sessionTask'.reader = sessionTask.reader
        /\ sessionTask'.exit = sessionTask.exit /\ sessionTask'.said = sessionTask.said
    BY <1>2, <2>1, TaskFields, Zenon
  <2>3. vsock' \in Ends /\ vsock'.host = vsock.host /\ vsock'.guest = vsock.guest
    BY <1>2, <2>1, EndsFields, Zenon
  <2> QED
    BY <1>1, <2>1, <2>2, <2>3, InputSame, OutSame, Zenon DEF ExecInv, OutInv
<1>5. CASE ReadServerFrame \/ ReportExit
  <2>1. UNCHANGED <<pump, input, up, clientLoop>>
    BY <1>5, Zenon DEF ReadServerFrame, ReportExit, clientVars, brokerVars
  <2> QED
    BY <1>1, <1>5, <2>1, InputSame, ReadServerFrameOut, ReportExitOut, Zenon DEF ExecInv, OutInv
<1>6. CASE ExecStream
  <2>1. input' \in {input, << >>} /\ UNCHANGED <<pump, up, clientLoop>>
    BY <1>6 DEF ExecStream, PumpExecResponses, SeeClientGone, Teardown, clientVars, brokerVars
  <2> QED
    BY <1>1, <1>6, <2>1, TeardownInput, PumpResponsesOut, ClientGoneOut, Zenon
       DEF ExecInv, OutInv, ExecStream
<1> QED
  BY <1>3, <1>4, <1>5, <1>6, Zenon DEF InputPump

\* The steps of the broker and of the child.
LEMMA BrokerSteps ==
  ASSUME ExecInv,
         \/ ClientLoop \/ OutputPump \/ DriveSession
         \/ ChildWrites \/ ChildClosesStdin \/ ChildExits
  PROVE  ExecInv'
<1>1. InputInv /\ OutInv
  BY DEF ExecInv, OutInv
<1>2. sessionTask \in Tasks /\ vsock \in Ends
  BY <1>1, Zenon DEF OutInv, OutTypes
<1>3. CASE ClientFrame \/ StreamEnds \/ ChildClosesStdin
  <2>1. UNCHANGED <<down, frames, stream, shown, serving, outThread, drv, sessionTask, vsock, cli>>
    BY <1>3, Zenon DEF ClientFrame, StreamEnds, ChildClosesStdin, clientVars, serviceVars, brokerVars
  <2>2. /\ DOMAIN child' = DOMAIN child /\ child'.st = child.st
        /\ child'.wrote = child.wrote /\ child'.pumped = child.pumped
    BY <1>1, <1>3 DEF ClientFrame, StreamEnds, ChildClosesStdin, OutInv, OutTypes
  <2>3. OutInv'
    BY <1>1, <1>2, <2>1, <2>2, OutSame, Zenon
  <2>4. CASE StreamEnds
    <3>1. UNCHANGED <<pump, input, up>> /\ clientLoop' = "off"
      BY <2>4, Zenon DEF StreamEnds, clientVars, serviceVars
    <3>2. clientLoop' \in {"on", "off", "deaf"}
      BY <3>1
    <3>3. InputInv'
      BY <1>1, <3>1, <3>2, Zenon DEF InputInv, IsSeq
    <3> QED
      BY <2>3, <3>3, Zenon DEF ExecInv, OutInv
  <2>5. CASE ChildClosesStdin
    <3>1. UNCHANGED <<pump, input, up, clientLoop>>
      BY <2>5, Zenon DEF ChildClosesStdin, clientVars, serviceVars, brokerVars
    <3> QED
      BY <1>1, <2>3, <3>1, InputSame, Zenon DEF ExecInv, OutInv
  <2>6. CASE ClientFrame
    BY <1>1, <2>3, <2>6, ClientFrameInput, Zenon DEF ExecInv, OutInv
  <2> QED
    BY <1>3, <2>4, <2>5, <2>6, Zenon
<1>4. CASE OutputPump \/ DriveSession \/ ChildWrites \/ ChildExits
  <2>1. UNCHANGED <<pump, input, up, clientLoop>>
    BY <1>4, Zenon DEF OutputPump, PumpOutput, OutputEnds, DriveSession, WaitChild, Drained, SendExit,
       Linger, SessionEnds, ChildWrites, ChildExits, clientVars, serviceVars, brokerVars
  <2>2. OutInv'
    BY <1>1, <1>4, PumpOutputOut, OutputEndsOut, WaitChildOut, DrainedOut, SendExitOut, EndingOut,
       ChildOut, Zenon DEF OutputPump, DriveSession
  <2> QED
    BY <1>1, <2>1, <2>2, InputSame, Zenon DEF ExecInv, OutInv
<1> QED
  BY <1>3, <1>4, Zenon DEF ClientLoop

\* Every step of client, service, broker and child keeps the invariant.
LEMMA ExecStep == ExecInv /\ [ExecNext]_execVars => ExecInv'
<1> SUFFICES ASSUME ExecInv, [ExecNext]_execVars PROVE ExecInv'
  OBVIOUS
<1>1. CASE ExecNext
  BY <1>1, ClientSteps, ServiceSteps, BrokerSteps, Zenon DEF ExecNext
<1>2. CASE UNCHANGED execVars
  <2>1. /\ UNCHANGED <<down, frames, stream, shown, serving, outThread, drv, sessionTask, vsock, child, cli>>
        /\ UNCHANGED <<pump, input, up, clientLoop>>
    BY <1>2, Zenon DEF execVars, clientVars, serviceVars, brokerVars
  <2>2. InputInv /\ OutInv /\ sessionTask \in Tasks /\ vsock \in Ends
    BY Zenon DEF ExecInv, OutInv, OutTypes
  <2> QED
    BY <2>1, <2>2, InputSame, OutSame, Zenon DEF ExecInv, OutInv
<1> QED
  BY <1>1, <1>2

\* A client that prints the exit code of its session has printed all the command
\* wrote, unless the pty's drain grace cut the output short; and no queue is ever
\* overfull (send_exit comes after the join of the output threads, and every hop
\* keeps the order).
THEOREM ExitComesLast == ExecSpec => []OutputBeforeExit
<1>1. ExecSpec => []ExecInv
  BY ExecInitInv, ExecStep, PTL DEF ExecSpec
<1> QED
  BY <1>1, ExecInvSuffices, PTL
=============================================================================
