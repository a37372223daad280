-------------------------- MODULE AuditChainProofs --------------------------
(***************************************************************************)
(* Theorems about the audit chain, for any writers and any number of       *)
(* events: nothing recorded is lost unnoticed, whatever fails; and the     *)
(* ledger, whose writers share a lock, always verifies, and never alarms a *)
(* reader who comes in the middle of an append.                            *)
(***************************************************************************)
EXTENDS AuditChain, SequenceTheorems, TLAPS

-----------------------------------------------------------------------------
(* Nothing is lost unnoticed.  A line that has been fsync'd stays where it *)
(* is; an event glued to a torn line leaves an unreadable line behind, and *)
(* that one stays too.                                                     *)

Texts == {"whole", "open", "spoiled"}
Line0 == [event : Nat, prev : Nat, text : Texts]
Whole0 == [event : Nat, prev : Nat, text : {"whole"}]
Chain0 == [head : Nat, count : Nat]

\* The first n lines hold event e, or a line that no reader accepts.
Kept(lines, n, e) ==
  \E i \in 1 .. n : lines[i].event = e \/ lines[i].text = "spoiled"

FilesOK ==
  /\ log \in Seq(Line0)
  /\ synced \in Nat /\ synced <= Len(log)
  /\ line \in [Writers -> Whole0]
  /\ chain \in [Writers -> Chain0]
  /\ ResumingFrom(anchor) \in Chain0 /\ ResumingFrom(durable) \in Chain0
  /\ built \in Nat
  /\ pc \in [Writers -> Places]
  /\ acked \subseteq Nat
  /\ damage = 0

InFlightKept ==
  \A w \in Writers :
    /\ pc[w] = "sync" => Kept(log, Len(log), line[w].event)
    /\ pc[w] \in {"anchor", "settle"} => Kept(log, synced, line[w].event)

AckedKept == \A e \in acked : Kept(log, synced, e)

KInv == FilesOK /\ InFlightKept /\ AckedKept

\* Appending a line keeps what the earlier lines hold and keeps the event
\* itself, as a line of its own or in a line it spoils (write_all).
LEMMA AppendedKeeps ==
  ASSUME NEW lines \in Seq(Line0), NEW l \in Whole0
  PROVE  /\ Appended(lines, l) \in Seq(Line0)
         /\ Len(lines) <= Len(Appended(lines, l))
         /\ Kept(Appended(lines, l), Len(Appended(lines, l)), l.event)
         /\ \A n \in 0 .. Len(lines), e \in Nat :
              Kept(lines, n, e) => Kept(Appended(lines, l), n, e)
<1>1. CASE lines # <<>> /\ lines[Len(lines)].text = "open"
  <2> DEFINE n == Len(lines)
             spoiled == [lines[n] EXCEPT !.text = "spoiled"]
             new == [lines EXCEPT ![n] = spoiled]
  <2>1. n \in Nat /\ n \in 1 .. n /\ lines[n] \in Line0
    BY <1>1
  <2>2. spoiled \in Line0 /\ spoiled.event = lines[n].event /\ spoiled.text = "spoiled"
    BY <2>1 DEF Line0, Texts
  <2>3. Appended(lines, l) = new
    BY <1>1 DEF Appended
  <2>4. new \in Seq(Line0) /\ Len(new) = n
    BY <2>1, <2>2, ExceptSeq
  <2>5. \A i \in 1 .. n : new[i] = IF i = n THEN spoiled ELSE lines[i]
    BY <2>1, <2>2, ExceptSeq
  <2> HIDE DEF new, spoiled
  <2>6. \A i \in 1 .. n :
          new[i].event = lines[i].event /\ (lines[i].text = "spoiled" => new[i].text = "spoiled")
    BY <2>2, <2>5
  <2> QED
    BY <2>1, <2>2, <2>3, <2>4, <2>5, <2>6 DEF Kept
<1>2. CASE ~ (lines # <<>> /\ lines[Len(lines)].text = "open")
  <2>1. Appended(lines, l) = Append(lines, l)
    BY <1>2 DEF Appended
  <2>2. /\ l \in Line0
        /\ Append(lines, l) \in Seq(Line0)
        /\ Len(Append(lines, l)) = Len(lines) + 1 /\ Len(lines) \in Nat
        /\ Append(lines, l)[Len(lines) + 1] = l
        /\ \A i \in 1 .. Len(lines) : Append(lines, l)[i] = lines[i]
    BY DEF Line0, Whole0, Texts
  <2> QED
    BY <2>1, <2>2 DEF Kept
<1> QED
  BY <1>1, <1>2

\* A write cut short keeps what the earlier lines hold.
LEMMA TornKeeps ==
  ASSUME NEW lines \in Seq(Line0), NEW l \in Whole0
  PROVE  /\ Torn(lines, l) \in Seq(Line0)
         /\ Len(lines) <= Len(Torn(lines, l))
         /\ \A n \in 0 .. Len(lines), e \in Nat :
              Kept(lines, n, e) => Kept(Torn(lines, l), n, e)
<1>1. CASE lines # <<>> /\ lines[Len(lines)].text = "open"
  BY <1>1 DEF Torn
<1>2. CASE ~ (lines # <<>> /\ lines[Len(lines)].text = "open")
  <2> DEFINE new == [l EXCEPT !.text = "open"]
  <2>1. Torn(lines, l) = Append(lines, new)
    BY <1>2 DEF Torn
  <2>2. /\ new \in Line0
        /\ Append(lines, new) \in Seq(Line0)
        /\ Len(Append(lines, new)) = Len(lines) + 1 /\ Len(lines) \in Nat
        /\ \A i \in 1 .. Len(lines) : Append(lines, new)[i] = lines[i]
    BY DEF Line0, Whole0, Texts
  <2> QED
    BY <2>1, <2>2 DEF Kept
<1> QED
  BY <1>1, <1>2

\* More lines keep at least as much.
LEMMA KeptGrows ==
  ASSUME NEW lines, NEW n \in Nat, NEW m \in Nat, n <= m, NEW e, Kept(lines, n, e)
  PROVE  Kept(lines, m, e)
BY DEF Kept

\* A log that keeps an event and verifies holds it: no reader accepts a
\* spoiled line (check_line).
LEMMA KeptVerified ==
  ASSUME NEW lines \in Seq(Line0), NEW a, NEW n \in 0 .. Len(lines), NEW e,
         Kept(lines, n, e), Verify(lines, a) = "ok"
  PROVE  e \in {lines[i].event : i \in DOMAIN lines}
<1>1. \A i \in DOMAIN lines : lines[i].text = "whole"
  BY DEF Verify, LineHolds
<1>2. PICK i \in 1 .. n : lines[i].event = e \/ lines[i].text = "spoiled"
  BY DEF Kept
<1>3. i \in DOMAIN lines
  OBVIOUS
<1> QED
  BY <1>1, <1>2, <1>3

-----------------------------------------------------------------------------
(* The invariant, action by action.                                        *)

\* A line built on a chain is a whole line, and the chain it leaves a chain.
LEMMA BuildTypes ==
  ASSUME FilesOK, NEW w \in Writers, NEW c \in Chain0, Build(w, c)
  PROVE  line' \in [Writers -> Whole0] /\ chain' \in [Writers -> Chain0] /\ built' \in Nat
<1>1. built + 1 \in Nat /\ c.count + 1 \in Nat /\ c.head \in Nat
  BY DEF FilesOK, Chain0
<1>2. Line(c, built + 1) \in Whole0
  BY <1>1 DEF Line, Whole0
<1>3. Augmented(c, built + 1) \in Chain0
  BY <1>1 DEF Augmented, Chain0
<1> QED
  BY <1>1, <1>2, <1>3 DEF Build, FilesOK

\* A fresh chain is a chain.
LEMMA FreshChain == Fresh \in Chain0
BY DEF Fresh, Chain0, GENESIS_PREV_HASH

\* A writer that moves to a place where it has written nothing yet, with the
\* files as they were, loses nothing.
LEMMA QuietStep ==
  ASSUME KInv, NEW w \in Writers, NEW p \in Places \ {"sync", "anchor", "settle"},
         pc' = [pc EXCEPT ![w] = p],
         log' = log, synced' = synced, acked' = acked,
         \A v \in Writers \ {w} : line'[v] = line[v]
  PROVE  InFlightKept' /\ AckedKept'
<1>1. ASSUME NEW v \in Writers, pc'[v] \in {"sync", "anchor", "settle"}
      PROVE  v # w /\ pc'[v] = pc[v] /\ line'[v] = line[v]
  BY <1>1 DEF KInv, FilesOK
<1>2. InFlightKept'
  BY <1>1 DEF KInv, InFlightKept
<1>3. AckedKept'
  BY DEF KInv, AckedKept
<1> QED
  BY <1>2, <1>3

\* The steps before a writer touches the log.
LEMMA OpeningKeeps ==
  ASSUME KInv, NEW w \in Writers,
         Lock(w) \/ Open(w) \/ Spawn(w) \/ Connect(w) \/ Inbound(w) \/ Disconnect(w)
  PROVE  KInv'
<1> USE DEF KInv
<1>1. ResumingFrom(anchor) \in Chain0 /\ Fresh \in Chain0 /\ chain[w] \in Chain0
  BY FreshChain DEF FilesOK
<1>2. log' = log /\ synced' = synced /\ anchor' = anchor /\ durable' = durable
      /\ acked' = acked /\ damage' = damage
  BY DEF Lock, Open, Spawn, Connect, Inbound, Disconnect, files
<1>3. CASE Lock(w) \/ Spawn(w) \/ Disconnect(w)
  <2>1. line' = line /\ chain' = chain /\ built' = built
    BY <1>3 DEF Lock, Spawn, Disconnect
  <2>2. PICK p \in {"locked", "idle", "over"} : pc' = [pc EXCEPT ![w] = p]
    BY <1>3 DEF Lock, Spawn, Disconnect, Goes
  <2>3. p \in Places \ {"sync", "anchor", "settle"}
    BY <2>2 DEF Places
  <2>4. pc' \in [Writers -> Places]
    BY <2>2, <2>3 DEF FilesOK
  <2>5. FilesOK'
    BY <1>2, <2>1, <2>4 DEF FilesOK, ResumingFrom
  <2> QED
    BY Zenon, <1>2, <2>1, <2>2, <2>3, <2>5, QuietStep
<1>4. CASE Open(w) \/ Connect(w) \/ Inbound(w)
  <2>1. PICK p \in {"write", "ready"} : pc' = [pc EXCEPT ![w] = p]
    BY <1>4 DEF Open, Connect, Inbound, Goes
  <2>2. p \in Places \ {"sync", "anchor", "settle"}
    BY <2>1 DEF Places
  <2>3. PICK c \in Chain0 :
          \/ Build(w, c)
          \/ chain' = [chain EXCEPT ![w] = c] /\ line' = line /\ built' = built
    BY <1>1, <1>4 DEF Open, Connect, Inbound
  <2>4. line' \in [Writers -> Whole0] /\ chain' \in [Writers -> Chain0] /\ built' \in Nat
    BY <2>3, BuildTypes DEF FilesOK
  <2>5. \A v \in Writers \ {w} : line'[v] = line[v]
    BY <2>3 DEF Build, FilesOK
  <2>6. pc' \in [Writers -> Places]
    BY <2>1, <2>2 DEF FilesOK
  <2>7. FilesOK'
    BY <1>2, <2>4, <2>6 DEF FilesOK, ResumingFrom
  <2> QED
    BY Zenon, <1>2, <2>1, <2>2, <2>5, <2>7, QuietStep
<1> QED
  BY <1>3, <1>4

\* What the others in flight have written stays, when the log only grows and
\* no line of it is taken back.
LEMMA OthersKept ==
  ASSUME KInv, NEW w \in Writers, NEW p \in Places, pc' = [pc EXCEPT ![w] = p],
         line' = line, Len(log) <= Len(log'), log' \in Seq(Line0), synced' \in Nat, synced <= synced',
         \A n \in 0 .. Len(log), e \in Nat : Kept(log, n, e) => Kept(log', n, e)
  PROVE  /\ \A v \in Writers \ {w} :
              /\ pc'[v] = "sync" => Kept(log', Len(log'), line'[v].event)
              /\ pc'[v] \in {"anchor", "settle"} => Kept(log', synced', line'[v].event)
         /\ \A e \in acked : Kept(log', synced', e)
         /\ pc[w] = "sync" => Kept(log', Len(log'), line[w].event)
         /\ pc[w] \in {"anchor", "settle"} => Kept(log', synced', line[w].event)
<1>1. /\ Len(log) \in Nat /\ Len(log') \in Nat
      /\ synced \in 0 .. Len(log) /\ Len(log) \in 0 .. Len(log)
      /\ \A v \in Writers : line[v].event \in Nat
      /\ acked \subseteq Nat
  BY DEF KInv, FilesOK, Whole0
<1>2. \A e \in Nat : Kept(log, Len(log), e) => Kept(log', Len(log'), e)
  BY <1>1, KeptGrows
<1>3. \A e \in Nat : Kept(log, synced, e) => Kept(log', synced', e)
  BY <1>1, KeptGrows
<1>4. \A v \in Writers \ {w} : pc'[v] = pc[v] /\ line'[v] = line[v]
  BY DEF KInv, FilesOK
<1>5. \A v \in Writers :
        /\ pc[v] = "sync" => Kept(log, Len(log), line[v].event)
        /\ pc[v] \in {"anchor", "settle"} => Kept(log, synced, line[v].event)
  BY DEF KInv, InFlightKept
<1>6. \A v \in Writers :
        /\ pc[v] = "sync" => Kept(log', Len(log'), line[v].event)
        /\ pc[v] \in {"anchor", "settle"} => Kept(log', synced', line[v].event)
  BY <1>1, <1>2, <1>3, <1>5
<1>7. \A e \in acked : Kept(log', synced', e)
  BY Zenon, <1>1, <1>3 DEF KInv, AckedKept
<1> QED
  BY <1>4, <1>6, <1>7

\* A writer that is through with a record stands where it has written nothing.
LEMMA AfterRecordPlaces ==
  ASSUME NEW w, NEW failed \in BOOLEAN
  PROVE  AfterRecord(w, failed) \in {"idle", "ready"}
BY DEF AfterRecord

\* write_all keeps every line already there, and the one it writes.
LEMMA WriteKeeps ==
  ASSUME KInv, NEW w \in Writers, Write(w)
  PROVE  KInv'
<1>1. /\ synced' = synced /\ anchor' = anchor /\ durable' = durable /\ chain' = chain
      /\ line' = line /\ built' = built /\ acked' = acked /\ damage' = damage
  BY DEF Write
<1>2. log \in Seq(Line0) /\ line[w] \in Whole0 /\ synced \in Nat /\ synced <= Len(log)
  BY DEF KInv, FilesOK
<1>3. /\ log' \in Seq(Line0)
      /\ Len(log) <= Len(log')
      /\ \A n \in 0 .. Len(log), e \in Nat : Kept(log, n, e) => Kept(log', n, e)
  <2>1. log' = log \/ log' = Appended(log, line[w]) \/ log' = Torn(log, line[w])
    BY Zenon DEF Write
  <2>2. CASE log' = log
    BY <1>2, <2>2
  <2>3. CASE log' = Appended(log, line[w])
    BY <1>2, <2>3, AppendedKeeps, Zenon
  <2>4. CASE log' = Torn(log, line[w])
    BY <1>2, <2>4, TornKeeps, Zenon
  <2> QED
    BY <2>1, <2>2, <2>3, <2>4
<1>4. PICK p \in {"sync", "idle", "ready"} :
        /\ pc' = [pc EXCEPT ![w] = p]
        /\ p = "sync" => log' = Appended(log, line[w])
  BY Zenon, AfterRecordPlaces DEF Write, Finish, Goes
<1>5. p \in Places
  BY DEF Places
<1>6. pc' \in [Writers -> Places] /\ pc'[w] = p
  BY <1>4, <1>5 DEF KInv, FilesOK
<1>7. FilesOK'
  BY <1>1, <1>2, <1>3, <1>6 DEF KInv, FilesOK, ResumingFrom
<1>8. pc'[w] = "sync" => Kept(log', Len(log'), line'[w].event)
  BY <1>1, <1>2, <1>4, <1>6, AppendedKeeps
<1>9. pc'[w] \notin {"anchor", "settle"}
  BY <1>4, <1>6
<1>10. /\ \A v \in Writers \ {w} :
            /\ pc'[v] = "sync" => Kept(log', Len(log'), line'[v].event)
            /\ pc'[v] \in {"anchor", "settle"} => Kept(log', synced', line'[v].event)
       /\ \A e \in acked : Kept(log', synced', e)
  <2>1. synced' \in Nat /\ synced <= synced'
    BY <1>1, <1>2
  <2> QED
    BY <1>1, <1>3, <1>4, <1>5, <2>1, OthersKept, ZenonT(30)
<1>11. InFlightKept'
  BY <1>8, <1>9, <1>10 DEF InFlightKept
<1>12. AckedKept'
  BY <1>1, <1>10 DEF AckedKept
<1> QED
  BY <1>7, <1>11, <1>12 DEF KInv

\* The fsync of the log makes the writer's line one of the durable ones, and
\* the anchor's two steps leave the log alone; the last records the event.
LEMMA SettlingKeeps ==
  ASSUME KInv, NEW w \in Writers, Sync(w) \/ Install(w) \/ Settle(w)
  PROVE  KInv'
<1>1. /\ log' = log /\ chain' = chain
      /\ line' = line /\ built' = built /\ damage' = damage
  BY Zenon DEF Sync, Install, Settle
<1>2. /\ log \in Seq(Line0) /\ Len(log) \in Nat /\ line[w] \in Whole0
      /\ chain[w] \in Chain0 /\ synced \in Nat /\ synced <= Len(log)
      /\ line[w].event \in Nat
  BY DEF KInv, FilesOK, Whole0
<1>3. /\ synced' \in Nat /\ synced <= synced' /\ synced' <= Len(log')
  <2>1. CASE Sync(w)
    <3>1. synced' = Len(log) \/ synced' = synced
      BY Zenon, <2>1 DEF Sync
    <3> QED
      BY <1>1, <1>2, <3>1
  <2>2. CASE Install(w) \/ Settle(w)
    <3>1. synced' = synced
      BY Zenon, <2>2 DEF Install, Settle
    <3> QED
      BY <1>1, <1>2, <3>1
  <2> QED
    BY <2>1, <2>2
<1>4. PICK p \in {"anchor", "settle", "idle", "ready"} :
        /\ pc' = [pc EXCEPT ![w] = p]
        /\ p = "anchor" => pc[w] = "sync" /\ synced' = Len(log)
        /\ p = "settle" => pc[w] = "anchor"
        /\ pc[w] \in {"sync", "anchor", "settle"}
  BY Zenon, AfterRecordPlaces DEF Sync, Install, Settle, Finish, Goes
<1>5. acked' = acked \/ (pc[w] = "settle" /\ acked' = acked \cup {line[w].event})
  BY Zenon DEF Sync, Install, Settle, Finish, Goes
<1>6. p \in Places
  BY DEF Places
<1>7. pc' \in [Writers -> Places] /\ pc'[w] = p
  BY <1>4, <1>6 DEF KInv, FilesOK
<1>8. ResumingFrom(anchor)' \in Chain0 /\ ResumingFrom(durable)' \in Chain0
  <2>1. anchor' = anchor \/ anchor' = Present(chain[w])
    BY Zenon DEF Sync, Install, Settle
  <2>2. durable' = durable \/ durable' = anchor
    BY Zenon DEF Sync, Install, Settle
  <2>3. ResumingFrom(Present(chain[w])) \in Chain0
    BY <1>2 DEF ResumingFrom, Present, Chain0
  <2> QED
    BY <2>1, <2>2, <2>3 DEF KInv, FilesOK, ResumingFrom
<1>9. acked' \subseteq Nat
  BY Zenon, <1>2, <1>5 DEF KInv, FilesOK
<1>10. FilesOK'
  BY <1>1, <1>2, <1>3, <1>7, <1>8, <1>9 DEF KInv, FilesOK
<1>11. /\ \A v \in Writers \ {w} :
            /\ pc'[v] = "sync" => Kept(log', Len(log'), line'[v].event)
            /\ pc'[v] \in {"anchor", "settle"} => Kept(log', synced', line'[v].event)
       /\ \A e \in acked : Kept(log', synced', e)
       /\ pc[w] = "sync" => Kept(log', Len(log'), line[w].event)
       /\ pc[w] \in {"anchor", "settle"} => Kept(log', synced', line[w].event)
  <2>1. /\ log' \in Seq(Line0) /\ Len(log) <= Len(log')
        /\ \A n \in 0 .. Len(log), e \in Nat : Kept(log, n, e) => Kept(log', n, e)
    BY <1>1, <1>2
  <2> QED
    BY <1>1, <1>3, <1>4, <1>6, <2>1, OthersKept, ZenonT(30)
<1>12. pc'[w] \in {"anchor", "settle"} => Kept(log', synced', line'[w].event)
  BY <1>1, <1>4, <1>7, <1>11
<1>13. pc'[w] # "sync"
  BY <1>4, <1>7
<1>14. InFlightKept'
  BY <1>11, <1>12, <1>13 DEF InFlightKept
<1>15. AckedKept'
  BY <1>5, <1>11 DEF AckedKept
<1> QED
  BY <1>10, <1>14, <1>15 DEF KInv

\* A crash takes back only what no fsync covered.
LEMMA CrashKeeps ==
  ASSUME KInv, Crash
  PROVE  KInv'
<1>1. /\ chain' = chain /\ line' = line /\ built' = built /\ acked' = acked /\ damage' = damage
      /\ anchor' \in {anchor, durable} /\ durable' = anchor'
      /\ pc' = [v \in Writers |-> IF Kind[v] = "relay" THEN "down" ELSE "idle"]
  BY DEF Crash
<1>2. log \in Seq(Line0) /\ Len(log) \in Nat /\ synced \in Nat /\ synced <= Len(log)
  BY DEF KInv, FilesOK
<1>3. PICK n \in synced .. Len(log), cut \in BOOLEAN :
        /\ cut => n > synced
        /\ log' = IF cut /\ log[n].text = "whole"
                  THEN [SubSeq(log, 1, n) EXCEPT ![n].text = "open"]
                  ELSE SubSeq(log, 1, n)
        /\ synced' = n
  BY Zenon DEF Crash
<1>4. n \in Nat /\ n <= Len(log)
  BY <1>2
<1>5. /\ SubSeq(log, 1, n) \in Seq(Line0) /\ Len(SubSeq(log, 1, n)) = n
      /\ \A i \in 1 .. n : SubSeq(log, 1, n)[i] = log[i]
  BY <1>2, <1>4
<1>6. /\ log' \in Seq(Line0) /\ Len(log') = n
      /\ \A i \in 1 .. synced : log'[i] = log[i]
  <2>1. CASE cut /\ log[n].text = "whole"
    <3> DEFINE torn == [log[n] EXCEPT !.text = "open"]
               s == SubSeq(log, 1, n)
    <3>1. n \in 1 .. Len(s) /\ log[n] \in Line0 /\ s[n] = log[n] /\ n > synced
      BY <1>2, <1>3, <1>4, <1>5, <2>1
    <3>2. torn \in Line0
      BY <3>1 DEF Line0, Texts
    <3>3. log' = [s EXCEPT ![n] = torn]
      BY Zenon, <1>3, <2>1, <3>1
    <3> HIDE DEF torn, s
    <3>4. s \in Seq(Line0) /\ Len(s) = n /\ \A i \in 1 .. n : s[i] = log[i]
      BY <1>5 DEF s
    <3>5. /\ [s EXCEPT ![n] = torn] \in Seq(Line0) /\ Len([s EXCEPT ![n] = torn]) = Len(s)
          /\ \A j \in 1 .. Len(s) : [s EXCEPT ![n] = torn][j] = IF j = n THEN torn ELSE s[j]
      BY <3>1, <3>2, <3>4, ExceptSeq
    <3> QED
      BY <1>2, <1>4, <3>1, <3>3, <3>4, <3>5
  <2>2. CASE ~ (cut /\ log[n].text = "whole")
    <3>1. log' = SubSeq(log, 1, n)
      BY <1>3, <2>2
    <3> QED
      BY <1>2, <1>4, <1>5, <3>1
  <2> QED
    BY <2>1, <2>2
<1>7. pc' \in [Writers -> Places] /\ \A v \in Writers : pc'[v] \notin {"sync", "anchor", "settle"}
  BY <1>1 DEF Places
<1>8. FilesOK'
  <2>1. ResumingFrom(anchor)' \in Chain0 /\ ResumingFrom(durable)' \in Chain0
    <3>1. anchor' = anchor \/ anchor' = durable
      BY <1>1
    <3> QED
      BY <1>1, <3>1, Zenon DEF KInv, FilesOK, ResumingFrom
  <2>2. synced' \in Nat /\ synced' <= Len(log')
    BY <1>3, <1>4, <1>6
  <2> QED
    BY <1>1, <1>6, <1>7, <2>1, <2>2 DEF KInv, FilesOK
<1>9. \A e \in acked : Kept(log', synced, e)
  BY <1>6 DEF KInv, AckedKept, Kept
<1>10. AckedKept'
  <2>1. synced <= n /\ synced' = n
    BY <1>2, <1>3
  <2>2. \A e \in acked : Kept(log', n, e)
    BY <1>2, <1>4, <1>9, <2>1, KeptGrows
  <2> QED
    BY <1>1, <2>1, <2>2 DEF AckedKept
<1> QED
  BY <1>7, <1>8, <1>10 DEF KInv, InFlightKept

\* The chain starts with nothing recorded.
LEMMA InitKeeps == Init => KInv
<1> SUFFICES ASSUME Init PROVE KInv
  OBVIOUS
<1>1. Line(Fresh, 0) \in Whole0
  BY DEF Line, Fresh, GENESIS_PREV_HASH, Whole0
<1>2. ResumingFrom(Absent) = Fresh
  BY DEF ResumingFrom, Absent
<1>3. \A w \in Writers : pc[w] \in {"down", "idle"}
  BY DEF Init
<1>4. pc \in [Writers -> Places]
  BY <1>3 DEF Init, Places
<1>5. FilesOK
  BY <1>1, <1>2, <1>4, FreshChain DEF Init, FilesOK
<1>6. InFlightKept
  BY <1>3 DEF InFlightKept
<1> QED
  BY <1>5, <1>6 DEF KInv, AckedKept, Init

\* Every step of the system keeps what was kept.
LEMMA StepKeeps ==
  ASSUME MaxDamage = 0, KInv, [Next]_vars
  PROVE  KInv'
<1>1. ASSUME NEW w \in Writers, Step(w) PROVE KInv'
  BY <1>1, OpeningKeeps, WriteKeeps, SettlingKeeps DEF Step
<1>2. CASE Crash
  BY <1>2, CrashKeeps
<1>3. ~ Damage
  BY DEF Damage, KInv, FilesOK
<1>4. CASE ReadersAnchor \/ ReadersWalk \/ UNCHANGED vars
  <2>1. /\ log' = log /\ synced' = synced /\ anchor' = anchor /\ durable' = durable
        /\ pc' = pc /\ chain' = chain /\ line' = line /\ built' = built
        /\ acked' = acked /\ damage' = damage
    BY <1>4 DEF ReadersAnchor, ReadersWalk, vars, files
  <2> QED
    BY <2>1 DEF KInv, FilesOK, InFlightKept, AckedKept, Kept, ResumingFrom
<1> QED
  BY <1>1, <1>2, <1>3, <1>4 DEF Next

\* A log that verifies holds every event that was recorded successfully,
\* whatever writers there are and whatever fails or crashes between the steps
\* of an append, as long as nobody damages the log at rest.
THEOREM NothingLostUnnoticed ==
  ASSUME MaxDamage = 0
  PROVE  Spec => []OkMeansComplete
<1>1. KInv /\ [Next]_vars => KInv'
  BY StepKeeps
<1>2. KInv => OkMeansComplete
  <2> SUFFICES ASSUME KInv, Verify(log, anchor) = "ok", NEW e \in acked
               PROVE  e \in {log[i].event : i \in DOMAIN log}
    BY DEF OkMeansComplete
  <2>1. Kept(log, synced, e) /\ synced \in 0 .. Len(log) /\ log \in Seq(Line0)
    BY DEF KInv, AckedKept, FilesOK
  <2> QED
    BY <2>1, KeptVerified
<1> QED
  BY <1>1, <1>2, InitKeeps, PTL DEF Spec

-----------------------------------------------------------------------------
(* The ledger.  As long as nothing fails, the writer that holds the lock is *)
(* the only one with a line in flight, and everyone else finds the log and  *)
(* the anchor level.                                                        *)

InSection == {"locked", "write", "sync", "anchor", "settle"}

ChainedOK == \A i \in DOMAIN log : LineHolds(log, i)

\* Chain c stands at the end of the log.
AtEnd(c) == c.count = Len(log) /\ c.head = PrevOf(log, Len(log) + 1)

Level == AtEnd(ResumingFrom(anchor))

LockOK ==
  /\ lock \in Writers \cup {NoOne}
  /\ \A w \in Writers : pc[w] \in InSection <=> lock = w
  /\ lock = NoOne => Level

HolderOK ==
  \A w \in Writers :
    /\ pc[w] = "locked" => Level
    /\ pc[w] = "write" =>
         /\ line[w].prev = PrevOf(log, Len(log) + 1)
         /\ chain[w] = [head |-> line[w].event, count |-> Len(log) + 1]
    /\ pc[w] \in {"sync", "anchor"} => AtEnd(chain[w])
    /\ pc[w] = "settle" => Level

Sound == ChainedOK /\ LockOK /\ HolderOK

LInv == faults \in Nat /\ (faults = 0 => Sound)

OnlyLedger == \A w \in Writers : Kind[w] = "ledger"

\* Whoever is inside the critical section holds the lock, so nobody else is.
LEMMA HolderAlone ==
  ASSUME KInv, LockOK, NEW w \in Writers, pc[w] \in InSection,
         NEW p \in Places, pc' = [pc EXCEPT ![w] = p]
  PROVE  /\ lock = w
         /\ pc'[w] = p
         /\ \A v \in Writers \ {w} : pc[v] \notin InSection /\ pc'[v] = pc[v]
BY DEF KInv, FilesOK, LockOK

\* Taking the lock opens the section on a log level with its anchor.
LEMMA LockSound ==
  ASSUME KInv, Sound, NEW w \in Writers, Lock(w)
  PROVE  Sound'
<1>1. /\ log' = log /\ anchor' = anchor /\ lock = NoOne /\ lock' = w
      /\ pc' = [pc EXCEPT ![w] = "locked"]
  BY DEF Lock, files, Goes
<1>2. \A v \in Writers : pc[v] \notin InSection
  BY <1>1, NoOneAssumption DEF Sound, LockOK
<1>3. \A v \in Writers : pc'[v] = IF v = w THEN "locked" ELSE pc[v]
  BY <1>1 DEF KInv, FilesOK
<1>4. Level'
  BY <1>1 DEF Sound, LockOK, Level, AtEnd, PrevOf, ResumingFrom
<1>5. ChainedOK'
  BY <1>1 DEF Sound, ChainedOK, LineHolds, PrevOf
<1>6. "locked" \in InSection
  BY DEF InSection
<1>7. LockOK'
  BY <1>1, <1>2, <1>3, <1>6, NoOneAssumption DEF LockOK
<1>8. HolderOK'
  BY <1>2, <1>3, <1>4 DEF HolderOK, InSection
<1> QED
  BY <1>5, <1>7, <1>8 DEF Sound

\* The holder builds its line on the anchor it reads, which is the log's end.
LEMMA OpenSound ==
  ASSUME KInv, Sound, OnlyLedger, NEW w \in Writers, Open(w), faults' = faults, faults = 0
  PROVE  Sound'
<1>1. /\ log' = log /\ anchor' = anchor /\ lock' = lock
      /\ pc[w] = "locked" /\ pc' = [pc EXCEPT ![w] = "write"]
  BY DEF Open, files, Goes, OnlyLedger
<1>2. Build(w, ResumingFrom(anchor))
  BY DEF Open, ReadAnchor, Fault, NoFault
<1>3. pc[w] \in InSection /\ "write" \in Places /\ "write" \in InSection
  BY <1>1 DEF InSection, Places
<1>4. /\ lock = w /\ pc'[w] = "write"
      /\ \A v \in Writers \ {w} : pc[v] \notin InSection /\ pc'[v] = pc[v]
  BY Zenon, <1>1, <1>3, HolderAlone DEF Sound
<1>5. Level
  BY Zenon, <1>1 DEF Sound, HolderOK
<1>6. /\ line'[w] = Line(ResumingFrom(anchor), built + 1)
      /\ chain'[w] = Augmented(ResumingFrom(anchor), built + 1)
  BY <1>2 DEF Build, KInv, FilesOK
<1>7. /\ line'[w].prev = PrevOf(log', Len(log') + 1)
      /\ chain'[w] = [head |-> line'[w].event, count |-> Len(log') + 1]
  BY <1>1, <1>5, <1>6 DEF Line, Augmented, Level, AtEnd
<1>8. ChainedOK'
  BY <1>1 DEF Sound, ChainedOK, LineHolds, PrevOf
<1>9. LockOK'
  <2>1. lock' = w /\ w # NoOne
    BY <1>1, <1>4, NoOneAssumption
  <2> QED
    BY <1>3, <1>4, <2>1 DEF LockOK
<1>10. HolderOK'
  BY <1>4, <1>7 DEF HolderOK, InSection
<1> QED
  BY <1>8, <1>9, <1>10 DEF Sound

\* The line goes to the end of the log, where it belongs.
LEMMA WriteSound ==
  ASSUME KInv, Sound, NEW w \in Writers, Write(w), faults' = faults, faults = 0
  PROVE  Sound'
<1>1. /\ log' = Appended(log, line[w]) /\ anchor' = anchor /\ lock' = lock
      /\ line' = line /\ chain' = chain
      /\ pc[w] = "write" /\ pc' = [pc EXCEPT ![w] = "sync"]
  BY DEF Write, Goes, Fault, NoFault
<1>2. pc[w] \in InSection /\ "sync" \in Places /\ "sync" \in InSection
  BY <1>1 DEF InSection, Places
<1>3. /\ lock = w /\ pc'[w] = "sync"
      /\ \A v \in Writers \ {w} : pc[v] \notin InSection /\ pc'[v] = pc[v]
  BY Zenon, <1>1, <1>2, HolderAlone DEF Sound
<1>4. log \in Seq(Line0) /\ line[w] \in Whole0 /\ line[w] \in Line0 /\ Len(log) \in Nat
  BY DEF KInv, FilesOK, Whole0, Line0, Texts
<1>5. log' = Append(log, line[w])
  <2>1. \A i \in DOMAIN log : log[i].text = "whole"
    BY DEF Sound, ChainedOK, LineHolds
  <2>2. log # <<>> => Len(log) \in DOMAIN log
    BY <1>4
  <2> QED
    BY <1>1, <2>1, <2>2 DEF Appended
<1>6. /\ Len(log') = Len(log) + 1 /\ log' \in Seq(Line0)
      /\ log'[Len(log) + 1] = line[w]
      /\ \A i \in 1 .. Len(log) : log'[i] = log[i]
  BY <1>4, <1>5
<1>7. /\ line[w].prev = PrevOf(log, Len(log) + 1)
      /\ chain[w] = [head |-> line[w].event, count |-> Len(log) + 1]
  BY <1>1 DEF Sound, HolderOK
<1>8. ChainedOK'
  <2> SUFFICES ASSUME NEW i \in 1 .. Len(log) + 1 PROVE LineHolds(log', i)
    BY <1>4, <1>6 DEF ChainedOK
  <2>1. CASE i \in 1 .. Len(log)
    <3>1. LineHolds(log, i)
      BY <1>4, <2>1 DEF Sound, ChainedOK
    <3>2. PrevOf(log', i) = PrevOf(log, i)
      BY <1>4, <1>6, <2>1 DEF PrevOf
    <3> QED
      BY <1>6, <2>1, <3>1, <3>2 DEF LineHolds
  <2>2. CASE i = Len(log) + 1
    <3>1. PrevOf(log', i) = PrevOf(log, i)
      BY <1>4, <1>6, <2>2 DEF PrevOf
    <3> QED
      BY <1>4, <1>6, <1>7, <2>2, <3>1 DEF LineHolds, Whole0
  <2> QED
    BY <1>4, <2>1, <2>2
<1>9. (AtEnd(chain[w]))'
  BY <1>1, <1>4, <1>6, <1>7 DEF AtEnd, PrevOf
<1>10. LockOK'
  <2>1. lock' = w /\ w # NoOne
    BY SMTT(30), <1>1, <1>3, NoOneAssumption
  <2> QED
    BY <1>2, <1>3, <2>1 DEF LockOK
<1>11. HolderOK'
  BY <1>3, <1>9 DEF HolderOK, InSection
<1> QED
  BY <1>8, <1>10, <1>11 DEF Sound

\* The fsync changes nothing a reader sees; the rename makes the anchor level
\* with the log; and only then is the lock let go.
LEMMA SettlingSound ==
  ASSUME KInv, Sound, OnlyLedger, NEW w \in Writers, Sync(w) \/ Install(w) \/ Settle(w),
         faults' = faults, faults = 0
  PROVE  Sound'
<1>1. log' = log /\ chain' = chain /\ line' = line
  BY Zenon DEF Sync, Install, Settle
<1>2. ChainedOK'
  BY <1>1 DEF Sound, ChainedOK, LineHolds, PrevOf
<1>3. CASE Sync(w)
  <2>1. /\ pc[w] = "sync" /\ pc' = [pc EXCEPT ![w] = "anchor"]
        /\ lock' = lock
    BY <1>3 DEF Sync, Goes, Fault, NoFault
  <2>2. pc[w] \in InSection /\ "anchor" \in Places /\ "anchor" \in InSection
    BY <2>1 DEF InSection, Places
  <2>3. /\ lock = w /\ pc'[w] = "anchor"
        /\ \A v \in Writers \ {w} : pc[v] \notin InSection /\ pc'[v] = pc[v]
    BY Zenon, <2>1, <2>2, HolderAlone DEF Sound
  <2>4. (AtEnd(chain[w]))'
    BY Zenon, <1>1, <2>1 DEF Sound, HolderOK, AtEnd, PrevOf
  <2>5. LockOK'
    <3>1. lock' = w /\ w # NoOne
      BY <2>1, <2>3, NoOneAssumption
    <3> QED
      BY <2>2, <2>3, <3>1 DEF LockOK
  <2>6. HolderOK'
    BY <2>3, <2>4 DEF HolderOK, InSection
  <2> QED
    BY <1>2, <2>5, <2>6 DEF Sound
<1>4. CASE Install(w)
  <2>1. /\ pc[w] = "anchor" /\ pc' = [pc EXCEPT ![w] = "settle"]
        /\ lock' = lock /\ anchor' = Present(chain[w])
    BY <1>4 DEF Install, Goes, Fault, NoFault
  <2>2. pc[w] \in InSection /\ "settle" \in Places /\ "settle" \in InSection
    BY <2>1 DEF InSection, Places
  <2>3. /\ lock = w /\ pc'[w] = "settle"
        /\ \A v \in Writers \ {w} : pc[v] \notin InSection /\ pc'[v] = pc[v]
    BY Zenon, <2>1, <2>2, HolderAlone DEF Sound
  <2>4. Level'
    <3>1. AtEnd(chain[w])
      BY ZenonT(30), <2>1 DEF Sound, HolderOK
    <3>2. ResumingFrom(anchor') = [head |-> chain[w].head, count |-> chain[w].count]
      BY <2>1 DEF ResumingFrom, Present
    <3> QED
      BY <1>1, <3>1, <3>2 DEF Level, AtEnd, PrevOf
  <2>5. LockOK'
    <3>1. lock' = w /\ w # NoOne
      BY SMTT(30), <2>1, <2>3, NoOneAssumption
    <3> QED
      BY <2>2, <2>3, <3>1 DEF LockOK
  <2>6. HolderOK'
    BY <2>3, <2>4 DEF HolderOK, InSection
  <2> QED
    BY <1>2, <2>5, <2>6 DEF Sound
<1>5. CASE Settle(w)
  <2>1. /\ pc[w] = "settle" /\ anchor' = anchor
        /\ lock' = IF lock = w THEN NoOne ELSE lock
        /\ pc' = [pc EXCEPT ![w] = "idle"]
    BY <1>5 DEF Settle, Finish, AfterRecord, Goes, OnlyLedger
  <2>2. pc[w] \in InSection /\ "idle" \in Places /\ "idle" \notin InSection
    BY <2>1 DEF InSection, Places
  <2>3. /\ lock = w /\ pc'[w] = "idle"
        /\ \A v \in Writers \ {w} : pc[v] \notin InSection /\ pc'[v] = pc[v]
    BY Zenon, <2>1, <2>2, HolderAlone DEF Sound
  <2>4. Level'
    BY ZenonT(30), <1>1, <2>1 DEF Sound, HolderOK, Level, AtEnd, PrevOf, ResumingFrom
  <2>5. \A v \in Writers : pc'[v] \notin InSection
    BY <2>2, <2>3
  <2>6. LockOK'
    BY <2>1, <2>3, <2>4, <2>5, NoOneAssumption DEF LockOK
  <2>7. HolderOK'
    BY <2>5 DEF HolderOK, InSection
  <2> QED
    BY <1>2, <2>6, <2>7 DEF Sound
<1> QED
  BY SMTT(30), <1>3, <1>4, <1>5

\* Every step of the ledger's writers keeps the ledger sound until something
\* fails.
LEMMA LedgerStep ==
  ASSUME OnlyLedger, MaxDamage = 0, KInv, LInv, [Next]_vars
  PROVE  LInv'
<1>1. faults' = faults \/ faults' = faults + 1
  BY ZenonT(30) DEF Next, Step, Lock, Open, Spawn, Connect, Inbound, Disconnect, Write, Sync,
         Install, Settle, ReadAnchor, Fault, NoFault, Crash, Damage, ReadersAnchor,
         ReadersWalk, vars
<1>2. faults' \in Nat /\ (faults' = 0 => faults = 0 /\ faults' = faults)
  BY <1>1 DEF LInv
<1> SUFFICES ASSUME faults' = 0 PROVE Sound'
  BY <1>2 DEF LInv
<1>3. faults = 0 /\ faults' = faults /\ Sound
  BY <1>2 DEF LInv
<1>4. ASSUME NEW w \in Writers, Step(w) PROVE Sound'
  <2>1. ~ (Spawn(w) \/ Connect(w) \/ Inbound(w) \/ Disconnect(w))
    BY DEF Spawn, Connect, Inbound, Disconnect, OnlyLedger
  <2> QED
    BY SMTT(30), <1>3, <1>4, <2>1, LockSound, OpenSound, WriteSound, SettlingSound DEF Step
<1>5. ~ Crash
  BY <1>3 DEF Crash, Fault
<1>6. ~ Damage
  BY SMTT(30) DEF Damage, KInv, FilesOK
<1>7. CASE ReadersAnchor \/ ReadersWalk \/ UNCHANGED vars
  <2>1. /\ log' = log /\ anchor' = anchor /\ lock' = lock
        /\ pc' = pc /\ chain' = chain /\ line' = line
    BY <1>7 DEF ReadersAnchor, ReadersWalk, vars, files
  <2> QED
    BY <1>3, <2>1 DEF Sound, ChainedOK, LineHolds, PrevOf, LockOK, HolderOK, Level, AtEnd, ResumingFrom
<1> QED
  BY SMTT(30), <1>4, <1>5, <1>6, <1>7 DEF Next

\* The ledger starts empty, unanchored and unlocked.
LEMMA InitSound == ASSUME OnlyLedger, Init PROVE LInv
<1>1. \A w \in Writers : pc[w] = "idle"
  BY DEF Init, OnlyLedger
<1>2. "idle" \notin InSection
  BY SMTT(30) DEF InSection
<1>3. Level
  BY DEF Init, Level, AtEnd, ResumingFrom, Absent, Fresh, PrevOf
<1>4. ChainedOK
  BY DEF Init, ChainedOK
<1>5. LockOK
  BY <1>1, <1>2, <1>3, NoOneAssumption DEF Init, LockOK
<1>6. HolderOK
  BY <1>1 DEF HolderOK
<1> QED
  BY <1>4, <1>5, <1>6 DEF Init, LInv, Sound

\* However many runs record to the ledger, whoever reads it while nobody holds
\* WRITE_LOCK finds every line chained to the one before it and the anchor at
\* the head of the log, as long as no write has failed.
THEOREM LedgerAlwaysVerifies ==
  ASSUME OnlyLedger, MaxDamage = 0
  PROVE  Spec => []LedgerVerifies
<1>1. Init => KInv /\ LInv
  BY InitKeeps, InitSound
<1>2. KInv /\ LInv /\ [Next]_vars => KInv' /\ LInv'
  BY StepKeeps, LedgerStep
<1>3. KInv /\ LInv => LedgerVerifies
  <2> SUFFICES ASSUME KInv, LInv, lock = NoOne, faults = 0, log # <<>>
               PROVE  Verify(log, anchor) = "ok"
    BY DEF LedgerVerifies
  <2>1. ChainedOK /\ Level
    BY DEF LInv, Sound, LockOK
  <2>2. Len(log) # 0
    BY DEF KInv, FilesOK
  <2>3. anchor.state = "present"
    BY <2>1, <2>2 DEF Level, AtEnd, ResumingFrom, Fresh
  <2>4. anchor.count = Len(log) /\ anchor.head = PrevOf(log, Len(log) + 1)
    BY <2>1, <2>3 DEF Level, AtEnd, ResumingFrom
  <2> QED
    BY <2>1, <2>3, <2>4 DEF Verify, ChainedOK
<1> QED
  BY <1>1, <1>2, <1>3, PTL DEF Spec

\* A reader who takes the anchor and walks the ledger at any moment, in the
\* middle of an append as well, never finds a line that does not follow from
\* the line before it, as long as no write has failed (WRITE_LOCK again: every
\* writer builds on the last line; verify_chain_with_anchor, walk_chain).
THEOREM LedgerRaisesNoFalseAlarm ==
  ASSUME OnlyLedger, MaxDamage = 0
  PROVE  Spec => []NoFalseAlarm
<1>1. Init => KInv /\ LInv /\ NoFalseAlarm
  <2>1. Init => NoFalseAlarm
    BY DEF Init, NoFalseAlarm
  <2> QED
    BY <2>1, InitKeeps, InitSound
<1>2. KInv /\ LInv /\ NoFalseAlarm /\ [Next]_vars => KInv' /\ LInv' /\ NoFalseAlarm'
  <2> SUFFICES ASSUME KInv, LInv, NoFalseAlarm, [Next]_vars
               PROVE  KInv' /\ LInv' /\ NoFalseAlarm'
    OBVIOUS
  <2>1. KInv' /\ LInv'
    BY StepKeeps, LedgerStep
  <2>2. faults' = 0 => faults = 0
    <3>1. faults' = faults \/ faults' = faults + 1
      BY ZenonT(30) DEF Next, Step, Lock, Open, Spawn, Connect, Inbound, Disconnect, Write, Sync,
             Install, Settle, ReadAnchor, Fault, NoFault, Crash, Damage, ReadersAnchor,
             ReadersWalk, vars
    <3> QED
      BY <3>1 DEF LInv
  <2>3. verdict' = verdict \/ verdict' = Verify(log, reading)
    BY ZenonT(30) DEF Next, Step, Lock, Open, Spawn, Connect, Inbound, Disconnect, Write, Sync,
           Install, Settle, Crash, Damage, ReadersAnchor, ReadersWalk, vars, reader
  <2>4. faults = 0 => Verify(log, reading) # "broken"
    BY DEF LInv, Sound, ChainedOK, Verify
  <2>5. damage = 0
    BY DEF KInv, FilesOK
  <2> QED
    BY <2>1, <2>2, <2>3, <2>4, <2>5 DEF NoFalseAlarm
<1> QED
  BY <1>1, <1>2, PTL DEF Spec
=============================================================================
