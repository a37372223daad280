------------------------- MODULE LayerInstallProofs -------------------------
(***************************************************************************)
(* Whoever finds a blob gets all of it, for any number of installs and     *)
(* however often one fails or the service stops.  For the layer cache this *)
(* is the check it makes when it reads; for the content store, which makes *)
(* none, it is an invariant of its temporary names.                        *)
(***************************************************************************)
EXTENDS LayerInstall, TLAPS

Pcs == {"look", "fetch", "prepare", "create", "write", "rename", "found", "done", "failed"}
Running == {"look", "fetch", "prepare", "create", "write", "rename"}

Typed ==
  /\ store \in {"layers", "content"}
  /\ via \in [Installs -> {"bytes", "reader"}]
  /\ tmp \in [Names -> Inodes \cup {NONE}]
  /\ final \in Inodes \cup {NONE}
  /\ inode \in [Inodes -> {NONE, "empty", "torn", "whole"}]
  /\ pc \in [Installs -> Pcs]
  /\ got \in [Installs -> {NONE, "empty", "torn", "whole"}]
  /\ past \in [hurdles : 0 .. MaxHurdles, crashes : 0 .. MaxHurdles]
  /\ past.crashes <= past.hurdles

\* The content store's blob is whole and no install has it in its hands: its
\* inode is of an install that is over, or of an earlier life of the service.
FinalIsWhole ==
  final # NONE => /\ inode[final] = "whole" /\ final[2] <= past.crashes
                  /\ \A p \in Installs : pc[p] \in Running => final # Mine(p)

\* The temporary name of an install of the content store is its own.
TmpIsMine ==
  \A p \in Installs :
    /\ pc[p] = "create" => tmp[p] = NONE
    /\ pc[p] \in {"write", "rename"} => tmp[p] = Mine(p)
    /\ pc[p] = "rename" => inode[Mine(p)] = "whole"

ContentInv == store = "content" => FinalIsWhole /\ TmpIsMine
BlobInv == Typed /\ ContentInv /\ FoundIsWhole /\ InstallsDoNotCollide

-----------------------------------------------------------------------------
\* An install has an inode of its own in every life of the service.
LEMMA MineIsMine ==
  ASSUME Typed, NEW p \in Installs
  PROVE  /\ Mine(p) \in Inodes /\ Mine(p) # NONE /\ Mine(p)[1] = p /\ Mine(p)[2] = past.crashes
         /\ \A q \in Installs : Mine(q) = Mine(p) => q = p
<1>1. past.crashes \in 0 .. MaxHurdles
  BY DEF Typed
<1>2. <<p, past.crashes>> # << >>
  OBVIOUS
<1> QED
  BY <1>1, <1>2 DEF Mine, Inodes, NONE

\* No blob is there when the first install looks.
LEMMA BlobInitInv ==
  ASSUME MaxHurdles \in Nat, BlobInit
  PROVE  BlobInv
<1>1. Typed
  <2>1. via \in [Installs -> {"bytes", "reader"}] /\ store \in {"layers", "content"}
    BY DEF BlobInit
  <2> QED
    BY <2>1 DEF BlobInit, Typed, Pcs
<1>2. ContentInv /\ FoundIsWhole /\ InstallsDoNotCollide
  BY DEF BlobInit, ContentInv, FinalIsWhole, TmpIsMine, FoundIsWhole, InstallsDoNotCollide
<1> QED
  BY <1>1, <1>2 DEF BlobInv

\* A step of an install.
LEMMA InstallSteps ==
  ASSUME MaxHurdles \in Nat, BlobInv, NEW p \in Installs,
         Look(p) \/ Fetch(p) \/ Prepare(p) \/ Create(p) \/ Write(p) \/ WriteFails(p) \/ Rename(p)
  PROVE  BlobInv'
<1> USE DEF BlobInv
<1>1. /\ store' = store /\ via' = via /\ past'.crashes = past.crashes
      /\ past' \in [hurdles : 0 .. MaxHurdles, crashes : 0 .. MaxHurdles]
      /\ past'.crashes <= past'.hurdles /\ past'.hurdles >= past.hurdles
  BY DEF Typed, Look, Fetch, Prepare, Create, Write, WriteFails, Rename
<1>2. \A q \in Installs : Mine(q)' = Mine(q)
  BY <1>1 DEF Mine
<1>3. TmpOf(p) \in Names /\ (store = "content" => TmpOf(p) = p) /\ Installs \subseteq Names
  BY DEF TmpOf, Names, unique_tmp
<1>4. \A q \in Installs : q # p => pc'[q] = pc[q] /\ got'[q] = got[q]
  BY DEF Typed, Look, Fetch, Prepare, Create, Write, WriteFails, Rename, Goto
<1>5. Mine(p) \in Inodes /\ Mine(p) # NONE /\ \A q \in Installs : Mine(q) = Mine(p) => q = p
  BY MineIsMine
<1>6. Typed'
  <2>1. pc' \in [Installs -> Pcs]
    BY DEF Typed, Look, Fetch, Prepare, Create, Write, WriteFails, Rename, Goto, Pcs
  <2>2. tmp' \in [Names -> Inodes \cup {NONE}] /\ final' \in Inodes \cup {NONE}
    BY <1>3, <1>5 DEF Typed, Look, Fetch, Prepare, Create, Write, WriteFails, Rename
  <2>3. inode' \in [Inodes -> {NONE, "empty", "torn", "whole"}]
    BY <1>5 DEF Typed, Look, Fetch, Prepare, Create, Write, WriteFails, Rename
  <2>4. got' \in [Installs -> {NONE, "empty", "torn", "whole"}]
    BY DEF Typed, Look, Fetch, Prepare, Create, Write, WriteFails, Rename
  <2> QED
    BY <1>1, <2>1, <2>2, <2>3, <2>4 DEF Typed
<1>7. FoundIsWhole'
  <2>1. pc'[p] = "found" => got'[p] = "whole"
    BY DEF Typed, ContentInv, FinalIsWhole, Look, Fetch, Prepare, Create, Write, WriteFails, Rename, Goto
  <2> QED
    BY <1>4, <2>1 DEF FoundIsWhole
<1>8. ContentInv'
  <2> SUFFICES ASSUME store = "content" PROVE FinalIsWhole' /\ TmpIsMine'
    BY <1>1 DEF ContentInv
  <2>1. FinalIsWhole /\ TmpIsMine /\ TmpOf(p) = p
    BY <1>3 DEF ContentInv
  <2>2. CASE Look(p) \/ Fetch(p)
    <3>1. /\ pc[p] \in Running /\ pc'[p] \in {"found", "fetch", "prepare"}
          /\ tmp' = tmp /\ final' = final /\ inode' = inode
      BY <2>2 DEF Typed, Look, Fetch, Goto, Running
    <3> QED
      BY <1>1, <1>2, <1>4, <2>1, <3>1 DEF FinalIsWhole, TmpIsMine
  <2>3. CASE Prepare(p)
    <3>1. /\ pc[p] \in Running /\ pc'[p] = "create"
          /\ tmp' = [tmp EXCEPT ![p] = NONE] /\ final' = final /\ inode' = inode
      BY <2>1, <2>3 DEF Typed, Prepare, Goto, Running
    <3> QED
      BY <1>1, <1>2, <1>3, <1>4, <2>1, <3>1 DEF Typed, FinalIsWhole, TmpIsMine
  <2>4. CASE Create(p)
    <3>1. /\ pc[p] \in Running /\ pc'[p] = "write"
          /\ tmp' = [tmp EXCEPT ![p] = Mine(p)] /\ final' = final
          /\ inode' = [inode EXCEPT ![Mine(p)] = "empty"]
      BY <2>1, <2>4 DEF Typed, Create, Goto, Running, TmpIsMine
    <3>2. FinalIsWhole'
      BY <1>1, <1>2, <1>4, <2>1, <3>1 DEF Typed, FinalIsWhole
    <3>3. TmpIsMine'
      BY <1>2, <1>3, <1>4, <1>5, <2>1, <3>1, MineIsMine DEF Typed, TmpIsMine
    <3> QED
      BY <3>2, <3>3
  <2>5. CASE Write(p)
    <3>1. /\ pc[p] = "write" /\ pc'[p] = "rename" /\ tmp' = tmp /\ final' = final
          /\ inode' = [inode EXCEPT ![Mine(p)] = "whole"]
      BY <2>5 DEF Typed, Write, Goto
    <3>2. FinalIsWhole'
      BY <1>1, <1>2, <1>4, <2>1, <3>1 DEF Typed, FinalIsWhole, Running
    <3>3. TmpIsMine'
      BY <1>2, <1>4, <1>5, <2>1, <3>1, MineIsMine DEF Typed, TmpIsMine
    <3> QED
      BY <3>2, <3>3
  <2>6. CASE WriteFails(p)
    <3>1. /\ pc[p] = "write" /\ pc'[p] = "failed" /\ tmp' = [tmp EXCEPT ![p] = NONE] /\ final' = final
          /\ inode' = [inode EXCEPT ![Mine(p)] = "torn"]
      BY <2>1, <2>6 DEF Typed, WriteFails, Goto
    <3>2. FinalIsWhole'
      BY <1>1, <1>2, <1>4, <2>1, <3>1 DEF Typed, FinalIsWhole, Running
    <3>3. TmpIsMine'
      BY <1>2, <1>3, <1>4, <1>5, <2>1, <3>1, MineIsMine DEF Typed, TmpIsMine
    <3> QED
      BY <3>2, <3>3
  <2>7. CASE Rename(p)
    <3>1. /\ pc[p] = "rename" /\ tmp[p] = Mine(p) /\ inode[Mine(p)] = "whole"
      BY <2>1, <2>7 DEF Rename, TmpIsMine
    <3>2. /\ pc'[p] = "done" /\ tmp' = [tmp EXCEPT ![p] = NONE] /\ inode' = inode
          /\ final' = final \/ final' = Mine(p)
      BY <1>5, <2>1, <2>7, <3>1 DEF Typed, Rename, Goto
    <3>3. FinalIsWhole'
      <4>1. CASE final' = final
        BY <1>1, <1>2, <1>4, <2>1, <3>2, <4>1 DEF FinalIsWhole, Running
      <4>2. CASE final' = Mine(p)
        <5>1. final'[2] <= past'.crashes
          BY <1>1, <4>2, MineIsMine DEF Typed
        <5>2. \A q \in Installs : pc'[q] \in Running => final' # Mine(q)
          BY <1>5, <3>2, <4>2 DEF Running
        <5> QED
          BY <1>2, <3>1, <3>2, <4>2, <5>1, <5>2 DEF FinalIsWhole
      <4> QED
        BY <3>2, <4>1, <4>2
    <3>4. TmpIsMine'
      BY <1>2, <1>3, <1>4, <2>1, <3>2 DEF Typed, TmpIsMine
    <3> QED
      BY <3>3, <3>4
  <2> QED
    BY <2>2, <2>3, <2>4, <2>5, <2>6, <2>7
<1>9. InstallsDoNotCollide'
  <2> SUFFICES ASSUME store = "content", past'.hurdles = 0 PROVE pc'[p] # "failed"
    BY <1>1, <1>4 DEF InstallsDoNotCollide, Typed
  <2>1. TmpIsMine /\ TmpOf(p) = p
    BY <1>3 DEF ContentInv
  <2>2. CASE Look(p) \/ Fetch(p) \/ Prepare(p) \/ Write(p)
    BY <2>2 DEF Typed, Look, Fetch, Prepare, Write, Goto
  <2>3. CASE Create(p) \/ Rename(p)
    BY <1>5, <2>1, <2>3 DEF Typed, Create, Rename, Goto, TmpIsMine
  <2>4. CASE WriteFails(p)
    BY <2>4 DEF Typed, WriteFails
  <2> QED
    BY <2>2, <2>3, <2>4
<1> QED
  BY <1>6, <1>7, <1>8, <1>9

\* A stop tears what was being written, which no name of a blob stands for.
LEMMA CrashStep ==
  ASSUME MaxHurdles \in Nat, BlobInv, Crash
  PROVE  BlobInv'
<1> USE DEF BlobInv
<1>1. /\ store' = store /\ via' = via /\ tmp' = tmp /\ final' = final /\ got' = got
      /\ past'.crashes = past.crashes + 1 /\ past'.hurdles = past.hurdles + 1
      /\ past' \in [hurdles : 0 .. MaxHurdles, crashes : 0 .. MaxHurdles]
  BY DEF Typed, Crash
<1>2. \A p \in Installs : pc'[p] = IF pc[p] \in Running THEN "look" ELSE pc[p]
  BY DEF Crash, Typed, Pcs, Running
<1>3. \A i \in Inodes : inode'[i] = IF pc[i[1]] = "write" /\ i = Mine(i[1]) THEN "torn" ELSE inode[i]
  BY DEF Crash
<1>4. Typed'
  <2>1. pc' \in [Installs -> Pcs] /\ inode' \in [Inodes -> {NONE, "empty", "torn", "whole"}]
    BY DEF Crash, Typed, Pcs
  <2> QED
    BY <1>1, <2>1 DEF Typed
<1>5. FoundIsWhole' /\ InstallsDoNotCollide'
  BY <1>1, <1>2 DEF Typed, FoundIsWhole, InstallsDoNotCollide
<1>6. ContentInv'
  <2> SUFFICES ASSUME store = "content" PROVE FinalIsWhole' /\ TmpIsMine'
    BY <1>1 DEF ContentInv
  <2>1. TmpIsMine'
    BY <1>2 DEF TmpIsMine, Running
  <2>2. FinalIsWhole'
    <3> SUFFICES ASSUME final # NONE
                 PROVE  /\ inode'[final] = "whole" /\ final[2] <= past'.crashes
                        /\ \A p \in Installs : pc'[p] \in Running => final # Mine(p)'
      BY <1>1 DEF FinalIsWhole
    <3>1. /\ FinalIsWhole /\ final \in Inodes /\ final[1] \in Installs /\ final[2] \in Nat
          /\ past.crashes \in Nat
      BY DEF ContentInv, Typed, Inodes
    <3>2. inode'[final] = "whole"
      BY <1>3, <3>1 DEF FinalIsWhole, Running
    <3>3. final[2] <= past.crashes
      BY <3>1 DEF FinalIsWhole
    <3>4. \A p \in Installs : Mine(p)'[2] = past.crashes + 1
      BY <1>1 DEF Mine
    <3> QED
      BY <1>1, <3>1, <3>2, <3>3, <3>4
  <2> QED
    BY <2>1, <2>2
<1> QED
  BY <1>4, <1>5, <1>6

\* Every step keeps the invariant.
LEMMA BlobStep ==
  ASSUME MaxHurdles \in Nat, BlobInv, [BlobNext]_blobVars
  PROVE  BlobInv'
<1>1. CASE BlobNext
  BY <1>1, InstallSteps, CrashStep DEF BlobNext
<1>2. CASE UNCHANGED blobVars
  BY <1>2 DEF blobVars, BlobInv, Typed, ContentInv, FinalIsWhole, TmpIsMine, Mine, FoundIsWhole,
              InstallsDoNotCollide
<1> QED
  BY <1>1, <1>2

-----------------------------------------------------------------------------
\* Whoever finds the blob under its name is given all of it (get_or_install,
\* install_from_bytes), though other installs may be writing it, have failed or
\* have died half-way.  The content store does not read what it finds: what it
\* names is whole because its temporary names are unique and synced first.
THEOREM FoundBlobIsWhole ==
  ASSUME MaxHurdles \in Nat
  PROVE  BlobSpec => []FoundIsWhole
<1>1. BlobInit => BlobInv
  BY BlobInitInv
<1>2. BlobInv /\ [BlobNext]_blobVars => BlobInv'
  BY BlobStep
<1>3. BlobInv => FoundIsWhole
  BY DEF BlobInv
<1> QED
  BY <1>1, <1>2, <1>3, PTL DEF BlobSpec

\* With the content store's unique_tmp no install makes another one fail: as
\* long as no write fails and the service stays up, none of them does.
THEOREM UniqueNamesDoNotCollide ==
  ASSUME MaxHurdles \in Nat
  PROVE  BlobSpec => []InstallsDoNotCollide
<1>1. BlobInit => BlobInv
  BY BlobInitInv
<1>2. BlobInv /\ [BlobNext]_blobVars => BlobInv'
  BY BlobStep
<1>3. BlobInv => InstallsDoNotCollide
  BY DEF BlobInv
<1> QED
  BY <1>1, <1>2, <1>3, PTL DEF BlobSpec
=============================================================================
