---------------------------- MODULE LayerInstall ----------------------------
(***************************************************************************)
(* How one blob gets its name: LayerCache::get_or_install                  *)
(* (oci_layer_cache), which writes "<digest>.tmp" and renames it, and      *)
(* ContentStore (content_store/mod.rs), whose temporary names are unique.  *)
(* Several installs of the same digest run on different threads.           *)
(*                                                                         *)
(* An inode is named after the install that made it: a rename moves        *)
(* whatever inode the temporary name stands for at that moment.            *)
(***************************************************************************)
EXTENDS Naturals, FiniteSets

CONSTANTS
  Installs,    \* the installs of one digest
  MaxHurdles   \* bound: failures and crashes

VARIABLES
  store,       \* which of the two stores this is
  via,         \* of the content store: install_from_bytes or install_from_reader
  tmp,         \* the inode behind each temporary name
  final,       \* the inode behind the digest's name
  inode,       \* what each inode holds: nothing, "empty", "torn", "whole"
  pc,          \* where each install is
  got,         \* what each install that found the blob was given
  past         \* failures and crashes so far

blobVars == <<store, via, tmp, final, inode, pc, got, past>>

NONE == << >>
Names == Installs \cup {"tmp"}

\* The inode an install makes; after a crash it makes another one.
Mine(p) == <<p, past.crashes>>
Inodes == Installs \X (0 .. MaxHurdles)

\* tmp_path, in both stores.
TmpOfShared(p) == "tmp"

\* unique_tmp: a name no one else has.
unique_tmp(p) == p

\* tmp_path: the layer's name with ".tmp".
TmpOf(p) == IF store = "layers" THEN "tmp" ELSE unique_tmp(p)

BlobInit ==
  /\ store \in {"layers", "content"}
  /\ via \in [Installs -> IF store = "layers" THEN {"bytes"} ELSE {"bytes", "reader"}]
  /\ tmp = [n \in Names |-> NONE] /\ final = NONE
  /\ inode = [i \in Inodes |-> NONE]
  /\ pc = [p \in Installs |-> "look"] /\ got = [p \in Installs |-> NONE]
  /\ past = [hurdles |-> 0, crashes |-> 0]

Goto(p, at) == pc' = [pc EXCEPT ![p] = at]

\* get_or_install: a blob that is there is read and verified, and fetched
\* again when it is not what its name says.  The content store's
\* install_from_bytes only looks; install_from_reader learns the name last.
Look(p) ==
  /\ pc[p] = "look"
  /\ IF final # NONE /\ via[p] = "bytes" /\ (store = "layers" => inode[final] = "whole")
     THEN Goto(p, "found") /\ got' = [got EXCEPT ![p] = inode[final]]
     ELSE Goto(p, "fetch") /\ UNCHANGED got
  /\ UNCHANGED <<store, via, tmp, final, inode, past>>

\* The registry answers; the digest of what it sent is checked later.
Fetch(p) ==
  /\ pc[p] = "fetch" /\ Goto(p, "prepare")
  /\ UNCHANGED <<store, via, tmp, final, inode, got, past>>

\* prepare_tmp removes what an earlier install left under the name.
Prepare(p) ==
  /\ pc[p] = "prepare" /\ Goto(p, "create")
  /\ tmp' = [tmp EXCEPT ![TmpOf(p)] = NONE]
  /\ UNCHANGED <<store, via, final, inode, got, past>>

\* create_new, or the name is taken and cleanup_tmp_on_err removes it.
Create(p) ==
  /\ pc[p] = "create"
  /\ IF tmp[TmpOf(p)] = NONE
     THEN /\ tmp' = [tmp EXCEPT ![TmpOf(p)] = Mine(p)] /\ inode' = [inode EXCEPT ![Mine(p)] = "empty"]
          /\ Goto(p, "write")
     ELSE /\ tmp' = [tmp EXCEPT ![TmpOf(p)] = NONE] /\ UNCHANGED inode
          /\ Goto(p, "failed")
  /\ UNCHANGED <<store, via, final, got, past>>

\* write_all and sync_all
Write(p) ==
  /\ pc[p] = "write" /\ Goto(p, "rename")
  /\ inode' = [inode EXCEPT ![Mine(p)] = "whole"]
  /\ UNCHANGED <<store, via, tmp, final, got, past>>

\* The disk is full, or the bytes are not the digest's.
WriteFails(p) ==
  /\ pc[p] = "write" /\ past.hurdles < MaxHurdles /\ past' = [past EXCEPT !.hurdles = @ + 1]
  /\ inode' = [inode EXCEPT ![Mine(p)] = "torn"]
  /\ tmp' = [tmp EXCEPT ![TmpOf(p)] = NONE]
  /\ Goto(p, "failed")
  /\ UNCHANGED <<store, via, final, got>>

\* install_from_reader leaves a blob that is already there.
stays(p) == via[p] = "reader" /\ final # NONE

\* finalize_install renames what has the temporary name, or fails.
Rename(p) ==
  /\ pc[p] = "rename"
  /\ IF tmp[TmpOf(p)] # NONE
     THEN /\ final' = IF stays(p) THEN final ELSE tmp[TmpOf(p)]
          /\ tmp' = [tmp EXCEPT ![TmpOf(p)] = NONE] /\ Goto(p, "done")
     ELSE Goto(p, "failed") /\ UNCHANGED <<tmp, final>>
  /\ UNCHANGED <<store, via, inode, got, past>>

\* The service stops: an inode that was not synced may hold anything, and the
\* installs that were under way start over.
Crash ==
  LET running == {p \in Installs : pc[p] \notin {"found", "done", "failed"}}
  IN  /\ past.hurdles < MaxHurdles
      /\ past' = [hurdles |-> past.hurdles + 1, crashes |-> past.crashes + 1]
      /\ inode' = [i \in Inodes |-> IF pc[i[1]] = "write" /\ i = Mine(i[1]) THEN "torn" ELSE inode[i]]
      /\ pc' = [p \in Installs |-> IF p \in running THEN "look" ELSE pc[p]]
      /\ UNCHANGED <<store, via, tmp, final, got>>

BlobNext ==
  \/ \E p \in Installs : \/ Look(p) \/ Fetch(p) \/ Prepare(p) \/ Create(p) \/ Write(p)
                         \/ WriteFails(p) \/ Rename(p)
  \/ Crash

BlobSpec == BlobInit /\ [][BlobNext]_blobVars

-----------------------------------------------------------------------------
(* Properties.                                                             *)

\* Whoever finds the blob gets all of it, though another install may be
\* writing under its name or have died there: the layer cache verifies what it
\* reads, and the content store never names a blob that is not whole.
FoundIsWhole == \A p \in Installs : pc[p] = "found" => got[p] = "whole"

Quiet == past.hurdles = 0 /\ \A p \in Installs : pc[p] # "write"

\* An install that returned left its blob behind, whole once the others are
\* past their writes.
InstalledIsThere ==
  Quiet /\ (\E p \in Installs : pc[p] = "done") => final # NONE /\ inode[final] = "whole"

\* With unique names no install makes another one fail.
InstallsDoNotCollide == store = "content" /\ past.hurdles = 0 => \A p \in Installs : pc[p] # "failed"
=============================================================================
