------------------------------- MODULE MCDisk -------------------------------
(***************************************************************************)
(* Files that have to be right whenever the service stops: the machine's   *)
(* ledger, the audit log of a run that is restarted, the image of a        *)
(* volume, the volumes with their leases, a blob of one of the stores and  *)
(* the image cache.  They are checked apart: a behaviour is about one of   *)
(* them, `which`.  The ledger then stays as it begins; the variables of    *)
(* the others are "off".                                                   *)
(***************************************************************************)
EXTENDS MCAuditChain, ImageGrow, TLC

CONSTANTS c1, c2   \* the clients of the image cache

VARIABLE which

-----------------------------------------------------------------------------
(* The audit log of a run that is restarted, which is a chain of its own.  *)

VARIABLES rlog, rsynced, ranchor, rdurable, rlock, rpc, rchain, rline, rbudget, rdone,
          rbuilt, rguest, racked, rfaults, rdamage, rreading, rverdict, rreads

logVars == <<rlog, rsynced, ranchor, rdurable, rlock, rpc, rchain, rline, rbudget, rdone,
             rbuilt, rguest, racked, rfaults, rdamage, rreading, rverdict, rreads>>

RunLog == INSTANCE AuditChain WITH
  Writers <- TwoBoots, Kind <- TwoBootsKind, Follows <- TwoBootsAfter, Todo <- TwoBootsTodo,
  HasEnv <- TRUE, EventBudget <- 1, MaxEvents <- 6, MaxFaults <- 1, MaxDamage <- 0, MaxReads <- 0,
  log <- rlog, synced <- rsynced, anchor <- ranchor, durable <- rdurable, lock <- rlock,
  pc <- rpc, chain <- rchain, line <- rline, budget <- rbudget, done <- rdone,
  built <- rbuilt, guest <- rguest, acked <- racked, faults <- rfaults, damage <- rdamage,
  reading <- rreading, verdict <- rverdict, reads <- rreads

LogOff ==
  /\ rlog = "off" /\ rsynced = "off" /\ ranchor = "off" /\ rdurable = "off" /\ rlock = "off"
  /\ rpc = "off" /\ rchain = "off" /\ rline = "off" /\ rbudget = "off" /\ rdone = "off"
  /\ rbuilt = "off" /\ rguest = "off" /\ racked = "off" /\ rfaults = "off" /\ rdamage = "off"
  /\ rreading = "off" /\ rverdict = "off" /\ rreads = "off"

-----------------------------------------------------------------------------
(* Three installs of one blob.                                             *)

VARIABLES store, via, tmp, final, inode, ipc, got, past

blobVars == <<store, via, tmp, final, inode, ipc, got, past>>

Blob == INSTANCE LayerInstall WITH Installs <- {"a", "b", "c"}, MaxHurdles <- 1, pc <- ipc

BlobOff ==
  /\ store = "off" /\ via = "off" /\ tmp = "off" /\ final = "off"
  /\ inode = "off" /\ ipc = "off" /\ got = "off" /\ past = "off"

-----------------------------------------------------------------------------
(* Volumes: one sandbox mounts a, the other a and b, and a twice.          *)

VARIABLES entry, task, lease, image, threads, client, vpast

volVars == <<entry, task, lease, image, threads, client, vpast>>

Mounted == "r1" :> <<"a">> @@ "r2" :> <<"a", "b", "a">>

Vol == INSTANCE Volumes WITH
  Runs <- {"r1", "r2"}, Vols <- {"a", "b"}, Mounts <- Mounted, Clients <- {"c1"},
  Hurdles <- {"cancel", "grow", "crash"}, MaxBoots <- 2, MaxAsks <- 2, MaxHurdles <- 2,
  past <- vpast

VolOff ==
  /\ entry = "off" /\ task = "off" /\ lease = "off" /\ image = "off"
  /\ threads = "off" /\ client = "off" /\ vpast = "off"

ImageOff == disk = "off" /\ len = "off" /\ marker = "off" /\ grow = "off" /\ used = "off"

-----------------------------------------------------------------------------
(* The image cache: two sandboxes over one base image, one of which needs  *)
(* a mixin, by tag and by digest; a run of it, one of a local definition   *)
(* and one without an image.                                               *)

VARIABLES records, manifests, layers, content, run, job, cpast

cacheVars == <<records, manifests, layers, content, run, job, cpast>>

Document(repo, digest, pinned, kind, deps, ls) ==
  [repo |-> repo, digest |-> digest, pinned |-> pinned, kind |-> kind, deps |-> deps, layers |-> ls]

Documents ==
     "s"   :> Document("s", 1, FALSE, "sandbox", {"b", "m"}, {})
  @@ "s@1" :> Document("s", 1, TRUE, "sandbox", {"b", "m"}, {})
  @@ "u"   :> Document("u", 2, FALSE, "sandbox", {"b"}, {})
  @@ "m"   :> Document("m", 3, TRUE, "mixin", {}, {})
  @@ "b"   :> Document("b", 4, FALSE, "image", {}, {"l1", "l2"})

Booted ==
     "r1" :> [label |-> "s", artifact |-> "s@1", base |-> "b"]
  @@ "r2" :> [label |-> "imageless", artifact |-> "none", base |-> "b"]
  @@ "r3" :> [label |-> "imageless", artifact |-> "none", base |-> "none"]

\* Nothing, or two sandboxes, of which one was pulled by its digest.
LeftBehind == {{}, {"s@1", "u", "m", "b"}}

Cache == INSTANCE ImageCache WITH
  Doc <- Documents, Stores <- LeftBehind, Runs <- {"r1", "r2", "r3"}, Boots <- Booted,
  Clients <- {c1, c2}, MaxAsks <- 2, MaxBoots <- 1, MaxHurdles <- 1, past <- cpast

CacheOff ==
  /\ records = "off" /\ manifests = "off" /\ layers = "off" /\ content = "off"
  /\ run = "off" /\ job = "off" /\ cpast = "off"

Symmetry == Permutations({c1, c2})

-----------------------------------------------------------------------------
DiskInit ==
  /\ Init
  /\ \/ which = "ledger" /\ LogOff /\ ImageOff /\ BlobOff /\ VolOff /\ CacheOff
     \/ which = "log" /\ RunLog!Init /\ ImageOff /\ BlobOff /\ VolOff /\ CacheOff
     \/ which = "image" /\ LogOff /\ ImageInit /\ BlobOff /\ VolOff /\ CacheOff
     \/ which = "blob" /\ LogOff /\ ImageOff /\ Blob!BlobInit /\ VolOff /\ CacheOff
     \/ which = "volumes" /\ LogOff /\ ImageOff /\ BlobOff /\ Vol!VolInit /\ CacheOff
     \/ which = "cache" /\ LogOff /\ ImageOff /\ BlobOff /\ VolOff /\ Cache!CacheInit

DiskNext ==
  \/ which = "ledger" /\ Next /\ UNCHANGED <<which, logVars, imageVars, blobVars, volVars, cacheVars>>
  \/ which = "log" /\ RunLog!Next /\ UNCHANGED <<which, vars, imageVars, blobVars, volVars, cacheVars>>
  \/ which = "image" /\ ImageNext /\ UNCHANGED <<which, vars, logVars, blobVars, volVars, cacheVars>>
  \/ which = "blob" /\ Blob!BlobNext /\ UNCHANGED <<which, vars, logVars, imageVars, volVars, cacheVars>>
  \/ which = "volumes" /\ Vol!VolNext /\ UNCHANGED <<which, vars, logVars, imageVars, blobVars, cacheVars>>
  \/ which = "cache" /\ Cache!CacheNext /\ UNCHANGED <<which, vars, logVars, imageVars, blobVars, volVars>>

diskVars == <<which, vars, logVars, imageVars, blobVars, volVars, cacheVars>>

DiskSpec == DiskInit /\ [][DiskNext]_diskVars

-----------------------------------------------------------------------------
(* What the parts promise, beside the ledger's own properties.             *)

\* A log that verifies holds every event that was acknowledged, a run whose
\* boots follow one another leaves a log in which each line is chained to the
\* one before it, and the guest's events stay within their budget, which is
\* seeded from the anchor: all through reconnects, a restart of the run, a
\* fault and a crash (append_ocsf_at, remaining_budget; AuditChain).
RunLogSound ==
  which = "log" =>
    RunLog!TypeOK /\ RunLog!OkMeansComplete /\ RunLog!EveryLineChained /\ RunLog!BudgetHolds

\* The superblock on the disk is always one superblock, and a volume whose
\* superblock says it is clean is sound, wherever grow_ext4 was stopped and
\* whichever unsynced blocks were written (ImageGrow!ValidIsSound).
CleanIsSound == which = "image" => ImageTypeOK /\ ValidIsSound

\* The volume the guest sees, of a behaviour about the image.
Volume == INSTANCE ImageResize WITH
  size <- IF which = "image" THEN Superblock.blocks_count ELSE 0,
  data <- IF which = "image" THEN GuestBlocks ELSE {}

\* The image implements the volume of ImageResize: seen through the superblock
\* and the guest's blocks, a grow of five batches, cut short and resumed, is at
\* most one step, in which the size goes up and no block of the guest's is lost
\* or handed out again.
ImplementsResize == Volume!ResizeSpec

\* A guest, a thread that formats or grows an image and a command that deletes
\* it never meet on one volume, and every lease belongs to someone who is still
\* there to drop it (take_lease, Drop for VolumeLease; Volumes!OneUser and
\* Volumes!LeaseIsHeld).
OneUser == which = "volumes" => Vol!VolTypeOK /\ Vol!OneUser /\ Vol!LeaseIsHeld

\* What a sandbox finds when it starts again is the image it left, and a new
\* volume is not taken for one whose grow was cut short (the claims of
\* run_registry.rs, remove_with; Volumes!DataOutlivesBoot and
\* Volumes!NoInheritedMarker).
DataOutlivesBoot == which = "volumes" => Vol!DataOutlivesBoot /\ Vol!NoInheritedMarker

\* Whoever finds a blob gets all of it, though another install may be writing
\* under its name or have died there; an install that returned left its blob
\* behind; and with the content store's unique temporary names no install makes
\* another one fail (get_or_install, unique_tmp; LayerInstall).
BlobsAreWhole ==
  which = "blob" => Blob!FoundIsWhole /\ Blob!InstalledIsThere /\ Blob!InstallsDoNotCollide

\* The exclusive lock excludes the shared one; a recorded base image can be
\* booted without the network; the layers a run recorded and the files composed
\* for it stay while it does; and a run's record never displaces the
\* dependencies a pull found (pull, record_artifact_run_with, rm, tag, prune and
\* clear_runtime_cache; ImageCache).
CacheIsWhole ==
  which = "cache" => /\ Cache!CacheTypeOK /\ Cache!RecordedIsWhole /\ Cache!PinnedIsKept
                     /\ Cache!EdgesAreKept /\ Cache!RuntimeIsKept

\* No step of an rm or a prune takes the artifact of a planned run, nor what it
\* leads to, off the index (ImageCache!DropsNoneHeld).
HeldIsKept == [][which = "cache" => Cache!DropsNoneHeld]_diskVars
=============================================================================
