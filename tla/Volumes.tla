------------------------------ MODULE Volumes ------------------------------
(***************************************************************************)
(* Named volumes (volume_store/mod.rs): the leases that keep an image to   *)
(* one user, the claims of the sandboxes that declare it                   *)
(* (run_registry.rs), and the commands that create, remove and prune       *)
(* volumes while runs come and go.                                         *)
(*                                                                         *)
(* A run takes the lease of each volume it mounts and then sees to the     *)
(* image, which a blocking thread creates or grows.  Dropping the run's    *)
(* future drops its leases and leaves the thread running.  The lease       *)
(* registry and the run registry are each behind a mutex of their own:     *)
(* what one of them said may be over when the other is asked.              *)
(***************************************************************************)
EXTENDS Naturals, Sequences, FiniteSets

CONSTANTS
  Runs,        \* sandboxes
  Vols,        \* volume names
  Mounts,      \* the volumes each sandbox declares, in order
  Clients,     \* those who ask for `lns volume create`, `rm` and `prune`
  Hurdles,     \* what may go wrong: "cancel", "grow", "crash"
  MaxBoots,    \* bound: boots, of all runs together
  MaxAsks,     \* bound: volume commands
  MaxHurdles   \* bound: how often something goes wrong

VARIABLES
  entry,       \* what the run registry knows of a sandbox
  task,        \* the boot of each run: where it is, its next mount, its leases
  lease,       \* the lease registry: who holds a volume
  image,       \* each volume's file, which creation it is, and its .growing marker
  threads,     \* the blocking threads at work on an image
  client,      \* the volume command each client has under way
  past         \* boots, commands and hurdles so far, and what the properties remember

volVars == <<entry, task, lease, image, threads, client, past>>

MAINTENANCE == "maintenance"
FREE == "free"

NoTask == [at |-> "none", i |-> 1, held |-> {}, fresh |-> FALSE]
NoAsk == [op |-> "none", at |-> "none", vol |-> FREE, todo |-> {}, saw |-> {}]
NoImage == [exists |-> FALSE, made |-> 0, marker |-> FALSE]

Declared(r) == {Mounts[r][i] : i \in DOMAIN Mounts[r]}
Mount(r) == Mounts[r][task[r].i]

VolInit ==
  /\ entry = [r \in Runs |-> "none"]
  /\ task = [r \in Runs |-> NoTask]
  /\ lease = [v \in Vols |-> FREE]
  /\ image = [v \in Vols |-> NoImage]
  /\ threads = {}
  /\ client = [c \in Clients |-> NoAsk]
  /\ past = [boots |-> 0, asks |-> 0, hurdles |-> 0, made |-> 0, cancelled |-> FALSE,
             used |-> [r \in Runs |-> [v \in Vols |-> 0]], half |-> {}, late |-> {}]

Hurdle(what) == what \in Hurdles /\ past.hurdles < MaxHurdles

\* Drop for VolumeLease.
Release(vs) == lease' = [v \in Vols |-> IF v \in vs THEN FREE ELSE lease[v]]

\* Only a live sandbox holds its volume.
ClaimantsLive(v) == {r \in Runs : entry[r] = "live" /\ v \in Declared(r)}

\* claims_in: unreadable records stand in the way of every volume, the others
\* of those they declare.
Claimants(v) ==
  {r \in Runs : \/ entry[r] = "unreadable"
                \/ entry[r] \in {"live", "stopped", "damaged"} /\ v \in Declared(r)}

-----------------------------------------------------------------------------
(* Runs.                                                                   *)

\* lns run, or lns start, whose preflight asks for the holders first.
Begin(r) ==
  /\ task[r] = NoTask /\ past.boots < MaxBoots
  /\ \/ entry[r] = "none"
     \/ entry[r] = "stopped" /\ \A v \in Declared(r) : lease[v] = FREE
  /\ entry' = [entry EXCEPT ![r] = "live"]
  /\ task' = [task EXCEPT ![r] = [NoTask EXCEPT !.at = "resolve", !.fresh = entry[r] = "none"]]
  /\ past' = [past EXCEPT !.boots = @ + 1]
  /\ UNCHANGED <<lease, image, threads, client>>

\* resolve_with: a volume mounted twice is taken once.
SkipMount(r) ==
  /\ task[r].at = "resolve" /\ task[r].i <= Len(Mounts[r]) /\ Mount(r) \in task[r].held
  /\ task' = [task EXCEPT ![r].i = @ + 1]
  /\ UNCHANGED <<entry, lease, image, threads, client, past>>

\* The lease is taken without asking whether it is free.
TakeLeaseAnyway(r) ==
  /\ task[r].at = "resolve" /\ task[r].i <= Len(Mounts[r]) /\ Mount(r) \notin task[r].held
  /\ lease' = [lease EXCEPT ![Mount(r)] = r]
  /\ task' = [task EXCEPT ![r].at = "exists", ![r].held = @ \cup {Mount(r)}]
  /\ UNCHANGED <<entry, image, threads, client, past>>

\* acquire_with: take_lease.
TakeLease(r) ==
  /\ task[r].at = "resolve" /\ task[r].i <= Len(Mounts[r]) /\ Mount(r) \notin task[r].held
  /\ lease[Mount(r)] = FREE
  /\ lease' = [lease EXCEPT ![Mount(r)] = r]
  /\ task' = [task EXCEPT ![r].at = "exists", ![r].held = @ \cup {Mount(r)}]
  /\ UNCHANGED <<entry, image, threads, client, past>>

Thread(v, who, op) == [vol |-> v, by |-> who, op |-> op]

\* ensure_image: an absent image is created and another one grown.
EnsureImage(r) ==
  LET op == IF image[Mount(r)].exists THEN "grow" ELSE "create"
  IN  /\ task[r].at = "exists"
      /\ task' = [task EXCEPT ![r].at = op]
      /\ threads' = threads \cup {Thread(Mount(r), r, op)}
      /\ UNCHANGED <<entry, lease, image, client, past>>

\* The boot is over: its leases are dropped, and a sandbox that never came up
\* is forgotten.
EndBoot(r) ==
  /\ Release(task[r].held)
  /\ task' = [task EXCEPT ![r] = NoTask]
  /\ entry' = [entry EXCEPT ![r] = IF task[r].fresh THEN "none" ELSE "stopped"]

\* A volume someone else holds, or one of the other parts of the boot that
\* failed: join! has let every part settle.
Refuse(r) ==
  /\ task[r].at = "resolve"
  /\ task[r].i <= Len(Mounts[r]) => lease[Mount(r)] \notin {FREE, r}
  /\ EndBoot(r)
  /\ UNCHANGED <<image, threads, client, past>>

\* The VM boots on the images and its record is kept.
Boot(r) ==
  /\ task[r].at = "resolve" /\ task[r].i > Len(Mounts[r])
  /\ task' = [task EXCEPT ![r].at = "vm", ![r].fresh = FALSE]
  /\ past' = [past EXCEPT !.used[r] = [v \in Vols |-> IF v \in Declared(r) THEN image[v].made ELSE 0]]
  /\ UNCHANGED <<entry, lease, image, threads, client>>

\* The VM's task holds the leases to its end.
VmEnds(r) ==
  /\ task[r].at = "vm"
  /\ EndBoot(r)
  /\ UNCHANGED <<image, threads, client, past>>

\* lns rm
RemoveRun(r) ==
  /\ entry[r] = "stopped" /\ task[r] = NoTask
  /\ entry' = [entry EXCEPT ![r] = "none"]
  /\ past' = [past EXCEPT !.used[r] = [v \in Vols |-> 0]]
  /\ UNCHANGED <<task, lease, image, threads, client>>

\* The user interrupts the boot: its future is dropped where it is, and a
\* thread it had started goes on.
Cancel(r) ==
  /\ Hurdle("cancel") /\ task[r].at \in {"resolve", "exists", "create", "grow"}
  /\ EndBoot(r)
  /\ past' = [past EXCEPT !.hurdles = @ + 1, !.cancelled = TRUE]
  /\ UNCHANGED <<image, threads, client>>

-----------------------------------------------------------------------------
(* The blocking threads.                                                   *)

\* create_ext4_image leaves a whole new file under the image's name.
Create(v) == [image EXCEPT ![v].exists = TRUE, ![v].made = past.made + 1]

\* What waits for the thread goes on.
ThreadDone(t) ==
  /\ threads' = threads \ {t}
  /\ IF t.by \in Runs
     THEN /\ task' = IF task[t.by].at = t.op /\ Mount(t.by) = t.vol
                     THEN [task EXCEPT ![t.by].at = "resolve", ![t.by].i = @ + 1] ELSE task
          /\ UNCHANGED <<client, lease>>
     ELSE /\ client' = [client EXCEPT ![t.by] = NoAsk]
          /\ Release({t.vol}) /\ UNCHANGED task

CreateDone(t) ==
  /\ t \in threads /\ t.op = "create"
  /\ image' = Create(t.vol)
  /\ past' = [past EXCEPT !.made = @ + 1]
  /\ ThreadDone(t) /\ UNCHANGED entry

\* grow_ext4 ran to its end, or there was nothing to grow.
GrowDone(t) ==
  /\ t \in threads /\ t.op = "grow"
  /\ image' = [image EXCEPT ![t.vol].marker = FALSE]
  /\ ThreadDone(t) /\ UNCHANGED <<entry, past>>

\* It failed on the way: the marker stays, and the run is refused.
GrowFails(t) ==
  /\ Hurdle("grow") /\ t \in threads /\ t.op = "grow"
  /\ image' = [image EXCEPT ![t.vol].marker = TRUE]
  /\ threads' = threads \ {t}
  /\ IF t.by \in Runs
     THEN (IF task[t.by].at = "grow" /\ Mount(t.by) = t.vol
           THEN EndBoot(t.by) ELSE UNCHANGED <<lease, task, entry>>) /\ UNCHANGED client
     ELSE Release({t.vol}) /\ client' = [client EXCEPT ![t.by] = NoAsk] /\ UNCHANGED <<task, entry>>
  /\ past' = [past EXCEPT !.hurdles = @ + 1]

-----------------------------------------------------------------------------
(* The volume commands.                                                    *)

StartAsk(c, ask) ==
  /\ client[c] = NoAsk /\ past.asks < MaxAsks
  /\ client' = [client EXCEPT ![c] = ask]
  /\ past' = [past EXCEPT !.asks = @ + 1]
  /\ UNCHANGED <<entry, task, lease, image, threads>>

\* create_with, for a name no image has yet.
AskCreate(c, v) ==
  ~image[v].exists /\ StartAsk(c, [NoAsk EXCEPT !.op = "create", !.at = "lease", !.vol = v])

\* remove_with: refuse_while_held.
AskRemove(c, v) ==
  /\ Claimants(v) = {}
  /\ StartAsk(c, [NoAsk EXCEPT !.op = "remove", !.at = "lease", !.vol = v,
                               !.saw = {r \in Runs : entry[r] # "none"}])

\* prune_with: the listing, and then one volume after another.
AskPrune(c) ==
  StartAsk(c, [NoAsk EXCEPT !.op = "prune", !.at = "next", !.todo = {v \in Vols : image[v].exists}])

PruneNext(c) ==
  /\ client[c].at = "next" /\ client[c].todo # {}
  /\ \E v \in client[c].todo :
       client' = [client EXCEPT ![c] =
         [client[c] EXCEPT !.todo = @ \ {v}, !.vol = v,
                           !.at = IF Claimants(v) = {} THEN "lease" ELSE "next",
                           !.saw = {r \in Runs : entry[r] # "none"}]]
  /\ UNCHANGED <<entry, task, lease, image, threads, past>>

PruneDone(c) ==
  /\ client[c].at = "next" /\ client[c].todo = {}
  /\ client' = [client EXCEPT ![c] = NoAsk]
  /\ UNCHANGED <<entry, task, lease, image, threads, past>>

\* What follows a volume: the next one, or the end of the command.
AfterVol(c) == IF client[c].op = "prune" THEN [client[c] EXCEPT !.at = "next"] ELSE NoAsk

\* take_lease, for maintenance, or the volume is in use.
AskLease(c) ==
  LET v == client[c].vol
  IN  /\ client[c].at = "lease"
      /\ \/ lease[v] = FREE /\ lease' = [lease EXCEPT ![v] = MAINTENANCE]
            /\ client' = [client EXCEPT ![c].at = "file"]
         \/ lease[v] # FREE /\ client' = [client EXCEPT ![c] = AfterVol(c)] /\ UNCHANGED lease
      /\ UNCHANGED <<entry, task, image, threads, past>>

\* create_with: ensure_image, which asks again whether there is an image.
AskEnsure(c) ==
  LET v == client[c].vol
      op == IF image[v].exists THEN "grow" ELSE "create"
  IN  /\ client[c].op = "create" /\ client[c].at = "file"
      /\ client' = [client EXCEPT ![c].at = "thread"]
      /\ threads' = threads \cup {Thread(v, c, op)}
      /\ UNCHANGED <<entry, task, lease, image, past>>

\* The file is removed; remove_with goes on to the marker, prune_with does not.
RemoveFile(c) ==
  LET v == client[c].vol
      more == client[c].op = "remove" /\ image[v].exists
  IN  /\ client[c].op \in {"remove", "prune"} /\ client[c].at = "file"
      /\ image' = [image EXCEPT ![v].exists = FALSE, ![v].made = 0]
      /\ client' = [client EXCEPT ![c] = IF more THEN [@ EXCEPT !.at = "marker"] ELSE AfterVol(c)]
      /\ IF more THEN UNCHANGED lease ELSE Release({v})
      /\ past' = [past EXCEPT !.half = IF more THEN @ ELSE @ \cup {v},
                              !.late = @ \cup {r \in Runs \ client[c].saw : entry[r] # "none" /\ v \in Declared(r)}]
      /\ UNCHANGED <<entry, task, threads>>

RemoveMarker(c) ==
  /\ client[c].at = "marker"
  /\ image' = [image EXCEPT ![client[c].vol].marker = FALSE]
  /\ client' = [client EXCEPT ![c] = NoAsk]
  /\ Release({client[c].vol})
  /\ UNCHANGED <<entry, task, threads, past>>

-----------------------------------------------------------------------------
\* The service stops and comes back: what was in memory is gone, a grow may
\* have been cut short, and every record is read again, or is not.
Crash ==
  /\ Hurdle("crash")
  /\ \E read \in [Runs -> {"stopped", "damaged", "unreadable"}] :
       entry' = [r \in Runs |->
         IF entry[r] = "none" \/ task[r].fresh THEN "none"
         ELSE IF entry[r] \in {"damaged", "unreadable"} THEN entry[r] ELSE read[r]]
  /\ task' = [r \in Runs |-> NoTask]
  /\ lease' = [v \in Vols |-> FREE]
  /\ \E cut \in SUBSET {v \in Vols : \E t \in threads : t.vol = v /\ t.op = "grow"} :
       image' = [v \in Vols |-> IF v \in cut THEN [image[v] EXCEPT !.marker = TRUE] ELSE image[v]]
  /\ threads' = {} /\ client' = [c \in Clients |-> NoAsk]
  /\ past' = [past EXCEPT !.hurdles = @ + 1,
                          !.half = @ \cup {client[c].vol : c \in {c \in Clients : client[c].at = "marker"}}]

VolNext ==
  \/ \E r \in Runs : \/ Begin(r) \/ SkipMount(r) \/ TakeLease(r) \/ EnsureImage(r) \/ Refuse(r)
                     \/ Boot(r) \/ VmEnds(r) \/ RemoveRun(r) \/ Cancel(r)
  \/ \E t \in threads : CreateDone(t) \/ GrowDone(t) \/ GrowFails(t)
  \/ \E c \in Clients : \/ \E v \in Vols : AskCreate(c, v) \/ AskRemove(c, v)
                        \/ AskPrune(c) \/ PruneNext(c) \/ PruneDone(c) \/ AskLease(c)
                        \/ AskEnsure(c) \/ RemoveFile(c) \/ RemoveMarker(c)
  \/ Crash

VolSpec == VolInit /\ [][VolNext]_volVars

-----------------------------------------------------------------------------
(* Properties.                                                             *)

\* Every field has its type, and a boot that sees to an image (ensure_image)
\* holds that volume's lease.
VolTypeOK ==
  /\ entry \in [Runs -> {"none", "live", "stopped", "damaged", "unreadable"}]
  /\ lease \in [Vols -> Runs \cup {FREE, MAINTENANCE}]
  /\ \A r \in Runs : /\ task[r].at \in {"none", "resolve", "exists", "create", "grow", "vm"}
                     /\ task[r].held \subseteq Declared(r)
                     /\ task[r].at \in {"exists", "create", "grow"} => Mount(r) \in task[r].held
  /\ \A v \in Vols : image[v].made \in 0 .. past.made
  /\ \A t \in threads : t.vol \in Vols /\ t.by \in Runs \cup Clients /\ t.op \in {"create", "grow"}

\* Those who write volume v's image: the guests it is attached to, the threads
\* that create or grow it, the commands that delete it.
Users(v) ==
  {r \in Runs : task[r].at = "vm" /\ v \in task[r].held}
    \cup {t.by : t \in {t \in threads : t.vol = v}}
    \cup {c \in Clients : client[c].vol = v /\ client[c].op \in {"remove", "prune"}
                            /\ client[c].at \in {"file", "marker"}}

\* The lease registry keeps an image to one user: a guest, a thread that
\* formats or grows it and a command that deletes it never meet on a volume,
\* as long as no boot was cancelled under its thread.
OneUser == past.cancelled \/ \A v \in Vols : \A a, b \in Users(v) : a = b

\* Every lease in the registry belongs to a boot, a VM or a command that is
\* still there to drop it (Drop for VolumeLease): no volume stays in use after
\* its last user ended, whichever way it ended.
LeaseIsHeld ==
  \A v \in Vols :
    /\ lease[v] \in Runs => v \in task[lease[v]].held
    /\ lease[v] = MAINTENANCE =>
         \E c \in Clients : client[c].vol = v /\ client[c].at \in {"file", "thread", "marker"}

\* What a sandbox finds when it starts again is the image it left: claims keep
\* `rm` and `prune` from a volume a stopped or unreadable sandbox declares.
\* past.late holds the sandboxes that appeared after the command had looked.
DataOutlivesBoot ==
  \A r \in Runs, v \in Vols :
    past.used[r][v] # 0 /\ r \notin past.late /\ ~past.cancelled
      => image[v].exists /\ image[v].made = past.used[r][v]

\* remove_with takes the .growing marker along with the image, so that the next
\* volume of that name is not taken for one whose grow was cut short.
\* past.half: `prune` took the image, or the service stopped in between.
NoInheritedMarker ==
  \A v \in Vols : ~image[v].exists /\ image[v].marker /\ v \notin past.half /\ ~past.cancelled
     => \E c \in Clients : client[c].vol = v /\ client[c].at = "marker"
=============================================================================
