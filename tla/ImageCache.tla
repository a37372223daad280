----------------------------- MODULE ImageCache -----------------------------
(***************************************************************************)
(* The artifact cache: the index of pulled sandboxes, mixins and base      *)
(* images (image_store/mod.rs), the manifests (image/manifest_cache.rs)    *)
(* and layers (oci_layer_cache) it refers to, and the runtime cache that   *)
(* boots fill.  Pulls and boots add to it under a shared guard, `rm`,      *)
(* `tag` and `prune` change it under the exclusive one; the registry of    *)
(* runs and the records of runs are outside both.                          *)
(*                                                                         *)
(* A layer is installed in one step: what two installs of one layer do to  *)
(* each other is LayerInstall's subject.  The registry does not republish. *)
(* `prune` ends with the build cache, which shares nothing with the rest.  *)
(***************************************************************************)
EXTENDS Naturals, FiniteSets

CONSTANTS
  Doc,         \* what each reference names: repo, digest, kind, deps, layers
  Stores,      \* what an earlier process may have left recorded
  Runs,        \* runs, and
  Boots,       \* what each of them boots: its label, its artifact and its base image
  Clients,     \* those who ask for `lns pull`, `rm`, `tag` and `prune`
  MaxAsks,     \* bound: commands
  MaxBoots,    \* bound: boots
  MaxHurdles   \* bound: how often something fails or the service stops

VARIABLES
  records,     \* the index: which references are recorded, with which dependencies
  manifests,   \* the pinned references whose manifest is cached
  layers,      \* the layer blobs
  content,     \* the runs whose composed files are in the runtime cache
  run,         \* each run: registered, recorded
  job,         \* what each client and each booting run is doing
  past         \* the bounds' counters and what the properties remember

cacheVars == <<records, manifests, layers, content, run, job, past>>

NONE == "none"
Refs == DOMAIN Doc
Images == {f \in Refs : Doc[f].kind = "image"}
Procs == Clients \cup Runs

\* The layers run r boots from: none when it has no image.
BootLayers(r) == UNION {Doc[f].layers : f \in {Boots[r].base} \cap Refs}

\* pinned_reference
Pin(f) == <<Doc[f].repo, Doc[f].digest>>

Off == [on |-> FALSE, deps |-> {}]
On(deps) == [on |-> TRUE, deps |-> deps]
Recorded == {f \in Refs : records[f].on}

NoJob == [op |-> NONE, at |-> NONE, ref |-> NONE, todo |-> {}, old |-> {},
          pins |-> {}, active |-> {}, recs |-> {}]
NoRun == [listed |-> FALSE, saved |-> FALSE]

\* What an earlier process left.
CacheInit ==
  /\ \E on \in Stores :
       /\ records = [f \in Refs |-> IF f \in on THEN On(Doc[f].deps) ELSE Off]
       /\ manifests = {Pin(f) : f \in on}
       /\ layers = UNION {Doc[f].layers : f \in on}
       /\ past = [asks |-> 0, boots |-> 0, hurdles |-> 0, pulled |-> on, late |-> {}]
  /\ content = {}
  /\ run = [r \in Runs |-> NoRun]
  /\ job = [p \in Procs |-> NoJob]

Layers == UNION {Doc[f].layers : f \in Refs}

-----------------------------------------------------------------------------
(* The locks.                                                              *)

SharedAt == {"layers", "index", "graph", "planwrite"}
ExclusiveAt == {"pins", "plan", "records", "manifests", "sweep", "runtime"}

\* lock_shared
MayShare == \A p \in Procs : job[p].at \notin ExclusiveAt

\* cache_lock().write()
MayExclude == \A p \in Procs : job[p].at \notin SharedAt \cup ExclusiveAt

\* runtime_cache_lock
RuntimeFree == \A c \in Clients : job[c].op # "prune"

-----------------------------------------------------------------------------
(* Which records stand for a run, and what keeps what.                     *)

\* same_image: a run keeps the reference it was given, a record may be keyed
\* by the digest that reference resolved to.
same_image(a, b) ==
  \/ a = b
  \/ {a, b} \subseteq Refs /\ Doc[a].repo = Doc[b].repo /\ Doc[a].pinned # Doc[b].pinned

\* pinning_holder
Held(active, f) == \E r \in active : same_image(Boots[r].label, f)

\* dependency_closure
RECURSIVE DependencyClosure(_, _)
DependencyClosure(recs, keep) ==
  LET more == UNION {records[f].deps : f \in keep \cap recs} \ keep
  IN  IF more = {} THEN keep ELSE DependencyClosure(recs, keep \cup more)

\* A dependency goes whoever else names it.
Orphan(recs, gone, d) == d \in recs

\* removal_closure: a recorded dependency no surviving record names.
Unowned(recs, gone, d) == d \in recs /\ \A f \in recs \ gone : d \notin records[f].deps

RECURSIVE RemovalClosure(_, _, _)
RemovalClosure(recs, gone, retained) ==
  LET more == {d \in UNION {records[f].deps : f \in gone} \ (gone \cup retained) : Unowned(recs, gone, d)}
  IN  IF more = {} THEN gone ELSE RemovalClosure(recs, gone \cup more, retained)

\* Only what runs pinned stays.
LayersKeptPinned(recs, pins) == pins

\* layer_keep_set and the layers recorded runs pin.
LayersKept(recs, pins) == UNION {Doc[f].layers : f \in recs} \cup pins

-----------------------------------------------------------------------------
(* Pulls: of a client, and of a booting run's base image.                  *)

Start(c, new) ==
  /\ job[c] = NoJob /\ past.asks < MaxAsks
  /\ job' = [job EXCEPT ![c] = new]
  /\ past' = [past EXCEPT !.asks = @ + 1]

Ended(p) == job' = [job EXCEPT ![p] = NoJob]

\* pull: pull_artifact, whose guard is dropped before pull takes its own.
PullArtifact(c, f) ==
  /\ MayShare /\ f \notin Images
  /\ Start(c, [NoJob EXCEPT !.op = "pull", !.at = IF Doc[f].kind = "mixin" THEN "warm" ELSE "gap", !.ref = f])
  /\ manifests' = manifests \cup {Pin(f)}
  /\ UNCHANGED <<records, layers, content, run>>

\* The base image a pull or a boot is after.
BaseOf(p) == IF p \in Runs THEN Boots[p].base ELSE CHOOSE b \in Doc[job[p].ref].deps : b \in Images

\* pull_dependency, image::pull: the manifest, under the shared guard.
PullManifest(p) ==
  /\ job[p].at = "gap" /\ MayShare
  /\ manifests' = manifests \cup {Pin(BaseOf(p))}
  /\ job' = [job EXCEPT ![p].at = "layers", ![p].todo = Doc[BaseOf(p)].layers]
  /\ UNCHANGED <<records, layers, content, run, past>>

\* get_or_install, for the layers in any order.
InstallLayer(p) ==
  /\ job[p].at = "layers"
  /\ \E l \in job[p].todo : /\ layers' = layers \cup {l}
                            /\ job' = [job EXCEPT ![p].todo = @ \ {l}]
  /\ UNCHANGED <<records, manifests, content, run, past>>

\* image_store::record; a boot drops its guard here.
RecordImage(p) ==
  /\ job[p].at = "layers" /\ job[p].todo = {}
  /\ records' = [records EXCEPT ![BaseOf(p)] = On({})]
  /\ job' = [job EXCEPT ![p].at = IF p \in Runs THEN "pulled" ELSE "index"]
  /\ UNCHANGED <<manifests, layers, content, run, past>>

\* Those whose boot has read f's record and not yet written it.
Rewriting(f) == {r \in Runs : job[r].at = "planwrite" /\ Boots[r].artifact = f}

\* finish_pull_with: artifact_record_for, base image and mixins.
RecordSandbox(c) ==
  LET f == job[c].ref
  IN  /\ job[c].at = "index"
      /\ records' = [records EXCEPT ![f] = On(Doc[f].deps)]
      /\ past' = [past EXCEPT !.pulled = IF Rewriting(f) = {} THEN @ \cup {f} ELSE @ \ {f}]
      /\ Ended(c)
      /\ UNCHANGED <<manifests, layers, content, run>>

\* The mixins a document leads to.
Graph(f) == {f} \cup {d \in Doc[f].deps : Doc[d].kind = "mixin"}

\* pull_mixin_graph: warm, before the guard is taken.
WarmMixins(c) ==
  /\ job[c].at = "warm"
  /\ manifests' = manifests \cup {Pin(d) : d \in Graph(job[c].ref)}
  /\ job' = [job EXCEPT ![c].at = "warmed"]
  /\ UNCHANGED <<records, layers, content, run, past>>

GraphLock(c) ==
  /\ job[c].at = "warmed" /\ MayShare
  /\ job' = [job EXCEPT ![c].at = "graph", ![c].todo = Graph(job[c].ref)]
  /\ UNCHANGED <<records, manifests, layers, content, run, past>>

\* mixin_graph_records, one document after another.
RecordMixin(c) ==
  /\ job[c].at = "graph"
  /\ \E f \in job[c].todo :
       /\ records' = [records EXCEPT ![f] = On(Doc[f].deps)]
       /\ past' = [past EXCEPT !.pulled = @ \cup {f}]
       /\ job' = [job EXCEPT ![c] = IF @.todo = {f} THEN NoJob ELSE [@ EXCEPT !.todo = @ \ {f}]]
  /\ UNCHANGED <<manifests, layers, content, run>>

-----------------------------------------------------------------------------
(* Boots.                                                                  *)

\* prepare: resolve_for_run peeks the manifest, under no lock.
Prepare(r) ==
  /\ job[r] = NoJob /\ run[r] = NoRun /\ past.boots < MaxBoots
  /\ past' = [past EXCEPT !.boots = @ + 1]
  /\ manifests' = manifests \cup {Pin(f) : f \in {Boots[r].artifact} \cap Refs}
  /\ job' = [job EXCEPT ![r].op = "boot", ![r].at = "prepared"]
  /\ UNCHANGED <<records, layers, content, run>>

\* What a boot does first: its plan, its base image, or, with neither, its
\* composed files.
FirstOf(r) ==
  CASE Boots[r].artifact # NONE -> "plan_run"
    [] Boots[r].artifact = NONE /\ Boots[r].base # NONE -> "gap"
    [] OTHER -> "pulled"

\* serve_prepared_run, under the shared guard of the runtime cache.
Register(r) ==
  /\ job[r].at = "prepared" /\ RuntimeFree
  /\ run' = [run EXCEPT ![r].listed = TRUE]
  /\ job' = [job EXCEPT ![r].at = FirstOf(r)]
  /\ UNCHANGED <<records, manifests, layers, content, past>>

\* plan_resolved: record_artifact_run_with reads what is recorded,
PlanRead(r) ==
  /\ job[r].at = "plan_run" /\ MayShare
  /\ job' = [job EXCEPT ![r].at = "planwrite", ![r].old = records[Boots[r].artifact].deps]
  /\ UNCHANGED <<records, manifests, layers, content, run, past>>

\* and writes it back with its own edge.
PlanWrite(r) ==
  /\ job[r].at = "planwrite"
  /\ records' = [records EXCEPT ![Boots[r].artifact] = On({Boots[r].base} \cup job[r].old)]
  /\ job' = [job EXCEPT ![r].at = "gap", ![r].old = {}]
  /\ UNCHANGED <<manifests, layers, content, run, past>>

\* The files the descriptor names are in the content store.
Compose(r) ==
  /\ job[r].at = "pulled"
  /\ content' = content \cup {r}
  /\ job' = [job EXCEPT ![r].at = "composed"]
  /\ UNCHANGED <<records, manifests, layers, run, past>>

\* The commands that have read the pins and will sweep by them.
Sweeping == {c \in Clients : job[c].at \in {"plan", "records", "manifests", "sweep"}}

\* run_record::save_with pins the layers, if they are there and no one has
\* already decided that they go.
Save(r) ==
  /\ job[r].at = "composed"
  /\ run' = [run EXCEPT ![r].saved = TRUE]
  /\ past' = [past EXCEPT !.late = IF Sweeping = {} /\ BootLayers(r) \subseteq layers
                                   THEN @ \ {r} ELSE @ \cup {r}]
  /\ Ended(r)
  /\ UNCHANGED <<records, manifests, layers, content>>

\* The record could not be written: the run goes on and is not restartable.
SaveFails(r) ==
  /\ job[r].at = "composed" /\ past.hurdles < MaxHurdles
  /\ past' = [past EXCEPT !.hurdles = @ + 1]
  /\ Ended(r)
  /\ UNCHANGED <<records, manifests, layers, content, run>>

\* lns rm, of the run.
RemoveRun(r) ==
  /\ run[r].listed /\ job[r] = NoJob
  /\ run' = [run EXCEPT ![r] = NoRun]
  /\ UNCHANGED <<records, manifests, layers, content, job, past>>

-----------------------------------------------------------------------------
(* `rm`, `tag` and `prune`.                                                *)

\* tag_with, under the exclusive guard from the read to the write.
Tag(c, f, g) ==
  /\ MayExclude /\ job[c] = NoJob /\ past.asks < MaxAsks
  /\ f # g /\ f \in Recorded \ Images /\ Pin(g) = Pin(f)
  /\ records' = [records EXCEPT ![g] = records[f]]
  /\ past' = [past EXCEPT !.asks = @ + 1, !.pulled = IF f \in @ THEN @ \cup {g} ELSE @ \ {g}]
  /\ UNCHANGED <<manifests, layers, content, run, job>>

RemoveLock(c, f) ==
  /\ MayExclude /\ f \notin Images
  /\ Start(c, [NoJob EXCEPT !.op = "remove", !.at = "pins", !.ref = f])
  /\ UNCHANGED <<records, manifests, layers, content, run>>

\* prune: first the runtime cache, then the index.
PruneRuntimeLock(c) ==
  /\ RuntimeFree
  /\ Start(c, [NoJob EXCEPT !.op = "prune", !.at = "rt"])
  /\ UNCHANGED <<records, manifests, layers, content, run>>

PruneLock(c) ==
  /\ job[c].at = "rt" /\ MayExclude
  /\ job' = [job EXCEPT ![c].at = "pins"]
  /\ UNCHANGED <<records, manifests, layers, content, run, past>>

\* recorded_run_pins
ReadPins(c) ==
  /\ job[c].at = "pins"
  /\ job' = [job EXCEPT ![c].at = "plan",
                        ![c].pins = UNION {BootLayers(r) : r \in {r \in Runs : run[r].saved}}]
  /\ UNCHANGED <<records, manifests, layers, content, run, past>>

\* run_registry::snapshot, of stopped runs too.
Listed == {r \in Runs : run[r].listed}

\* remove_with: no such image, in use, or required by another.
Refused(f) ==
  \/ f \notin Recorded
  \/ Held(Listed, f)
  \/ \E g \in Recorded \ {f} : f \in records[g].deps

\* What goes: of `rm`, the image and what only it needed; of `prune`,
\* everything no run leads to.
Gone(c) ==
  LET held == {f \in Recorded : Held(Listed, f)}
  IN  IF job[c].op = "remove" THEN RemovalClosure(Recorded, {job[c].ref}, held)
                              ELSE Recorded \ DependencyClosure(Recorded, held)

Plan(c) ==
  /\ job[c].at = "plan"
  /\ IF job[c].op = "remove" /\ Refused(job[c].ref) THEN Ended(c)
     ELSE job' = [job EXCEPT ![c].at = "records", ![c].todo = Gone(c), ![c].old = Gone(c),
                             ![c].active = Listed, ![c].recs = Recorded]
  /\ UNCHANGED <<records, manifests, layers, content, run, past>>

DropRecord(c) ==
  /\ job[c].at = "records"
  /\ \E f \in job[c].todo :
       /\ records' = [records EXCEPT ![f] = Off]
       /\ past' = [past EXCEPT !.pulled = @ \ {f}]
       /\ job' = [job EXCEPT ![c].todo = @ \ {f}]
  /\ UNCHANGED <<manifests, layers, content, run>>

Survivors(c) == job[c].recs \ job[c].old

\* remove_manifest, unless a survivor has the same pin.
DropManifests(c) ==
  /\ job[c].at = "records" /\ job[c].todo = {}
  /\ manifests' = manifests \ ({Pin(f) : f \in job[c].old} \ {Pin(f) : f \in Survivors(c)})
  /\ job' = [job EXCEPT ![c].at = "sweep"]
  /\ UNCHANGED <<records, layers, content, run, past>>

\* sweep_layers; `prune` goes on to the runtime cache when no run is listed.
Sweep(c) ==
  /\ job[c].at = "sweep"
  /\ layers' = layers \cap LayersKept(Survivors(c), job[c].pins)
  /\ IF job[c].op = "prune" /\ job[c].active = {} THEN job' = [job EXCEPT ![c].at = "runtime"] ELSE Ended(c)
  /\ UNCHANGED <<records, manifests, content, run, past>>

\* clear_runtime_cache
ClearRuntime(c) ==
  /\ job[c].at = "runtime"
  /\ content' = {}
  /\ Ended(c)
  /\ UNCHANGED <<records, manifests, layers, run, past>>

-----------------------------------------------------------------------------
(* What goes wrong.                                                        *)

Hurdle == past.hurdles < MaxHurdles /\ past' = [past EXCEPT !.hurdles = @ + 1]

\* A command ends at an error; a sweep may have come some way.
CommandFails(c) ==
  /\ Hurdle /\ job[c] # NoJob
  /\ Ended(c)
  /\ IF job[c].at = "sweep"
     THEN \E kept \in SUBSET layers : LayersKept(Survivors(c), job[c].pins) \cap layers \subseteq kept /\ layers' = kept
     ELSE UNCHANGED layers
  /\ UNCHANGED <<records, manifests, content, run>>

\* A boot ends at an error or is interrupted, and its run is deregistered.
BootFails(r) ==
  /\ Hurdle /\ job[r] # NoJob
  /\ Ended(r)
  /\ run' = [run EXCEPT ![r] = NoRun]
  /\ UNCHANGED <<records, manifests, layers, content>>

\* The service stops and comes back: recorded runs are listed again.
Restart ==
  /\ Hurdle
  /\ job' = [p \in Procs |-> NoJob]
  /\ run' = [r \in Runs |-> IF run[r].saved THEN run[r] ELSE NoRun]
  /\ UNCHANGED <<records, manifests, layers, content>>

CacheNext ==
  \/ \E c \in Clients :
       \/ \E f \in Refs : PullArtifact(c, f) \/ RemoveLock(c, f) \/ (\E g \in Refs : Tag(c, f, g))
       \/ RecordSandbox(c) \/ WarmMixins(c) \/ GraphLock(c) \/ RecordMixin(c)
       \/ PruneRuntimeLock(c) \/ PruneLock(c) \/ ReadPins(c) \/ Plan(c) \/ DropRecord(c)
       \/ DropManifests(c) \/ Sweep(c) \/ ClearRuntime(c) \/ CommandFails(c)
  \/ \E p \in Procs : PullManifest(p) \/ InstallLayer(p) \/ RecordImage(p)
  \/ \E r \in Runs : \/ Prepare(r) \/ Register(r) \/ PlanRead(r) \/ PlanWrite(r) \/ Compose(r)
                     \/ Save(r) \/ SaveFails(r) \/ RemoveRun(r) \/ BootFails(r)
  \/ Restart

CacheSpec == CacheInit /\ [][CacheNext]_cacheVars

-----------------------------------------------------------------------------
(* Properties.                                                             *)

\* Every field has its type, and the guards exclude each other.
CacheTypeOK ==
  /\ \A f \in Refs : records[f].deps \subseteq Refs
  /\ layers \subseteq Layers /\ content \subseteq Runs
  /\ \A r \in Runs : run[r].saved => run[r].listed
  /\ Cardinality({p \in Procs : job[p].at \in ExclusiveAt}) <= 1
  /\ (\E p \in Procs : job[p].at \in ExclusiveAt) => \A p \in Procs : job[p].at \notin SharedAt

\* A recorded base image can be booted without the network: its manifest and
\* all of its layers are there, whatever was pulled, removed, cut short or
\* swept meanwhile.
RecordedIsWhole ==
  \A f \in Recorded \cap Images : Pin(f) \in manifests /\ Doc[f].layers \subseteq layers

\* The runs whose boot has put its artifact on record.
Planned(r) == run[r].listed /\ Boots[r].artifact # NONE /\ job[r].at \notin {"plan_run", "planwrite"}

\* "so a concurrent rm/prune can't delete the base out from under a sandbox":
\* no step drops the record of a planned run's artifact or of anything it
\* leads to.
DropsNoneHeld ==
  \A r \in Runs, f \in Refs :
    Planned(r) /\ records[f].on /\ ~records'[f].on
      => f # Boots[r].artifact /\ f \notin records[Boots[r].artifact].deps

\* The layers a run recorded outlive every sweep, for as long as the run does,
\* unless they were gone or given up when it recorded them.
PinnedIsKept == \A r \in Runs : run[r].saved /\ r \notin past.late => BootLayers(r) \subseteq layers

\* "A run's record must not displace what a pull already knew": a pulled
\* document's record names all that the pull found.
EdgesAreKept == \A f \in past.pulled : records[f].on /\ Doc[f].deps \subseteq records[f].deps

\* The files composed for a run stay in the runtime cache for as long as the run
\* is listed, recorded or not: clear_runtime_cache empties it only when it saw no
\* run, and no run can register between that look and the clearing.
RuntimeIsKept ==
  \A r \in Runs : run[r].listed /\ job[r].at \in {"composed", NONE} => r \in content
=============================================================================
