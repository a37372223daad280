---------------------------- MODULE RunLifecycle ----------------------------
(***************************************************************************)
(* The life of a sandbox in the service: the registry of runs              *)
(* (run_registry.rs), the task of each boot (run/orchestrator.rs, run/mod.rs,*)
(* run/shutdown.rs), the commands that start, cancel, remove and prune runs *)
(* (ipc/mod.rs, ipc/adapter.rs) and what a run leaves on the disk.          *)
(*                                                                         *)
(* The registry is one map behind a mutex: each of its operations is one   *)
(* step.  Everything between two of them, or between two awaits on the     *)
(* disk, interleaves with the other tasks.  Several boots of one run can   *)
(* overlap: the next one may begin once the registry says Exited, and the  *)
(* last one then still has its record, its log and, for --rm, its files to *)
(* see to, all of which it finds by the run's id.                          *)
(*                                                                         *)
(* A boot's output is the boot's own number; a record is the boot that     *)
(* wrote it and whether the exit is stamped on it.                         *)
(***************************************************************************)
EXTENDS Naturals, FiniteSets

CONSTANTS
  Runs,        \* run ids, each allocated once
  NameOf,      \* the name each run asks for
  Clients,     \* those who ask for `lns start`
  MaxBoots,    \* bound: boots, of all runs together
  Faults,      \* what may go wrong, see Fault
  MaxFaults    \* bound: how often something goes wrong

ASSUME RunLifecycleAssumption ==
  /\ Runs # {} /\ MaxBoots \in Nat /\ MaxFaults \in Nat
  /\ Faults \subseteq {"late", "cancel", "fail", "stuck", "crash"}

VARIABLES
  up,          \* the service is running and has rebuilt its registry
  entry,       \* ACTIVE: a run's entry
  boot,        \* the task of each boot
  vm,          \* each boot's microVM: "off", "on" or "stopping"
  disk,        \* what is under ~/.lns/runs/<id>
  starting,    \* per client, the `lns start` it has under way
  removing,    \* per run, the entry an `lns rm` has taken out
  pruning,     \* the runs a prune has taken out and not deleted yet
  launched,    \* run ids in use
  autoRemove,  \* the runs launched with --rm
  removed,     \* runs whose removal was acknowledged
  used         \* the boots so far, what went wrong, and how often

vars == <<up, entry, boot, vm, disk, starting, removing, pruning, launched, autoRemove, removed, used>>

Boots == 1 .. MaxBoots

NoEntry == [kind |-> "none", boot |-> 0, exited |-> FALSE]
Stopped == [kind |-> "stopped", boot |-> 0, exited |-> TRUE]
Live(b) == [kind |-> "live", boot |-> b, exited |-> FALSE]

NoRecord == [boot |-> 0, exited |-> FALSE]
NoFiles == [dir |-> FALSE, upper |-> FALSE, record |-> NoRecord, log |-> {}]

AnyRun == CHOOSE r \in Runs : TRUE

NotStarting == [at |-> "no", run |-> AnyRun, log |-> {}]

\* A boot's task: where it is, whether its scratch guard is armed and its
\* blocking thread is provisioning the writable layer, the output it restored,
\* and the record and the log buffer its end works on.
NoTask == [run |-> AnyRun, at |-> "unused", armed |-> FALSE, writing |-> FALSE,
           restored |-> {}, record |-> NoRecord, buffer |-> 0]

IsExited(r) == entry[r].exited
IsLive(r) == entry[r].kind = "live"
Capture(b) == boot[b].restored \cup {b}

\* Something goes wrong: a VM outlives its grace period ("late"), the user
\* interrupts ("cancel"), a boot fails ("fail"), a run dir refuses to go
\* ("stuck"), the service dies ("crash").
Fault(what) ==
  /\ what \in Faults /\ used.faults < MaxFaults
  /\ used' = [used EXCEPT !.faults = @ + 1, !.seen = @ \cup {what}]

-----------------------------------------------------------------------------
Init ==
  /\ up = TRUE
  /\ entry = [r \in Runs |-> NoEntry]
  /\ boot = [b \in Boots |-> NoTask]
  /\ vm = [b \in Boots |-> "off"]
  /\ disk = [r \in Runs |-> NoFiles]
  /\ starting = [c \in Clients |-> NotStarting]
  /\ removing = [r \in Runs |-> NoEntry]
  /\ pruning = {} /\ launched = {} /\ autoRemove = {} /\ removed = {}
  /\ used = [boots |-> 0, faults |-> 0, seen |-> {}]

-----------------------------------------------------------------------------
(* The registry.                                                           *)

NameAvailable(r) ==
  \A s \in Runs : entry[s].kind # "none" => NameOf[s] # NameOf[r]

\* set_exit_code: by run id, on whichever handle is live.
SetExitCode(es, r) ==
  IF es[r].kind = "live" THEN [es EXCEPT ![r].exited = TRUE] ELSE es

\* remove_if_exited and the like: the entry is handed out.
Without(es, rs) == [r \in Runs |-> IF r \in rs THEN NoEntry ELSE es[r]]

\* The scratch guard of a restart left armed.
BeginBootArmed(r, fresh, log) ==
  LET b == used.boots + 1
  IN  /\ used.boots < MaxBoots
      /\ entry' = [entry EXCEPT ![r] = Live(b)]
      /\ boot' = [boot EXCEPT ![b] = [NoTask EXCEPT !.run = r, !.at = "starting",
                                                     !.armed = TRUE, !.restored = log]]
      /\ used' = [used EXCEPT !.boots = @ + 1]

\* A task begins for run r, with the output it restored.
BeginBoot(r, fresh, log) ==
  LET b == used.boots + 1
  IN  /\ used.boots < MaxBoots
      /\ entry' = [entry EXCEPT ![r] = Live(b)]
      /\ boot' = [boot EXCEPT ![b] = [NoTask EXCEPT !.run = r, !.at = "starting",
                                                     !.armed = fresh, !.restored = log]]
      /\ used' = [used EXCEPT !.boots = @ + 1]

-----------------------------------------------------------------------------
(* The commands.                                                           *)

\* lns run: the run is registered under a name no listed run has, to be
\* removed at its end or not.
Run(r) ==
  /\ up /\ r \notin launched /\ NameAvailable(r)
  /\ BeginBoot(r, TRUE, {})
  /\ launched' = launched \cup {r}
  /\ autoRemove' \in {autoRemove, autoRemove \cup {r}}
  /\ UNCHANGED <<up, vm, disk, starting, removing, pruning, removed>>

\* lns start: the run is listed as exited, and its record and its writable
\* layer are there.
StartCheck(c, r) ==
  /\ up /\ starting[c] = NotStarting /\ IsExited(r)
  /\ disk[r].record # NoRecord /\ disk[r].upper
  /\ starting' = [starting EXCEPT ![c] = [at |-> "checked", run |-> r, log |-> {}]]
  /\ UNCHANGED <<up, entry, boot, vm, disk, removing, pruning, launched, autoRemove, removed, used>>

\* Its earlier output is read back.
StartLoad(c) ==
  /\ starting[c].at = "checked"
  /\ starting' = [starting EXCEPT ![c].at = "loaded", ![c].log = disk[starting[c].run].log]
  /\ UNCHANGED <<up, entry, boot, vm, disk, removing, pruning, launched, autoRemove, removed, used>>

\* transition_to_live without asking whether the run is still exited.
StartGoAnyway(c) ==
  /\ starting[c].at = "loaded"
  /\ starting' = [starting EXCEPT ![c] = NotStarting]
  /\ IF entry[starting[c].run].kind # "none"
     THEN BeginBoot(starting[c].run, FALSE, starting[c].log)
     ELSE UNCHANGED <<entry, boot, used>>
  /\ UNCHANGED <<up, vm, disk, removing, pruning, launched, autoRemove, removed>>

\* transition_to_live: refused unless the run is still listed, and exited.
StartGo(c) ==
  /\ starting[c].at = "loaded"
  /\ starting' = [starting EXCEPT ![c] = NotStarting]
  /\ IF IsExited(starting[c].run)
     THEN BeginBoot(starting[c].run, FALSE, starting[c].log)
     ELSE UNCHANGED <<entry, boot, used>>
  /\ UNCHANGED <<up, vm, disk, removing, pruning, launched, autoRemove, removed>>

\* lns rm: an exited run's entry is taken out, ...
RemoveTake(r) ==
  /\ up /\ IsExited(r) /\ removing[r] = NoEntry
  /\ removing' = [removing EXCEPT ![r] = entry[r]]
  /\ entry' = Without(entry, {r})
  /\ UNCHANGED <<up, boot, vm, disk, starting, pruning, launched, autoRemove, removed, used>>

\* ... its files are deleted and the removal is acknowledged, ...
RemoveReclaim(r) ==
  /\ removing[r] # NoEntry
  /\ removing' = [removing EXCEPT ![r] = NoEntry]
  /\ disk' = [disk EXCEPT ![r] = NoFiles]
  /\ removed' = removed \cup {r}
  /\ UNCHANGED <<up, entry, boot, vm, starting, pruning, launched, autoRemove, used>>

\* What a deletion that fails part of the way may leave.
Leftovers(files) ==
  [dir : {TRUE}, upper : {files.upper, FALSE}, record : {files.record, NoRecord},
   log : {files.log, {}}]

Refuse(r) ==
  /\ disk[r].dir
  /\ \E left \in Leftovers(disk[r]) : disk' = [disk EXCEPT ![r] = left]
  /\ Fault("stuck")

\* ... or they refuse to go, and the entry is put back.
RemoveRestore(r) ==
  /\ removing[r] # NoEntry /\ Refuse(r)
  /\ removing' = [removing EXCEPT ![r] = NoEntry]
  /\ entry' = [entry EXCEPT ![r] = removing[r]]
  /\ UNCHANGED <<up, boot, vm, starting, pruning, launched, autoRemove, removed>>

\* lns prune takes every exited run out, ...
PruneTake ==
  /\ up /\ pruning = {}
  /\ LET exited == {r \in Runs : IsExited(r)}
     IN  exited # {} /\ pruning' = exited /\ entry' = Without(entry, exited)
  /\ UNCHANGED <<up, boot, vm, disk, starting, removing, launched, autoRemove, removed, used>>

\* The sweep without its last look at the registry.
PruneSweepUnlisted(r) ==
  /\ up /\ disk[r].dir /\ disk[r].record = NoRecord
  /\ pruning' = pruning \cup {r}
  /\ UNCHANGED <<up, entry, boot, vm, disk, starting, removing, launched, autoRemove, removed, used>>

\* ... and every dir with no record that no listed run owns, ...
PruneSweep(r) ==
  /\ up /\ disk[r].dir /\ disk[r].record = NoRecord /\ entry[r].kind = "none"
  /\ pruning' = pruning \cup {r}
  /\ UNCHANGED <<up, entry, boot, vm, disk, starting, removing, launched, autoRemove, removed, used>>

\* ... deletes the files, and reports the runs as removed either way.
PruneReclaim(r) ==
  /\ r \in pruning
  /\ pruning' = pruning \ {r}
  /\ \/ disk' = [disk EXCEPT ![r] = NoFiles] /\ UNCHANGED used
     \/ Refuse(r)
  /\ removed' = removed \cup {r}
  /\ UNCHANGED <<up, entry, boot, vm, starting, removing, launched, autoRemove>>

\* A cancelled task is dropped where it stands: its guards ask the VM to stop
\* once there is one to ask, and delete the scratch dir while it is armed.
Aborted(task) ==
  [task EXCEPT !.at = "aborted", !.armed = FALSE, !.record = NoRecord, !.buffer = 0]
Guarded == {"connected", "kept", "serving", "quiescing", "published"}
Dropped(b) ==
  /\ boot' = [boot EXCEPT ![b] = Aborted(boot[b])]
  /\ vm' = IF boot[b].at \in Guarded /\ vm[b] = "on"
           THEN [vm EXCEPT ![b] = "stopping"] ELSE vm
  /\ disk' = IF boot[b].armed THEN [disk EXCEPT ![boot[b].run] = NoFiles] ELSE disk

\* CancelRun, or the terminal of an attached run is gone.
Cancel(r) ==
  /\ up /\ IsLive(r)
  /\ entry' = Without(entry, {r})
  /\ Dropped(entry[r].boot)
  /\ Fault("cancel")
  /\ UNCHANGED <<up, starting, removing, pruning, launched, autoRemove, removed>>

Commands(r) ==
  \/ Run(r) \/ RemoveTake(r) \/ RemoveReclaim(r) \/ RemoveRestore(r)
  \/ PruneReclaim(r) \/ PruneSweep(r) \/ Cancel(r)

-----------------------------------------------------------------------------
(* The task of boot b.                                                     *)

At(b, here) == boot[b].at = here
Goes(b, there) == boot' = [boot EXCEPT ![b].at = there]
\* Likewise, and what the task had read is of no more use.
Drops(b, there) ==
  boot' = [boot EXCEPT ![b].at = there, ![b].record = NoRecord, ![b].buffer = 0]

\* The decisions file is put in place and a blocking thread set to provision
\* the writable layer; one that is there is kept.
Prepare(b) ==
  /\ At(b, "starting")
  /\ boot' = [boot EXCEPT ![b].at = "provisioning", ![b].writing = TRUE]
  /\ disk' = [disk EXCEPT ![boot[b].run].dir = TRUE]
  /\ UNCHANGED <<up, entry, vm, starting, removing, pruning, launched, autoRemove, removed, used>>

\* The thread is on its own: an aborted task does not take it along.
Provision(b) ==
  /\ boot[b].writing
  /\ boot' = [boot EXCEPT ![b].writing = FALSE]
  /\ disk' = [disk EXCEPT ![boot[b].run].dir = TRUE, ![boot[b].run].upper = TRUE]
  /\ UNCHANGED <<up, entry, vm, starting, removing, pruning, launched, autoRemove, removed, used>>

BootVm(b) ==
  /\ At(b, "provisioning") /\ ~ boot[b].writing /\ Goes(b, "booting")
  /\ vm' = [vm EXCEPT ![b] = "on"]
  /\ UNCHANGED <<up, entry, disk, starting, removing, pruning, launched, autoRemove, removed, used>>

\* The VM hands its connector over: from here a guard asks it to stop.
Connect(b) ==
  /\ At(b, "booting") /\ Goes(b, "connected")
  /\ UNCHANGED <<up, entry, vm, disk, starting, removing, pruning, launched, autoRemove, removed, used>>

\* The broker answers: the scratch guard is disarmed, ...
Keep(b) ==
  /\ At(b, "connected")
  /\ boot' = [boot EXCEPT ![b].at = "kept", ![b].armed = FALSE]
  /\ UNCHANGED <<up, entry, vm, disk, starting, removing, pruning, launched, autoRemove, removed, used>>

\* ... the record is written and the session begins.
Record(b) ==
  /\ At(b, "kept") /\ Goes(b, "serving")
  /\ disk' = [disk EXCEPT ![boot[b].run].dir = TRUE,
                          ![boot[b].run].record = [boot |-> b, exited |-> FALSE]]
  /\ UNCHANGED <<up, entry, vm, starting, removing, pruning, launched, autoRemove, removed, used>>

\* Any of it fails: the guards run, and the completion closes the log.
Fail(b) ==
  /\ boot[b].at \in {"starting", "provisioning", "booting", "connected", "serving"}
  /\ ~ boot[b].writing
  /\ boot' = [boot EXCEPT ![b].at = "returned", ![b].armed = FALSE]
  /\ vm' = [vm EXCEPT ![b] = IF boot[b].at \in Guarded /\ @ = "on" THEN "stopping" ELSE "off"]
  /\ disk' = IF boot[b].armed THEN [disk EXCEPT ![boot[b].run] = NoFiles] ELSE disk
  /\ Fault("fail")
  /\ UNCHANGED <<up, entry, starting, removing, pruning, launched, autoRemove, removed>>

\* The workload's session is over; the guest begins to power off.
SessionEnds(b) ==
  /\ At(b, "serving") /\ Goes(b, "quiescing")
  /\ UNCHANGED <<up, entry, vm, disk, starting, removing, pruning, launched, autoRemove, removed, used>>

\* publish_exit_after_quiesce without the wait.
PublishAtOnce(b) ==
  /\ At(b, "quiescing") /\ Goes(b, "published")
  /\ entry' = SetExitCode(entry, boot[b].run)
  /\ UNCHANGED <<up, vm, disk, starting, removing, pruning, launched, autoRemove, removed, used>>

\* publish_exit_after_quiesce: the VM is off, or its grace period is over.
Publish(b) ==
  /\ At(b, "quiescing") /\ Goes(b, "published")
  /\ \/ vm[b] = "off" /\ UNCHANGED used
     \/ vm[b] # "off" /\ Fault("late")
  /\ entry' = SetExitCode(entry, boot[b].run)
  /\ UNCHANGED <<up, vm, disk, starting, removing, pruning, launched, autoRemove, removed>>

\* orchestrate returns: the stop guard is dropped, the completion closes the
\* log.
Return(b) ==
  /\ At(b, "published") /\ Goes(b, "returned")
  /\ vm' = IF vm[b] = "on" THEN [vm EXCEPT ![b] = "stopping"] ELSE vm
  /\ UNCHANGED <<up, entry, disk, starting, removing, pruning, launched, autoRemove, removed, used>>

\* The completion a boot's task sends closes its log, however the boot went.
Closed(b) ==
  boot[b].at \in {"returned", "concluding", "stamping", "logging", "leaving", "left",
                  "reclaiming", "done"}

\* The exit of a run that was recorded, and only of such a one.
MarkExitedRecorded(r) ==
  /\ IsLive(r) /\ ~ IsExited(r) /\ Closed(entry[r].boot) /\ disk[r].record # NoRecord
  /\ entry' = [entry EXCEPT ![r].exited = TRUE]
  /\ UNCHANGED <<up, boot, vm, disk, starting, removing, pruning, launched, autoRemove, removed, used>>

\* mark_exited_from_log: the task that serves the client saw the exit frame.
\* It marks the listed handle, and only if that one's own log is closed.
MarkExited(r) ==
  /\ IsLive(r) /\ ~ IsExited(r) /\ Closed(entry[r].boot)
  /\ entry' = [entry EXCEPT ![r].exited = TRUE]
  /\ UNCHANGED <<up, boot, vm, disk, starting, removing, pruning, launched, autoRemove, removed, used>>

\* The log buffer to write down is that of the handle listed now.
FindBuffer(b) ==
  /\ At(b, "returned")
  /\ LET e == entry[boot[b].run]
     IN  boot' = [boot EXCEPT ![b].at = "concluding",
                              ![b].buffer = IF e.kind = "live" THEN e.boot ELSE 0]
  /\ UNCHANGED <<up, entry, vm, disk, starting, removing, pruning, launched, autoRemove, removed, used>>

\* mark_exited_with reads the record, ...
ReadRecord(b) ==
  /\ At(b, "concluding")
  /\ boot' = [boot EXCEPT ![b].at = "stamping", ![b].record = disk[boot[b].run].record]
  /\ UNCHANGED <<up, entry, vm, disk, starting, removing, pruning, launched, autoRemove, removed, used>>

\* ... and writes it back with the exit on it; the dir is made if need be.
StampRecord(b) ==
  /\ At(b, "stamping") /\ Goes(b, "logging")
  /\ disk' = IF boot[b].record = NoRecord THEN disk
             ELSE [disk EXCEPT ![boot[b].run].dir = TRUE,
                               ![boot[b].run].record = [boot[b].record EXCEPT !.exited = TRUE]]
  /\ UNCHANGED <<up, entry, vm, starting, removing, pruning, launched, autoRemove, removed, used>>

\* The buffer is written down, unless the run leaves nothing behind.
WriteLog(b) ==
  /\ At(b, "logging")
  /\ LET r == boot[b].run
     IN  IF r \in autoRemove
         THEN Drops(b, "leaving") /\ UNCHANGED disk
         ELSE /\ Drops(b, "done")
              /\ disk' = IF boot[b].buffer = 0 THEN disk
                         ELSE [disk EXCEPT ![r].dir = TRUE, ![r].log = Capture(boot[b].buffer)]
  /\ UNCHANGED <<up, entry, vm, starting, removing, pruning, launched, autoRemove, removed, used>>

\* A --rm run's end marks the exit, ...
Leave(b) ==
  /\ At(b, "leaving") /\ Goes(b, "left")
  /\ entry' = SetExitCode(entry, boot[b].run)
  /\ UNCHANGED <<up, vm, disk, starting, removing, pruning, launched, autoRemove, removed, used>>

\* ... takes the run out of the registry ...
LeaveRegistry(b) ==
  /\ At(b, "left") /\ Goes(b, IF IsExited(boot[b].run) THEN "reclaiming" ELSE "done")
  /\ entry' = IF IsExited(boot[b].run) THEN Without(entry, {boot[b].run}) ELSE entry
  /\ UNCHANGED <<up, vm, disk, starting, removing, pruning, launched, autoRemove, removed, used>>

\* ... and deletes its files.
ReclaimOwn(b) ==
  /\ At(b, "reclaiming") /\ Goes(b, "done")
  /\ \/ disk' = [disk EXCEPT ![boot[b].run] = NoFiles] /\ UNCHANGED used
     \/ Refuse(boot[b].run)
  /\ removed' = removed \cup {boot[b].run}
  /\ UNCHANGED <<up, entry, vm, starting, removing, pruning, launched, autoRemove>>

BootTask(b) ==
  \/ Prepare(b) \/ Provision(b) \/ BootVm(b) \/ Connect(b) \/ Keep(b) \/ Record(b)
  \/ Publish(b) \/ Return(b) \/ FindBuffer(b) \/ ReadRecord(b) \/ StampRecord(b)
  \/ WriteLog(b) \/ Leave(b) \/ LeaveRegistry(b) \/ ReclaimOwn(b)

\* A VM that was asked to stop stops, and so does one whose workload is over.
VmStops(b) ==
  /\ vm[b] = "stopping" \/ (vm[b] = "on" /\ boot[b].at \in {"quiescing", "published"})
  /\ vm' = [vm EXCEPT ![b] = "off"]
  /\ UNCHANGED <<up, entry, boot, disk, starting, removing, pruning, launched, autoRemove, removed, used>>

-----------------------------------------------------------------------------
(* The service itself.                                                     *)

\* It dies: tasks, registry and VMs with it.
Crash ==
  /\ up
  /\ up' = FALSE
  /\ entry' = [r \in Runs |-> NoEntry]
  /\ boot' = [b \in Boots |-> IF At(b, "unused") THEN boot[b]
                              ELSE [Aborted(boot[b]) EXCEPT !.writing = FALSE]]
  /\ vm' = [b \in Boots |-> "off"]
  /\ starting' = [c \in Clients |-> NotStarting]
  /\ removing' = [r \in Runs |-> NoEntry]
  /\ pruning' = {}
  /\ Fault("crash")
  /\ UNCHANGED <<disk, launched, autoRemove, removed>>

\* Every record a stopped run again, --rm or not.
RebuildAll ==
  /\ ~ up /\ up' = TRUE
  /\ entry' = [r \in Runs |-> IF disk[r].record # NoRecord THEN Stopped ELSE NoEntry]
  /\ UNCHANGED <<boot, vm, disk, starting, removing, pruning, launched, autoRemove, removed, used>>

\* rebuild_stopped_runs: every record is a stopped run again, except that of a
\* --rm run, whose files go.
Rebuild ==
  /\ ~ up /\ up' = TRUE
  /\ LET recorded == {r \in Runs : disk[r].record # NoRecord}
     IN  /\ entry' = [r \in Runs |-> IF r \in recorded \ autoRemove THEN Stopped ELSE NoEntry]
         /\ disk' = [r \in Runs |-> IF r \in recorded \cap autoRemove THEN NoFiles ELSE disk[r]]
  /\ UNCHANGED <<boot, vm, starting, removing, pruning, launched, autoRemove, removed, used>>

Next ==
  \/ \E r \in Runs : Commands(r) \/ MarkExited(r)
  \/ \E c \in Clients : StartLoad(c) \/ StartGo(c) \/ \E r \in Runs : StartCheck(c, r)
  \/ \E b \in Boots : BootTask(b) \/ SessionEnds(b) \/ Fail(b) \/ VmStops(b)
  \/ PruneTake \/ Crash \/ Rebuild

Fairness ==
  /\ \A b \in Boots : WF_vars(BootTask(b)) /\ WF_vars(VmStops(b))
  /\ \A r \in Runs : /\ WF_vars(MarkExited(r))
                     /\ WF_vars(RemoveReclaim(r) \/ RemoveRestore(r))
                     /\ WF_vars(PruneReclaim(r))
  /\ WF_vars(Rebuild)

Spec == Init /\ [][Next]_vars /\ Fairness

-----------------------------------------------------------------------------
(* Properties.                                                             *)

Entries == [kind : {"none", "live", "stopped"}, boot : 0 .. MaxBoots, exited : BOOLEAN]
Records == [boot : 0 .. MaxBoots, exited : BOOLEAN]
Places == {"unused", "starting", "provisioning", "booting", "connected", "kept", "serving",
           "quiescing", "published", "returned", "concluding", "stamping", "logging",
           "leaving", "left", "reclaiming", "done", "aborted"}

\* Types, that a run the registry does not list has no status in it, and that
\* a listed handle is that of a boot of that very run, begun and not cancelled.
TypeOK ==
  /\ up \in BOOLEAN
  /\ entry \in [Runs -> Entries]
  /\ boot \in [Boots -> [run : Runs, at : Places, armed : BOOLEAN, writing : BOOLEAN,
                         restored : SUBSET Boots, record : Records, buffer : 0 .. MaxBoots]]
  /\ vm \in [Boots -> {"off", "on", "stopping"}]
  /\ disk \in [Runs -> [dir : BOOLEAN, upper : BOOLEAN, record : Records, log : SUBSET Boots]]
  /\ starting \in [Clients -> [at : {"no", "checked", "loaded"}, run : Runs, log : SUBSET Boots]]
  /\ removing \in [Runs -> Entries]
  /\ {pruning, launched, autoRemove, removed} \subseteq SUBSET Runs
  /\ used \in [boots : 0 .. MaxBoots, faults : 0 .. MaxFaults, seen : SUBSET Faults]
  /\ \A r \in Runs : entry[r].kind = "none" => entry[r] = NoEntry
  /\ \A r \in Runs : IsLive(r) =>
       LET b == entry[r].boot IN b # 0 /\ boot[b].run = r /\ boot[b].at \notin {"unused", "aborted"}

\* No VM has outlived its grace period and no boot has failed so far, so each
\* VM was off when its exit was published; and the run is not one that --rm
\* marks as exited a second time (Leave).
Quiesced(r) == used.seen \cap {"late", "fail"} = {} /\ r \notin autoRemove

\* At most one microVM holds a run's writable layer, whoever starts the run
\* and whenever: transition_to_live asks again what lns start had checked.
OneVmPerLayer ==
  \A b, c \in Boots :
    b # c /\ vm[b] # "off" /\ vm[c] # "off" /\ boot[b].run = boot[c].run
      => ~ Quiesced(boot[b].run)

\* A run is not Exited while its VM holds the layer, so neither rm nor prune
\* nor start acts on a layer in use: publish_exit_after_quiesce waits.
ExitedMeansOff ==
  \A r \in Runs : IsLive(r) /\ IsExited(r) /\ Quiesced(r) => vm[entry[r].boot] = "off"

\* A run that has been recorded loses its files only to rm, to prune and, for
\* --rm, to its own end: a start that fails or is interrupted never costs the
\* layer it was to boot on.
OnlyRemovalDeletes ==
  [][\A r \in Runs \ autoRemove :
       disk[r].record # NoRecord /\ disk'[r].record = NoRecord =>
         removing[r] # NoEntry \/ r \in pruning]_vars

\* Every variable has its type (TypeOK), and the layer a boot prepared is there for as long as the run is listed as
\* running: no removal, sweep or failed earlier boot takes it away.
RunningKeepsLayer ==
  /\ TypeOK
  /\ \A r \in Runs \ autoRemove :
       LET b == entry[r].boot
       IN  IsLive(r) /\ ~ IsExited(r) /\ ~ boot[b].writing
             /\ boot[b].at \in {"booting"} \cup Guarded => disk[r].upper

\* However a boot's task ends, its run does not stay listed as running and its
\* VM goes off: the completion closes the log (mark_exited_from_log), and a
\* workload that outlived its grace period is stopped by the guard orchestrate
\* drops.
EndedIsOver ==
  \A b \in Boots :
    At(b, "returned") ~>
      /\ ~ (IsLive(boot[b].run) /\ entry[boot[b].run].boot = b /\ ~ IsExited(boot[b].run))
      /\ vm[b] = "off"

\* A --rm run leaves nothing behind once its workload ended, whether its own
\* task gets to delete the files or the service dies first, unless it was
\* started again or interrupted in the meantime or its dir refuses to go.
RmLeavesNothing ==
  \A b \in Boots :
    At(b, "returned") /\ boot[b].run \in autoRemove ~>
      \/ disk[boot[b].run] = NoFiles \/ used.seen \cap {"cancel", "stuck"} # {}
      \/ \E c \in Boots : c # b /\ boot[c].run = boot[b].run /\ ~ At(c, "unused")

\* What was removed stays removed.
RemovedStaysRemoved ==
  \A r \in removed : disk[r] = NoFiles
=============================================================================
