------------------------ MODULE RunLifecycleProofs ------------------------
(***************************************************************************)
(* At most one microVM holds a run's writable layer, and a run that is     *)
(* listed as exited has its microVM off: for any runs, clients and boots,  *)
(* whatever is removed, pruned, cancelled or restarted meanwhile, and      *)
(* however often the service dies.  A run's files go only with a removal   *)
(* somebody asked for, and while it runs its layer stays.                  *)
(***************************************************************************)
EXTENDS RunLifecycle, TLAPS

\* A boot's task before the exit of its run is published, and after.
Active == {"starting", "provisioning", "booting", "connected", "kept", "serving", "quiescing"}
Over == {"published", "returned", "concluding", "stamping", "logging", "leaving", "left",
         "reclaiming", "done"}

\* A boot that has not published its exit is the one the registry lists, and
\* not as exited; one that has, has its VM off; and a run whose cancelled VM is
\* still on is listed nowhere, so that nothing can start it.
BootInv(b) ==
  LET r == boot[b].run
  IN  /\ b > used.boots => boot[b].at = "unused"
      /\ boot[b].at = "unused" => vm[b] = "off"
      /\ boot[b].at # "unused" => r \in launched
      /\ boot[b].at \in {"leaving", "left", "reclaiming"} => r \in autoRemove
      /\ Quiesced(r) =>
           /\ boot[b].at \in Active => entry[r] = Live(b)
           /\ boot[b].at \in Over => vm[b] = "off"
           /\ boot[b].at = "aborted" /\ vm[b] # "off" => entry[r] = NoEntry /\ removing[r] = NoEntry

\* A handle, listed or taken out by `lns rm`, is that of a boot of its run that
\* was not cancelled.
HandleOK(r, e, tasks) ==
  /\ e.kind = "none" => e = NoEntry
  /\ e.kind = "live" => e.boot \in Boots /\ tasks[e.boot].run = r
                        /\ tasks[e.boot].at \notin {"unused", "aborted"}

\* A run is listed or being removed, not both, and neither before its launch.
RunInv(r) ==
  /\ removing[r] # NoEntry => entry[r] = NoEntry
  /\ entry[r] # NoEntry \/ removing[r] # NoEntry \/ disk[r].record # NoRecord => r \in launched
  /\ HandleOK(r, entry[r], boot) /\ HandleOK(r, removing[r], boot)
  /\ ~ up => entry[r] = NoEntry /\ removing[r] = NoEntry

DownInv == ~ up => \A b \in Boots : boot[b].at \in {"unused", "aborted"} /\ vm[b] = "off"

LayerInv ==
  (\A b \in Boots : BootInv(b)) /\ (\A r \in Runs : RunInv(r)) /\ DownInv /\ OneVmPerLayer

Task0 == [run : Runs, at : Places, armed : BOOLEAN, writing : BOOLEAN,
          restored : SUBSET Boots, record : Records, buffer : 0 .. MaxBoots]
Files0 == [dir : BOOLEAN, upper : BOOLEAN, record : Records, log : SUBSET Boots]
Used0 == [boots : 0 .. MaxBoots, faults : 0 .. MaxFaults, seen : SUBSET Faults]
Start0 == [at : {"no", "checked", "loaded"}, run : Runs, log : SUBSET Boots]

\* TypeOK without what it says of handles, which LayerInv knows.
Types ==
  /\ up \in BOOLEAN
  /\ entry \in [Runs -> Entries]
  /\ boot \in [Boots -> Task0]
  /\ vm \in [Boots -> {"off", "on", "stopping"}]
  /\ disk \in [Runs -> Files0]
  /\ starting \in [Clients -> Start0]
  /\ removing \in [Runs -> Entries]
  /\ pruning \in SUBSET Runs /\ launched \in SUBSET Runs
  /\ autoRemove \in SUBSET Runs /\ removed \in SUBSET Runs
  /\ used \in Used0

LifeInv == Types /\ LayerInv

-----------------------------------------------------------------------------
(* The constants of the model.                                             *)

\* The records the registry and the disk begin with.
LEMMA Constants0 ==
  /\ NoEntry \in Entries /\ Stopped \in Entries /\ \A b \in Boots : Live(b) \in Entries
  /\ NoRecord \in Records /\ NoFiles \in Files0 /\ NoTask \in Task0 /\ NotStarting \in Start0
  /\ AnyRun \in Runs
<1>1. MaxBoots \in Nat
  BY RunLifecycleAssumption
<1>2. AnyRun \in Runs
  BY RunLifecycleAssumption DEF AnyRun
<1>3. NoEntry \in Entries /\ Stopped \in Entries /\ \A b \in Boots : Live(b) \in Entries
  BY <1>1 DEF NoEntry, Stopped, Live, Entries, Boots
<1>4. NoRecord \in Records
  BY <1>1 DEF NoRecord, Records
<1>5. NoFiles \in Files0
  BY <1>4 DEF NoFiles, Files0
<1>6. NoTask \in Task0
  BY <1>1, <1>2, <1>4 DEF NoTask, Task0, Places
<1>7. NotStarting \in Start0
  BY <1>2 DEF NotStarting, Start0
<1> QED
  BY <1>2, <1>3, <1>4, <1>5, <1>6, <1>7

\* What tells the entries of the registry apart.
LEMMA EntryFacts ==
  /\ NoEntry.kind = "none" /\ ~ NoEntry.exited
  /\ Stopped.kind = "stopped" /\ Stopped.exited /\ Stopped # NoEntry
  /\ \A b : Live(b).kind = "live" /\ Live(b).boot = b /\ ~ Live(b).exited /\ Live(b) # NoEntry
BY DEF NoEntry, Stopped, Live

-----------------------------------------------------------------------------
(* Types.                                                                  *)

\* A fault is counted and remembered.
LEMMA FaultTypes ==
  ASSUME Types, NEW what, Fault(what)
  PROVE  /\ used' \in Used0
         /\ used'.boots = used.boots /\ used'.seen = used.seen \cup {what}
<1>1. used \in Used0 /\ what \in Faults /\ used.faults < MaxFaults /\ MaxFaults \in Nat
  BY RunLifecycleAssumption DEF Types, Fault
<1>2. used.faults + 1 \in 0 .. MaxFaults /\ used.seen \cup {what} \in SUBSET Faults
  BY <1>1 DEF Used0
<1>3. used' = [used EXCEPT !.faults = used.faults + 1, !.seen = used.seen \cup {what}]
  BY DEF Fault
<1> QED
  BY <1>1, <1>2, <1>3, Zenon DEF Used0

\* A deletion that fails leaves files.
LEMMA RefuseTypes ==
  ASSUME Types, NEW r \in Runs, Refuse(r)
  PROVE  /\ disk' \in [Runs -> Files0]
         /\ \A s \in Runs : disk'[s].record \in {disk[s].record, NoRecord}
         /\ used' \in Used0
         /\ used'.boots = used.boots /\ used.seen \subseteq used'.seen
<1>1. PICK left \in Leftovers(disk[r]) : disk' = [disk EXCEPT ![r] = left]
  BY Zenon DEF Refuse
<1>2. disk[r] \in Files0 /\ NoRecord \in Records
  BY Constants0 DEF Types
<1>3. left \in Files0 /\ left.record \in {disk[r].record, NoRecord}
  BY <1>2, Zenon DEF Leftovers, Files0
<1>4. Fault("stuck")
  BY DEF Refuse
<1> QED
  BY <1>1, <1>3, <1>4, FaultTypes DEF Types

\* A boot's task moves to p and changes at most one or two other fields.
TaskMovesTo(b, p) ==
  \/ boot' = [boot EXCEPT ![b].at = p]
  \/ boot' = [boot EXCEPT ![b].at = p, ![b].writing = TRUE]
  \/ boot' = [boot EXCEPT ![b].at = p, ![b].armed = FALSE]
  \/ \E q \in Records : boot' = [boot EXCEPT ![b].at = p, ![b].record = q]
  \/ \E n \in 0 .. MaxBoots : boot' = [boot EXCEPT ![b].at = p, ![b].buffer = n]
  \/ \E q \in Records, n \in 0 .. MaxBoots :
       boot' = [boot EXCEPT ![b].at = p, ![b].record = q, ![b].buffer = n]

\* It stays a task of its run, and its guard is not armed again.
LEMMA TaskMoves ==
  ASSUME Types, NEW b \in Boots, NEW p \in Places, TaskMovesTo(b, p)
  PROVE  /\ boot' \in [Boots -> Task0]
         /\ boot'[b].run = boot[b].run /\ boot'[b].at = p
         /\ boot'[b].armed => boot[b].armed
         /\ boot[b].writing => boot'[b].writing
         /\ \A c \in Boots \ {b} : boot'[c] = boot[c]
<1>1. boot[b] \in Task0 /\ boot \in [Boots -> Task0]
  BY DEF Types
<1>2. CASE boot' = [boot EXCEPT ![b].at = p]
  BY <1>1, <1>2 DEF Task0
<1>3. CASE boot' = [boot EXCEPT ![b].at = p, ![b].writing = TRUE]
  BY <1>1, <1>3, Zenon DEF Task0
<1>4. CASE boot' = [boot EXCEPT ![b].at = p, ![b].armed = FALSE]
  BY <1>1, <1>4, Zenon DEF Task0
<1>5. ASSUME NEW q \in Records, boot' = [boot EXCEPT ![b].at = p, ![b].record = q]
      PROVE  /\ boot' \in [Boots -> Task0]
             /\ boot'[b].run = boot[b].run /\ boot'[b].at = p
             /\ boot'[b].armed => boot[b].armed
             /\ boot[b].writing => boot'[b].writing
             /\ \A c \in Boots \ {b} : boot'[c] = boot[c]
  BY <1>1, <1>5, Zenon DEF Task0
<1>6. ASSUME NEW n \in 0 .. MaxBoots, boot' = [boot EXCEPT ![b].at = p, ![b].buffer = n]
      PROVE  /\ boot' \in [Boots -> Task0]
             /\ boot'[b].run = boot[b].run /\ boot'[b].at = p
             /\ boot'[b].armed => boot[b].armed
             /\ boot[b].writing => boot'[b].writing
             /\ \A c \in Boots \ {b} : boot'[c] = boot[c]
  BY <1>1, <1>6, Zenon DEF Task0
<1>7. ASSUME NEW q \in Records, NEW n \in 0 .. MaxBoots,
             boot' = [boot EXCEPT ![b].at = p, ![b].record = q, ![b].buffer = n]
      PROVE  /\ boot' \in [Boots -> Task0]
             /\ boot'[b].run = boot[b].run /\ boot'[b].at = p
             /\ boot'[b].armed => boot[b].armed
             /\ boot[b].writing => boot'[b].writing
             /\ \A c \in Boots \ {b} : boot'[c] = boot[c]
  BY <1>1, <1>7, Zenon DEF Task0
<1> QED
  BY <1>2, <1>3, <1>4, <1>5, <1>6, <1>7, Zenon DEF TaskMovesTo

\* An aborted task is a task.
LEMMA AbortedTask ==
  ASSUME Types, NEW b \in Boots
  PROVE  /\ Aborted(boot[b]) \in Task0 /\ [Aborted(boot[b]) EXCEPT !.writing = FALSE] \in Task0
         /\ Aborted(boot[b]).run = boot[b].run /\ Aborted(boot[b]).at = "aborted"
         /\ ~ Aborted(boot[b]).armed
<1>1. boot[b] \in Task0 /\ 0 \in 0 .. MaxBoots /\ NoRecord \in Records /\ "aborted" \in Places
  BY RunLifecycleAssumption, Constants0 DEF Types, Places
<1>2. /\ Aborted(boot[b]) \in Task0 /\ Aborted(boot[b]).run = boot[b].run
      /\ Aborted(boot[b]).at = "aborted" /\ ~ Aborted(boot[b]).armed
  BY <1>1, Zenon DEF Task0, Aborted
<1>3. [Aborted(boot[b]) EXCEPT !.writing = FALSE] \in Task0
  BY <1>2, Zenon DEF Task0
<1> QED
  BY <1>2, <1>3

\* The files of a run keep their type.
LEMMA FileFields ==
  ASSUME Types, NEW r \in Runs
  PROVE  /\ disk[r] \in Files0
         /\ [disk EXCEPT ![r].dir = TRUE] \in [Runs -> Files0]
         /\ [disk EXCEPT ![r].dir = TRUE, ![r].upper = TRUE] \in [Runs -> Files0]
         /\ \A q \in Records : [disk EXCEPT ![r].dir = TRUE, ![r].record = q] \in [Runs -> Files0]
         /\ \A l \in SUBSET Boots : [disk EXCEPT ![r].dir = TRUE, ![r].log = l] \in [Runs -> Files0]
         /\ [disk EXCEPT ![r] = NoFiles] \in [Runs -> Files0]
<1>1. disk[r] \in Files0 /\ disk \in [Runs -> Files0]
  BY DEF Types
<1>2. [disk EXCEPT ![r].dir = TRUE] \in [Runs -> Files0]
  BY <1>1, Zenon DEF Files0
<1>3. [disk EXCEPT ![r].dir = TRUE, ![r].upper = TRUE] \in [Runs -> Files0]
  BY <1>1, Zenon DEF Files0
<1>4. ASSUME NEW q \in Records
      PROVE  [disk EXCEPT ![r].dir = TRUE, ![r].record = q] \in [Runs -> Files0]
  BY <1>1, Zenon DEF Files0
<1>5. ASSUME NEW l \in SUBSET Boots
      PROVE  [disk EXCEPT ![r].dir = TRUE, ![r].log = l] \in [Runs -> Files0]
  BY <1>1, Zenon DEF Files0
<1>6. [disk EXCEPT ![r] = NoFiles] \in [Runs -> Files0]
  BY <1>1, Constants0
<1> QED
  BY <1>1, <1>2, <1>3, <1>4, <1>5, <1>6, Zenon

\* A registry that has had an exit marked in it is a registry.
LEMMA EntryTypes ==
  ASSUME Types, NEW r \in Runs
  PROVE  /\ SetExitCode(entry, r) \in [Runs -> Entries]
         /\ [entry EXCEPT ![r].exited = TRUE] \in [Runs -> Entries]
         /\ \A rs \in SUBSET Runs : Without(entry, rs) \in [Runs -> Entries]
<1>1. entry \in [Runs -> Entries] /\ NoEntry \in Entries
  BY Constants0 DEF Types
<1>2. [entry[r] EXCEPT !.exited = TRUE] \in Entries
  BY <1>1, Zenon DEF Entries
<1>3. [entry EXCEPT ![r].exited = TRUE] \in [Runs -> Entries]
  BY <1>1, <1>2
<1>4. SetExitCode(entry, r) \in [Runs -> Entries]
  BY <1>1, <1>3 DEF SetExitCode
<1>5. \A rs \in SUBSET Runs : Without(entry, rs) \in [Runs -> Entries]
  BY <1>1 DEF Without
<1> QED
  BY <1>3, <1>4, <1>5

\* The steps of boot b's task that move it to p.
MovingStep(b, p) ==
  \/ p = "provisioning" /\ Prepare(b)
  \/ p = "booting" /\ BootVm(b)
  \/ p = "connected" /\ Connect(b)
  \/ p = "kept" /\ Keep(b)
  \/ p = "serving" /\ Record(b)
  \/ p = "quiescing" /\ SessionEnds(b)
  \/ p = "published" /\ Publish(b)
  \/ p = "returned" /\ (Return(b) \/ Fail(b))
  \/ p = "concluding" /\ FindBuffer(b)
  \/ p = "stamping" /\ ReadRecord(b)
  \/ p = "logging" /\ StampRecord(b)
  \/ p = (IF boot[b].run \in autoRemove THEN "leaving" ELSE "done") /\ WriteLog(b)
  \/ p = "left" /\ Leave(b)
  \/ p = (IF IsExited(boot[b].run) THEN "reclaiming" ELSE "done") /\ LeaveRegistry(b)
  \/ p = "done" /\ ReclaimOwn(b)

LEMMA MoveFacts ==
  ASSUME Types, NEW b \in Boots, NEW p, MovingStep(b, p)
  PROVE  /\ boot' \in [Boots -> Task0]
         /\ boot'[b].run = boot[b].run /\ boot'[b].at = p
         /\ boot'[b].armed => boot[b].armed
         /\ boot[b].writing => boot'[b].writing
         /\ \A c \in Boots \ {b} : boot'[c] = boot[c]
<1>1. p \in Places
  BY DEF MovingStep, Places
<1>2. TaskMovesTo(b, p)
  <2>1. boot[b] \in Task0 /\ 0 \in 0 .. MaxBoots /\ NoRecord \in Records
    BY RunLifecycleAssumption, Constants0 DEF Types
  <2>2. entry[boot[b].run].boot \in 0 .. MaxBoots /\ disk[boot[b].run].record \in Records
    BY <2>1 DEF Types, Task0, Entries, Files0
  <2>4. CASE p = "provisioning" /\ Prepare(b)
    BY <2>4 DEF TaskMovesTo, Prepare
  <2>5. ASSUME Goes(b, p) PROVE TaskMovesTo(b, p)
    BY <2>5 DEF TaskMovesTo, Goes
  <2>6. CASE (p = "kept" /\ Keep(b)) \/ (p = "returned" /\ Fail(b))
    BY <2>6, Zenon DEF TaskMovesTo, Keep, Fail
  <2>7. CASE p = "concluding" /\ FindBuffer(b)
    BY <2>1, <2>2, <2>7, Zenon DEF TaskMovesTo, FindBuffer
  <2>8. CASE p = "stamping" /\ ReadRecord(b)
    BY <2>2, <2>8, Zenon DEF TaskMovesTo, ReadRecord
  <2>9. CASE p = (IF boot[b].run \in autoRemove THEN "leaving" ELSE "done") /\ WriteLog(b)
    <3>1. boot' = [boot EXCEPT ![b].at = p, ![b].record = NoRecord, ![b].buffer = 0]
      BY <2>9, Zenon DEF WriteLog, Drops
    <3> QED
      BY <2>1, <3>1, Zenon DEF TaskMovesTo
  <2>10. CASE p = (IF IsExited(boot[b].run) THEN "reclaiming" ELSE "done") /\ LeaveRegistry(b)
    BY <2>5, <2>10 DEF LeaveRegistry
  <2>11. CASE \/ p = "booting" /\ BootVm(b)
              \/ p = "connected" /\ Connect(b)
              \/ p = "serving" /\ Record(b)
              \/ p = "quiescing" /\ SessionEnds(b)
              \/ p = "published" /\ Publish(b)
              \/ p = "returned" /\ Return(b)
              \/ p = "logging" /\ StampRecord(b)
              \/ p = "left" /\ Leave(b)
              \/ p = "done" /\ ReclaimOwn(b)
    BY <2>5, <2>11 DEF BootVm, Connect, Record, SessionEnds, Publish, Return, StampRecord, Leave, ReclaimOwn
  <2> HIDE DEF TaskMovesTo, IsExited
  <2> QED
    BY <2>4, <2>6, <2>7, <2>8, <2>9, <2>10, <2>11, Zenon DEF MovingStep
<1> QED
  BY <1>1, <1>2, TaskMoves

\* A task belongs to a run.
LEMMA RunOf ==
  ASSUME Types
  PROVE  \A b \in Boots : boot[b].run \in Runs
BY DEF Types, Task0

\* A new boot is the next one, and is listed.
LEMMA BeginTypes ==
  ASSUME Types, NEW r \in Runs, NEW fresh \in BOOLEAN, NEW log \in SUBSET Boots,
         BeginBoot(r, fresh, log)
  PROVE  /\ entry' \in [Runs -> Entries] /\ boot' \in [Boots -> Task0]
         /\ used' \in Used0
<1>1. used.boots + 1 \in Boots
  BY RunLifecycleAssumption DEF Types, Used0, BeginBoot, Boots
<1>2. [NoTask EXCEPT !.run = r, !.at = "starting", !.armed = fresh, !.restored = log] \in Task0
  BY Constants0, Zenon DEF Task0, Places
<1>3. used' \in Used0
  <2>1. used \in Used0 /\ used.boots + 1 \in 0 .. MaxBoots
    BY <1>1 DEF Types, Boots, Used0
  <2> QED
    BY <2>1 DEF BeginBoot, Used0
<1> QED
  BY <1>1, <1>2, <1>3, Constants0 DEF Types, BeginBoot

\* Every step keeps every variable within its type.
LEMMA TypesStep ==
  ASSUME Types, LayerInv, [Next]_vars
  PROVE  Types'
<1>1. ASSUME NEW r \in Runs, Run(r) PROVE Types'
  <2>1. BeginBoot(r, TRUE, {})
    BY <1>1, Zenon DEF Run
  <2>2. entry' \in [Runs -> Entries] /\ boot' \in [Boots -> Task0]
        /\ used' \in Used0
    BY <2>1, BeginTypes, Zenon
  <2> QED
    BY <1>1, <2>2 DEF Run, Types
<1>2. ASSUME NEW c \in Clients, NEW r \in Runs, StartCheck(c, r) PROVE Types'
  <2>1. [at |-> "checked", run |-> r, log |-> {}] \in Start0
    BY DEF Start0
  <2> QED
    BY <1>2, <2>1 DEF StartCheck, Types
<1>3. ASSUME NEW c \in Clients, StartLoad(c) PROVE Types'
  <2>1. starting[c] \in Start0 /\ disk[starting[c].run].log \in SUBSET Boots
    BY DEF Types, Start0, Files0
  <2>2. [starting[c] EXCEPT !.at = "loaded", !.log = disk[starting[c].run].log] \in Start0
    BY <2>1, Zenon DEF Start0
  <2> QED
    BY <1>3, <2>2 DEF StartLoad, Types
<1>4. ASSUME NEW c \in Clients, StartGo(c) PROVE Types'
  <2>1. starting[c].run \in Runs /\ starting[c].log \in SUBSET Boots
    BY DEF Types, Start0
  <2>2. CASE IsExited(starting[c].run)
    <3>1. BeginBoot(starting[c].run, FALSE, starting[c].log)
      BY <1>4, <2>2, Zenon DEF StartGo
    <3>2. entry' \in [Runs -> Entries] /\ boot' \in [Boots -> Task0]
          /\ used' \in Used0
      BY <2>1, <3>1, BeginTypes, Zenon
    <3> QED
      BY <1>4, <3>2, Constants0 DEF StartGo, Types
  <2>3. CASE ~ IsExited(starting[c].run)
    BY <1>4, <2>3, Constants0 DEF StartGo, Types
  <2> QED
    BY <2>2, <2>3
<1>5. ASSUME NEW r \in Runs, RemoveTake(r) PROVE Types'
  BY <1>5, EntryTypes, Zenon DEF RemoveTake, Types
<1>6. ASSUME NEW r \in Runs, RemoveReclaim(r) PROVE Types'
  BY <1>6, Constants0 DEF RemoveReclaim, Types
<1>7. ASSUME NEW r \in Runs, RemoveRestore(r) PROVE Types'
  BY <1>7, RefuseTypes, Constants0 DEF RemoveRestore, Types
<1>8. ASSUME NEW r \in Runs, PruneReclaim(r) PROVE Types'
  <2>1. disk' \in [Runs -> Files0]
        /\ used' \in Used0
    <3>1. CASE Refuse(r)
      BY <3>1, RefuseTypes
    <3>2. CASE disk' = [disk EXCEPT ![r] = NoFiles] /\ UNCHANGED used
      BY <3>2, FileFields, Zenon DEF Types
    <3> QED
      BY <1>8, <3>1, <3>2 DEF PruneReclaim
  <2> QED
    BY <1>8, <2>1 DEF PruneReclaim, Types
<1>9. ASSUME NEW r \in Runs, PruneSweep(r) PROVE Types'
  BY <1>9 DEF PruneSweep, Types
<1>10. ASSUME NEW r \in Runs, Cancel(r) PROVE Types'
  <2>1. entry[r].boot \in Boots
    BY <1>10 DEF Cancel, IsLive, LayerInv, RunInv, HandleOK
  <2>2. Aborted(boot[entry[r].boot]) \in Task0 /\ boot[entry[r].boot].run \in Runs
    BY <2>1, AbortedTask, Zenon DEF Types, Task0
  <2>3. boot' \in [Boots -> Task0] /\ vm' \in [Boots -> {"off", "on", "stopping"}]
        /\ disk' \in [Runs -> Files0]
    BY <1>10, <2>1, <2>2, Constants0 DEF Cancel, Dropped, Types
  <2>4. used' \in Used0 /\ entry' \in [Runs -> Entries]
    BY <1>10, EntryTypes, FaultTypes, Zenon DEF Cancel
  <2> QED
    BY <1>10, <2>3, <2>4, Zenon DEF Cancel, Types
<1>11. ASSUME NEW b \in Boots, Prepare(b) PROVE Types'
  BY <1>11, MoveFacts, RunOf, FileFields, Zenon DEF MovingStep, Prepare, Types
<1>12. ASSUME NEW b \in Boots, Provision(b) PROVE Types'
  <2>1. boot' \in [Boots -> Task0]
    <3>1. boot[b] \in Task0 /\ boot' = [boot EXCEPT ![b].writing = FALSE]
      BY <1>12 DEF Provision, Types
    <3>2. [boot[b] EXCEPT !.writing = FALSE] \in Task0
      BY <3>1, Zenon DEF Task0
    <3> QED
      BY <3>1, <3>2 DEF Types
  <2>2. disk' \in [Runs -> Files0]
    BY <1>12, RunOf, FileFields, Zenon DEF Provision
  <2> QED
    BY <1>12, <2>1, <2>2 DEF Provision, Types
<1>13. ASSUME NEW b \in Boots, BootVm(b) \/ Connect(b) \/ Keep(b) \/ SessionEnds(b) \/ Return(b)
       PROVE  Types'
  <2>1. boot' \in [Boots -> Task0]
    BY <1>13, MoveFacts DEF MovingStep
  <2> QED
    BY <1>13, <2>1 DEF BootVm, Connect, Keep, SessionEnds, Return, Types
<1>15. ASSUME NEW b \in Boots, Record(b) PROVE Types'
  <2>1. [boot |-> b, exited |-> FALSE] \in Records
    BY RunLifecycleAssumption DEF Records, Boots
  <2>2. boot' \in [Boots -> Task0] /\ disk' \in [Runs -> Files0]
    BY <1>15, <2>1, MoveFacts, RunOf, FileFields, Zenon DEF MovingStep, Record
  <2> QED
    BY <1>15, <2>2 DEF Record, Types
<1>16. ASSUME NEW b \in Boots, Fail(b) PROVE Types'
  <2>1. boot' \in [Boots -> Task0] /\ used' \in Used0
    BY <1>16, MoveFacts, FaultTypes, Zenon DEF MovingStep, Fail
  <2>2. disk' \in [Runs -> Files0] /\ vm' \in [Boots -> {"off", "on", "stopping"}]
    BY <1>16, RunOf, FileFields, Zenon DEF Fail, Types
  <2> QED
    BY <1>16, <2>1, <2>2 DEF Fail, Types
<1>17. ASSUME NEW b \in Boots, Publish(b) PROVE Types'
  <2>1. boot' \in [Boots -> Task0] /\ entry' \in [Runs -> Entries]
    BY <1>17, MoveFacts, RunOf, EntryTypes, Zenon DEF MovingStep, Publish
  <2>2. used' \in Used0
    BY <1>17, FaultTypes DEF Publish, Types
  <2> QED
    BY <1>17, <2>1, <2>2 DEF Publish, Types
<1>18. ASSUME NEW r \in Runs, MarkExited(r) PROVE Types'
  BY <1>18, EntryTypes DEF MarkExited, Types
<1>19. ASSUME NEW b \in Boots, FindBuffer(b) \/ ReadRecord(b) PROVE Types'
  <2>1. boot' \in [Boots -> Task0]
    BY <1>19, MoveFacts DEF MovingStep
  <2> QED
    BY <1>19, <2>1 DEF FindBuffer, ReadRecord, Types
<1>21. ASSUME NEW b \in Boots, StampRecord(b) PROVE Types'
  <2>1. [boot[b].record EXCEPT !.exited = TRUE] \in Records
    <3>1. boot[b].record \in Records
      BY DEF Types, Task0
    <3> QED
      BY <3>1, Zenon DEF Records
  <2>2. boot' \in [Boots -> Task0]
    BY <1>21, MoveFacts DEF MovingStep
  <2>3. disk' \in [Runs -> Files0]
    BY <1>21, <2>1, RunOf, FileFields, Zenon DEF StampRecord, Types
  <2> QED
    BY <1>21, <2>2, <2>3 DEF StampRecord, Types
<1>22. ASSUME NEW b \in Boots, WriteLog(b) PROVE Types'
  <2>1. boot[b].buffer \in 0 .. MaxBoots
    BY DEF Types, Task0
  <2>2. boot[b].buffer # 0 => Capture(boot[b].buffer) \in SUBSET Boots
    BY <2>1, RunLifecycleAssumption DEF Capture, Types, Task0, Boots
  <2>3. boot' \in [Boots -> Task0]
    BY <1>22, MoveFacts DEF MovingStep
  <2>4. \/ disk' = disk
        \/ /\ boot[b].buffer # 0
           /\ disk' = [disk EXCEPT ![boot[b].run].dir = TRUE, ![boot[b].run].log = Capture(boot[b].buffer)]
    BY <1>22 DEF WriteLog
  <2>5. disk' \in [Runs -> Files0]
    <3>1. boot[b].run \in Runs /\ disk \in [Runs -> Files0]
      BY RunOf DEF Types
    <3>2. \A l \in SUBSET Boots :
            [disk EXCEPT ![boot[b].run].dir = TRUE, ![boot[b].run].log = l] \in [Runs -> Files0]
      BY <3>1, FileFields, Zenon
    <3>3. ASSUME NEW l \in SUBSET Boots,
                 disk' = [disk EXCEPT ![boot[b].run].dir = TRUE, ![boot[b].run].log = l]
          PROVE  disk' \in [Runs -> Files0]
      BY <3>2, <3>3, Zenon
    <3> HIDE DEF Capture
    <3> QED
      BY <2>2, <2>4, <3>1, <3>3, Zenon
  <2> QED
    BY <1>22, <2>3, <2>5 DEF WriteLog, Types
<1>23. ASSUME NEW b \in Boots, Leave(b) \/ LeaveRegistry(b) PROVE Types'
  <2>1. boot' \in [Boots -> Task0]
    BY <1>23, MoveFacts, Zenon DEF MovingStep
  <2>2. entry' \in [Runs -> Entries]
    <3>1. CASE Leave(b)
      BY <3>1, RunOf, EntryTypes, Zenon DEF Leave
    <3>2. CASE LeaveRegistry(b)
      <4>1. {boot[b].run} \in SUBSET Runs
        BY RunOf
      <4> QED
        BY <3>2, <4>1, RunOf, EntryTypes, Zenon DEF LeaveRegistry, Types
    <3> QED
      BY <1>23, <3>1, <3>2
  <2> QED
    BY <1>23, <2>1, <2>2 DEF Leave, LeaveRegistry, Types
<1>24. ASSUME NEW b \in Boots, ReclaimOwn(b) PROVE Types'
  <2>1. boot' \in [Boots -> Task0]
    BY <1>24, MoveFacts, Zenon DEF MovingStep
  <2>2. disk' \in [Runs -> Files0] /\ used' \in Used0
    <3>1. CASE Refuse(boot[b].run)
      BY <3>1, RunOf, RefuseTypes
    <3>2. CASE disk' = [disk EXCEPT ![boot[b].run] = NoFiles] /\ UNCHANGED used
      BY <3>2, RunOf, FileFields, Zenon DEF Types
    <3> QED
      BY <1>24, <3>1, <3>2 DEF ReclaimOwn
  <2> QED
    BY <1>24, <2>1, <2>2, RunOf DEF ReclaimOwn, Types
<1>25. ASSUME NEW b \in Boots, VmStops(b) PROVE Types'
  BY <1>25 DEF VmStops, Types
<1>26. CASE PruneTake
  BY <1>26, EntryTypes, Zenon DEF PruneTake, Types
<1>27. CASE Crash
  <2>1. \A b \in Boots : [Aborted(boot[b]) EXCEPT !.writing = FALSE] \in Task0
    BY AbortedTask
  <2> QED
    BY <1>27, <2>1, FaultTypes, Constants0, Zenon DEF Crash, Types
<1>28. CASE Rebuild
  BY <1>28, Constants0 DEF Rebuild, Types
<1>29. CASE UNCHANGED vars
  BY <1>29 DEF vars, Types
<1> QED
  BY <1>1, <1>2, <1>3, <1>4, <1>5, <1>6, <1>7, <1>8, <1>9, <1>10, <1>11, <1>12, <1>13, <1>15, <1>16, <1>17, <1>18, <1>19, <1>21, <1>22, <1>23, <1>24, <1>25, <1>26, <1>27,
     <1>28, <1>29 DEF Next, Commands, BootTask

-----------------------------------------------------------------------------
(* One VM per layer.                                                       *)

Ending == {"leaving", "left", "reclaiming"}

\* A task stays on its side of the publication of its exit.
SameStage(from, to) ==
  from = to \/ (from \in Active /\ to \in Active) \/ (from \in Over /\ to \in Over)

\* What a step does to run s and to its boots when it has no business with it.
Undisturbed(s) ==
  /\ entry'[s] = entry[s] /\ removing'[s] \in {removing[s], NoEntry}
  /\ disk'[s].record # NoRecord => disk[s].record # NoRecord \/ s \in launched
  /\ \A b \in Boots : boot[b].run = s =>
       SameStage(boot[b].at, boot'[b].at) /\ (boot'[b].at \in Ending \ {boot[b].at} => s \in autoRemove)

\* The rest of the step: no boot begins or changes its run, and no VM starts.
Quiet ==
  /\ up' = up /\ launched' = launched /\ autoRemove' = autoRemove
  /\ used'.boots = used.boots /\ used.seen \subseteq used'.seen
  /\ \A b \in Boots : boot'[b].run = boot[b].run /\ (vm'[b] # "off" => vm[b] # "off")

\* The stages a task can be in.
LEMMA Stages ==
  ASSUME Types, NEW b \in Boots
  PROVE  /\ boot[b].at \in Active \cup Over \cup {"unused", "aborted"}
         /\ boot[b].run \in Runs
BY DEF Types, Task0, Places, Active, Over

\* What has gone wrong is not forgotten.
LEMMA QuiescedBefore ==
  ASSUME Quiet
  PROVE  \A r \in Runs : Quiesced(r)' => Quiesced(r)
BY DEF Quiet, Quiesced

\* The boots of a run that is left alone keep what is known of them.
LEMMA UndisturbedBoots ==
  ASSUME Types, Types', LayerInv, Quiet, NEW b \in Boots, Undisturbed(boot[b].run)
  PROVE  BootInv(b)'
<1> DEFINE r == boot[b].run
<1>1. r \in Runs /\ boot'[b].run = r
  BY Stages DEF Quiet
<1>2. BootInv(b)
  BY DEF LayerInv
<1>3. SameStage(boot[b].at, boot'[b].at)
  BY Zenon DEF Undisturbed
<1>4. b > used'.boots => boot'[b].at = "unused"
  BY <1>2, <1>3 DEF Quiet, BootInv, SameStage, Active, Over
<1>5. boot'[b].at = "unused" => vm'[b] = "off"
  BY <1>2, <1>3 DEF Quiet, BootInv, SameStage, Active, Over
<1>6. boot'[b].at # "unused" => r \in launched'
  BY <1>2, <1>3, Zenon DEF Quiet, BootInv, SameStage, Active, Over
<1>7. boot'[b].at \in Ending => r \in autoRemove'
  BY <1>2 DEF Quiet, BootInv, Ending, Undisturbed
<1>8. ASSUME Quiesced(r)'
      PROVE  /\ boot'[b].at \in Active => entry'[r] = Live(b)
             /\ boot'[b].at \in Over => vm'[b] = "off"
             /\ boot'[b].at = "aborted" /\ vm'[b] # "off" => entry'[r] = NoEntry /\ removing'[r] = NoEntry
  <2>1. Quiesced(r)
    BY <1>1, <1>8, QuiescedBefore
  <2>2. entry'[r] = entry[r] /\ removing'[r] \in {removing[r], NoEntry}
    BY Zenon DEF Undisturbed
  <2> QED
    BY <1>2, <1>3, <2>1, <2>2, Zenon DEF BootInv, Quiet, SameStage, Active, Over
<1> QED
  BY <1>1, <1>4, <1>5, <1>6, <1>7, <1>8, Zenon DEF BootInv, Ending

\* So does the run.
LEMMA UndisturbedRun ==
  ASSUME Types, Types', LayerInv, Quiet, NEW r \in Runs, Undisturbed(r)
  PROVE  RunInv(r)'
<1>1. RunInv(r)
  BY DEF LayerInv
<1>2. entry'[r] = entry[r] /\ removing'[r] \in {removing[r], NoEntry}
  BY DEF Undisturbed
<1>3. \A e : HandleOK(r, e, boot) => HandleOK(r, e, boot')
  <2> SUFFICES ASSUME NEW e, HandleOK(r, e, boot), e.kind = "live"
               PROVE  e.boot \in Boots /\ boot'[e.boot].run = r
                      /\ boot'[e.boot].at \notin {"unused", "aborted"}
    BY DEF HandleOK
  <2>1. e.boot \in Boots /\ boot[e.boot].run = r /\ boot[e.boot].at \notin {"unused", "aborted"}
    BY DEF HandleOK
  <2>2. SameStage(boot[e.boot].at, boot'[e.boot].at) /\ boot'[e.boot].run = r
    BY <2>1 DEF Undisturbed, Quiet
  <2> QED
    BY <2>1, <2>2 DEF SameStage, Active, Over
<1>4. HandleOK(r, NoEntry, boot')
  BY EntryFacts DEF HandleOK
<1>5. HandleOK(r, entry'[r], boot') /\ HandleOK(r, removing'[r], boot')
  BY <1>1, <1>2, <1>3, <1>4 DEF RunInv
<1> QED
  BY <1>1, <1>2, <1>5, Zenon DEF RunInv, Undisturbed, Quiet

\* A step that starts no VM leaves at most one to a layer.
LEMMA NoNewVm ==
  ASSUME Types, LayerInv, Quiet
  PROVE  OneVmPerLayer'
<1> SUFFICES ASSUME NEW b \in Boots, NEW c \in Boots, b # c, vm'[b] # "off", vm'[c] # "off",
                    boot'[b].run = boot'[c].run
             PROVE  ~ Quiesced(boot[b].run)'
  BY DEF OneVmPerLayer, Quiesced
<1>1. boot'[b].run = boot[b].run /\ vm[b] # "off" /\ vm[c] # "off" /\ boot[b].run = boot[c].run
  BY DEF Quiet
<1>2. ~ Quiesced(boot[b].run) /\ boot[b].run \in Runs
  BY <1>1, Stages DEF LayerInv, OneVmPerLayer
<1>3. ~ Quiesced(boot[b].run)'
  BY <1>1, <1>2 DEF Quiet, Quiesced
<1> QED
  BY <1>3

\* A service that is down stays so.
LEMMA QuietDown ==
  ASSUME Types, LayerInv, Quiet, NEW r \in Runs, up \/ Undisturbed(r),
         \A s \in Runs \ {r} : Undisturbed(s)
  PROVE  DownInv'
<1> SUFFICES ASSUME ~ up, NEW b \in Boots
             PROVE  boot'[b].at \in {"unused", "aborted"} /\ vm'[b] = "off"
  BY DEF DownInv, Quiet
<1>1. boot[b].at \in {"unused", "aborted"} /\ vm[b] = "off"
  BY DEF LayerInv, DownInv
<1>2. SameStage(boot[b].at, boot'[b].at)
  BY Stages, Zenon DEF Undisturbed
<1> QED
  BY <1>1, <1>2 DEF SameStage, Active, Over, Quiet

\* A task that goes on to its next stage changes nothing else.
LEMMA GoesFields ==
  ASSUME boot \in [Boots -> Task0], NEW b \in Boots, NEW p, Goes(b, p)
  PROVE  /\ boot'[b].at = p
         /\ \A c \in Boots : boot'[c].run = boot[c].run /\ (c # b => boot'[c] = boot[c])
<1>1. boot' = [boot EXCEPT ![b] = [boot[b] EXCEPT !.at = p]]
  BY DEF Goes
<1>2. boot[b] \in Task0
  OBVIOUS
<1>3. boot'[b] = [boot[b] EXCEPT !.at = p]
  BY <1>1
<1>4. boot'[b].at = p /\ boot'[b].run = boot[b].run
  BY <1>2, <1>3 DEF Task0
<1>5. \A c \in Boots : c # b => boot'[c] = boot[c]
  BY <1>1
<1> QED
  BY <1>4, <1>5

\* A step that starts nothing has only the one run it is about to answer for.
LEMMA AboutOneRun ==
  ASSUME Types, Types', LayerInv, Quiet, NEW r \in Runs, up \/ Undisturbed(r),
         \A s \in Runs \ {r} : Undisturbed(s),
         \A b \in Boots : boot[b].run = r => BootInv(b)', RunInv(r)'
  PROVE  LayerInv'
<1>1. \A b \in Boots : BootInv(b)'
  <2> SUFFICES ASSUME NEW b \in Boots, boot[b].run # r PROVE BootInv(b)'
    OBVIOUS
  <2>1. Undisturbed(boot[b].run)
    BY Stages
  <2> QED
    BY <2>1, UndisturbedBoots
<1>2. \A s \in Runs : RunInv(s)'
  BY UndisturbedRun
<1> QED
  BY <1>1, <1>2, NoNewVm, QuietDown DEF LayerInv

\* And a step that disturbs no run keeps it all.
LEMMA AboutNoRun ==
  ASSUME Types, Types', LayerInv, Quiet, \A s \in Runs : Undisturbed(s)
  PROVE  LayerInv'
<1>1. PICK r \in Runs : TRUE
  BY RunLifecycleAssumption
<1>2. \A b \in Boots : boot[b].run = r => BootInv(b)'
  BY UndisturbedBoots
<1>3. RunInv(r)'
  BY UndisturbedRun
<1> QED
  BY <1>2, <1>3, AboutOneRun

\* While a boot has not published its exit, no other VM of its run is on.
LEMMA Alone ==
  ASSUME Types, LayerInv, NEW b \in Boots, boot[b].at \in Active, Quiesced(boot[b].run),
         NEW c \in Boots, c # b, boot[c].run = boot[b].run
  PROVE  vm[c] = "off"
<1>1. BootInv(b) /\ BootInv(c)
  BY DEF LayerInv
<1>2. entry[boot[b].run] = Live(b)
  BY <1>1, Zenon DEF BootInv
<1>3. boot[c].at \notin Active
  <2>1. boot[c].at \in Active => entry[boot[b].run] = Live(c)
    BY <1>1, Zenon DEF BootInv
  <2>2. Live(b).boot = b /\ Live(c).boot = c
    BY EntryFacts, Zenon
  <2> QED
    BY <1>2, <2>1, <2>2, Zenon
<1>4. entry[boot[b].run] # NoEntry
  BY <1>2, EntryFacts, Zenon
<1> QED
  BY <1>1, <1>3, <1>4, Stages, Zenon DEF BootInv

\* The steps that start nothing and list nothing.
LEMMA CalmSteps ==
  ASSUME Types, Types', LayerInv,
         \/ \E c \in Clients, r \in Runs : StartCheck(c, r)
         \/ \E c \in Clients : StartLoad(c)
         \/ \E r \in Runs : RemoveReclaim(r) \/ PruneSweep(r) \/ PruneReclaim(r)
         \/ \E b \in Boots :
              \/ Prepare(b) \/ Provision(b) \/ Connect(b) \/ Keep(b) \/ Record(b) \/ SessionEnds(b)
              \/ FindBuffer(b) \/ ReadRecord(b) \/ StampRecord(b) \/ WriteLog(b) \/ ReclaimOwn(b)
              \/ VmStops(b) \/ Return(b)
  PROVE  LayerInv'
<1> SUFFICES Quiet /\ \A s \in Runs : Undisturbed(s)
  BY AboutNoRun
<1> USE DEF Quiet, Undisturbed, SameStage, Active, Over, Ending
<1>1. ASSUME NEW c \in Clients, NEW r \in Runs, StartCheck(c, r)
      PROVE  Quiet /\ \A s \in Runs : Undisturbed(s)
  BY <1>1, Zenon DEF StartCheck
<1>2. ASSUME NEW c \in Clients, StartLoad(c)
      PROVE  Quiet /\ \A s \in Runs : Undisturbed(s)
  BY <1>2 DEF StartLoad
<1>3. ASSUME NEW r \in Runs, RemoveReclaim(r)
      PROVE  Quiet /\ \A s \in Runs : Undisturbed(s)
  BY <1>3, Zenon DEF RemoveReclaim, Types, NoFiles
<1>4. ASSUME NEW r \in Runs, PruneSweep(r)
      PROVE  Quiet /\ \A s \in Runs : Undisturbed(s)
  BY <1>4, Zenon DEF PruneSweep
<1>5. ASSUME NEW r \in Runs, PruneReclaim(r)
      PROVE  Quiet /\ \A s \in Runs : Undisturbed(s)
  <2>1. /\ used'.boots = used.boots /\ used.seen \subseteq used'.seen
        /\ \A s \in Runs : disk'[s].record \in {disk[s].record, NoRecord}
    <3>1. CASE Refuse(r)
      BY <3>1, RefuseTypes, Zenon
    <3>2. CASE disk' = [disk EXCEPT ![r] = NoFiles] /\ UNCHANGED used
      BY <3>2, Zenon DEF Types, NoFiles
    <3> QED
      BY <1>5, <3>1, <3>2, Zenon DEF PruneReclaim
  <2> QED
    BY <1>5, <2>1, Zenon DEF PruneReclaim
<1>7. ASSUME NEW b \in Boots, Provision(b)
      PROVE  Quiet /\ \A s \in Runs : Undisturbed(s)
  <2>1. \A c \in Boots : boot'[c].run = boot[c].run /\ boot'[c].at = boot[c].at
    <3>1. ASSUME NEW t \in Task0
          PROVE  [t EXCEPT !.writing = FALSE].run = t.run /\ [t EXCEPT !.writing = FALSE].at = t.at
      BY DEF Task0
    <3>2. boot \in [Boots -> Task0] /\ boot' = [boot EXCEPT ![b] = [boot[b] EXCEPT !.writing = FALSE]]
      BY <1>7, Zenon DEF Provision, Types
    <3>3. boot[b] \in Task0 /\ boot'[b] = [boot[b] EXCEPT !.writing = FALSE]
          /\ \A c \in Boots \ {b} : boot'[c] = boot[c]
      BY <3>2, Zenon
    <3>4. boot'[b].run = boot[b].run /\ boot'[b].at = boot[b].at
      BY <3>1, <3>3
    <3> QED
      BY <3>3, <3>4, Zenon
  <2>2. \A s \in Runs : disk'[s].record = disk[s].record
    BY <1>7, RunOf, Zenon DEF Provision, Types, Files0
  <2> QED
    BY <1>7, <2>1, <2>2, Zenon DEF Provision
<1>6. ASSUME NEW b \in Boots, Prepare(b)
      PROVE  Quiet /\ \A s \in Runs : Undisturbed(s)
  <2>1. /\ boot'[b].at = "provisioning" /\ \A c \in Boots : boot'[c].run = boot[c].run
        /\ \A c \in Boots \ {b} : boot'[c] = boot[c]
    BY <1>6, MoveFacts, Zenon DEF MovingStep
  <2>2. \A s \in Runs : disk'[s].record = disk[s].record
    BY <1>6, RunOf, Zenon DEF Prepare, Types, Files0
  <2> QED
    BY <1>6, <2>1, <2>2, Zenon DEF Prepare, At
<1>10. ASSUME NEW b \in Boots, Record(b)
      PROVE  Quiet /\ \A s \in Runs : Undisturbed(s)
  <2>1. /\ boot'[b].at = "serving" /\ \A c \in Boots : boot'[c].run = boot[c].run
        /\ \A c \in Boots \ {b} : boot'[c] = boot[c]
    BY <1>10, MoveFacts, Zenon DEF MovingStep
  <2>2. boot[b].run \in launched /\ boot[b].run \in Runs
    BY <1>10, RunOf, Zenon DEF Record, At, LayerInv, BootInv
  <2>3. \A s \in Runs : s = boot[b].run \/ disk'[s].record = disk[s].record
    BY <1>10, <2>2, Zenon DEF Record, Types, Files0
  <2> QED
    BY <1>10, <2>1, <2>2, <2>3, Zenon DEF Record, At
<1>13. ASSUME NEW b \in Boots, StampRecord(b)
      PROVE  Quiet /\ \A s \in Runs : Undisturbed(s)
  <2>1. /\ boot'[b].at = "logging" /\ \A c \in Boots : boot'[c].run = boot[c].run
        /\ \A c \in Boots \ {b} : boot'[c] = boot[c]
    BY <1>13, MoveFacts, Zenon DEF MovingStep
  <2>2. boot[b].run \in launched /\ boot[b].run \in Runs
    BY <1>13, RunOf, Zenon DEF StampRecord, At, LayerInv, BootInv
  <2>3. \A s \in Runs : s = boot[b].run \/ disk'[s].record = disk[s].record
    BY <1>13, <2>2, Zenon DEF StampRecord, Types, Files0
  <2> QED
    BY <1>13, <2>1, <2>2, <2>3, Zenon DEF StampRecord, At
<1>8. ASSUME NEW b \in Boots, Connect(b)
      PROVE  Quiet /\ \A s \in Runs : Undisturbed(s)
  <2>1. /\ boot'[b].at = "connected" /\ \A c \in Boots : boot'[c].run = boot[c].run
        /\ \A c \in Boots \ {b} : boot'[c] = boot[c]
    BY <1>8, MoveFacts, Zenon DEF MovingStep
  <2> QED
    BY <1>8, <2>1, Zenon DEF Connect, At
<1>18. ASSUME NEW b \in Boots, SessionEnds(b)
      PROVE  Quiet /\ \A s \in Runs : Undisturbed(s)
  <2>1. /\ boot'[b].at = "quiescing" /\ \A c \in Boots : boot'[c].run = boot[c].run
        /\ \A c \in Boots \ {b} : boot'[c] = boot[c]
    BY <1>18, MoveFacts, Zenon DEF MovingStep
  <2> QED
    BY <1>18, <2>1, Zenon DEF SessionEnds, At
<1>9. ASSUME NEW b \in Boots, Keep(b)
      PROVE  Quiet /\ \A s \in Runs : Undisturbed(s)
  <2>1. /\ boot'[b].at = "kept" /\ \A c \in Boots : boot'[c].run = boot[c].run
        /\ \A c \in Boots \ {b} : boot'[c] = boot[c]
    BY <1>9, MoveFacts, Zenon DEF MovingStep
  <2> QED
    BY <1>9, <2>1, Zenon DEF Keep, At
<1>11. ASSUME NEW b \in Boots, FindBuffer(b)
      PROVE  Quiet /\ \A s \in Runs : Undisturbed(s)
  <2>1. /\ boot'[b].at = "concluding" /\ \A c \in Boots : boot'[c].run = boot[c].run
        /\ \A c \in Boots \ {b} : boot'[c] = boot[c]
    BY <1>11, MoveFacts, Zenon DEF MovingStep
  <2> QED
    BY <1>11, <2>1, ZenonT(40) DEF FindBuffer, At
<1>12. ASSUME NEW b \in Boots, ReadRecord(b)
      PROVE  Quiet /\ \A s \in Runs : Undisturbed(s)
  <2>1. /\ boot'[b].at = "stamping" /\ \A c \in Boots : boot'[c].run = boot[c].run
        /\ \A c \in Boots \ {b} : boot'[c] = boot[c]
    BY <1>12, MoveFacts, Zenon DEF MovingStep
  <2> QED
    BY <1>12, <2>1, Zenon DEF ReadRecord, At
<1>17. ASSUME NEW b \in Boots, Return(b)
      PROVE  Quiet /\ \A s \in Runs : Undisturbed(s)
  <2>1. /\ boot'[b].at = "returned" /\ \A c \in Boots : boot'[c].run = boot[c].run
        /\ \A c \in Boots \ {b} : boot'[c] = boot[c]
    BY <1>17, MoveFacts, Zenon DEF MovingStep
  <2>2. \A c \in Boots : vm'[c] # "off" => vm[c] # "off"
    BY <1>17 DEF Return, Types
  <2> QED
    BY <1>17, <2>1, <2>2, Zenon DEF Return, At
<1>14. ASSUME NEW b \in Boots, WriteLog(b)
       PROVE  Quiet /\ \A s \in Runs : Undisturbed(s)
  <2>1. /\ boot'[b].at = (IF boot[b].run \in autoRemove THEN "leaving" ELSE "done")
        /\ \A c \in Boots : boot'[c].run = boot[c].run
        /\ \A c \in Boots \ {b} : boot'[c] = boot[c]
    BY <1>14, MoveFacts, Zenon DEF MovingStep
  <2>2. \A s \in Runs : disk'[s].record = disk[s].record
    <3>1. ASSUME NEW f \in Files0, NEW l
          PROVE  [f EXCEPT !.dir = TRUE, !.log = l].record = f.record
      BY DEF Files0
    <3>2. disk \in [Runs -> Files0] /\ boot[b].run \in Runs
      BY RunOf, Zenon DEF Types
    <3>3. CASE disk' = disk
      BY <3>3, Zenon
    <3>4. CASE disk' = [disk EXCEPT ![boot[b].run].dir = TRUE,
                                    ![boot[b].run].log = Capture(boot[b].buffer)]
      <4>1. /\ disk'[boot[b].run] = [disk[boot[b].run] EXCEPT !.dir = TRUE, !.log = Capture(boot[b].buffer)]
            /\ \A s \in Runs \ {boot[b].run} : disk'[s] = disk[s]
        BY <3>2, <3>4, Zenon
      <4>2. disk'[boot[b].run].record = disk[boot[b].run].record
        BY <3>1, <3>2, <4>1
      <4> QED
        BY <4>1, <4>2, Zenon
    <3> QED
      BY <1>14, <3>3, <3>4, Zenon DEF WriteLog
  <2> QED
    BY <1>14, <2>1, <2>2, Zenon DEF WriteLog, At
<1>15. ASSUME NEW b \in Boots, ReclaimOwn(b)
       PROVE  Quiet /\ \A s \in Runs : Undisturbed(s)
  <2>1. /\ boot'[b].at = "done" /\ \A c \in Boots : boot'[c].run = boot[c].run
        /\ \A c \in Boots \ {b} : boot'[c] = boot[c]
    BY <1>15, MoveFacts, Zenon DEF MovingStep
  <2>2. /\ used'.boots = used.boots /\ used.seen \subseteq used'.seen
        /\ \A s \in Runs : disk'[s].record \in {disk[s].record, NoRecord}
    <3>1. CASE Refuse(boot[b].run)
      BY <3>1, RunOf, RefuseTypes, Zenon
    <3>2. CASE disk' = [disk EXCEPT ![boot[b].run] = NoFiles] /\ UNCHANGED used
      BY <3>2, RunOf, Zenon DEF Types, NoFiles
    <3> QED
      BY <1>15, <3>1, <3>2, Zenon DEF ReclaimOwn
  <2> QED
    BY <1>15, <2>1, <2>2, Zenon DEF ReclaimOwn, At
<1>16. ASSUME NEW b \in Boots, VmStops(b)
       PROVE  Quiet /\ \A s \in Runs : Undisturbed(s)
  BY <1>16, Zenon DEF VmStops, Types
<1> QED
  BY <1>1, <1>2, <1>3, <1>4, <1>5, <1>6, <1>7, <1>8, <1>9, <1>10, <1>11, <1>12, <1>13, <1>14,
     <1>15, <1>16, <1>17, <1>18, Zenon

\* An exit is marked on the listed handle: of a run none of whose boots is
\* still to publish its own, or one of which nothing is promised any more.
LEMMA ExitMarked ==
  ASSUME Types, Types', LayerInv, Quiet, NEW r \in Runs, up \/ Undisturbed(r),
         \A s \in Runs \ {r} : Undisturbed(s),
         entry[r].kind = "live", entry'[r] = [entry[r] EXCEPT !.exited = TRUE],
         removing'[r] = removing[r], disk'[r] = disk[r],
         \A b \in Boots : boot[b].run = r =>
           /\ boot'[b].at \in Ending => r \in autoRemove
           /\ boot'[b].at = boot[b].at \/ (boot[b].at \in Active \cup Over /\ boot'[b].at \in Over)
           /\ Quiesced(r)' => boot'[b].at \notin Active /\ (boot'[b].at \in Over => vm'[b] = "off")
  PROVE  LayerInv'
<1>1. entry[r] \in Entries /\ RunInv(r)
  BY DEF Types, LayerInv
<1>2. entry[r] # NoEntry /\ removing[r] = NoEntry
  BY <1>1, EntryFacts DEF RunInv
<1>3. entry'[r].kind = "live" /\ entry'[r].boot = entry[r].boot
  BY <1>1 DEF Entries
<1>4. ASSUME NEW b \in Boots, boot[b].run = r PROVE BootInv(b)'
  <2>1. BootInv(b) /\ boot'[b].run = r
    BY <1>4 DEF LayerInv, Quiet
  <2>2. Quiesced(r)' => Quiesced(r)
    BY QuiescedBefore
  <2>3. ~ (Quiesced(r) /\ boot[b].at = "aborted" /\ vm[b] # "off")
    BY <1>2, <1>4, <2>1 DEF BootInv
  <2>4. boot'[b].at = "unused" <=> boot[b].at = "unused"
    BY <1>4 DEF Active, Over
  <2>5. boot'[b].at = "aborted" => boot[b].at = "aborted"
    BY <1>4 DEF Over
  <2>6. /\ b > used'.boots => boot'[b].at = "unused"
        /\ boot'[b].at = "unused" => vm'[b] = "off"
        /\ boot'[b].at # "unused" => r \in launched'
        /\ boot'[b].at \in Ending => r \in autoRemove'
    BY <1>4, <2>1, <2>4 DEF BootInv, Quiet
  <2>7. Quiesced(r)' => ~ (boot'[b].at = "aborted" /\ vm'[b] # "off")
    BY <2>2, <2>3, <2>5 DEF Quiet
  <2> QED
    BY <1>4, <2>1, <2>6, <2>7 DEF BootInv, Ending
<1>5. RunInv(r)'
  <2>1. HandleOK(r, entry'[r], boot')
    BY <1>1, <1>3, SMTT(30) DEF RunInv, HandleOK, Quiet, Over, Active
  <2>2. HandleOK(r, removing'[r], boot')
    BY <1>2, EntryFacts DEF HandleOK
  <2>3. r \in launched /\ up
    BY <1>1, <1>2 DEF RunInv
  <2> QED
    BY <1>2, <2>1, <2>2, <2>3 DEF RunInv, Quiet
<1> QED
  BY <1>4, <1>5, AboutOneRun

\* mark_exited_from_log marks a handle whose own log is closed.
LEMMA MarkExitedStep ==
  ASSUME Types, Types', LayerInv, NEW r \in Runs, MarkExited(r)
  PROVE  LayerInv'
<1>1. Quiet /\ \A s \in Runs \ {r} : Undisturbed(s)
  BY DEF MarkExited, Quiet, Undisturbed, SameStage, Types
<1>2. entry[r].kind = "live" /\ entry'[r] = [entry[r] EXCEPT !.exited = TRUE]
  BY DEF MarkExited, IsLive, Types
<1>3. RunInv(r)
  BY DEF LayerInv
<1>4. entry[r] # NoEntry /\ entry[r].boot \in Boots
  BY <1>2, <1>3, EntryFacts DEF RunInv, HandleOK
<1>5. up
  BY <1>3, <1>4, Zenon DEF RunInv
<1>6. boot[entry[r].boot].at \in Over
  BY DEF MarkExited, Closed, Over
<1>7. ASSUME NEW b \in Boots, boot[b].run = r
      PROVE  /\ boot'[b].at = boot[b].at /\ vm'[b] = vm[b] /\ BootInv(b)
             /\ Quiesced(r)' => Quiesced(r) /\ boot[b].at \notin Active
  <2>1. boot' = boot /\ vm' = vm /\ BootInv(b)
    BY DEF MarkExited, LayerInv
  <2>2. Quiesced(r)' => Quiesced(r)
    BY <1>1, QuiescedBefore
  <2>3. Quiesced(r) /\ boot[b].at \in Active => entry[r].boot = b
    BY <1>7, <2>1, EntryFacts, Zenon DEF BootInv
  <2>4. ~ (Quiesced(r) /\ boot[b].at \in Active)
    BY <1>6, <2>3 DEF Active, Over
  <2> QED
    BY <2>1, <2>2, <2>4
<1>8. removing'[r] = removing[r] /\ disk'[r] = disk[r]
  BY DEF MarkExited
<1>9. \A b \in Boots : boot[b].run = r =>
           /\ boot'[b].at \in Ending => r \in autoRemove
           /\ boot'[b].at = boot[b].at
           /\ Quiesced(r)' => boot'[b].at \notin Active /\ (boot'[b].at \in Over => vm'[b] = "off")
  BY <1>7, Zenon DEF BootInv, Ending
<1> QED
  BY <1>1, <1>2, <1>5, <1>8, <1>9, ExitMarked

\* Of a run of which nothing is promised any more there is little to keep.
LEMMA NotPromised ==
  ASSUME Types, Types', LayerInv, Quiet, NEW r \in Runs, up \/ Undisturbed(r),
         \A s \in Runs \ {r} : Undisturbed(s), ~ Quiesced(r)', RunInv(r)',
         \A b \in Boots : boot[b].run = r =>
           /\ boot'[b].at \in Ending => r \in autoRemove
           /\ boot'[b].at = boot[b].at \/ (boot[b].at \in Active \cup Over /\ boot'[b].at \in Over)
  PROVE  LayerInv'
<1>1. ASSUME NEW b \in Boots, boot[b].run = r PROVE BootInv(b)'
  <2>1. BootInv(b) /\ boot'[b].run = r
    BY <1>1, Zenon DEF LayerInv, Quiet
  <2>2. boot'[b].at = "unused" <=> boot[b].at = "unused"
    BY <1>1 DEF Active, Over
  <2> QED
    BY <1>1, <2>1, <2>2, Zenon DEF BootInv, Quiet, Ending
<1> QED
  BY <1>1, AboutOneRun, Zenon

\* publish_exit_after_quiesce waits for the VM, or counts it as late.
LEMMA PublishStep ==
  ASSUME Types, Types', LayerInv, NEW b \in Boots, Publish(b)
  PROVE  LayerInv'
<1> SUFFICES ASSUME NEW r \in Runs, boot[b].run = r PROVE LayerInv'
  BY RunOf
<1>1. r \in Runs /\ boot[b].at = "quiescing" /\ BootInv(b) /\ RunInv(r)
  BY Stages, Zenon DEF Publish, At, LayerInv
<1>2. \A c \in Boots : boot'[c].run = boot[c].run /\ (c # b => boot'[c] = boot[c])
  BY GoesFields DEF Publish, Types
<1>3. boot'[b].at = "published"
  BY GoesFields DEF Publish, Types
<1>4. used'.boots = used.boots /\ used.seen \subseteq used'.seen
      /\ (vm[b] # "off" => "late" \in used'.seen)
  BY FaultTypes, Zenon DEF Publish
<1>5. Quiet
  BY <1>2, <1>4, Zenon DEF Quiet, Publish
<1>6. \A s \in Runs \ {r} : entry'[s] = entry[s]
  BY DEF Publish, SetExitCode, Types
<1>7. \A s \in Runs \ {r} : Undisturbed(s)
  BY <1>2, <1>6, Zenon DEF Undisturbed, SameStage, Publish
<1>8. up
  BY <1>1 DEF LayerInv, DownInv
<1>9. ASSUME Quiesced(r)' PROVE vm'[b] = "off" /\ Quiesced(r) /\ entry[r] = Live(b)
  <2>1. Quiesced(r) /\ vm[b] = "off"
    BY <1>1, <1>4, <1>5, <1>9, QuiescedBefore, Zenon DEF Quiesced
  <2> QED
    BY <1>1, <2>1, Zenon DEF Publish, BootInv, Active
<1>10. ASSUME NEW c \in Boots, boot[c].run = r
       PROVE  /\ boot'[c].at \in Ending => r \in autoRemove
              /\ boot'[c].at = boot[c].at \/ (boot[c].at \in Active \cup Over /\ boot'[c].at \in Over)
              /\ Quiesced(r)' => boot'[c].at \notin Active /\ (boot'[c].at \in Over => vm'[c] = "off")
  <2>1. CASE c = b
    BY <1>1, <1>3, <1>9, <2>1, Zenon DEF Active, Over, Ending
  <2>2. CASE c # b
    <3>1. boot'[c] = boot[c] /\ BootInv(c) /\ vm'[c] = vm[c]
      BY <1>2, <2>2, Zenon DEF LayerInv, Publish
    <3>2. Quiesced(r)' => boot[c].at \notin Active
      <4>1. Live(b).boot = b /\ Live(c).boot = c
        BY EntryFacts, Zenon
      <4> QED
        BY <1>9, <1>10, <2>2, <3>1, <4>1, Zenon DEF BootInv
    <3> QED
      BY <1>9, <1>10, <3>1, <3>2, Zenon DEF BootInv, Ending
  <2> QED
    BY <2>1, <2>2
<1>11. CASE entry[r].kind = "live"
  <2>1. entry'[r] = [entry[r] EXCEPT !.exited = TRUE] /\ removing'[r] = removing[r] /\ disk'[r] = disk[r]
    BY <1>1, <1>11 DEF Publish, SetExitCode, Types
  <2> QED
    BY <1>1, <1>5, <1>7, <1>8, <1>10, <1>11, <2>1, ExitMarked
<1>12. CASE entry[r].kind # "live"
  <2>1. entry' = entry /\ removing' = removing /\ disk' = disk
    BY <1>12 DEF Publish, SetExitCode
  <2>2. ~ Quiesced(r)'
    BY <1>9, <1>12, EntryFacts, Zenon
  <2>3. RunInv(r)'
    <3>1. \A e : HandleOK(r, e, boot) => HandleOK(r, e, boot')
      BY <1>1, <1>2, <1>3 DEF HandleOK
    <3> QED
      BY <1>1, <2>1, <3>1, Zenon DEF RunInv, Publish
  <2> QED
    BY <1>1, <1>5, <1>7, <1>8, <1>10, <2>2, <2>3, NotPromised, Zenon
<1> QED
  BY <1>11, <1>12

\* The end of a --rm run marks the exit and takes the run out by its id.
LEMMA LeaveSteps ==
  ASSUME Types, Types', LayerInv, NEW b \in Boots, Leave(b) \/ LeaveRegistry(b)
  PROVE  LayerInv'
<1> SUFFICES ASSUME NEW r \in Runs, boot[b].run = r PROVE LayerInv'
  BY RunOf
<1>1. r \in Runs /\ boot[b].at \in {"leaving", "left"} /\ BootInv(b) /\ RunInv(r)
  BY Stages, Zenon DEF Leave, LeaveRegistry, At, LayerInv
<1>2. r \in autoRemove
  BY <1>1, Zenon DEF BootInv
<1>3. \A c \in Boots : boot'[c].run = boot[c].run /\ (c # b => boot'[c] = boot[c])
  BY DEF Leave, LeaveRegistry, Goes, Types, Task0
<1>4. boot'[b].at \in {"left", "reclaiming", "done"}
  BY DEF Leave, LeaveRegistry, Goes, Types, Task0
<1>5. Quiet /\ ~ Quiesced(r)'
  BY <1>2, <1>3, Zenon DEF Quiet, Leave, LeaveRegistry, Quiesced
<1>6. \A s \in Runs \ {r} : entry'[s] = entry[s]
  BY DEF Leave, LeaveRegistry, SetExitCode, Without, Types
<1>7. \A s \in Runs \ {r} : Undisturbed(s)
  BY <1>3, <1>6, Zenon DEF Undisturbed, SameStage, Leave, LeaveRegistry
<1>8. up
  BY <1>1, Zenon DEF LayerInv, DownInv
<1>9. \A c \in Boots : boot[c].run = r =>
        /\ boot'[c].at \in Ending => r \in autoRemove
        /\ boot'[c].at = boot[c].at \/ (boot[c].at \in Active \cup Over /\ boot'[c].at \in Over)
  BY <1>1, <1>2, <1>3, <1>4, Zenon DEF Over
<1>10. RunInv(r)'
  <2>1. \A e : HandleOK(r, e, boot) => HandleOK(r, e, boot')
    BY <1>3, <1>4, Zenon DEF HandleOK
  <2>2. entry[r] \in Entries
    BY <1>1 DEF Types
  <2>3. \/ entry'[r] = entry[r]
        \/ entry'[r] = NoEntry
        \/ entry[r].kind = "live" /\ entry'[r] = [entry[r] EXCEPT !.exited = TRUE]
    BY <1>1 DEF Leave, LeaveRegistry, SetExitCode, Without, Types
  <2>4. HandleOK(r, entry'[r], boot')
    <3>1. HandleOK(r, NoEntry, boot')
      BY EntryFacts DEF HandleOK
    <3>2. ASSUME entry[r].kind = "live", entry'[r] = [entry[r] EXCEPT !.exited = TRUE]
          PROVE  HandleOK(r, entry'[r], boot')
      <4>1. entry'[r].kind = "live" /\ entry'[r].boot = entry[r].boot
        BY <2>2, <3>2 DEF Entries
      <4>2. HandleOK(r, entry[r], boot')
        BY <1>1, <2>1, Zenon DEF RunInv
      <4> QED
        BY <3>2, <4>1, <4>2 DEF HandleOK
    <3> QED
      BY <1>1, <2>1, <2>3, <3>1, <3>2 DEF RunInv
  <2>5. HandleOK(r, removing'[r], boot') /\ removing'[r] = removing[r] /\ disk'[r] = disk[r]
    BY <1>1, <2>1, Zenon DEF RunInv, Leave, LeaveRegistry
  <2>6. entry'[r] = NoEntry \/ (entry[r] # NoEntry /\ removing[r] = NoEntry)
    BY <1>1, <2>3, EntryFacts DEF RunInv
  <2>7. r \in launched
    BY <1>1 DEF BootInv
  <2> QED
    BY <1>8, <2>4, <2>5, <2>6, <2>7, <1>5, Zenon DEF RunInv, Quiet
<1> QED
  BY <1>1, <1>5, <1>7, <1>8, <1>9, <1>10, NotPromised, Zenon

\* rm and prune take out, and put back, only runs that are listed as exited.
LEMMA TakenOut ==
  ASSUME Types, LayerInv, NEW r \in Runs, IsExited(r) \/ removing[r] # NoEntry
  PROVE  \A b \in Boots : boot[b].run = r /\ Quiesced(r) =>
           boot[b].at \notin Active /\ ~ (boot[b].at = "aborted" /\ vm[b] # "off")
<1> SUFFICES ASSUME NEW b \in Boots, boot[b].run = r, Quiesced(r)
             PROVE  boot[b].at \notin Active /\ ~ (boot[b].at = "aborted" /\ vm[b] # "off")
  OBVIOUS
<1>1. BootInv(b) /\ RunInv(r)
  BY DEF LayerInv
<1>2. entry[r] # Live(b)
  BY <1>1, EntryFacts DEF IsExited, RunInv
<1>3. entry[r] # NoEntry \/ removing[r] # NoEntry
  BY EntryFacts, Zenon DEF IsExited
<1> QED
  BY <1>1, <1>2, <1>3, Zenon DEF BootInv

\* lns rm takes the entry out.
LEMMA RemoveTakeStep ==
  ASSUME Types, Types', LayerInv, NEW r \in Runs, RemoveTake(r)
  PROVE  LayerInv'
<1>1. Quiet /\ \A s \in Runs \ {r} : Undisturbed(s)
  BY Zenon DEF RemoveTake, Quiet, Undisturbed, SameStage, Without, Types
<1>2. entry'[r] = NoEntry /\ removing'[r] = entry[r] /\ boot' = boot /\ vm' = vm
  BY Zenon DEF RemoveTake, Without, Types
<1>3. RunInv(r) /\ up /\ entry[r] # NoEntry
  BY EntryFacts, Zenon DEF LayerInv, RemoveTake, IsExited
<1>4. \A b \in Boots : boot[b].run = r => BootInv(b)'
  <2> SUFFICES ASSUME NEW b \in Boots, boot[b].run = r PROVE BootInv(b)'
    OBVIOUS
  <2>1. BootInv(b) /\ (Quiesced(r)' => Quiesced(r))
    BY <1>1, QuiescedBefore DEF LayerInv
  <2>2. Quiesced(r) => boot[b].at \notin Active /\ ~ (boot[b].at = "aborted" /\ vm[b] # "off")
    BY TakenOut DEF RemoveTake
  <2> QED
    BY <1>1, <1>2, <2>1, <2>2, Zenon DEF BootInv, Quiet
<1>5. RunInv(r)'
  <2>1. HandleOK(r, NoEntry, boot')
    BY EntryFacts DEF HandleOK
  <2> QED
    BY <1>1, <1>2, <1>3, <2>1, Zenon DEF RunInv, Quiet
<1> QED
  BY <1>1, <1>3, <1>4, <1>5, AboutOneRun, Zenon

\* And puts it back where the files refuse to go.
LEMMA RemoveRestoreStep ==
  ASSUME Types, Types', LayerInv, NEW r \in Runs, RemoveRestore(r)
  PROVE  LayerInv'
<1>1. /\ \A s \in Runs : disk'[s].record \in {disk[s].record, NoRecord}
      /\ used'.boots = used.boots /\ used.seen \subseteq used'.seen
  BY RefuseTypes DEF RemoveRestore
<1>2. Quiet /\ \A s \in Runs \ {r} : Undisturbed(s)
  BY <1>1, Zenon DEF RemoveRestore, Quiet, Undisturbed, SameStage, Types
<1>3. entry'[r] = removing[r] /\ removing'[r] = NoEntry /\ boot' = boot /\ vm' = vm
  BY Zenon DEF RemoveRestore, Types
<1>4. RunInv(r) /\ up /\ removing[r] # NoEntry
  BY Zenon DEF LayerInv, RemoveRestore, RunInv
<1>5. \A b \in Boots : boot[b].run = r => BootInv(b)'
  <2> SUFFICES ASSUME NEW b \in Boots, boot[b].run = r PROVE BootInv(b)'
    OBVIOUS
  <2>1. BootInv(b) /\ (Quiesced(r)' => Quiesced(r))
    BY <1>2, QuiescedBefore DEF LayerInv
  <2>2. Quiesced(r) => boot[b].at \notin Active /\ ~ (boot[b].at = "aborted" /\ vm[b] # "off")
    BY <1>4, TakenOut
  <2> QED
    BY <1>2, <1>3, <2>1, <2>2, Zenon DEF BootInv, Quiet
<1>6. RunInv(r)'
  <2>1. HandleOK(r, NoEntry, boot')
    BY EntryFacts DEF HandleOK
  <2> QED
    BY <1>1, <1>2, <1>3, <1>4, <2>1, Zenon DEF RunInv, Quiet
<1> QED
  BY <1>2, <1>4, <1>5, <1>6, AboutOneRun, Zenon

\* A prune takes every exited run out at once.
LEMMA PruneTakeStep ==
  ASSUME Types, Types', LayerInv, PruneTake
  PROVE  LayerInv'
<1>1. Quiet
  BY Zenon DEF PruneTake, Quiet
<1>2. \A r \in Runs : entry'[r] = IF IsExited(r) THEN NoEntry ELSE entry[r]
  BY DEF PruneTake, Without
<1>3. boot' = boot /\ vm' = vm /\ removing' = removing /\ disk' = disk
  BY DEF PruneTake
<1>4. ASSUME NEW b \in Boots PROVE BootInv(b)'
  <2> SUFFICES ASSUME NEW r \in Runs, boot[b].run = r PROVE BootInv(b)'
    BY RunOf
  <2>1. BootInv(b)
    BY DEF LayerInv
  <2>2. Quiesced(r)' => Quiesced(r)
    BY <1>1, <2>1, QuiescedBefore, Zenon
  <2>3. IsExited(r) /\ Quiesced(r) => boot[b].at \notin Active /\ ~ (boot[b].at = "aborted" /\ vm[b] # "off")
    BY <2>1, TakenOut
  <2> QED
    BY <1>1, <1>2, <1>3, <2>1, <2>2, <2>3, Zenon DEF BootInv, Quiet
<1>5. ASSUME NEW r \in Runs PROVE RunInv(r)'
  <2>1. RunInv(r) /\ HandleOK(r, NoEntry, boot')
    BY EntryFacts, Zenon DEF LayerInv, HandleOK
  <2> QED
    BY <1>1, <1>2, <1>3, <1>5, <2>1, Zenon DEF RunInv, Quiet
<1>6. DownInv'
  BY <1>1 DEF DownInv, Quiet, PruneTake
<1> QED
  BY <1>1, <1>4, <1>5, <1>6, NoNewVm DEF LayerInv

\* A cancelled task is dropped and its run is listed no more.
LEMMA CancelStep ==
  ASSUME Types, Types', LayerInv, NEW r \in Runs, Cancel(r)
  PROVE  LayerInv'
<1> DEFINE b == entry[r].boot
<1>1. RunInv(r) /\ up /\ entry[r].kind = "live"
  BY DEF LayerInv, Cancel, IsLive
<1>2. b \in Boots /\ boot[b].run = r /\ boot[b].at # "unused" /\ removing[r] = NoEntry /\ r \in launched
  BY <1>1, EntryFacts, Zenon DEF RunInv, HandleOK
<1>3. boot' = [boot EXCEPT ![b] = Aborted(boot[b])] /\ boot[b] \in Task0
  BY <1>2, Zenon DEF Cancel, Dropped, Types
<1>4. boot'[b].run = r /\ boot'[b].at = "aborted" /\ \A c \in Boots \ {b} : boot'[c] = boot[c]
  BY <1>2, <1>3 DEF Types, Aborted, Task0
<1>5. \A c \in Boots : vm'[c] # "off" => vm[c] # "off"
  BY <1>2, Zenon DEF Cancel, Dropped, Types
<1>6. \A s \in Runs : disk'[s].record \in {disk[s].record, NoRecord}
  BY <1>2, Zenon DEF Cancel, Dropped, Types, NoFiles
<1>7. Quiet
  BY <1>2, <1>4, <1>5, FaultTypes, Zenon DEF Quiet, Cancel
<1>8. \A s \in Runs : entry'[s] = IF s = r THEN NoEntry ELSE entry[s]
  BY DEF Cancel, Without
<1>9. removing' = removing
  BY DEF Cancel
<1> HIDE DEF b
<1>10. \A s \in Runs \ {r} : Undisturbed(s)
  BY <1>2, <1>4, <1>6, <1>8, <1>9 DEF Undisturbed, SameStage
<1>11. ASSUME NEW c \in Boots, boot[c].run = r PROVE BootInv(c)'
  <2>1. BootInv(c) /\ boot'[c].run = r
    BY <1>11, <1>7 DEF LayerInv, Quiet
  <2>2. Quiesced(r)' => Quiesced(r)
    BY <1>7, QuiescedBefore
  <2>3. CASE c = b
    <3>1. ~ (b > used.boots)
      BY <1>2, <2>1, <2>3, Zenon DEF BootInv
    <3> QED
      BY <1>2, <1>4, <1>7, <1>8, <1>9, <2>1, <2>3, <3>1, Zenon DEF BootInv, Quiet, Active, Over
  <2>4. CASE c # b
    <3>1. boot'[c] = boot[c]
      BY <1>4, <2>4, Zenon
    <3>2. Quiesced(r) => boot[c].at \notin Active
      BY <1>11, <2>1, <2>4, EntryFacts, Zenon DEF BootInv, b
    <3> QED
      BY <1>2, <1>5, <1>7, <1>8, <1>9, <1>11, <2>1, <2>2, <3>1, <3>2, Zenon DEF BootInv, Quiet
  <2> QED
    BY <2>3, <2>4
<1>12. RunInv(r)'
  <2>1. HandleOK(r, NoEntry, boot')
    BY EntryFacts DEF HandleOK
  <2> QED
    BY <1>1, <1>2, <1>7, <1>8, <1>9, <2>1, Zenon DEF RunInv, Quiet
<1> QED
  BY <1>1, <1>7, <1>10, <1>11, <1>12, AboutOneRun

\* The number of the next boot is one no boot has had.
LEMMA NextNumber ==
  ASSUME NEW k \in Nat
  PROVE  k + 1 > k /\ ~ (k + 1 > k + 1) /\ \A b \in Nat : b > k + 1 => b > k
OBVIOUS

\* A boot begins for a run none of whose boots is under way: one just launched,
\* or one still listed as exited.
LEMMA BeginStep ==
  ASSUME Types, Types', LayerInv, NEW r \in Runs, NEW fresh \in BOOLEAN, NEW log \in SUBSET Boots,
         BeginBoot(r, fresh, log), up, removing[r] = NoEntry,
         \A b \in Boots : boot[b].run = r /\ Quiesced(r) =>
           boot[b].at \notin Active /\ ~ (boot[b].at = "aborted" /\ vm[b] # "off"),
         launched' = launched \cup {r}, autoRemove' \in {autoRemove, autoRemove \cup {r}},
         up' = up, vm' = vm, disk' = disk, removing' = removing
  PROVE  LayerInv'
<1> DEFINE n == used.boots + 1
<1>1. n \in Boots /\ used'.boots = n /\ used'.seen = used.seen /\ used.boots \in Nat
  BY RunLifecycleAssumption DEF Types, Used0, BeginBoot, Boots
<1>2. BootInv(n) /\ boot[n].at = "unused" /\ vm[n] = "off"
  <2>1. n > used.boots
    BY <1>1, NextNumber, Zenon DEF n
  <2> HIDE DEF n
  <2> QED
    BY <1>1, <2>1, Zenon DEF LayerInv, BootInv
<1>3. boot'[n].run = r /\ boot'[n].at = "starting" /\ \A c \in Boots \ {n} : boot'[c] = boot[c]
  <2>1. NoTask \in Task0
    BY Constants0, Zenon
  <2>2. [NoTask EXCEPT !.run = r, !.at = "starting", !.armed = fresh, !.restored = log].run = r
        /\ [NoTask EXCEPT !.run = r, !.at = "starting", !.armed = fresh, !.restored = log].at = "starting"
    BY <2>1 DEF Task0
  <2>3. boot' = [boot EXCEPT ![n] =
                   [NoTask EXCEPT !.run = r, !.at = "starting", !.armed = fresh, !.restored = log]]
    BY DEF BeginBoot
  <2> QED
    BY <1>1, <2>2, <2>3 DEF Types
<1>4. \A s \in Runs : entry'[s] = IF s = r THEN Live(n) ELSE entry[s]
  BY DEF BeginBoot, Types
<1> HIDE DEF n
<1>5. \A s \in Runs : Quiesced(s)' => Quiesced(s)
  BY <1>1, Zenon DEF Quiesced
<1>6. ASSUME NEW b \in Boots PROVE BootInv(b)'
  <2>1. CASE b = n
    <3>1. ~ (n > used'.boots)
      BY <1>1, NextNumber, Zenon DEF n
    <3>2. "starting" \notin Over
      BY DEF Over
    <3> QED
      BY <1>3, <1>4, <2>1, <3>1, <3>2, Zenon DEF BootInv
  <2>2. CASE b # n
    <3>1. boot'[b] = boot[b] /\ BootInv(b) /\ boot[b].run \in Runs
      BY <1>3, <2>2, Stages, Zenon DEF LayerInv
    <3>2. b > used'.boots => boot'[b].at = "unused"
      <4>1. b \in Nat
        BY DEF Boots
      <4>2. b > n => b > used.boots
        BY <1>1, <4>1, NextNumber, Zenon DEF n
      <4> QED
        BY <1>1, <3>1, <4>2, Zenon DEF BootInv
    <3>3. Quiesced(boot[b].run)' => Quiesced(boot[b].run)
      BY <1>5, <3>1, Zenon
    <3> QED
      BY <1>4, <3>1, <3>2, <3>3, Zenon DEF BootInv
  <2> QED
    BY <2>1, <2>2, Zenon
<1>7. ASSUME NEW s \in Runs PROVE RunInv(s)'
  <2>1. RunInv(s)
    BY DEF LayerInv
  <2>2. \A e : HandleOK(s, e, boot) => HandleOK(s, e, boot')
    <3> SUFFICES ASSUME NEW e, HandleOK(s, e, boot), e.kind = "live"
                 PROVE  e.boot \in Boots /\ boot'[e.boot].run = s
                        /\ boot'[e.boot].at \notin {"unused", "aborted"}
      BY Zenon DEF HandleOK
    <3>1. e.boot \in Boots /\ boot[e.boot].run = s /\ boot[e.boot].at \notin {"unused", "aborted"}
      BY Zenon DEF HandleOK
    <3> QED
      BY <1>2, <1>3, <3>1, Zenon
  <2>3. HandleOK(r, Live(n), boot')
    <3>1. Live(n).kind = "live" /\ Live(n).boot = n
      BY EntryFacts, Zenon
    <3>2. "starting" \notin {"unused", "aborted"} /\ "live" # "none"
      OBVIOUS
    <3> QED
      BY <1>1, <1>3, <3>1, <3>2, Zenon DEF HandleOK
  <2> QED
    BY <1>4, <2>1, <2>2, <2>3, Zenon DEF RunInv
<1>8. DownInv'
  BY Zenon DEF DownInv
<1>9. OneVmPerLayer'
  <2> SUFFICES ASSUME NEW b \in Boots, NEW c \in Boots, b # c, vm[b] # "off", vm[c] # "off",
                      boot'[b].run = boot'[c].run
               PROVE  ~ Quiesced(boot[b].run)'
    BY Zenon DEF OneVmPerLayer
  <2>1. b # n /\ c # n
    BY <1>2, Zenon
  <2>2. boot'[b] = boot[b] /\ boot'[c] = boot[c] /\ boot[b].run \in Runs
    BY <1>3, <2>1, Stages, Zenon
  <2>3. ~ Quiesced(boot[b].run)
    BY <2>2, Zenon DEF LayerInv, OneVmPerLayer
  <2> QED
    BY <1>1, <2>2, <2>3, Zenon DEF Quiesced
<1> QED
  BY <1>6, <1>7, <1>8, <1>9, Zenon DEF LayerInv

\* lns run and lns start.
LEMMA StartSteps ==
  ASSUME Types, Types', LayerInv,
         (\E r \in Runs : Run(r)) \/ (\E c \in Clients : StartGo(c))
  PROVE  LayerInv'
<1>1. ASSUME NEW r \in Runs, Run(r) PROVE LayerInv'
  <2>1. RunInv(r) /\ r \notin launched
    BY <1>1 DEF Run, LayerInv
  <2>2. removing[r] = NoEntry
    BY <2>1, Zenon DEF RunInv
  <2>3. \A b \in Boots : boot[b].run = r => boot[b].at = "unused"
    BY <2>1, Zenon DEF LayerInv, BootInv
  <2>4. \A b \in Boots : boot[b].run = r =>
          boot[b].at \notin Active /\ ~ (boot[b].at = "aborted" /\ vm[b] # "off")
    BY <2>3 DEF Active
  <2>5. /\ BeginBoot(r, TRUE, {}) /\ up
        /\ launched' = launched \cup {r} /\ autoRemove' \in {autoRemove, autoRemove \cup {r}}
        /\ up' = up /\ vm' = vm /\ disk' = disk /\ removing' = removing
    BY <1>1, Zenon DEF Run
  <2> QED
    BY <2>2, <2>4, <2>5, BeginStep, Zenon
<1>2. ASSUME NEW c \in Clients, StartGo(c) PROVE LayerInv'
  <2> DEFINE r == starting[c].run
  <2>1. r \in Runs /\ starting[c].log \in SUBSET Boots
    BY DEF Types, Start0
  <2>2. CASE IsExited(r)
    <3>1. RunInv(r) /\ entry[r] # NoEntry
      BY <2>1, <2>2, EntryFacts DEF LayerInv, IsExited
    <3>2. removing[r] = NoEntry /\ up /\ r \in launched
      BY <3>1, Zenon DEF RunInv
    <3>3. \A b \in Boots : boot[b].run = r /\ Quiesced(r) =>
            boot[b].at \notin Active /\ ~ (boot[b].at = "aborted" /\ vm[b] # "off")
      BY <2>1, <2>2, TakenOut, Zenon
    <3>4. /\ BeginBoot(r, FALSE, starting[c].log)
          /\ launched' = launched \cup {r} /\ autoRemove' \in {autoRemove, autoRemove \cup {r}}
          /\ up' = up /\ vm' = vm /\ disk' = disk /\ removing' = removing
      BY <1>2, <2>2, <3>2, Zenon DEF StartGo
    <3> HIDE DEF r
    <3> QED
      BY <2>1, <3>2, <3>3, <3>4, BeginStep, Zenon
  <2>3. CASE ~ IsExited(r)
    <3>1. Quiet /\ \A s \in Runs : Undisturbed(s)
      BY <1>2, <2>3, Zenon DEF StartGo, Quiet, Undisturbed, SameStage
    <3> QED
      BY <3>1, AboutNoRun
  <2> QED
    BY <2>2, <2>3
<1> QED
  BY <1>1, <1>2

\* The VM of the boot that is listed starts.
LEMMA BootVmStep ==
  ASSUME Types, Types', LayerInv, NEW b \in Boots, BootVm(b)
  PROVE  LayerInv'
<1>1. boot[b].at = "provisioning" /\ BootInv(b) /\ boot[b].run \in Runs
  BY Stages, Zenon DEF BootVm, At, LayerInv
<1>2. boot'[b].run = boot[b].run /\ boot'[b].at = "booting" /\ \A c \in Boots \ {b} : boot'[c] = boot[c]
  BY GoesFields DEF BootVm, Types
<1>3. \A c \in Boots \ {b} : vm'[c] = vm[c]
  BY DEF BootVm, Types
<1>4. /\ up' = up /\ entry' = entry /\ disk' = disk /\ removing' = removing
      /\ launched' = launched /\ autoRemove' = autoRemove /\ used' = used
  BY DEF BootVm
<1>5. \A s : Quiesced(s)' <=> Quiesced(s)
  BY <1>4 DEF Quiesced
<1>6. ASSUME NEW c \in Boots PROVE BootInv(c)'
  <2>1. CASE c = b
    BY <1>1, <1>2, <1>4, <1>5, <2>1, Zenon DEF BootInv, Active, Over
  <2>2. CASE c # b
    <3>1. boot'[c] = boot[c] /\ vm'[c] = vm[c] /\ BootInv(c)
      BY <1>2, <1>3, <2>2, Zenon DEF LayerInv
    <3> QED
      BY <1>4, <1>5, <3>1, Zenon DEF BootInv
  <2> QED
    BY <2>1, <2>2
<1>7. ASSUME NEW s \in Runs PROVE RunInv(s)'
  <2>1. \A e : HandleOK(s, e, boot) => HandleOK(s, e, boot')
    BY <1>1, <1>2, Zenon DEF HandleOK
  <2>2. RunInv(s)
    BY DEF LayerInv
  <2> QED
    BY <1>4, <2>1, <2>2, Zenon DEF RunInv
<1>8. DownInv'
  BY <1>1, <1>4, Zenon DEF LayerInv, DownInv
<1>9. OneVmPerLayer'
  <2> SUFFICES ASSUME NEW c \in Boots, NEW d \in Boots, c # d, vm'[c] # "off", vm'[d] # "off",
                      boot'[c].run = boot'[d].run
               PROVE  ~ Quiesced(boot[c].run)'
    BY DEF OneVmPerLayer
  <2>1. boot'[c].run = boot[c].run /\ boot[c].run = boot[d].run
    BY <1>2
  <2>2. boot[b].at \in Active
    BY <1>1 DEF Active
  <2>3. CASE c = b
    BY <1>3, <2>1, <2>2, <2>3, Alone, <1>5, Zenon
  <2>4. CASE d = b
    BY <1>3, <2>1, <2>2, <2>4, Alone, <1>5, Zenon
  <2>5. CASE c # b /\ d # b
    <3>1. ~ Quiesced(boot[c].run)
      BY <1>3, <2>1, <2>5, Zenon DEF LayerInv, OneVmPerLayer
    <3> QED
      BY <1>5, <2>1, <3>1, Zenon
  <2> QED
    BY <2>3, <2>4, <2>5
<1> QED
  BY <1>6, <1>7, <1>8, <1>9 DEF LayerInv

\* After a boot that failed nothing is promised of any run.
LEMMA FailStep ==
  ASSUME Types, Types', LayerInv, NEW b \in Boots, Fail(b)
  PROVE  LayerInv'
<1>1. boot[b].at \in Active /\ BootInv(b)
  BY DEF Fail, Active, LayerInv
<1>2. boot'[b].run = boot[b].run /\ boot'[b].at = "returned" /\ \A c \in Boots \ {b} : boot'[c] = boot[c]
  BY DEF Fail, Types, Task0
<1>3. \A c \in Boots \ {b} : vm'[c] = vm[c]
  BY DEF Fail, Types
<1>4. /\ up' = up /\ entry' = entry /\ removing' = removing /\ launched' = launched
      /\ autoRemove' = autoRemove /\ used'.boots = used.boots /\ "fail" \in used'.seen
  BY FaultTypes DEF Fail
<1>5. \A s : ~ Quiesced(s)'
  BY <1>4 DEF Quiesced
<1>6. \A s \in Runs : disk'[s].record \in {disk[s].record, NoRecord}
  BY Stages DEF Fail, Types, NoFiles
<1>7. ASSUME NEW c \in Boots PROVE BootInv(c)'
  <2>1. CASE c = b
    BY <1>1, <1>2, <1>4, <1>5, <2>1, Zenon DEF BootInv, Active
  <2>2. CASE c # b
    <3>1. boot'[c] = boot[c] /\ vm'[c] = vm[c] /\ BootInv(c)
      BY <1>2, <1>3, <2>2, Zenon DEF LayerInv
    <3> QED
      BY <1>4, <1>5, <3>1, Zenon DEF BootInv
  <2> QED
    BY <2>1, <2>2
<1>8. ASSUME NEW s \in Runs PROVE RunInv(s)'
  <2>1. \A e : HandleOK(s, e, boot) => HandleOK(s, e, boot')
    BY <1>2 DEF HandleOK
  <2>2. RunInv(s)
    BY DEF LayerInv
  <2> QED
    BY <1>4, <1>6, <2>1, <2>2, Zenon DEF RunInv
<1>9. DownInv'
  BY <1>1, <1>4 DEF LayerInv, DownInv, Active
<1>10. OneVmPerLayer'
  BY <1>5 DEF OneVmPerLayer
<1> QED
  BY <1>7, <1>8, <1>9, <1>10 DEF LayerInv

\* The service dies with everything it ran, and rebuilds its registry from the
\* records.
LEMMA ServiceSteps ==
  ASSUME Types, Types', LayerInv, Crash \/ Rebuild
  PROVE  LayerInv'
<1> USE EntryFacts
<1>1. CASE Crash
  <2>1. \A b \in Boots : boot'[b].run = boot[b].run /\ vm'[b] = "off"
          /\ boot'[b].at = IF boot[b].at = "unused" THEN "unused" ELSE "aborted"
    <3>1. ASSUME NEW b \in Boots
          PROVE  /\ [Aborted(boot[b]) EXCEPT !.writing = FALSE].run = boot[b].run
                 /\ [Aborted(boot[b]) EXCEPT !.writing = FALSE].at = "aborted"
      BY AbortedTask, ZenonT(40) DEF Task0
    <3> QED
      BY <1>1, <3>1 DEF Crash, At
  <2>2. \A r \in Runs : entry'[r] = NoEntry /\ removing'[r] = NoEntry
    BY <1>1 DEF Crash
  <2>3. disk' = disk /\ launched' = launched /\ autoRemove' = autoRemove /\ used'.boots = used.boots
    BY <1>1, FaultTypes DEF Crash
  <2>4. ASSUME NEW b \in Boots PROVE BootInv(b)'
    <3>1. BootInv(b)
      BY DEF LayerInv
    <3> QED
      BY <2>1, <2>3, <3>1, Zenon DEF BootInv, Active, Over
  <2>5. ASSUME NEW r \in Runs PROVE RunInv(r)'
    <3>1. RunInv(r) /\ HandleOK(r, NoEntry, boot')
      BY DEF LayerInv, HandleOK
    <3> QED
      BY <2>2, <2>3, <3>1, Zenon DEF RunInv
  <2>6. DownInv' /\ OneVmPerLayer'
    BY <2>1 DEF DownInv, OneVmPerLayer
  <2> QED
    BY <2>4, <2>5, <2>6 DEF LayerInv
<1>2. CASE Rebuild
  <2>1. ~ up /\ up' = TRUE /\ boot' = boot /\ vm' = vm /\ launched' = launched
        /\ autoRemove' = autoRemove /\ used' = used /\ removing' = removing
    BY <1>2 DEF Rebuild
  <2>2. \A b \in Boots : boot[b].at \in {"unused", "aborted"} /\ vm[b] = "off"
    BY <2>1 DEF LayerInv, DownInv
  <2>3. \A r \in Runs : /\ entry'[r] \in {Stopped, NoEntry}
                        /\ entry'[r] = Stopped => disk[r].record # NoRecord
                        /\ disk'[r].record # NoRecord => disk[r].record # NoRecord
    BY <1>2, Zenon DEF Rebuild, NoFiles
  <2>4. ASSUME NEW b \in Boots PROVE BootInv(b)'
    <3>1. BootInv(b)
      BY DEF LayerInv
    <3> QED
      BY <2>1, <2>2, <3>1, Zenon DEF BootInv, Active, Over
  <2>5. ASSUME NEW r \in Runs PROVE RunInv(r)'
    <3>1. RunInv(r) /\ HandleOK(r, NoEntry, boot') /\ HandleOK(r, Stopped, boot')
      BY DEF LayerInv, HandleOK
    <3>2. removing[r] = NoEntry
      BY <2>1, <3>1, Zenon DEF RunInv
    <3> QED
      BY <2>1, <2>3, <3>1, <3>2, Zenon DEF RunInv
  <2>6. DownInv' /\ OneVmPerLayer'
    BY <2>1, <2>2, Zenon DEF DownInv, OneVmPerLayer
  <2> QED
    BY <2>4, <2>5, <2>6 DEF LayerInv
<1> QED
  BY <1>1, <1>2

\* Every step keeps the invariant.
LEMMA LayerStep ==
  ASSUME Types, Types', LayerInv, [Next]_vars
  PROVE  LayerInv'
<1>1. CASE UNCHANGED vars
  <2>1. Quiet /\ \A s \in Runs : Undisturbed(s)
    BY <1>1 DEF vars, Quiet, Undisturbed, SameStage
  <2> QED
    BY <2>1, AboutNoRun
<1>2. ASSUME NEW r \in Runs, Commands(r) \/ MarkExited(r) PROVE LayerInv'
  BY <1>2, CalmSteps, StartSteps, RemoveTakeStep, RemoveRestoreStep, CancelStep, MarkExitedStep
     DEF Commands
<1>3. ASSUME NEW c \in Clients, StartLoad(c) \/ StartGo(c) \/ \E r \in Runs : StartCheck(c, r)
      PROVE  LayerInv'
  BY <1>3, CalmSteps, StartSteps
<1>4. ASSUME NEW b \in Boots, BootTask(b) \/ SessionEnds(b) \/ Fail(b) \/ VmStops(b) PROVE LayerInv'
  BY <1>4, CalmSteps, BootVmStep, PublishStep, LeaveSteps, FailStep DEF BootTask
<1>5. CASE PruneTake \/ Crash \/ Rebuild
  BY <1>5, PruneTakeStep, ServiceSteps
<1> QED
  BY <1>1, <1>2, <1>3, <1>4, <1>5 DEF Next

\* The service begins with nothing listed and nothing on.
LEMMA LayerInit ==
  ASSUME Init
  PROVE  LifeInv
<1>1. Types
  <2>1. [boots |-> 0, faults |-> 0, seen |-> {}] \in Used0
    <3>1. 0 \in 0 .. MaxBoots /\ 0 \in 0 .. MaxFaults /\ {} \in SUBSET Faults
      BY RunLifecycleAssumption
    <3> QED
      BY <3>1, Zenon DEF Used0
  <2> QED
    BY <2>1, Constants0, Zenon DEF Init, Types
<1>2. \A b \in Boots : boot[b].at = "unused" /\ vm[b] = "off"
  BY Zenon DEF Init, NoTask
<1>3. \A b \in Boots : BootInv(b)
  BY <1>2, Zenon DEF BootInv, Active, Over
<1>4. \A r \in Runs : entry[r] = NoEntry /\ removing[r] = NoEntry /\ disk[r].record = NoRecord
  BY DEF Init, NoFiles
<1>5. \A r \in Runs : RunInv(r)
  BY <1>4, EntryFacts, Zenon DEF RunInv, HandleOK
<1>6. DownInv /\ OneVmPerLayer
  BY <1>2, Zenon DEF DownInv, OneVmPerLayer
<1> QED
  BY <1>1, <1>3, <1>5, <1>6 DEF LifeInv, LayerInv

\* The inductive invariant holds in every state of the service.
LEMMA LifeInvariant == Spec => []LifeInv
<1>1. Init => LifeInv
  BY LayerInit
<1>2. LifeInv /\ [Next]_vars => LifeInv'
  BY TypesStep, LayerStep DEF LifeInv
<1> QED
  BY <1>1, <1>2, PTL DEF Spec

\* Every variable has its type, and a listed handle is that of a boot of its
\* run, begun and not cancelled.
THEOREM RegistryIsSound == Spec => []TypeOK
<1>1. LifeInv => TypeOK
  <2> SUFFICES ASSUME LifeInv PROVE TypeOK
    OBVIOUS
  <2>1. Types /\ \A r \in Runs : RunInv(r)
    BY DEF LifeInv, LayerInv
  <2>2. \A r \in Runs : entry[r].kind = "none" => entry[r] = NoEntry
    BY <2>1, Zenon DEF RunInv, HandleOK
  <2>3. \A r \in Runs : IsLive(r) =>
          LET b == entry[r].boot
          IN  b # 0 /\ boot[b].run = r /\ boot[b].at \notin {"unused", "aborted"}
    <3>1. \A b \in Boots : b # 0
      BY DEF Boots
    <3> QED
      BY <2>1, <3>1, Zenon DEF RunInv, HandleOK, IsLive
  <2> QED
    BY <2>1, <2>2, <2>3, Zenon DEF TypeOK, Types, Task0, Files0, Start0, Used0
<1> QED
  BY <1>1, LifeInvariant, PTL

\* At most one microVM holds a run's writable layer: transition_to_live asks
\* again what lns start had checked, for any number of clients and boots.
THEOREM OneVmPerLayerAlways == Spec => []OneVmPerLayer
<1>1. LifeInv => OneVmPerLayer
  BY DEF LifeInv, LayerInv
<1> QED
  BY <1>1, LifeInvariant, PTL

\* A run that is listed as exited has its microVM off: neither rm nor prune nor
\* start acts on a layer in use.
THEOREM ExitedRunIsOff == Spec => []ExitedMeansOff
<1>1. LifeInv => ExitedMeansOff
  <2> SUFFICES ASSUME LifeInv, NEW r \in Runs, IsLive(r), IsExited(r), Quiesced(r)
               PROVE  vm[entry[r].boot] = "off"
    BY DEF ExitedMeansOff
  <2> DEFINE b == entry[r].boot
  <2>1. RunInv(r) /\ Types
    BY DEF LifeInv, LayerInv
  <2>2. b \in Boots /\ boot[b].run = r /\ boot[b].at \notin {"unused", "aborted"}
    BY <2>1, Zenon DEF RunInv, HandleOK, IsLive
  <2>3. BootInv(b) /\ entry[r] # Live(b)
    BY <2>2, EntryFacts, Zenon DEF LifeInv, LayerInv, IsExited
  <2>4. boot[b].at \in Over
    BY <2>1, <2>2, <2>3, Stages, Zenon DEF BootInv
  <2> QED
    BY <2>2, <2>3, <2>4, Zenon DEF BootInv
<1> QED
  BY <1>1, LifeInvariant, PTL

-----------------------------------------------------------------------------
(* What becomes of a run's files.                                          *)

\* A boot's task before it disarms its guard, and one whose layer is prepared.
Early == {"starting", "provisioning", "booting", "connected"}
Prepared == {"provisioning", "booting"} \cup Guarded

\* A boot whose scratch guard is armed is the first of its run, is listed and
\* has not been recorded, so that what the guard deletes is its own; a boot yet
\* to begin writes nothing.
ArmedInv(b) ==
  LET r == boot[b].run
  IN  /\ boot[b].writing => boot[b].at # "unused"
      /\ boot[b].armed =>
           /\ boot[b].at \in Early
           /\ entry[r] = Live(b) /\ disk[r].record = NoRecord
           /\ \A c \in Boots \ {b} : boot[c].run = r => boot[c].at = "unused"

\* A boot that is listed as running has kept the layer it provisioned.
KeptLayer(r) ==
  r \notin autoRemove /\ entry[r].kind = "live" /\ ~ entry[r].exited
    /\ ~ boot[entry[r].boot].writing /\ boot[entry[r].boot].at \in Prepared
  => disk[r].upper

\* What a prune has taken out is not listed; of a removal that failed, and put
\* a run back, nothing is promised.
KeptInv(r) ==
  /\ disk[r].dir \/ r \in pruning => r \in launched
  /\ r \in pruning => up
  /\ r \in pruning /\ "stuck" \notin used.seen => entry[r] = NoEntry
  /\ "stuck" \notin used.seen => KeptLayer(r)

FilesInv == (\A b \in Boots : ArmedInv(b)) /\ (\A r \in Runs : KeptInv(r))

\* What a step of boot c's task leaves alone: the other runs, and the commands
\* under way.
OwnBusiness(c) ==
  /\ \A s \in Runs \ {boot[c].run} : entry'[s] = entry[s] /\ disk'[s] = disk[s]
  /\ \A s \in Runs : entry'[s] = entry[s] \/ entry'[s] = NoEntry \/ entry'[s].exited
  /\ \A s \in Runs : entry[s] = NoEntry => entry'[s] = NoEntry
  /\ up' = up /\ removing' = removing /\ pruning' = pruning /\ launched' = launched
  /\ autoRemove' = autoRemove /\ used.seen \subseteq used'.seen

\* Its own run's files survive it, but for the end of a --rm run and for a
\* guard that is armed when the boot fails.
SparesFiles(c, p) ==
  LET r == boot[c].run
  IN  \/ boot[c].armed /\ p = "returned"
      \/ boot[c].at = "reclaiming"
      \/ /\ disk[r].upper => disk'[r].upper
         /\ disk[r].record # NoRecord => disk'[r].record # NoRecord

\* An exit marked on a handle leaves it an exited handle.
LEMMA ExitFacts ==
  ASSUME Types, NEW r \in Runs
  PROVE  \A s \in Runs :
           /\ SetExitCode(entry, r)[s] = entry[s] \/ SetExitCode(entry, r)[s].exited
           /\ s # r \/ entry[s] = NoEntry => SetExitCode(entry, r)[s] = entry[s]
<1>1. entry \in [Runs -> Entries] /\ entry[r] \in Entries
  BY DEF Types
<1>2. [entry[r] EXCEPT !.exited = TRUE].exited
  BY <1>1 DEF Entries
<1>3. CASE entry[r].kind = "live"
  <2>1. SetExitCode(entry, r) = [entry EXCEPT ![r] = [entry[r] EXCEPT !.exited = TRUE]]
    BY <1>1, <1>3 DEF SetExitCode
  <2>2. entry[r] # NoEntry
    BY <1>3, EntryFacts
  <2> QED
    BY <1>1, <1>2, <2>1, <2>2
<1> QED
  BY <1>3, Zenon DEF SetExitCode

\* The steps of a boot's task mind their own business.
LEMMA MovesMindTheirOwn ==
  ASSUME Types, NEW c \in Boots, NEW p, MovingStep(c, p)
  PROVE  OwnBusiness(c)
<1> DEFINE r == boot[c].run
<1>1. r \in Runs /\ disk \in [Runs -> Files0] /\ ~ NoEntry.exited
  BY RunOf, EntryFacts, Zenon DEF Types
<1>2. \A s \in Runs : Without(entry, {r})[s] = IF s = r THEN NoEntry ELSE entry[s]
  BY Zenon DEF Without
<1>3. ASSUME NEW what, Fault(what) PROVE used.seen \subseteq used'.seen
  BY <1>3, FaultTypes
<1>4. ASSUME Refuse(r)
      PROVE  used.seen \subseteq used'.seen /\ \A s \in Runs \ {r} : disk'[s] = disk[s]
  <2>1. PICK left \in Leftovers(disk[r]) : disk' = [disk EXCEPT ![r] = left]
    BY <1>4, Zenon DEF Refuse
  <2> QED
    BY <1>1, <1>4, <2>1, RefuseTypes, Zenon
<1>5. CASE Publish(c) \/ Leave(c)
  <2>1. /\ entry' = SetExitCode(entry, r) /\ used.seen \subseteq used'.seen
        /\ UNCHANGED <<up, disk, removing, pruning, launched, autoRemove>>
    BY <1>3, <1>5, Zenon DEF Publish, Leave
  <2>2. \A s \in Runs : /\ entry'[s] = entry[s] \/ entry'[s].exited
                        /\ s # r \/ entry[s] = NoEntry => entry'[s] = entry[s]
    BY <1>1, <2>1, ExitFacts, Zenon
  <2> QED
    BY <2>1, <2>2, Zenon DEF OwnBusiness
<1>6. CASE LeaveRegistry(c)
  BY <1>2, <1>6, Zenon DEF OwnBusiness, LeaveRegistry
<1>7. CASE ReclaimOwn(c)
  BY <1>1, <1>4, <1>7, Zenon DEF OwnBusiness, ReclaimOwn
<1>8. CASE Fail(c)
  BY <1>1, <1>3, <1>8 DEF OwnBusiness, Fail
<1>9. CASE Prepare(c) \/ Record(c)
  BY <1>1, <1>9 DEF OwnBusiness, Prepare, Record
<1>10. CASE StampRecord(c)
  BY <1>1, <1>10 DEF OwnBusiness, StampRecord
<1>11. CASE WriteLog(c)
  BY <1>1, <1>11 DEF OwnBusiness, WriteLog
<1>12. CASE BootVm(c) \/ Connect(c) \/ Keep(c) \/ SessionEnds(c) \/ Return(c) \/ FindBuffer(c) \/ ReadRecord(c)
  BY <1>12 DEF OwnBusiness, BootVm, Connect, Keep, SessionEnds, Return, FindBuffer, ReadRecord
<1> HIDE DEF r
<1> QED
  BY <1>5, <1>6, <1>7, <1>8, <1>9, <1>10, <1>11, <1>12, Zenon DEF MovingStep

\* A record that is written is a record.
LEMMA Recorded ==
  /\ \A b \in Boots : [boot |-> b, exited |-> FALSE] # NoRecord
  /\ \A q \in Records : [q EXCEPT !.exited = TRUE] # NoRecord
<1>1. ~ NoRecord.exited /\ NoRecord.boot = 0
  BY DEF NoRecord
<1>2. ASSUME NEW b \in Boots PROVE [boot |-> b, exited |-> FALSE] # NoRecord
  <2>1. [boot |-> b, exited |-> FALSE].boot = b /\ b # 0
    BY DEF Boots
  <2> QED
    BY <1>1, <2>1
<1>3. ASSUME NEW q \in Records PROVE [q EXCEPT !.exited = TRUE] # NoRecord
  <2>1. [q EXCEPT !.exited = TRUE].exited
    BY DEF Records
  <2> QED
    BY <1>1, <2>1, Zenon
<1> QED
  BY <1>2, <1>3

\* And spare the files they find.
LEMMA MovesSpareFiles ==
  ASSUME Types, NEW c \in Boots, NEW p, MovingStep(c, p)
  PROVE  SparesFiles(c, p)
<1> DEFINE r == boot[c].run
<1>1. r \in Runs /\ disk \in [Runs -> Files0] /\ disk[r] \in Files0 /\ boot[c].record \in Records
  BY RunOf DEF Types, Task0
<1>2. CASE disk' = disk
  BY <1>2, Zenon DEF SparesFiles
<1>3. CASE disk' = [disk EXCEPT ![r].dir = TRUE]
  BY <1>1, <1>3 DEF SparesFiles, Files0
<1>4. ASSUME NEW q \in Records, q # NoRecord, disk' = [disk EXCEPT ![r].dir = TRUE, ![r].record = q]
      PROVE  SparesFiles(c, p)
  BY <1>1, <1>4 DEF SparesFiles, Files0
<1>5. ASSUME NEW l, disk' = [disk EXCEPT ![r].dir = TRUE, ![r].log = l]
      PROVE  SparesFiles(c, p)
  BY <1>1, <1>5 DEF SparesFiles, Files0
<1>6. [boot |-> c, exited |-> FALSE] \in Records /\ [boot[c].record EXCEPT !.exited = TRUE] \in Records
  <2>1. c \in 0 .. MaxBoots
    BY DEF Boots
  <2>2. [boot |-> c, exited |-> FALSE] \in Records
    BY <2>1 DEF Records
  <2>3. [boot[c].record EXCEPT !.exited = TRUE] \in Records
    BY <1>1, Zenon DEF Records
  <2> QED
    BY <2>2, <2>3
<1> HIDE DEF r
<1>7. CASE Record(c)
  BY <1>4, <1>6, <1>7, Recorded, Zenon DEF Record, r
<1>8. CASE StampRecord(c)
  BY <1>1, <1>2, <1>4, <1>6, <1>8, Recorded, Zenon DEF StampRecord, r
<1>9. CASE WriteLog(c)
  BY <1>2, <1>5, <1>9, Zenon DEF WriteLog, r
<1>10. CASE ReclaimOwn(c)
  BY <1>10, Zenon DEF SparesFiles, ReclaimOwn, At
<1>11. CASE Fail(c) /\ p = "returned"
  BY <1>2, <1>11 DEF SparesFiles, Fail
<1>12. CASE Prepare(c)
  BY <1>3, <1>12 DEF Prepare, r
<1>13. CASE \/ BootVm(c) \/ Connect(c) \/ Keep(c) \/ SessionEnds(c) \/ Publish(c) \/ Return(c)
            \/ FindBuffer(c) \/ ReadRecord(c) \/ Leave(c) \/ LeaveRegistry(c)
  BY <1>2, <1>13
     DEF BootVm, Connect, Keep, SessionEnds, Publish, Return, FindBuffer, ReadRecord, Leave, LeaveRegistry
<1> QED
  BY <1>7, <1>8, <1>9, <1>10, <1>11, <1>12, <1>13, Zenon DEF MovingStep

\* A step of a boot's task: the guard of an early one, and the layer of a
\* prepared one.
LEMMA MovesOfTheBoot ==
  ASSUME Types, NEW c \in Boots, NEW p, MovingStep(c, p)
  PROVE  /\ boot[c].at # "unused" /\ p # "unused"
         /\ boot[c].at \in Early /\ boot'[c].armed =>
              p \in Early /\ entry' = entry /\ disk'[boot[c].run].record = disk[boot[c].run].record
         /\ p \in Prepared /\ ~ boot'[c].writing => boot[c].at \in Prepared
<1> DEFINE r == boot[c].run
<1>1. r \in Runs /\ disk \in [Runs -> Files0] /\ disk[r] \in Files0 /\ boot[c] \in Task0
  BY RunOf, Zenon DEF Types
<1> DEFINE Goal == /\ boot[c].at # "unused" /\ p # "unused"
                   /\ boot[c].at \in Early /\ boot'[c].armed =>
                        p \in Early /\ entry' = entry /\ disk'[r].record = disk[r].record
                   /\ p \in Prepared /\ ~ boot'[c].writing => boot[c].at \in Prepared
<1> SUFFICES Goal
  OBVIOUS
<1> USE DEF At, Early, Prepared, Guarded
<1>2. CASE p = "provisioning" /\ Prepare(c)
  <2>1. boot'[c].writing
    BY <1>1, <1>2 DEF Prepare, Types, Task0
  <2>2. disk'[r].record = disk[r].record
    BY <1>1, <1>2 DEF Prepare, Files0
  <2> QED
    BY <1>2, <2>1, <2>2 DEF Prepare
<1>3. CASE (p = "kept" /\ Keep(c)) \/ (p = "returned" /\ Fail(c))
  <2>1. ~ boot'[c].armed
    BY <1>1, <1>3 DEF Keep, Fail, Types, Task0
  <2> QED
    BY <1>3, <2>1 DEF Keep, Fail
<1>4. CASE (p = "booting" /\ BootVm(c)) \/ (p = "connected" /\ Connect(c))
  BY <1>4, Zenon DEF BootVm, Connect
<1>5. CASE \/ p = "serving" /\ Record(c)
           \/ p = "quiescing" /\ SessionEnds(c)
           \/ p = "published" /\ Publish(c)
           \/ p = "returned" /\ Return(c)
  BY <1>5 DEF Record, SessionEnds, Publish, Return
<1>6. CASE \/ p = "concluding" /\ FindBuffer(c)
           \/ p = "stamping" /\ ReadRecord(c)
           \/ p = "logging" /\ StampRecord(c)
           \/ p = (IF boot[c].run \in autoRemove THEN "leaving" ELSE "done") /\ WriteLog(c)
           \/ p = "left" /\ Leave(c)
           \/ p = (IF IsExited(boot[c].run) THEN "reclaiming" ELSE "done") /\ LeaveRegistry(c)
           \/ p = "done" /\ ReclaimOwn(c)
  <2>1. boot[c].at \notin Early \cup {"unused"} /\ p \notin Prepared \cup {"unused"}
    BY <1>6, Zenon DEF FindBuffer, ReadRecord, StampRecord, WriteLog, Leave, LeaveRegistry, ReclaimOwn
  <2> QED
    BY <2>1
<1> HIDE DEF Goal, r, At, Early, Prepared, Guarded
<1> QED
  BY <1>2, <1>3, <1>4, <1>5, <1>6, Zenon DEF MovingStep

\* The steps of a boot's task keep what is known of the files.
LEMMA MovingFiles ==
  ASSUME Types, Types', LayerInv, FilesInv, NEW c \in Boots, NEW p, MovingStep(c, p)
  PROVE  FilesInv'
<1>1. /\ boot'[c].run = boot[c].run /\ boot'[c].at = p
      /\ boot'[c].armed => boot[c].armed
      /\ boot[c].writing => boot'[c].writing
      /\ \A b \in Boots \ {c} : boot'[b] = boot[b]
  BY MoveFacts
<1>2. OwnBusiness(c) /\ SparesFiles(c, p)
  BY MovesMindTheirOwn, MovesSpareFiles
<1>3. /\ boot[c].at # "unused" /\ p # "unused"
      /\ boot[c].at \in Early /\ boot'[c].armed =>
           p \in Early /\ entry' = entry /\ disk'[boot[c].run].record = disk[boot[c].run].record
      /\ p \in Prepared /\ ~ boot'[c].writing => boot[c].at \in Prepared
  BY MovesOfTheBoot
<1>4. boot[c].run \in Runs /\ ArmedInv(c) /\ BootInv(c) /\ KeptInv(boot[c].run)
  BY RunOf DEF FilesInv, LayerInv
<1>5. ASSUME NEW b \in Boots PROVE ArmedInv(b)'
  <2>1. ArmedInv(b) /\ boot[b].run \in Runs /\ boot'[b].run = boot[b].run
    BY <1>1, RunOf, Zenon DEF FilesInv
  <2>2. boot'[b].writing => boot'[b].at # "unused"
    BY <1>1, <1>3, <2>1, Zenon DEF ArmedInv
  <2>3. ASSUME boot'[b].armed
        PROVE  /\ boot'[b].at \in Early
               /\ entry'[boot[b].run] = Live(b) /\ disk'[boot[b].run].record = NoRecord
               /\ \A d \in Boots \ {b} : boot'[d].run = boot[b].run => boot'[d].at = "unused"
    <3>1. /\ boot[b].armed /\ boot[b].at \in Early
          /\ entry[boot[b].run] = Live(b) /\ disk[boot[b].run].record = NoRecord
          /\ \A d \in Boots \ {b} : boot[d].run = boot[b].run => boot[d].at = "unused"
      BY <1>1, <2>1, <2>3, Zenon DEF ArmedInv
    <3>2. CASE b = c
      BY <1>1, <1>3, <2>3, <3>1, <3>2, Zenon
    <3>3. CASE b # c
      <4>1. boot[c].run # boot[b].run
        BY <1>3, <3>1, <3>3, Zenon
      <4> QED
        BY <1>1, <1>2, <2>1, <3>1, <3>3, <4>1, ZenonT(40) DEF OwnBusiness
    <3> QED
      BY <3>2, <3>3, Zenon
  <2> QED
    BY <2>1, <2>2, <2>3, Zenon DEF ArmedInv
<1>6. ASSUME NEW r \in Runs PROVE KeptInv(r)'
  <2>1. KeptInv(r) /\ RunInv(r)
    BY DEF FilesInv, LayerInv
  <2>2. boot[c].run \in launched
    BY <1>3, <1>4, Zenon DEF BootInv
  <2>3. disk'[r].dir => r \in launched
    BY <1>2, <2>1, <2>2, Zenon DEF OwnBusiness, KeptInv
  <2>4. ASSUME "stuck" \notin used'.seen, r \notin autoRemove, entry'[r].kind = "live",
               ~ entry'[r].exited, ~ boot'[entry'[r].boot].writing,
               boot'[entry'[r].boot].at \in Prepared
        PROVE  disk'[r].upper
    <3> DEFINE b == entry[r].boot
    <3>1. entry'[r] = entry[r]
      BY <1>2, <2>4, EntryFacts, Zenon DEF OwnBusiness
    <3>2. b \in Boots /\ boot[b].run = r
      BY <2>1, <2>4, <3>1, Zenon DEF RunInv, HandleOK
    <3>3. ~ boot[b].writing /\ boot[b].at \in Prepared
      BY <1>1, <1>3, <2>4, <3>1, <3>2, Zenon
    <3>4. disk[r].upper
      BY <1>2, <2>1, <2>4, <3>1, <3>3, Zenon DEF OwnBusiness, KeptInv, KeptLayer
    <3>5. CASE boot[c].run = r
      <4>1. boot[c].at # "reclaiming"
        BY <1>4, <2>4, <3>5, Zenon DEF BootInv
      <4>2. ~ (boot[c].armed /\ p = "returned")
        <5> SUFFICES ASSUME boot[c].armed, p = "returned" PROVE FALSE
          OBVIOUS
        <5>1. entry[r] = Live(c)
          BY <1>4, <3>5, Zenon DEF ArmedInv
        <5>2. b = c
          BY <5>1, EntryFacts
        <5> QED
          BY <1>1, <2>4, <3>1, <5>2, Zenon DEF Prepared, Guarded
      <4> QED
        BY <1>2, <3>4, <3>5, <4>1, <4>2, Zenon DEF SparesFiles
    <3>6. CASE boot[c].run # r
      BY <1>2, <3>4, <3>6 DEF OwnBusiness
    <3> QED
      BY <3>5, <3>6, Zenon
  <2>5. "stuck" \notin used'.seen => KeptLayer(r)'
    BY <1>2, <2>4, Zenon DEF KeptLayer, OwnBusiness
  <2> QED
    BY <1>2, <2>1, <2>3, <2>5, Zenon DEF KeptInv, OwnBusiness
<1> QED
  BY <1>5, <1>6 DEF FilesInv

\* What a command that touches no task may do to the registry and the files: an
\* early boot stays listed, a run is listed anew only where a removal failed,
\* files only go, the layer of a listed run stays unless its removal failed, and
\* a prune takes only what is listed no more.
Commanded(r) ==
  /\ \A b \in Boots : boot[b].at \in Early /\ entry[r] = Live(b) => entry'[r] = Live(b)
  /\ \/ "stuck" \in used'.seen \/ entry'[r] = entry[r] \/ entry'[r] = NoEntry
     \/ (entry'[r].exited /\ entry[r] # NoEntry)
  /\ disk'[r].dir => disk[r].dir
  /\ disk'[r].record \in {disk[r].record, NoRecord}
  /\ disk[r].upper => disk'[r].upper \/ "stuck" \in used'.seen \/ entry[r] = NoEntry
  /\ r \in pruning' => r \in pruning \/ (up /\ r \in launched /\ entry'[r] = NoEntry)

\* Such a command keeps what is known of the files.
LEMMA CommandFiles ==
  ASSUME Types, Types', LayerInv, FilesInv, boot' = boot, up' = up, launched' = launched,
         autoRemove' = autoRemove, used.seen \subseteq used'.seen,
         \A r \in Runs : Commanded(r)
  PROVE  FilesInv'
<1>1. ASSUME NEW b \in Boots PROVE ArmedInv(b)'
  <2>1. ArmedInv(b) /\ boot[b].run \in Runs
    BY RunOf DEF FilesInv
  <2>2. Commanded(boot[b].run)
    BY <2>1
  <2> QED
    BY <2>1, <2>2, Zenon DEF ArmedInv, Commanded
<1>2. ASSUME NEW r \in Runs PROVE KeptInv(r)'
  <2>1. KeptInv(r) /\ Commanded(r)
    BY DEF FilesInv
  <2>2. (disk'[r].dir \/ r \in pruning' => r \in launched') /\ (r \in pruning' => up')
    BY <2>1, Zenon DEF KeptInv, Commanded
  <2>3. r \in pruning' /\ "stuck" \notin used'.seen => entry'[r] = NoEntry
    BY <2>1, Zenon DEF KeptInv, Commanded
  <2>4. ASSUME "stuck" \notin used'.seen PROVE KeptLayer(r)'
    <3> SUFFICES ASSUME r \notin autoRemove, entry'[r].kind = "live", ~ entry'[r].exited,
                        ~ boot[entry'[r].boot].writing, boot[entry'[r].boot].at \in Prepared
                 PROVE  disk'[r].upper
      BY Zenon DEF KeptLayer
    <3>1. entry'[r] = entry[r] /\ entry[r] # NoEntry
      BY <2>1, <2>4, EntryFacts, Zenon DEF Commanded
    <3>2. disk[r].upper
      BY <2>1, <2>4, <3>1, Zenon DEF KeptInv, KeptLayer
    <3> QED
      BY <2>1, <2>4, <3>1, <3>2, Zenon DEF Commanded
  <2> QED
    BY <2>2, <2>3, <2>4 DEF KeptInv
<1> QED
  BY <1>1, <1>2 DEF FilesInv

\* A deletion that fails takes no more than a deletion would, and is remembered.
LEMMA RefusedFiles ==
  ASSUME Types, NEW r \in Runs, Refuse(r)
  PROVE  /\ "stuck" \in used'.seen /\ used.seen \subseteq used'.seen
         /\ \A s \in Runs : (disk'[s].dir => disk[s].dir) /\ disk'[s].record \in {disk[s].record, NoRecord}
         /\ \A s \in Runs \ {r} : disk'[s] = disk[s]
<1>1. PICK left \in Leftovers(disk[r]) : disk' = [disk EXCEPT ![r] = left]
  BY Zenon DEF Refuse
<1>2. disk \in [Runs -> Files0] /\ disk[r].dir
  BY DEF Types, Refuse
<1>3. Fault("stuck")
  BY DEF Refuse
<1>4. left.record \in {disk[r].record, NoRecord}
  BY DEF Leftovers
<1> QED
  BY <1>1, <1>2, <1>3, <1>4, FaultTypes

\* The commands of the registry.
LEMMA RegistryFiles ==
  ASSUME Types, Types', LayerInv, FilesInv,
         \/ \E r \in Runs : \/ RemoveTake(r) \/ RemoveReclaim(r) \/ RemoveRestore(r)
                            \/ PruneReclaim(r) \/ PruneSweep(r) \/ MarkExited(r)
         \/ \E c \in Clients : StartLoad(c) \/ \E r \in Runs : StartCheck(c, r)
         \/ PruneTake
         \/ \E b \in Boots : VmStops(b)
         \/ UNCHANGED vars
  PROVE  FilesInv'
<1> DEFINE Idle == /\ boot' = boot /\ up' = up /\ launched' = launched /\ autoRemove' = autoRemove
                   /\ used.seen \subseteq used'.seen
           Fine == Idle /\ \A s \in Runs : Commanded(s)
<1>1. disk \in [Runs -> Files0] /\ entry \in [Runs -> Entries] /\ NoFiles.dir = FALSE /\ NoFiles.record = NoRecord
  BY DEF Types, NoFiles
<1> SUFFICES Fine
  BY CommandFiles, Zenon
<1>2. ASSUME NEW r \in Runs, RemoveTake(r) PROVE Fine
  <2>1. Idle /\ disk' = disk /\ pruning' = pruning
    BY <1>2, Zenon DEF RemoveTake
  <2>2. \A s \in Runs : entry'[s] = IF s = r THEN NoEntry ELSE entry[s]
    BY <1>2 DEF RemoveTake, Without
  <2>3. \A b : entry[r] # Live(b)
    BY <1>2, EntryFacts, Zenon DEF RemoveTake, IsExited
  <2> QED
    BY <2>1, <2>2, <2>3, Zenon DEF Commanded
<1>3. ASSUME NEW r \in Runs, RemoveReclaim(r) PROVE Fine
  <2>1. Idle /\ entry' = entry /\ pruning' = pruning /\ disk' = [disk EXCEPT ![r] = NoFiles]
    BY <1>3, Zenon DEF RemoveReclaim
  <2>2. entry[r] = NoEntry
    BY <1>3, Zenon DEF RemoveReclaim, LayerInv, RunInv
  <2> QED
    BY <1>1, <2>1, <2>2, Zenon DEF Commanded
<1>4. ASSUME NEW r \in Runs, RemoveRestore(r) PROVE Fine
  <2>1. Refuse(r) /\ entry[r] = NoEntry /\ pruning' = pruning
    BY <1>4, Zenon DEF RemoveRestore, LayerInv, RunInv
  <2>2. Idle /\ "stuck" \in used'.seen
    BY <1>4, <2>1, RefusedFiles, Zenon DEF RemoveRestore
  <2>3. \A s \in Runs \ {r} : entry'[s] = entry[s]
    BY <1>4, Zenon DEF RemoveRestore, Types
  <2>4. \A b : entry[r] # Live(b)
    BY <2>1, EntryFacts, Zenon
  <2> QED
    BY <2>1, <2>2, <2>3, <2>4, RefusedFiles, Zenon DEF Commanded
<1>5. ASSUME NEW r \in Runs, PruneReclaim(r) PROVE Fine
  <2>1. Idle /\ entry' = entry /\ pruning' \subseteq pruning
    BY <1>5, RefusedFiles, Zenon DEF PruneReclaim
  <2>2. "stuck" \in used.seen \/ entry[r] = NoEntry
    BY <1>5, Zenon DEF PruneReclaim, FilesInv, KeptInv
  <2>3. CASE disk' = [disk EXCEPT ![r] = NoFiles]
    BY <1>1, <2>1, <2>2, <2>3, Zenon DEF Commanded
  <2>4. CASE Refuse(r)
    BY <2>1, <2>4, RefusedFiles, Zenon DEF Commanded
  <2> QED
    BY <1>5, <2>3, <2>4, Zenon DEF PruneReclaim
<1>6. ASSUME NEW r \in Runs, PruneSweep(r) PROVE Fine
  <2>1. Idle /\ entry' = entry /\ disk' = disk /\ pruning' = pruning \cup {r} /\ up /\ disk[r].dir
        /\ entry[r].kind = "none"
    BY <1>6, Zenon DEF PruneSweep
  <2>2. r \in launched /\ entry[r] = NoEntry
    BY <2>1, Zenon DEF FilesInv, KeptInv, LayerInv, RunInv, HandleOK
  <2> QED
    BY <2>1, <2>2, Zenon DEF Commanded
<1>7. ASSUME NEW r \in Runs, MarkExited(r) PROVE Fine
  <2>1. Idle /\ disk' = disk /\ pruning' = pruning
    BY <1>7 DEF MarkExited
  <2>2. entry[r].kind = "live" /\ boot[entry[r].boot].at \notin Early
    BY <1>7 DEF MarkExited, IsLive, Closed, Early
  <2>3. \A s \in Runs \ {r} : entry'[s] = entry[s]
    BY <1>7 DEF MarkExited, Types
  <2>4. entry'[r].exited
    BY <1>1, <1>7 DEF MarkExited, Entries
  <2> QED
    <3>1. entry[r] # NoEntry /\ \A b \in Boots : ~ (boot[b].at \in Early /\ entry[r] = Live(b))
      BY <2>2, EntryFacts, Zenon
    <3> QED
      BY <2>1, <2>3, <2>4, <3>1, Zenon DEF Commanded
<1>8. CASE PruneTake
  <2>1. Idle /\ disk' = disk /\ pruning = {} /\ up /\ pruning' = {r \in Runs : IsExited(r)}
    BY <1>8, Zenon DEF PruneTake
  <2>2. \A s \in Runs : entry'[s] = IF IsExited(s) THEN NoEntry ELSE entry[s]
    BY <1>8 DEF PruneTake, Without
  <2>3. \A s \in Runs : IsExited(s) => s \in launched /\ \A b : entry[s] # Live(b)
    BY EntryFacts, Zenon DEF IsExited, LayerInv, RunInv
  <2> QED
    BY <2>1, <2>2, <2>3, Zenon DEF Commanded
<1>9. ASSUME \/ \E c \in Clients : StartLoad(c) \/ \E r \in Runs : StartCheck(c, r)
             \/ \E b \in Boots : VmStops(b)
             \/ UNCHANGED vars
      PROVE  Fine
  <2>1. Idle /\ entry' = entry /\ disk' = disk /\ pruning' = pruning
    BY <1>9, Zenon DEF StartLoad, StartCheck, VmStops, vars
  <2> QED
    BY <2>1, Zenon DEF Commanded
<1> HIDE DEF Fine
<1> QED
  BY <1>2, <1>3, <1>4, <1>5, <1>6, <1>7, <1>8, <1>9

\* A boot begins: the first of its run, or one of a run still listed as exited.
LEMMA BeginFiles ==
  ASSUME Types, Types', LayerInv, FilesInv, NEW r \in Runs, NEW fresh \in BOOLEAN,
         NEW log \in SUBSET Boots, BeginBoot(r, fresh, log), up,
         fresh => r \notin launched, r \notin launched \/ IsExited(r),
         launched' = launched \cup {r}, autoRemove' \in {autoRemove, autoRemove \cup {r}},
         up' = up, disk' = disk, pruning' = pruning
  PROVE  FilesInv'
<1> DEFINE n == used.boots + 1
<1>1. n \in Boots /\ n > used.boots /\ used'.seen = used.seen
  BY RunLifecycleAssumption DEF Types, Used0, BeginBoot, Boots
<1>2. boot[n].at = "unused"
  <2> HIDE DEF n
  <2> QED
    BY <1>1, Zenon DEF LayerInv, BootInv
<1>3. /\ boot'[n].run = r /\ boot'[n].at = "starting" /\ boot'[n].armed = fresh
      /\ \A c \in Boots \ {n} : boot'[c] = boot[c]
  <2> DEFINE t == [NoTask EXCEPT !.run = r, !.at = "starting", !.armed = fresh, !.restored = log]
  <2>1. NoTask \in Task0
    BY Constants0
  <2>2. t.run = r /\ t.at = "starting" /\ t.armed = fresh
    BY <2>1 DEF Task0
  <2>3. boot' = [boot EXCEPT ![n] = t]
    BY DEF BeginBoot
  <2> HIDE DEF t
  <2> QED
    BY <1>1, <2>2, <2>3 DEF Types
<1>4. \A s \in Runs : entry'[s] = IF s = r THEN Live(n) ELSE entry[s]
  BY DEF BeginBoot, Types
<1> HIDE DEF n
<1>5. RunInv(r) /\ KeptInv(r) /\ \A b : IsExited(r) => entry[r] # Live(b) /\ entry[r] # NoEntry
  BY EntryFacts, Zenon DEF LayerInv, FilesInv, IsExited
<1>6. ASSUME NEW b \in Boots PROVE ArmedInv(b)'
  <2>1. CASE b = n
    <3>1. fresh => disk[r].record = NoRecord
      BY <1>5, Zenon DEF RunInv
    <3>2. fresh => \A c \in Boots : boot[c].run = r => boot[c].at = "unused"
      BY Zenon DEF LayerInv, BootInv
    <3> QED
      <4>1. boot'[n].at \in Early /\ boot'[n].at # "unused"
        BY <1>3 DEF Early
      <4>2. \A c \in Boots \ {n} : boot'[c].run = r /\ fresh => boot'[c].at = "unused"
        BY <1>3, <3>2, Zenon
      <4> QED
        BY <1>3, <1>4, <2>1, <3>1, <4>1, <4>2, Zenon DEF ArmedInv
  <2>2. CASE b # n
    <3>1. boot'[b] = boot[b] /\ ArmedInv(b) /\ BootInv(b) /\ boot[b].run \in Runs
      BY <1>3, <2>2, RunOf, Zenon DEF FilesInv, LayerInv
    <3>2. boot[b].armed => boot[b].run # r
      BY <1>5, <3>1, Zenon DEF ArmedInv, BootInv, Early
    <3> QED
      BY <1>3, <1>4, <3>1, <3>2, ZenonT(40) DEF ArmedInv
  <2> QED
    BY <2>1, <2>2
<1>7. ASSUME NEW s \in Runs PROVE KeptInv(s)'
  <2>1. KeptInv(s) /\ RunInv(s)
    BY DEF FilesInv, LayerInv
  <2>2. CASE s = r
    <3>1. "stuck" \in used.seen \/ r \notin pruning
      BY <1>5, Zenon DEF KeptInv
    <3>2. KeptLayer(r)'
      <4>1. entry'[r].boot = n
        BY <1>4, EntryFacts, Zenon
      <4>2. "starting" \notin Prepared
        BY DEF Prepared, Guarded
      <4> QED
        BY <1>3, <4>1, <4>2, Zenon DEF KeptLayer
    <3> QED
      BY <1>1, <2>1, <2>2, <3>1, <3>2, Zenon DEF KeptInv
  <2>3. CASE s # r
    <3>1. entry'[s] = entry[s]
      BY <1>4, <2>3, Zenon
    <3>2. entry[s].kind = "live" => boot'[entry[s].boot] = boot[entry[s].boot]
      BY <1>2, <1>3, <2>1, Zenon DEF RunInv, HandleOK
    <3>3. KeptLayer(s) => KeptLayer(s)'
      BY <2>3, <3>1, <3>2, Zenon DEF KeptLayer
    <3> QED
      BY <1>1, <2>1, <3>1, <3>3, Zenon DEF KeptInv
  <2> QED
    BY <2>2, <2>3
<1> QED
  BY <1>6, <1>7 DEF FilesInv

\* lns run and lns start.
LEMMA StartFiles ==
  ASSUME Types, Types', LayerInv, FilesInv,
         (\E r \in Runs : Run(r)) \/ (\E c \in Clients : StartGo(c))
  PROVE  FilesInv'
<1>1. ASSUME NEW r \in Runs, Run(r) PROVE FilesInv'
  <2>1. /\ BeginBoot(r, TRUE, {}) /\ up /\ r \notin launched
        /\ launched' = launched \cup {r} /\ autoRemove' \in {autoRemove, autoRemove \cup {r}}
        /\ up' = up /\ disk' = disk /\ pruning' = pruning
    BY <1>1, Zenon DEF Run
  <2> QED
    BY <2>1, BeginFiles, Zenon
<1>2. ASSUME NEW c \in Clients, StartGo(c) PROVE FilesInv'
  <2> DEFINE r == starting[c].run
  <2>1. r \in Runs /\ starting[c].log \in SUBSET Boots
    BY Zenon DEF Types, Start0
  <2>2. CASE IsExited(r)
    <3>1. RunInv(r) /\ entry[r] # NoEntry
      BY <2>1, <2>2, EntryFacts, Zenon DEF LayerInv, IsExited
    <3>2. up /\ r \in launched
      BY <3>1, Zenon DEF RunInv
    <3>3. /\ BeginBoot(r, FALSE, starting[c].log)
          /\ launched' = launched \cup {r} /\ autoRemove' \in {autoRemove, autoRemove \cup {r}}
          /\ up' = up /\ disk' = disk /\ pruning' = pruning
      BY <1>2, <2>2, <3>2, Zenon DEF StartGo
    <3> HIDE DEF r
    <3> QED
      BY <2>1, <2>2, <3>2, <3>3, BeginFiles, Zenon
  <2>3. CASE ~ IsExited(r)
    <3>1. /\ boot' = boot /\ up' = up /\ launched' = launched /\ autoRemove' = autoRemove
          /\ entry' = entry /\ disk' = disk /\ pruning' = pruning /\ used' = used
      BY <1>2, <2>3 DEF StartGo
    <3>2. \A s \in Runs : Commanded(s)
      BY <3>1, Zenon DEF Commanded
    <3> QED
      BY <3>1, <3>2, CommandFiles
  <2> QED
    BY <2>2, <2>3
<1> QED
  BY <1>1, <1>2

\* A cancelled boot takes with it only what it made.
LEMMA CancelFiles ==
  ASSUME Types, Types', LayerInv, FilesInv, NEW r \in Runs, Cancel(r)
  PROVE  FilesInv'
<1> SUFFICES ASSUME NEW b \in Boots, entry[r].boot = b, boot[b].run = r, boot[b].at # "unused"
             PROVE  FilesInv'
  BY Zenon DEF LayerInv, RunInv, HandleOK, Cancel, IsLive
<1>1. boot'[b] = Aborted(boot[b]) /\ \A c \in Boots \ {b} : boot'[c] = boot[c]
  BY Zenon DEF Cancel, Dropped, Types
<1>2. boot'[b].run = r /\ boot'[b].at = "aborted" /\ ~ boot'[b].armed
  BY <1>1, AbortedTask, Zenon
<1>3. \A s \in Runs : entry'[s] = IF s = r THEN NoEntry ELSE entry[s]
  BY Zenon DEF Cancel, Without
<1>4. \A s \in Runs \ {r} : disk'[s] = disk[s]
  BY Zenon DEF Cancel, Dropped, Types
<1>5. disk'[r] = disk[r] \/ disk'[r] = NoFiles
  BY Zenon DEF Cancel, Dropped, Types
<1>6. /\ up' = up /\ pruning' = pruning /\ launched' = launched /\ autoRemove' = autoRemove
      /\ used.seen \subseteq used'.seen
  BY FaultTypes, Zenon DEF Cancel
<1>7. ASSUME NEW c \in Boots PROVE ArmedInv(c)'
  <2>1. CASE c = b
    BY <1>2, <2>1, Zenon DEF ArmedInv
  <2>2. CASE c # b
    <3>1. boot'[c] = boot[c] /\ ArmedInv(c) /\ boot[c].run \in Runs
      BY <1>1, <2>2, RunOf, Zenon DEF FilesInv
    <3>2. boot[c].armed => boot[c].run # r
      BY <2>2, <3>1, EntryFacts, Zenon DEF ArmedInv
    <3> QED
      <4>1. \A d \in Boots : boot'[d].run = boot[c].run /\ boot'[d].at # "unused" /\ boot[c].armed =>
              boot[d].run = boot[c].run /\ boot[d].at # "unused"
        BY <1>1, <1>2, <3>2, Zenon
      <4>2. boot[c].writing => boot[c].at # "unused"
        BY <3>1, Zenon DEF ArmedInv
      <4>3. ASSUME boot[c].armed
            PROVE  /\ boot[c].at \in Early
                   /\ entry'[boot[c].run] = Live(c) /\ disk'[boot[c].run].record = NoRecord
                   /\ \A d \in Boots \ {c} : boot'[d].run = boot[c].run => boot'[d].at = "unused"
        <5>1. /\ boot[c].at \in Early /\ entry[boot[c].run] = Live(c) /\ disk[boot[c].run].record = NoRecord
              /\ \A d \in Boots \ {c} : boot[d].run = boot[c].run => boot[d].at = "unused"
          BY <3>1, <4>3, Zenon DEF ArmedInv
        <5> QED
          BY <1>3, <1>4, <3>1, <3>2, <4>1, <4>3, <5>1, Zenon
      <4> QED
        BY <3>1, <4>2, <4>3, Zenon DEF ArmedInv
  <2> QED
    BY <2>1, <2>2
<1>8. ASSUME NEW s \in Runs PROVE KeptInv(s)'
  <2>1. KeptInv(s) /\ RunInv(s)
    BY DEF FilesInv, LayerInv
  <2>2. disk'[s].dir => disk[s].dir
    <3>1. ~ NoFiles.dir
      BY Zenon DEF NoFiles
    <3> QED
      BY <1>4, <1>5, <3>1, Zenon
  <2>3. CASE s = r
    BY <1>3, <1>6, <2>1, <2>2, <2>3, EntryFacts, Zenon DEF KeptInv, KeptLayer
  <2>4. CASE s # r
    <3>1. entry[s].kind = "live" => boot'[entry[s].boot] = boot[entry[s].boot]
      BY <1>1, <2>1, <2>4, Zenon DEF RunInv, HandleOK
    <3>2. KeptLayer(s) => KeptLayer(s)'
      BY <1>3, <1>4, <1>6, <2>4, <3>1, Zenon DEF KeptLayer
    <3> QED
      BY <1>3, <1>4, <1>6, <2>1, <2>4, <3>2, Zenon DEF KeptInv
  <2> QED
    BY <2>3, <2>4
<1> QED
  BY <1>7, <1>8 DEF FilesInv

\* The thread that provisions a layer may outlive its task.
LEMMA ProvisionFiles ==
  ASSUME Types, Types', LayerInv, FilesInv, NEW b \in Boots, Provision(b)
  PROVE  FilesInv'
<1> SUFFICES ASSUME NEW r \in Runs, boot[b].run = r PROVE FilesInv'
  BY RunOf
<1>1. \A c \in Boots : /\ boot'[c].run = boot[c].run /\ boot'[c].at = boot[c].at
                       /\ boot'[c].armed = boot[c].armed /\ (boot'[c].writing => boot[c].writing)
  BY DEF Provision, Types, Task0
<1>2. \A c \in Boots \ {b} : boot'[c] = boot[c]
  BY DEF Provision, Types
<1>3. disk'[r].record = disk[r].record /\ disk'[r].upper /\ \A s \in Runs \ {r} : disk'[s] = disk[s]
  BY DEF Provision, Types, Files0
<1>4. /\ entry' = entry /\ up' = up /\ pruning' = pruning /\ launched' = launched
      /\ autoRemove' = autoRemove /\ used' = used
  BY DEF Provision
<1>5. r \in launched
  BY DEF Provision, FilesInv, ArmedInv, LayerInv, BootInv
<1>6. ASSUME NEW c \in Boots PROVE ArmedInv(c)'
  <2>1. ArmedInv(c) /\ boot[c].run \in Runs
    BY RunOf DEF FilesInv
  <2>2. disk'[boot[c].run].record = disk[boot[c].run].record
    BY <1>3, <2>1
  <2> QED
    BY <1>1, <1>4, <2>1, <2>2, Zenon DEF ArmedInv
<1>7. ASSUME NEW s \in Runs PROVE KeptInv(s)'
  <2>1. KeptInv(s) /\ RunInv(s)
    BY DEF FilesInv, LayerInv
  <2>2. CASE s = r
    BY <1>3, <1>4, <1>5, <2>1, <2>2, Zenon DEF KeptInv, KeptLayer
  <2>3. CASE s # r
    <3>1. entry[s].kind = "live" => boot'[entry[s].boot] = boot[entry[s].boot]
      BY <1>2, <2>1, <2>3, Zenon DEF RunInv, HandleOK
    <3>2. KeptLayer(s) => KeptLayer(s)'
      BY <1>3, <1>4, <2>3, <3>1, Zenon DEF KeptLayer
    <3> QED
      BY <1>3, <1>4, <2>1, <2>3, <3>2, Zenon DEF KeptInv
  <2> QED
    BY <2>2, <2>3
<1> QED
  BY <1>6, <1>7 DEF FilesInv

\* The service dies, and comes back.
LEMMA ServiceFiles ==
  ASSUME Types, Types', LayerInv, FilesInv, Crash \/ Rebuild
  PROVE  FilesInv'
<1>1. CASE Crash
  <2>1. ASSUME NEW b \in Boots
        PROVE  ~ boot'[b].armed /\ ~ boot'[b].writing
    <3> DEFINE t == [Aborted(boot[b]) EXCEPT !.writing = FALSE]
    <3>1. Aborted(boot[b]) \in Task0 /\ ~ Aborted(boot[b]).armed
      BY AbortedTask, Zenon
    <3>2. ~ t.armed /\ ~ t.writing
      BY <3>1, Zenon DEF Task0
    <3>3. boot[b].at = "unused" => ~ boot[b].armed /\ ~ boot[b].writing
      BY DEF FilesInv, ArmedInv, Early
    <3>4. boot'[b] = IF boot[b].at = "unused" THEN boot[b] ELSE t
      BY <1>1 DEF Crash, At
    <3> HIDE DEF t
    <3> QED
      BY <3>2, <3>3, <3>4, Zenon
  <2>2. /\ disk' = disk /\ launched' = launched /\ pruning' = {} /\ \A r \in Runs : entry'[r] = NoEntry
    BY <1>1 DEF Crash
  <2> QED
    BY <2>1, <2>2, EntryFacts, Zenon DEF FilesInv, ArmedInv, KeptInv, KeptLayer
<1>2. CASE Rebuild
  <2>1. ~ up /\ up' /\ boot' = boot /\ launched' = launched /\ pruning' = pruning
    BY <1>2 DEF Rebuild
  <2>2. \A r \in Runs : entry'[r] \in {Stopped, NoEntry} /\ (disk'[r].dir => disk[r].dir)
    BY <1>2, Zenon DEF Rebuild, NoFiles
  <2>3. pruning = {}
    BY <2>1, Zenon DEF FilesInv, KeptInv, Types
  <2>4. \A b \in Boots : ~ boot[b].armed
    <3>1. \A b \in Boots : entry[boot[b].run] = NoEntry
      BY <2>1, RunOf, Zenon DEF LayerInv, RunInv
    <3>2. \A b \in Boots : boot[b].armed => entry[boot[b].run] = Live(b)
      BY Zenon DEF FilesInv, ArmedInv
    <3> QED
      BY <3>1, <3>2, EntryFacts, Zenon
  <2>5. \A b \in Boots : ArmedInv(b)'
    BY <2>1, <2>4, Zenon DEF FilesInv, ArmedInv
  <2>6. \A r \in Runs : KeptInv(r)'
    BY <2>1, <2>2, <2>3, EntryFacts, Zenon DEF FilesInv, KeptInv, KeptLayer
  <2> QED
    BY <2>5, <2>6 DEF FilesInv
<1> QED
  BY <1>1, <1>2

\* Every step of a boot's task but two moves it.
LEMMA BootTaskMoves ==
  ASSUME NEW b \in Boots, BootTask(b) \/ SessionEnds(b) \/ Fail(b)
  PROVE  Provision(b) \/ \E p : MovingStep(b, p)
BY DEF BootTask, MovingStep

\* Every step keeps what is known of the files.
LEMMA FilesStep ==
  ASSUME Types, Types', LayerInv, FilesInv, [Next]_vars
  PROVE  FilesInv'
<1>1. CASE UNCHANGED vars
  BY <1>1, RegistryFiles
<1>2. ASSUME NEW r \in Runs, Commands(r) \/ MarkExited(r) PROVE FilesInv'
  BY <1>2, RegistryFiles, StartFiles, CancelFiles DEF Commands
<1>3. ASSUME NEW c \in Clients, StartLoad(c) \/ StartGo(c) \/ \E r \in Runs : StartCheck(c, r)
      PROVE  FilesInv'
  BY <1>3, RegistryFiles, StartFiles
<1>4. ASSUME NEW b \in Boots, BootTask(b) \/ SessionEnds(b) \/ Fail(b) PROVE FilesInv'
  BY <1>4, BootTaskMoves, ProvisionFiles, MovingFiles
<1>5. ASSUME NEW b \in Boots, VmStops(b) PROVE FilesInv'
  BY <1>5, RegistryFiles
<1>6. CASE PruneTake \/ Crash \/ Rebuild
  BY <1>6, RegistryFiles, ServiceFiles
<1> QED
  BY <1>1, <1>2, <1>3, <1>4, <1>5, <1>6 DEF Next

\* There are no files at first.
LEMMA FilesInit ==
  ASSUME Init
  PROVE  FilesInv
<1>1. \A b \in Boots : ~ boot[b].armed /\ ~ boot[b].writing
  BY Zenon DEF Init, NoTask
<1>2. \A r \in Runs : entry[r] = NoEntry /\ ~ disk[r].dir /\ pruning = {}
  BY Zenon DEF Init, NoFiles
<1> QED
  BY <1>1, <1>2, EntryFacts, Zenon DEF FilesInv, ArmedInv, KeptInv, KeptLayer

\* Both invariants hold in every state of the service.
LEMMA FilesInvariant == Spec => [](LifeInv /\ FilesInv)
<1>1. Init => LifeInv /\ FilesInv
  BY LayerInit, FilesInit
<1>2. LifeInv /\ FilesInv /\ [Next]_vars => (LifeInv /\ FilesInv)'
  BY TypesStep, LayerStep, FilesStep DEF LifeInv
<1> QED
  BY <1>1, <1>2, PTL DEF Spec

\* While no removal has failed, the layer a boot prepared is there for as long
\* as its run is listed as running: no removal, sweep or failed earlier boot
\* takes it away.
THEOREM LayerIsKept == Spec => []("stuck" \notin used.seen => RunningKeepsLayer)
<1>1. LifeInv /\ FilesInv => ("stuck" \notin used.seen => RunningKeepsLayer \/ ~ TypeOK)
  BY DEF FilesInv, KeptInv, KeptLayer, RunningKeepsLayer, IsLive, IsExited, Prepared
<1> QED
  BY <1>1, FilesInvariant, RegistryIsSound, PTL

\* A run that has been recorded loses its files only to rm, to prune and, for
\* --rm, to its own end: a start that fails or is interrupted never costs the
\* layer it was to boot on.
THEOREM OnlyRemovalsDelete == Spec => OnlyRemovalDeletes
<1> DEFINE Spared(r) == disk[r].record # NoRecord /\ disk'[r].record = NoRecord =>
                          removing[r] # NoEntry \/ r \in pruning
<1>1. ASSUME LifeInv, FilesInv, [Next]_vars, NEW r \in Runs \ autoRemove PROVE Spared(r)
  <2>1. Types /\ LayerInv /\ FilesInv
    BY <1>1 DEF LifeInv
  <2>2. disk \in [Runs -> Files0] /\ disk[r] \in Files0
    BY <2>1 DEF Types
  <2>3. CASE UNCHANGED vars
    BY <2>3 DEF vars
  <2>4. ASSUME NEW s \in Runs, Commands(s) \/ MarkExited(s) PROVE Spared(r)
    <3>1. CASE RemoveReclaim(s)
      BY <2>2, <3>1 DEF RemoveReclaim
    <3>2. CASE RemoveRestore(s)
      BY <2>1, <3>2, RefusedFiles, Zenon DEF RemoveRestore
    <3>3. CASE PruneReclaim(s)
      BY <2>1, <2>2, <3>3, RefusedFiles, Zenon DEF PruneReclaim
    <3>4. CASE Cancel(s)
      <4> DEFINE b == entry[s].boot
      <4>1. b \in Boots /\ boot[b].run = s /\ ArmedInv(b)
        BY <2>1, <3>4, Zenon DEF Cancel, IsLive, LayerInv, RunInv, HandleOK, FilesInv
      <4>2. disk' = disk \/ (disk' = [disk EXCEPT ![s] = NoFiles] /\ disk[s].record = NoRecord)
        BY <3>4, <4>1, Zenon DEF Cancel, Dropped, ArmedInv
      <4> QED
        BY <2>2, <4>2
    <3>5. CASE Run(s) \/ RemoveTake(s) \/ PruneSweep(s) \/ MarkExited(s)
      BY <3>5, Zenon DEF Run, RemoveTake, PruneSweep, MarkExited
    <3> QED
      BY <2>4, <3>1, <3>2, <3>3, <3>4, <3>5, Zenon DEF Commands
  <2>5. ASSUME NEW c \in Clients, StartLoad(c) \/ StartGo(c) \/ \E s \in Runs : StartCheck(c, s)
        PROVE  Spared(r)
    BY <2>5, Zenon DEF StartLoad, StartGo, StartCheck
  <2>6. ASSUME NEW b \in Boots, Provision(b) PROVE Spared(r)
    BY <2>1, <2>2, <2>6, RunOf DEF Provision, Files0
  <2>7. ASSUME NEW b \in Boots, NEW p, MovingStep(b, p) PROVE Spared(r)
    <3>1. OwnBusiness(b) /\ SparesFiles(b, p) /\ boot[b].run \in Runs
      BY <2>1, <2>7, MovesMindTheirOwn, MovesSpareFiles, RunOf
    <3>2. ArmedInv(b) /\ BootInv(b)
      BY <2>1 DEF FilesInv, LayerInv
    <3> QED
      BY <3>1, <3>2, Zenon DEF OwnBusiness, SparesFiles, ArmedInv, BootInv
  <2>8. ASSUME NEW b \in Boots, VmStops(b) PROVE Spared(r)
    BY <2>8 DEF VmStops
  <2>9. CASE PruneTake \/ Crash
    BY <2>9 DEF PruneTake, Crash
  <2>10. CASE Rebuild
    BY <2>2, <2>10 DEF Rebuild
  <2> HIDE DEF Spared
  <2> QED
    BY <1>1, <2>3, <2>4, <2>5, <2>6, <2>7, <2>8, <2>9, <2>10, BootTaskMoves DEF Next
<1>2. LifeInv /\ FilesInv /\ [Next]_vars =>
        [\A r \in Runs \ autoRemove : Spared(r)]_vars
  BY <1>1, Zenon
<1> QED
  BY <1>2, FilesInvariant, PTL DEF Spec, OnlyRemovalDeletes
=============================================================================
