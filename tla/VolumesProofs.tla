--------------------------- MODULE VolumesProofs ---------------------------
(***************************************************************************)
(* The lease registry keeps an image to one user, and no lease outlives    *)
(* the one who took it: for any sandboxes, volumes, mounts and clients,    *)
(* and however often a grow fails or the service stops.                    *)
(***************************************************************************)
EXTENDS Volumes, TLAPS

\* A lease says which sandbox holds it, and a sandbox is neither a command nor
\* one of the registry's two marks (LeaseHolder).
ConstantsOK ==
  /\ FREE \notin Runs /\ MAINTENANCE \notin Runs
  /\ Runs \cap Clients = {}
  /\ Mounts \in [Runs -> Seq(Vols)]

Task0 == [at : {"none", "resolve", "exists", "create", "grow", "vm"}, i : Nat \ {0}, held : SUBSET Vols,
          fresh : BOOLEAN]
Ask0 == [op : {"none", "create", "remove", "prune"}, at : {"none", "lease", "next", "file", "thread", "marker"},
         vol : Vols \cup {FREE}, todo : SUBSET Vols, saw : SUBSET Runs]
Thread0 == [vol : Vols, by : Runs \cup Clients, op : {"create", "grow"}]

\* Where a command holds the lease of its volume.
Busy == {"file", "thread", "marker"}

\* What the steps rely on: a boot that sees to an image holds its lease, and a
\* command that has a lease to take has a volume.
Typed ==
  /\ lease \in [Vols -> Runs \cup {FREE, MAINTENANCE}]
  /\ task \in [Runs -> Task0] /\ client \in [Clients -> Ask0] /\ threads \subseteq Thread0
  /\ "cancelled" \in DOMAIN past
  /\ \A r \in Runs : task[r].at \in {"exists", "create", "grow"} =>
       task[r].i \in DOMAIN Mounts[r] /\ Mount(r) \in task[r].held
  /\ \A c \in Clients : client[c].at \in Busy \cup {"lease"} => client[c].vol \in Vols

HeldIsLeased == \A r \in Runs : \A v \in task[r].held : lease[v] = r

BusyIsLeased ==
  /\ \A c \in Clients : client[c].at \in Busy => lease[client[c].vol] = MAINTENANCE
  /\ \A c, d \in Clients :
       client[c].at \in Busy /\ client[d].at \in Busy /\ client[c].vol = client[d].vol => c = d

\* A command waits for its one thread.
ClientWaits ==
  /\ \A t \in threads : t.by \in Clients => client[t.by].at = "thread" /\ client[t.by].vol = t.vol
  /\ \A t, u \in threads : t.by = u.by /\ t.by \in Clients => t = u

\* Unless it was cancelled, a boot waits for the thread it started.
RunWaits ==
  ~past.cancelled =>
    \A t \in threads : t.by \in Runs => task[t.by].at = t.op /\ Mount(t.by) = t.vol

LeaseInv == Typed /\ HeldIsLeased /\ BusyIsLeased /\ ClientWaits /\ LeaseIsHeld
UserInv == LeaseInv /\ RunWaits

-----------------------------------------------------------------------------
(* The leases, by what a step does to them.                                *)

\* A boot that goes on with the leases it has (SkipMount, ensure_image, the VM).
LEMMA RunMoves ==
  ASSUME ConstantsOK, LeaseInv, NEW r \in Runs, NEW new \in Task0, new.held = task[r].held,
         new.at \in {"exists", "create", "grow"} => new.i = task[r].i /\ task[r].at = "exists",
         task' = [task EXCEPT ![r] = new], lease' = lease, client' = client,
         threads' \subseteq Thread0, \A t \in threads' : t \in threads \/ t.by \in Runs,
         "cancelled" \in DOMAIN past'
  PROVE  LeaseInv'
<1>1. Typed'
  BY SMTT(30) DEF ConstantsOK, LeaseInv, Typed, Mount, Busy, Task0
<1>2. HeldIsLeased' /\ LeaseIsHeld'
  BY DEF LeaseInv, Typed, HeldIsLeased, LeaseIsHeld
<1>3. BusyIsLeased' /\ ClientWaits'
  BY DEF ConstantsOK, LeaseInv, BusyIsLeased, ClientWaits
<1> QED
  BY <1>1, <1>2, <1>3 DEF LeaseInv

\* A boot that ends drops its leases and no one else's (Drop for VolumeLease).
LEMMA BootEnds ==
  ASSUME ConstantsOK, LeaseInv, NEW r \in Runs, EndBoot(r), client' = client,
         threads' \subseteq threads, "cancelled" \in DOMAIN past'
  PROVE  LeaseInv'
<1>1. task' = [task EXCEPT ![r] = NoTask] /\ NoTask \in Task0 /\ NoTask.held = {} /\ NoTask.at = "none"
  BY DEF EndBoot, NoTask, Task0
<1>2. lease' = [v \in Vols |-> IF v \in task[r].held THEN FREE ELSE lease[v]]
  BY DEF EndBoot, Release
<1>3. \A s \in Runs : task'[s].held = IF s = r THEN {} ELSE task[s].held
  BY <1>1 DEF LeaseInv, Typed
<1>4. \A v \in task[r].held : v \in Vols /\ lease[v] = r
  BY DEF LeaseInv, Typed, HeldIsLeased, Task0
<1>5. Typed'
  <2>1. task' \in [Runs -> Task0] /\ lease' \in [Vols -> Runs \cup {FREE, MAINTENANCE}]
    BY <1>1, <1>2 DEF LeaseInv, Typed
  <2>2. \A s \in Runs : task'[s].at \in {"exists", "create", "grow"} =>
          s # r /\ task'[s] = task[s]
    BY <1>1 DEF LeaseInv, Typed
  <2> QED
    BY <2>1, <2>2 DEF LeaseInv, Typed, Mount, Busy
<1>6. HeldIsLeased'
  BY <1>2, <1>3, <1>4 DEF LeaseInv, Typed, HeldIsLeased, Task0
<1>7. BusyIsLeased'
  BY <1>2, <1>4 DEF ConstantsOK, LeaseInv, Typed, BusyIsLeased, Busy
<1>8. ClientWaits'
  BY DEF LeaseInv, ClientWaits
<1>9. LeaseIsHeld'
  <2> SUFFICES ASSUME NEW v \in Vols
               PROVE  /\ lease'[v] \in Runs => v \in task'[lease'[v]].held
                      /\ lease'[v] = MAINTENANCE =>
                           \E c \in Clients : client[c].vol = v /\ client[c].at \in Busy
    BY DEF LeaseIsHeld, Busy
  <2>1. lease'[v] # FREE => lease'[v] = lease[v] /\ v \notin task[r].held
    BY <1>2
  <2>2. lease'[v] \in Runs \/ lease'[v] = MAINTENANCE => lease'[v] # FREE
    BY DEF ConstantsOK, FREE, MAINTENANCE
  <2> QED
    BY <1>3, <2>1, <2>2 DEF LeaseInv, LeaseIsHeld, Busy
<1> QED
  BY <1>5, <1>6, <1>7, <1>8, <1>9 DEF LeaseInv

\* A command that has no lease and takes none.
LEMMA ClientMoves ==
  ASSUME ConstantsOK, LeaseInv, NEW c \in Clients, client[c].at \notin Busy,
         NEW new \in Ask0, new.at \notin Busy, new.at = "lease" => new.vol \in Vols,
         client' = [client EXCEPT ![c] = new], lease' = lease, task' = task, threads' = threads,
         "cancelled" \in DOMAIN past'
  PROVE  LeaseInv'
<1>1. \A d \in Clients : client'[d] = IF d = c THEN new ELSE client[d]
  BY DEF LeaseInv, Typed
<1>2. Typed'
  BY <1>1 DEF LeaseInv, Typed, Mount
<1>3. HeldIsLeased' /\ BusyIsLeased'
  BY <1>1 DEF LeaseInv, HeldIsLeased, BusyIsLeased
<1>4. ClientWaits'
  BY <1>1 DEF LeaseInv, ClientWaits, Busy
<1>5. LeaseIsHeld'
  BY <1>1 DEF LeaseInv, LeaseIsHeld, Busy
<1> QED
  BY <1>2, <1>3, <1>4, <1>5 DEF LeaseInv

\* A command that is done with its volume drops the lease it had of it.
LEMMA ClientFrees ==
  ASSUME ConstantsOK, LeaseInv, NEW c \in Clients, client[c].at \in Busy,
         NEW new \in Ask0, new.at \in {"none", "next"},
         client' = [client EXCEPT ![c] = new], Release({client[c].vol}), task' = task,
         threads' \subseteq threads, \A t \in threads' : t.by # c, "cancelled" \in DOMAIN past'
  PROVE  LeaseInv'
<1>1. \A d \in Clients : client'[d] = IF d = c THEN new ELSE client[d]
  BY DEF LeaseInv, Typed
<1>2. lease' = [v \in Vols |-> IF v = client[c].vol THEN FREE ELSE lease[v]]
  BY DEF Release
<1>3. client[c].vol \in Vols /\ lease[client[c].vol] = MAINTENANCE
  BY DEF LeaseInv, Typed, BusyIsLeased
<1>4. Typed'
  BY <1>1, <1>2 DEF LeaseInv, Typed, Mount, Busy
<1>5. HeldIsLeased'
  BY <1>2, <1>3 DEF ConstantsOK, LeaseInv, Typed, HeldIsLeased, Task0
<1>6. BusyIsLeased'
  BY <1>1, <1>2, <1>3 DEF LeaseInv, Typed, BusyIsLeased, Busy
<1>7. ClientWaits'
  BY <1>1 DEF LeaseInv, ClientWaits
<1>8. LeaseIsHeld'
  <2> SUFFICES ASSUME NEW v \in Vols
               PROVE  /\ lease'[v] \in Runs => v \in task[lease'[v]].held
                      /\ lease'[v] = MAINTENANCE =>
                           \E d \in Clients : client'[d].vol = v /\ client'[d].at \in Busy
    BY DEF LeaseIsHeld, Busy
  <2>1. lease'[v] # FREE => lease'[v] = lease[v] /\ v # client[c].vol
    BY <1>2
  <2>2. lease'[v] \in Runs \/ lease'[v] = MAINTENANCE => lease'[v] # FREE
    BY DEF ConstantsOK, FREE, MAINTENANCE
  <2> QED
    BY <1>1, <2>1, <2>2 DEF LeaseInv, LeaseIsHeld, Busy
<1> QED
  BY <1>4, <1>5, <1>6, <1>7, <1>8 DEF LeaseInv

-----------------------------------------------------------------------------
(* Every step keeps the leases right.                                      *)

\* take_lease gives a boot a lease that was free.
LEMMA RunTakes ==
  ASSUME ConstantsOK, LeaseInv, NEW r \in Runs, TakeLease(r)
  PROVE  LeaseInv'
<1> DEFINE v == Mount(r)
<1>1. /\ task[r].i \in DOMAIN Mounts[r] /\ v \in Vols /\ lease[v] = FREE
      /\ lease' = [lease EXCEPT ![v] = r] /\ client' = client /\ threads' = threads /\ past' = past
  <2>1. task[r].at = "resolve" /\ task[r].i <= Len(Mounts[r])
    BY DEF TakeLease
  <2>2. task[r].i \in DOMAIN Mounts[r] /\ v \in Vols
    BY <2>1 DEF ConstantsOK, LeaseInv, Typed, Mount, Task0
  <2> QED
    BY <2>2 DEF TakeLease
<1>2. \A s \in Runs : /\ s # r => task'[s] = task[s]
                      /\ task'[s].held = IF s = r THEN task[r].held \cup {v} ELSE task[s].held
  BY DEF TakeLease, LeaseInv, Typed, Task0
<1>3. task' \in [Runs -> Task0] /\ task'[r].i = task[r].i
  BY <1>1 DEF TakeLease, LeaseInv, Typed, Task0
<1>4. \A w \in Vols : lease'[w] = IF w = v THEN r ELSE lease[w]
  BY <1>1 DEF LeaseInv, Typed
<1>5. FREE # r /\ FREE \notin Runs /\ FREE # MAINTENANCE /\ MAINTENANCE # r
  BY DEF ConstantsOK, FREE, MAINTENANCE
<1>6. Mount(r)' = v
  BY <1>3 DEF Mount
<1> HIDE DEF v
<1>7. Typed'
  <2>1. lease' \in [Vols -> Runs \cup {FREE, MAINTENANCE}]
    BY <1>1 DEF LeaseInv, Typed
  <2>2. ASSUME NEW s \in Runs, task'[s].at \in {"exists", "create", "grow"}
        PROVE  task'[s].i \in DOMAIN Mounts[s] /\ Mount(s)' \in task'[s].held
    <3>1. CASE s = r
      BY <3>1, <1>1, <1>2, <1>3, <1>6
    <3>2. CASE s # r
      BY <3>2, <2>2, <1>2 DEF LeaseInv, Typed, Mount
    <3> QED
      BY <3>1, <3>2
  <2> QED
    BY <1>1, <1>3, <2>1, <2>2 DEF LeaseInv, Typed
<1>8. HeldIsLeased'
  BY <1>1, <1>2, <1>4, <1>5 DEF LeaseInv, Typed, HeldIsLeased, Task0
<1>9. BusyIsLeased'
  BY <1>1, <1>4, <1>5 DEF LeaseInv, Typed, BusyIsLeased
<1>10. ClientWaits'
  BY <1>1 DEF LeaseInv, ClientWaits
<1>11. LeaseIsHeld'
  BY <1>1, <1>2, <1>4, <1>5 DEF LeaseInv, LeaseIsHeld
<1> QED
  BY <1>7, <1>8, <1>9, <1>10, <1>11 DEF LeaseInv

\* take_lease gives a command a lease that was free, or the command leaves the
\* volume alone.
LEMMA ClientTakes ==
  ASSUME ConstantsOK, LeaseInv, NEW c \in Clients, AskLease(c)
  PROVE  LeaseInv'
<1> DEFINE v == client[c].vol
<1>1. /\ client[c].at = "lease" /\ v \in Vols /\ client[c] \in Ask0
      /\ task' = task /\ threads' = threads /\ past' = past
  BY DEF AskLease, LeaseInv, Typed
<1>2. CASE lease[v] # FREE
  <2>1. AfterVol(c) \in Ask0 /\ AfterVol(c).at \in {"none", "next"}
    BY <1>1 DEF AfterVol, NoAsk, Ask0
  <2>2. client' = [client EXCEPT ![c] = AfterVol(c)] /\ lease' = lease
    BY <1>2 DEF AskLease
  <2>3. client[c].at \notin Busy /\ AfterVol(c).at \notin Busy \cup {"lease"}
    BY <1>1, <2>1 DEF Busy
  <2> QED
    BY <1>1, <2>1, <2>2, <2>3, ClientMoves DEF LeaseInv, Typed
<1>3. CASE lease[v] = FREE
  <2>1. lease' = [lease EXCEPT ![v] = MAINTENANCE] /\ client' = [client EXCEPT ![c].at = "file"]
    BY <1>3 DEF AskLease
  <2>2. /\ client' \in [Clients -> Ask0] /\ client'[c].at = "file" /\ client'[c].vol = v
        /\ \A d \in Clients : d # c => client'[d] = client[d]
    BY <2>1 DEF LeaseInv, Typed, Ask0
  <2>3. \A w \in Vols : lease'[w] = IF w = v THEN MAINTENANCE ELSE lease[w]
    BY <2>1 DEF LeaseInv, Typed
  <2>4. FREE \notin Runs /\ FREE # MAINTENANCE /\ MAINTENANCE \notin Runs
    BY DEF ConstantsOK, FREE, MAINTENANCE
  <2> HIDE DEF v
  <2>5. Typed'
    BY <1>1, <2>1, <2>2 DEF LeaseInv, Typed, Mount
  <2>6. HeldIsLeased'
    BY <1>1, <1>3, <2>3, <2>4 DEF LeaseInv, Typed, HeldIsLeased, Task0
  <2>7. BusyIsLeased'
    BY <1>1, <1>3, <2>2, <2>3, <2>4 DEF LeaseInv, Typed, BusyIsLeased
  <2>8. ClientWaits'
    BY <1>1, <2>2 DEF LeaseInv, ClientWaits
  <2>9. LeaseIsHeld'
    BY <1>1, <1>3, <2>2, <2>3, <2>4 DEF LeaseInv, LeaseIsHeld
  <2> QED
    BY <2>5, <2>6, <2>7, <2>8, <2>9 DEF LeaseInv
<1> QED
  BY <1>2, <1>3

\* A command that keeps its lease: it starts its thread, or goes on from the
\* image to the marker.
LEMMA ClientStays ==
  ASSUME ConstantsOK, LeaseInv, NEW c \in Clients, client[c].at = "file", NEW at \in {"thread", "marker"},
         client' = [client EXCEPT ![c].at = at], lease' = lease, task' = task,
         \/ threads' = threads
         \/ /\ at = "thread"
            /\ \E op \in {"create", "grow"} : threads' = threads \cup {Thread(client[c].vol, c, op)},
         "cancelled" \in DOMAIN past'
  PROVE  LeaseInv'
<1>1. /\ client' \in [Clients -> Ask0] /\ client'[c].at = at /\ client'[c].vol = client[c].vol
      /\ \A d \in Clients : d # c => client'[d] = client[d]
  BY DEF LeaseInv, Typed, Ask0
<1>2. client[c].vol \in Vols
  BY DEF LeaseInv, Typed, Busy
<1>3. \A t \in threads : t.by # c
  BY DEF LeaseInv, ClientWaits
<1>4. threads' \subseteq Thread0
  BY <1>2 DEF LeaseInv, Typed, Thread, Thread0
<1>5. Typed'
  BY <1>1, <1>2, <1>4 DEF LeaseInv, Typed, Mount, Busy
<1>6. HeldIsLeased' /\ BusyIsLeased'
  BY <1>1 DEF LeaseInv, HeldIsLeased, BusyIsLeased, Busy
<1>7. ClientWaits'
  BY <1>1, <1>3 DEF LeaseInv, ClientWaits, Thread
<1>8. LeaseIsHeld'
  BY <1>1 DEF LeaseInv, LeaseIsHeld
<1> QED
  BY <1>5, <1>6, <1>7, <1>8 DEF LeaseInv


\* A thread that ends, well or not, lets go on what waits for it, and drops the
\* lease of a command.
LEMMA ThreadsEnd ==
  ASSUME ConstantsOK, LeaseInv, NEW t \in threads, CreateDone(t) \/ GrowDone(t) \/ GrowFails(t)
  PROVE  LeaseInv'
<1>1. t \in Thread0 /\ threads' = threads \ {t} /\ "cancelled" \in DOMAIN past'
  BY DEF LeaseInv, Typed, CreateDone, GrowDone, GrowFails, ThreadDone
<1>2. CASE t.by \in Clients
  <2>1. t.by \notin Runs
    BY <1>2 DEF ConstantsOK
  <2>2. client[t.by].at \in Busy /\ client[t.by].vol = t.vol
    BY <1>2 DEF LeaseInv, ClientWaits, Busy
  <2>3. client' = [client EXCEPT ![t.by] = NoAsk] /\ Release({t.vol}) /\ task' = task
    BY <2>1 DEF CreateDone, GrowDone, GrowFails, ThreadDone
  <2>4. NoAsk \in Ask0 /\ NoAsk.at \in {"none", "next"}
    BY DEF NoAsk, Ask0
  <2>5. \A u \in threads' : u.by # t.by
    BY <1>1, <1>2 DEF LeaseInv, ClientWaits
  <2> QED
    BY <1>1, <1>2, <2>2, <2>3, <2>4, <2>5, ClientFrees
<1>3. CASE t.by \in Runs
  <2>1. client' = client
    BY <1>3 DEF CreateDone, GrowDone, GrowFails, ThreadDone
  <2>2. CASE EndBoot(t.by)
    BY <1>1, <1>3, <2>1, <2>2, BootEnds
  <2>3. CASE ~EndBoot(t.by)
    <3> DEFINE moves == [task[t.by] EXCEPT !.at = "resolve", !.i = @ + 1]
    <3>1. task' = [task EXCEPT ![t.by] = moves] \/ task' = task
      BY <1>3, <2>3 DEF CreateDone, GrowDone, GrowFails, ThreadDone
    <3>2. lease' = lease
      BY <1>3, <2>3 DEF CreateDone, GrowDone, GrowFails, ThreadDone
    <3>3. task[t.by] \in Task0
      BY <1>3 DEF LeaseInv, Typed
    <3>4. moves \in Task0 /\ moves.held = task[t.by].held /\ moves.at = "resolve"
      <4>1. task[t.by].i + 1 \in Nat \ {0}
        BY <3>3 DEF Task0
      <4> QED
        BY <3>3, <4>1 DEF Task0
    <3> HIDE DEF moves
    <3>5. CASE task' = [task EXCEPT ![t.by] = moves]
      BY <1>1, <1>3, <2>1, <3>2, <3>4, <3>5, RunMoves DEF LeaseInv, Typed
    <3>6. CASE task' = task
      BY <1>1, <2>1, <3>2, <3>6
         DEF LeaseInv, Typed, Mount, HeldIsLeased, BusyIsLeased, ClientWaits, LeaseIsHeld
    <3> QED
      BY <3>1, <3>5, <3>6
  <2> QED
    BY <2>2, <2>3
<1> QED
  BY <1>1, <1>2, <1>3 DEF Thread0

\* A step of a boot keeps the leases right.
LEMMA RunSteps ==
  ASSUME ConstantsOK, LeaseInv, NEW r \in Runs,
         \/ Begin(r) \/ SkipMount(r) \/ TakeLease(r) \/ EnsureImage(r) \/ Refuse(r)
         \/ Boot(r) \/ VmEnds(r) \/ RemoveRun(r) \/ Cancel(r)
  PROVE  LeaseInv'
<1> USE DEF LeaseInv
<1>1. task[r] \in Task0 /\ "cancelled" \in DOMAIN past
  BY DEF Typed
<1>2. CASE Begin(r)
  <2> DEFINE fresh == entry[r] = "none"
             new == [NoTask EXCEPT !.at = "resolve", !.fresh = fresh]
  <2>1. fresh \in BOOLEAN
    OBVIOUS
  <2>2. /\ task' = [task EXCEPT ![r] = new] /\ lease' = lease /\ client' = client /\ threads' = threads
        /\ "cancelled" \in DOMAIN past'
    BY <1>1, <1>2 DEF Begin
  <2> HIDE DEF fresh
  <2>3. new \in Task0 /\ new.held = {} /\ new.at = "resolve"
    <3> DEFINE first == [NoTask EXCEPT !.at = "resolve", !.fresh = TRUE]
               again == [NoTask EXCEPT !.at = "resolve", !.fresh = FALSE]
    <3>0. NoTask \in Task0 /\ NoTask.held = {}
      BY DEF NoTask, Task0
    <3>1. /\ first \in Task0 /\ first.held = {} /\ first.at = "resolve"
          /\ again \in Task0 /\ again.held = {} /\ again.at = "resolve"
      BY <3>0 DEF Task0
    <3>2. new = first \/ new = again
      BY <2>1, Zenon
    <3> QED
      BY <3>1, <3>2
  <2>4. task[r].held = {}
    BY <1>2 DEF Begin, NoTask
  <2> HIDE DEF new
  <2> QED
    BY <2>2, <2>3, <2>4, RunMoves DEF Typed
<1>3. CASE SkipMount(r)
  <2> DEFINE new == [task[r] EXCEPT !.i = @ + 1]
  <2>1. new \in Task0 /\ new.held = task[r].held /\ new.at = "resolve"
    BY <1>1, <1>3 DEF SkipMount, Task0
  <2>2. /\ task' = [task EXCEPT ![r] = new] /\ lease' = lease /\ client' = client /\ threads' = threads
        /\ past' = past
    BY <1>3 DEF SkipMount
  <2> HIDE DEF new
  <2> QED
    BY <1>1, <2>1, <2>2, RunMoves DEF Typed
<1>4. CASE TakeLease(r)
  BY <1>4, RunTakes
<1>5. CASE EnsureImage(r)
  <2> DEFINE op == IF image[Mount(r)].exists THEN "grow" ELSE "create"
             new == [task[r] EXCEPT !.at = op]
             thread == Thread(Mount(r), r, op)
  <2>1. op \in {"create", "grow"} /\ task[r].at = "exists"
    BY <1>5 DEF EnsureImage
  <2>2. /\ task' = [task EXCEPT ![r] = new] /\ lease' = lease /\ client' = client
        /\ threads' = threads \cup {thread} /\ past' = past
    BY <1>5 DEF EnsureImage
  <2> HIDE DEF op
  <2>3. new \in Task0 /\ new.held = task[r].held /\ new.i = task[r].i
    BY <1>1, <2>1 DEF Task0
  <2>4. thread \in Thread0 /\ thread.by = r
    BY <2>1, <1>1 DEF Typed, Thread, Thread0, Task0
  <2> HIDE DEF new, thread
  <2> QED
    BY <1>1, <2>1, <2>2, <2>3, <2>4, RunMoves DEF Typed
<1>6. CASE Refuse(r) \/ VmEnds(r)
  BY <1>1, <1>6, BootEnds DEF Refuse, VmEnds
<1>7. CASE Boot(r)
  <2> DEFINE new == [task[r] EXCEPT !.at = "vm", !.fresh = FALSE]
  <2>1. new \in Task0 /\ new.held = task[r].held /\ new.at = "vm"
    BY <1>1 DEF Task0
  <2>2. /\ task' = [task EXCEPT ![r] = new] /\ lease' = lease /\ client' = client /\ threads' = threads
        /\ "cancelled" \in DOMAIN past'
    BY <1>1, <1>7 DEF Boot
  <2> HIDE DEF new
  <2> QED
    BY <2>1, <2>2, RunMoves DEF Typed
<1>8. CASE RemoveRun(r)
  BY <1>1, <1>8
     DEF RemoveRun, Typed, Mount, HeldIsLeased, BusyIsLeased, ClientWaits, LeaseIsHeld
<1>9. CASE Cancel(r)
  <2>1. "cancelled" \in DOMAIN past'
    BY <1>1, <1>9 DEF Cancel
  <2> QED
    BY <1>9, <2>1, BootEnds DEF Cancel
<1> QED
  BY <1>2, <1>3, <1>4, <1>5, <1>6, <1>7, <1>8, <1>9

\* A step of a command keeps the leases right.
LEMMA ClientSteps ==
  ASSUME ConstantsOK, LeaseInv, NEW c \in Clients,
         \/ \E v \in Vols : AskCreate(c, v) \/ AskRemove(c, v)
         \/ AskPrune(c) \/ PruneNext(c) \/ PruneDone(c) \/ AskLease(c)
         \/ AskEnsure(c) \/ RemoveFile(c) \/ RemoveMarker(c)
  PROVE  LeaseInv'
<1>1. client[c] \in Ask0 /\ "cancelled" \in DOMAIN past
  BY DEF LeaseInv, Typed
<1>2. NoAsk \in Ask0 /\ NoAsk.at = "none"
  BY DEF NoAsk, Ask0
<1>3. ASSUME NEW ask \in Ask0, ask.at \in {"lease", "next"}, ask.at = "lease" => ask.vol \in Vols,
             StartAsk(c, ask)
      PROVE  LeaseInv'
  <2>1. /\ client' = [client EXCEPT ![c] = ask] /\ client[c].at = "none"
        /\ lease' = lease /\ task' = task /\ threads' = threads /\ "cancelled" \in DOMAIN past'
    BY <1>1, <1>2, <1>3 DEF StartAsk
  <2>2. ask.at \notin Busy /\ client[c].at \notin Busy
    BY <1>3, <2>1 DEF Busy
  <2> QED
    BY <1>3, <2>1, <2>2, ClientMoves
<1>4. CASE \E v \in Vols : AskCreate(c, v) \/ AskRemove(c, v)
  <2>1. PICK v \in Vols : AskCreate(c, v) \/ AskRemove(c, v)
    BY <1>4
  <2>2. CASE AskCreate(c, v)
    <3> DEFINE ask == [NoAsk EXCEPT !.op = "create", !.at = "lease", !.vol = v]
    <3>1. ask \in Ask0 /\ ask.at = "lease" /\ ask.vol = v
      BY DEF NoAsk, Ask0
    <3>2. StartAsk(c, ask)
      BY <2>2 DEF AskCreate
    <3> QED
      BY <1>3, <3>1, <3>2
  <2>3. CASE AskRemove(c, v)
    <3> DEFINE ask == [NoAsk EXCEPT !.op = "remove", !.at = "lease", !.vol = v,
                                    !.saw = {r \in Runs : entry[r] # "none"}]
    <3>1. ask \in Ask0 /\ ask.at = "lease" /\ ask.vol = v
      BY DEF NoAsk, Ask0
    <3>2. StartAsk(c, ask)
      BY <2>3 DEF AskRemove
    <3> QED
      BY <1>3, <3>1, <3>2
  <2> QED
    BY <2>1, <2>2, <2>3
<1>5. CASE AskPrune(c)
  <2> DEFINE ask == [NoAsk EXCEPT !.op = "prune", !.at = "next", !.todo = {v \in Vols : image[v].exists}]
  <2>1. ask \in Ask0 /\ ask.at = "next"
    BY DEF NoAsk, Ask0
  <2>2. StartAsk(c, ask)
    BY <1>5 DEF AskPrune
  <2> QED
    BY <1>3, <2>1, <2>2
<1>6. CASE PruneNext(c)
  <2> DEFINE saw == {r \in Runs : entry[r] # "none"}
             At(v) == IF Claimants(v) = {} THEN "lease" ELSE "next"
             New(v) == [client[c] EXCEPT !.todo = @ \ {v}, !.vol = v, !.at = At(v), !.saw = saw]
  <2>1. PICK v \in client[c].todo : client' = [client EXCEPT ![c] = New(v)]
    BY <1>6 DEF PruneNext
  <2> DEFINE at == At(v)
             new == New(v)
  <2>2. at \in {"lease", "next"} /\ saw \subseteq Runs /\ v \in Vols
    BY <1>1 DEF Ask0
  <2>3. client' = [client EXCEPT ![c] = new]
    BY <2>1
  <2> HIDE DEF At, saw
  <2>4. new \in Ask0 /\ new.at = at /\ new.vol = v
    BY <1>1, <2>2 DEF Ask0
  <2> HIDE DEF new, New
  <2>5. /\ client[c].at = "next" /\ lease' = lease /\ task' = task /\ threads' = threads /\ past' = past
    BY <1>6 DEF PruneNext
  <2>6. new.at \notin Busy /\ client[c].at \notin Busy
    BY <2>2, <2>4, <2>5 DEF Busy
  <2> QED
    BY <1>1, <2>2, <2>3, <2>4, <2>5, <2>6, ClientMoves
<1>7. CASE PruneDone(c)
  <2>1. /\ client[c].at = "next" /\ client' = [client EXCEPT ![c] = NoAsk]
        /\ lease' = lease /\ task' = task /\ threads' = threads /\ past' = past
    BY <1>7 DEF PruneDone
  <2>2. NoAsk.at \notin Busy /\ client[c].at \notin Busy
    BY <1>2, <2>1 DEF Busy
  <2> QED
    BY <1>1, <1>2, <2>1, <2>2, ClientMoves
<1>8. CASE AskLease(c)
  BY <1>8, ClientTakes
<1>9. CASE AskEnsure(c)
  <2> DEFINE op == IF image[client[c].vol].exists THEN "grow" ELSE "create"
  <2>1. /\ client[c].at = "file" /\ client' = [client EXCEPT ![c].at = "thread"]
        /\ threads' = threads \cup {Thread(client[c].vol, c, op)}
        /\ lease' = lease /\ task' = task /\ past' = past
    BY <1>9 DEF AskEnsure
  <2>2. op \in {"create", "grow"}
    OBVIOUS
  <2> HIDE DEF op
  <2> QED
    BY <1>1, <2>1, <2>2, ClientStays
<1>10. CASE RemoveFile(c)
  <2> DEFINE more == client[c].op = "remove" /\ image[client[c].vol].exists
  <2>1. client[c].at = "file" /\ task' = task /\ threads' = threads
    BY <1>10 DEF RemoveFile
  <2>2. "cancelled" \in DOMAIN past'
    BY <1>1, <1>10 DEF RemoveFile
  <2>3. CASE more
    <3>1. client' = [client EXCEPT ![c] = [@ EXCEPT !.at = "marker"]] /\ lease' = lease
      BY <1>10, <2>3 DEF RemoveFile
    <3> QED
      BY <2>1, <2>2, <3>1, ClientStays
  <2>4. CASE ~more
    <3>1. client' = [client EXCEPT ![c] = AfterVol(c)] /\ Release({client[c].vol})
      BY <1>10, <2>4 DEF RemoveFile
    <3>2. AfterVol(c) \in Ask0 /\ AfterVol(c).at \in {"none", "next"}
      BY <1>1 DEF AfterVol, NoAsk, Ask0
    <3>3. client[c].at \in Busy /\ \A t \in threads : t.by # c
      BY <2>1 DEF Busy, LeaseInv, ClientWaits
    <3> QED
      BY <2>1, <2>2, <3>1, <3>2, <3>3, ClientFrees
  <2> QED
    BY <2>3, <2>4
<1>11. CASE RemoveMarker(c)
  <2>1. /\ client[c].at = "marker" /\ client' = [client EXCEPT ![c] = NoAsk]
        /\ Release({client[c].vol}) /\ task' = task /\ threads' = threads /\ past' = past
    BY <1>11 DEF RemoveMarker
  <2>2. client[c].at \in Busy /\ \A t \in threads : t.by # c
    BY <2>1 DEF Busy, LeaseInv, ClientWaits
  <2> QED
    BY <1>1, <1>2, <2>1, <2>2, ClientFrees
<1> QED
  BY <1>4, <1>5, <1>6, <1>7, <1>8, <1>9, <1>10, <1>11

\* Nothing is held when the service starts.
LEMMA NothingHeld ==
  ASSUME ConstantsOK, VolInit
  PROVE  UserInv
<1>1. NoTask \in Task0 /\ NoTask.at = "none" /\ NoTask.held = {} /\ NoAsk \in Ask0 /\ NoAsk.at = "none"
  BY DEF NoTask, NoAsk, Task0, Ask0
<1>2. /\ lease = [v \in Vols |-> FREE] /\ task = [r \in Runs |-> NoTask]
      /\ client = [c \in Clients |-> NoAsk] /\ threads = {} /\ "cancelled" \in DOMAIN past
  BY DEF VolInit
<1>3. Typed
  BY <1>1, <1>2 DEF Typed, Busy
<1>4. HeldIsLeased /\ BusyIsLeased /\ ClientWaits /\ RunWaits
  BY <1>1, <1>2 DEF HeldIsLeased, BusyIsLeased, ClientWaits, RunWaits, Busy
<1>5. LeaseIsHeld
  BY <1>2 DEF LeaseIsHeld, ConstantsOK, FREE, MAINTENANCE
<1> QED
  BY <1>3, <1>4, <1>5 DEF UserInv, LeaseInv

\* Nor is anything when it starts again.
LEMMA NothingHeldAfter ==
  ASSUME ConstantsOK, LeaseInv, Crash
  PROVE  UserInv'
<1>1. NoTask \in Task0 /\ NoTask.at = "none" /\ NoTask.held = {} /\ NoAsk \in Ask0 /\ NoAsk.at = "none"
  BY DEF NoTask, NoAsk, Task0, Ask0
<1>2. /\ lease' = [v \in Vols |-> FREE] /\ task' = [r \in Runs |-> NoTask]
      /\ client' = [c \in Clients |-> NoAsk] /\ threads' = {}
  BY DEF Crash
<1>3. "cancelled" \in DOMAIN past'
  BY DEF Crash, LeaseInv, Typed
<1>4. Typed'
  BY <1>1, <1>2, <1>3 DEF Typed, Busy
<1>5. HeldIsLeased' /\ BusyIsLeased' /\ ClientWaits' /\ RunWaits'
  BY <1>1, <1>2 DEF HeldIsLeased, BusyIsLeased, ClientWaits, RunWaits, Busy
<1>6. LeaseIsHeld'
  BY <1>2 DEF LeaseIsHeld, ConstantsOK, FREE, MAINTENANCE
<1> QED
  BY <1>4, <1>5, <1>6 DEF UserInv, LeaseInv

\* Every step keeps the leases right.
LEMMA LeasesKept ==
  ASSUME ConstantsOK, LeaseInv, [VolNext]_volVars
  PROVE  LeaseInv'
<1>1. CASE VolNext
  BY <1>1, RunSteps, ThreadsEnd, ClientSteps, NothingHeldAfter DEF VolNext, UserInv
<1>2. CASE UNCHANGED volVars
  BY <1>2 DEF volVars, LeaseInv, Typed, Mount, HeldIsLeased, BusyIsLeased, ClientWaits, LeaseIsHeld
<1> QED
  BY <1>1, <1>2

-----------------------------------------------------------------------------
(* Who waits for a thread.                                                 *)

\* Every step leaves a boot whose thread is at work waiting for it.
LEMMA RunsWait ==
  ASSUME ConstantsOK, UserInv, [VolNext]_volVars
  PROVE  RunWaits'
<1> SUFFICES ASSUME ~past'.cancelled, NEW t \in threads', t.by \in Runs
             PROVE  task'[t.by].at = t.op /\ Mount(t.by)' = t.vol
  BY DEF RunWaits
<1> USE DEF UserInv, LeaseInv
<1>1. /\ "cancelled" \in DOMAIN past /\ threads \subseteq Thread0
      /\ \A r \in Runs : task[r] \in Task0
      /\ task \in [Runs -> Task0]
  BY DEF Typed
<1>2. ASSUME ~past.cancelled, t \in threads PROVE task[t.by].at = t.op /\ Mount(t.by) = t.vol
                                                  /\ t.op \in {"create", "grow"}
  BY <1>1, <1>2 DEF RunWaits, Thread0
<1>3. ASSUME ~past.cancelled, t \in threads, task'[t.by] = task[t.by]
      PROVE  task'[t.by].at = t.op /\ Mount(t.by)' = t.vol
  BY <1>2, <1>3 DEF Mount
<1>4. ASSUME NEW r \in Runs,
             \/ Begin(r) \/ SkipMount(r) \/ TakeLease(r) \/ Refuse(r) \/ Boot(r) \/ VmEnds(r)
      PROVE  task'[t.by].at = t.op /\ Mount(t.by)' = t.vol
  <2>1. ~past.cancelled
    BY <1>1, <1>4 DEF Begin, SkipMount, TakeLease, Refuse, Boot, VmEnds
  <2>2. t \in threads
    BY <1>4 DEF Begin, SkipMount, TakeLease, Refuse, Boot, VmEnds
  <2>3. task[r].at \notin {"create", "grow"}
    BY <1>4 DEF Begin, SkipMount, TakeLease, Refuse, Boot, VmEnds, NoTask
  <2>4. t.by # r
    BY <1>2, <2>1, <2>2, <2>3
  <2>5. \A s \in Runs : s # r => task'[s] = task[s]
    BY <1>1, <1>4 DEF Begin, SkipMount, TakeLease, Refuse, Boot, VmEnds, EndBoot
  <2> QED
    BY <1>3, <2>1, <2>2, <2>4, <2>5
<1>5. ASSUME NEW r \in Runs, EnsureImage(r)
      PROVE  task'[t.by].at = t.op /\ Mount(t.by)' = t.vol
  <2> DEFINE op == IF image[Mount(r)].exists THEN "grow" ELSE "create"
  <2>1. /\ task[r].at = "exists" /\ threads' = threads \cup {Thread(Mount(r), r, op)} /\ past' = past
        /\ task' = [task EXCEPT ![r].at = op]
    BY <1>5 DEF EnsureImage
  <2> HIDE DEF op
  <2>2. CASE t \in threads
    <3>1. t.by # r
      BY <1>2, <2>1, <2>2
    <3> QED
      BY <1>1, <1>3, <2>1, <2>2, <3>1
  <2>3. CASE t = Thread(Mount(r), r, op)
    <3>1. t.by = r /\ t.op = op /\ t.vol = Mount(r)
      BY <2>3 DEF Thread
    <3>2. task'[r].at = op /\ task'[r].i = task[r].i
      BY <1>1, <2>1 DEF Task0
    <3> QED
      BY <3>1, <3>2 DEF Mount
  <2> QED
    BY <2>1, <2>2, <2>3
<1>6. ASSUME NEW r \in Runs, RemoveRun(r)
      PROVE  task'[t.by].at = t.op /\ Mount(t.by)' = t.vol
  BY <1>1, <1>3, <1>6 DEF RemoveRun
<1>7. ASSUME NEW r \in Runs, Cancel(r)
      PROVE  FALSE
  BY <1>1, <1>7 DEF Cancel
<1>8. ASSUME NEW u \in threads, CreateDone(u) \/ GrowDone(u) \/ GrowFails(u)
      PROVE  task'[t.by].at = t.op /\ Mount(t.by)' = t.vol
  <2>1. ~past.cancelled
    BY <1>1, <1>8 DEF CreateDone, GrowDone, GrowFails
  <2>2. t \in threads /\ t # u
    BY <1>8 DEF CreateDone, GrowDone, GrowFails, ThreadDone
  <2>3. t.by # u.by
    <3> SUFFICES ASSUME t.by = u.by PROVE t = u
      BY <2>2
    <3>1. t.op = u.op /\ t.vol = u.vol
      BY <2>1, <2>2, <1>8 DEF RunWaits
    <3>2. t \in Thread0 /\ u \in Thread0
      BY <1>1, <1>8, <2>2
    <3> QED
      BY <3>1, <3>2 DEF Thread0
  <2>4. task'[t.by] = task[t.by]
    BY <1>1, <1>8, <2>3 DEF CreateDone, GrowDone, GrowFails, ThreadDone, EndBoot
  <2> QED
    BY <1>3, <2>1, <2>2, <2>4
<1>9. ASSUME NEW c \in Clients,
             \/ \E v \in Vols : AskCreate(c, v) \/ AskRemove(c, v)
             \/ AskPrune(c) \/ PruneNext(c) \/ PruneDone(c) \/ AskLease(c)
             \/ AskEnsure(c) \/ RemoveFile(c) \/ RemoveMarker(c)
      PROVE  task'[t.by].at = t.op /\ Mount(t.by)' = t.vol
  <2>1. ~past.cancelled
    BY <1>1, <1>9 DEF AskCreate, AskRemove, AskPrune, StartAsk, PruneNext, PruneDone, AskLease,
                      AskEnsure, RemoveFile, RemoveMarker
  <2>2. task' = task
    BY <1>9 DEF AskCreate, AskRemove, AskPrune, StartAsk, PruneNext, PruneDone, AskLease,
                AskEnsure, RemoveFile, RemoveMarker
  <2>3. t \in threads \/ t.by = c
    <3>1. CASE AskEnsure(c)
      BY <3>1 DEF AskEnsure, Thread
    <3>2. CASE ~AskEnsure(c)
      <4>1. threads' = threads
        BY <1>9, <3>2 DEF AskCreate, AskRemove, AskPrune, StartAsk, PruneNext, PruneDone, AskLease,
                          RemoveFile, RemoveMarker
      <4> QED
        BY <4>1
    <3> QED
      BY <3>1, <3>2
  <2>4. t.by # c
    BY DEF ConstantsOK
  <2> QED
    BY <1>3, <2>1, <2>2, <2>3, <2>4
<1>10. ASSUME Crash PROVE task'[t.by].at = t.op /\ Mount(t.by)' = t.vol
  BY <1>10 DEF Crash
<1>11. CASE UNCHANGED volVars
  BY <1>3, <1>11 DEF volVars
<1> QED
  BY <1>4, <1>5, <1>6, <1>7, <1>8, <1>9, <1>10, <1>11 DEF VolNext

\* With the leases right and every boot waiting for its thread, the users of a
\* volume are its leaseholder.
LEMMA HolderIsUser ==
  ASSUME ConstantsOK, UserInv
  PROVE  OneUser
<1> SUFFICES ASSUME ~past.cancelled, NEW v \in Vols, NEW a \in Users(v), NEW b \in Users(v)
             PROVE  a = b
  BY DEF OneUser
<1> DEFINE Commands(x) == x \in Clients /\ client[x].vol = v /\ client[x].at \in Busy
<1>1. ASSUME NEW x \in Users(v) PROVE (x \in Runs /\ lease[v] = x) \/ Commands(x)
  <2>1. CASE x \in Runs /\ v \in task[x].held
    BY <2>1 DEF UserInv, LeaseInv, HeldIsLeased
  <2>2. CASE \E t \in threads : t.vol = v /\ t.by = x
    <3>1. PICK t \in threads : t.vol = v /\ t.by = x
      BY <2>2
    <3>2. CASE x \in Runs
      <4>1. task[x].at = t.op /\ Mount(x) = v /\ t.op \in {"create", "grow"}
        BY <3>1, <3>2 DEF UserInv, LeaseInv, RunWaits, Typed, Thread0
      <4> QED
        BY <3>2, <4>1 DEF UserInv, LeaseInv, Typed, HeldIsLeased
    <3>3. CASE x \in Clients
      BY <3>1, <3>3 DEF UserInv, LeaseInv, ClientWaits, Busy
    <3> QED
      BY <3>1, <3>2, <3>3 DEF UserInv, LeaseInv, Typed, Thread0
  <2>3. CASE x \in Clients /\ client[x].vol = v /\ client[x].at \in {"file", "marker"}
    BY <2>3 DEF Busy
  <2> QED
    BY <1>1, <2>1, <2>2, <2>3 DEF Users
<1>2. ASSUME NEW x, Commands(x) PROVE lease[v] = MAINTENANCE
  BY <1>2 DEF UserInv, LeaseInv, BusyIsLeased
<1>3. ASSUME Commands(a), Commands(b) PROVE a = b
  BY <1>3 DEF UserInv, LeaseInv, BusyIsLeased
<1> HIDE DEF Commands
<1> QED
  BY <1>1, <1>2, <1>3 DEF ConstantsOK

-----------------------------------------------------------------------------
\* The lease registry keeps an image to one user (take_lease, ensure_image,
\* Drop for VolumeLease): a guest, a thread that formats or grows the image and
\* a command that deletes it never meet on a volume, as long as no boot was
\* cancelled under its thread.
THEOREM OneUserPerVolume ==
  ASSUME ConstantsOK
  PROVE  VolSpec => []OneUser
<1>1. VolInit => UserInv
  BY NothingHeld
<1>2. UserInv /\ [VolNext]_volVars => UserInv'
  BY LeasesKept, RunsWait DEF UserInv
<1>3. UserInv => OneUser
  BY HolderIsUser
<1> QED
  BY <1>1, <1>2, <1>3, PTL DEF VolSpec

\* Every lease in the registry belongs to a boot, a VM or a command that is
\* still there to drop it, boots that were cancelled included (Drop for
\* VolumeLease): no volume stays in use after its last user ended.
THEOREM NoLeaseIsLeft ==
  ASSUME ConstantsOK
  PROVE  VolSpec => []LeaseIsHeld
<1>1. VolInit => LeaseInv
  BY NothingHeld DEF UserInv
<1>2. LeaseInv /\ [VolNext]_volVars => LeaseInv'
  BY LeasesKept
<1>3. LeaseInv => LeaseIsHeld
  BY DEF LeaseInv
<1> QED
  BY <1>1, <1>2, <1>3, PTL DEF VolSpec
=============================================================================
