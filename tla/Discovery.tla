------------------------------ MODULE Discovery ------------------------------
(***************************************************************************)
(* How the daemon follows Docker: the startup scan, the event loop and     *)
(* Resync (cmd/buoy/run.go, internal/scheduler/scheduler.go), the watcher  *)
(* whose stream loses events, the schedule they keep, and the registry of  *)
(* repositories on disk (internal/registry) that outlives a crash.         *)
(* Backups run next to them, stop and start containers, and record the     *)
(* repositories of the containers they back up.  A write to the registry   *)
(* may fail: the code warns and goes on, and unsaved remembers it here.    *)
(***************************************************************************)
EXTENDS Integers, Sequences, FiniteSets

CONSTANTS
  Containers,   \* container ids, all with buoy.enabled=true
  Repos,        \* repository URLs
  ReposOf,      \* Containers -> SUBSET Repos: what the labels resolve to
  Cold,         \* containers labelled buoy.stop-before=true
  Stacked,      \* containers of a compose project
  BadSchedule,  \* containers whose schedule cron cannot parse
  Backups,      \* goroutines that back containers up
  MaxChanges,   \* bound: changes made by users, and crashes
  MaxEvents,    \* bound: no backup begins with more events queued
  MaxUnsaved,   \* bound: containers whose last write failed, at a time
  None

ASSUME DiscoveryAssumption ==
  /\ ReposOf \in [Containers -> SUBSET Repos]
  /\ Cold \subseteq Containers
  /\ Stacked \subseteq Containers
  /\ BadSchedule \subseteq Containers
  /\ MaxChanges \in Nat /\ MaxEvents \in Nat /\ MaxUnsaved \in Nat
  /\ None \notin Containers

VARIABLES
  docker,      \* Docker: state of each container
  changes,     \* changes made by users, and crashes
  events,      \* the watcher's channel
  main,        \* where the main goroutine is
  loop,        \* the loop it is in, if any
  item,        \* the container it handles
  listed,      \* containers Resync found running
  todo,        \* containers the loop has left
  registered,  \* containerRegistry.index
  ignored,     \* ignoredIDs
  target, at,  \* the container of each backup, and the step it is about to take
  linked,      \* keys of containerReposBucket
  known,       \* keys of reposBucket
  orphaned,    \* those with RepoEntry.Orphaned
  unsaved      \* history: containers the last write about which failed

dockerVars == <<docker, changes>>
mainVars   == <<main, loop, item, listed, todo>>
backupVars == <<target, at>>
boltVars   == <<linked, known, orphaned, unsaved>>
vars == <<dockerVars, events, mainVars, registered, ignored, backupVars, boltVars>>

EventTypes == {"start", "die", "destroy"}

Running == {c \in Containers : docker[c] = "up"}

-----------------------------------------------------------------------------
(* Seeded faults.                                                          *)

\* the orphaned flag is not part of the comparison (Synced)
KeepsOrphaned(c) ==
  /\ linked' = linked \cup {c}
  /\ known' = known \cup ReposOf[c]
  /\ UNCHANGED orphaned

\* only the link is removed (MarkedOrphaned)
OnlyUnlinked(c) ==
  /\ linked' = linked \ {c}
  /\ UNCHANGED <<known, orphaned>>

\* Resync drops every entry, or none (Unlisted)
DropAll == registered
DropNone == {}

-----------------------------------------------------------------------------
(* The registry: each operation is one bbolt transaction, which may fail   *)
(* and then leaves the database as it was.                                 *)

\* SyncContainer
Synced(c) ==
  /\ linked' = linked \cup {c}
  /\ known' = known \cup ReposOf[c]
  /\ orphaned' = orphaned \ ReposOf[c]

\* MarkOrphaned
MarkedOrphaned(c) ==
  /\ orphaned' = orphaned \cup (IF c \in linked THEN ReposOf[c] \cap known ELSE {})
  /\ linked' = linked \ {c}
  /\ UNCHANGED known

\* A write about c succeeds; or it fails, the caller only warns, and nothing tries
\* again before the container's next registration, removal or backup.
Written(c) == unsaved' = unsaved \ {c}

NotWritten(c) ==
  /\ Cardinality(unsaved \cup {c}) <= MaxUnsaved
  /\ unsaved' = unsaved \cup {c}
  /\ UNCHANGED <<linked, known, orphaned>>

-----------------------------------------------------------------------------
(* Docker and its users.                                                   *)

\* The daemon watches once the startup scan is over.  An event is lost when the
\* stream is down: it is not replayed.
Emit(type, c) ==
  \/ main # "off" /\ loop # "scan" /\ events' = Append(events, [type |-> type, id |-> c])
  \/ UNCHANGED events

Change(c, from, to, type) ==
  /\ changes < MaxChanges
  /\ changes' = changes + 1
  /\ docker[c] \in from
  /\ docker' = [docker EXCEPT ![c] = to]
  /\ Emit(type, c)
  /\ UNCHANGED <<mainVars, registered, ignored, backupVars, boltVars>>

\* A container is started, exits or is stopped, is removed.  One that does not
\* exist yet is down, too: no listing and no inspection tells them apart before the
\* first start.
UserChange(c) ==
  \/ Change(c, {"down"}, "up", "start")
  \/ Change(c, {"up"}, "down", "die")
  \/ Change(c, {"down"}, "gone", "destroy")

-----------------------------------------------------------------------------
(* The main goroutine.                                                     *)

Resume == main' = IF loop = "none" THEN "serving" ELSE "loop"

\* ListBackupContainers, the startup scan's or Resync's.  Resync leaves a container on
\* schedule alone; nobody else changes the schedule before it gets there.
List(kind) ==
  /\ main' = "loop"
  /\ loop' = kind
  /\ listed' = Running
  /\ todo' = Running \ registered
  /\ UNCHANGED <<dockerVars, events, item, registered, ignored, backupVars, boltVars>>

StartDaemon == main = "off" /\ List("scan")

Tick == main = "serving" /\ List("add")

\* The next container found
NextAdd(c) ==
  /\ main = "loop" /\ loop \in {"scan", "add"} /\ c \in todo
  /\ todo' = todo \ {c}
  /\ main' = "sync" /\ item' = c
  /\ UNCHANGED <<dockerVars, events, loop, listed, registered, ignored, backupVars, boltVars>>

\* AddContainer, after the label checks: the container is registered whether or not
\* its repositories could be resolved and recorded.
SyncRepos ==
  /\ main = "sync"
  /\ \/ Synced(item) /\ Written(item)
     \/ NotWritten(item)
  /\ main' = "register"
  /\ UNCHANGED <<dockerVars, events, loop, item, listed, todo, registered, ignored, backupVars>>

Register ==
  /\ main = "register"
  /\ registered' = registered \cup ({item} \ BadSchedule)
  /\ item' = None
  /\ Resume
  /\ UNCHANGED <<dockerVars, events, loop, listed, todo, ignored, backupVars, boltVars>>

ScanDone ==
  /\ main = "loop" /\ loop = "scan" /\ todo = {}
  /\ main' = "serving" /\ loop' = "none" /\ listed' = {}
  /\ UNCHANGED <<dockerVars, events, item, todo, registered, ignored, backupVars, boltVars>>

\* The entries of the schedule that were not listed
Unlisted == registered \ listed

AddsDone ==
  /\ main = "loop" /\ loop = "add" /\ todo = {}
  /\ loop' = "remove"
  /\ todo' = Unlisted
  /\ UNCHANGED <<dockerVars, events, main, item, listed, registered, ignored,
                 backupVars, boltVars>>

\* RemoveContainer, up to MarkOrphaned
Drop(c) ==
  /\ registered' = registered \ {c}
  /\ IF c \in registered
     THEN main' = "mark" /\ item' = c
     ELSE UNCHANGED <<main, item>>

NextRemove(c) ==
  /\ main = "loop" /\ loop = "remove" /\ c \in todo
  /\ todo' = todo \ {c}
  /\ Drop(c)
  /\ UNCHANGED <<dockerVars, events, loop, listed, ignored, backupVars, boltVars>>

\* By then the container is off the schedule, whether or not the write succeeds.
Mark ==
  /\ main = "mark"
  /\ \/ MarkedOrphaned(item) /\ Written(item)
     \/ NotWritten(item)
  /\ item' = None
  /\ Resume
  /\ UNCHANGED <<dockerVars, events, loop, listed, todo, registered, ignored, backupVars>>

RemovesDone ==
  /\ main = "loop" /\ loop = "remove" /\ todo = {}
  /\ main' = "serving" /\ loop' = "none" /\ listed' = {}
  /\ UNCHANGED <<dockerVars, events, item, todo, registered, ignored, backupVars, boltVars>>

\* An event of a container a backup has stopped is its own.  The container of a
\* start event may be gone, or Docker may fail, when it is inspected.
TakeEvent ==
  /\ main = "serving" /\ events # <<>>
  /\ events' = Tail(events)
  /\ LET e == Head(events) IN
       \/ /\ \/ e.id \in ignored
             \/ e.type = "start"
          /\ UNCHANGED <<main, item, registered>>
       \/ /\ e.id \notin ignored
          /\ e.type = "start" /\ docker[e.id] # "gone"
          /\ main' = "sync" /\ item' = e.id
          /\ UNCHANGED registered
       \/ /\ e.id \notin ignored
          /\ e.type \in {"die", "destroy"}
          /\ Drop(e.id)
  /\ UNCHANGED <<dockerVars, loop, listed, todo, ignored, backupVars, boltVars>>

\* The process ends, whatever it was doing; what is on disk remains.
Crash ==
  /\ main # "off"
  /\ changes < MaxChanges
  /\ changes' = changes + 1
  /\ main' = "off" /\ loop' = "none" /\ item' = None /\ listed' = {} /\ todo' = {}
  /\ registered' = {} /\ ignored' = {} /\ events' = <<>>
  /\ target' = [b \in Backups |-> None]
  /\ at' = [b \in Backups |-> "idle"]
  /\ unsaved' = {}
  /\ UNCHANGED <<docker, linked, known, orphaned>>

-----------------------------------------------------------------------------
(* A backup, as far as Docker, ignoredIDs and the registry can tell.       *)

Goto(b, step) ==
  /\ at' = [at EXCEPT ![b] = step]
  /\ target' = IF step = "idle" THEN [target EXCEPT ![b] = None] ELSE target

\* A schedule or the API picks c; the semaphore and the queue come next.
Begin(b, c) ==
  /\ main # "off" /\ at[b] = "idle"
  /\ Len(events) <= MaxEvents
  /\ c \in registered
  /\ target' = [target EXCEPT ![b] = c]
  /\ at' = [at EXCEPT ![b] = "queued"]
  /\ UNCHANGED <<dockerVars, events, mainVars, registered, ignored, boltVars>>

\* Run skips a container that is not running, RunStackBatch does not.
Inspect(b) ==
  /\ at[b] = "queued"
  /\ \/ /\ docker[target[b]] \in {"up"} \cup (IF target[b] \in Stacked THEN {"down"} ELSE {})
        /\ Goto(b, "inspected")
     \/ Goto(b, "idle")
  /\ UNCHANGED <<dockerVars, events, mainVars, registered, ignored, boltVars>>

\* A backup that cannot record the repositories goes on; Run ends when they could
\* not even be resolved.
SyncBackup(b) ==
  /\ at[b] = "inspected"
  /\ LET next == IF target[b] \in Cold THEN "synced" ELSE "idle" IN
       \/ Synced(target[b]) /\ Written(target[b]) /\ Goto(b, next)
       \/ UNCHANGED boltVars /\ Goto(b, next)
       \/ target[b] \notin Stacked /\ UNCHANGED boltVars /\ Goto(b, "idle")
  /\ UNCHANGED <<dockerVars, events, mainVars, registered, ignored>>

Ignore(b) ==
  /\ at[b] = "synced"
  /\ ignored' = ignored \cup {target[b]}
  /\ Goto(b, "ignoring")
  /\ UNCHANGED <<dockerVars, events, mainVars, registered, boltVars>>

\* stopContainer; when it fails, the container may be down all the same.
Stop(b) ==
  /\ at[b] = "ignoring"
  /\ \/ /\ docker[target[b]] = "up"
        /\ docker' = [docker EXCEPT ![target[b]] = "down"]
        /\ Emit("die", target[b])
        /\ Goto(b, "stopped") \/ Goto(b, "releasing")
     \/ /\ docker[target[b]] = "down"
        /\ Goto(b, "stopped")
        /\ UNCHANGED <<docker, events>>
     \/ /\ Goto(b, "releasing")
        /\ UNCHANGED <<docker, events>>
  /\ UNCHANGED <<changes, mainVars, registered, ignored, boltVars>>

\* startContainer; a failure is only logged.
StartAgain(b) ==
  /\ at[b] = "stopped"
  /\ \/ /\ docker[target[b]] = "down"
        /\ docker' = [docker EXCEPT ![target[b]] = "up"]
        /\ Emit("start", target[b])
     \/ UNCHANGED <<docker, events>>
  /\ Goto(b, "releasing")
  /\ UNCHANGED <<changes, mainVars, registered, ignored, boltVars>>

Release(b) ==
  /\ at[b] = "releasing"
  /\ ignored' = ignored \ {target[b]}
  /\ Goto(b, "idle")
  /\ UNCHANGED <<dockerVars, events, mainVars, registered, boltVars>>

-----------------------------------------------------------------------------
Init ==
  /\ docker \in [Containers -> {"up", "down"}]
  /\ changes = 0
  /\ events = <<>>
  /\ main = "off" /\ loop = "none" /\ item = None /\ listed = {} /\ todo = {}
  /\ registered = {} /\ ignored = {}
  /\ target = [b \in Backups |-> None] /\ at = [b \in Backups |-> "idle"]
  /\ linked = {} /\ known = {} /\ orphaned = {} /\ unsaved = {}

BackupStep(b) ==
  Inspect(b) \/ SyncBackup(b) \/ Ignore(b) \/ Stop(b) \/ StartAgain(b) \/ Release(b)

MainStep ==
  \/ StartDaemon \/ SyncRepos \/ Register \/ ScanDone \/ AddsDone \/ Mark \/ RemovesDone
  \/ \E c \in Containers : NextAdd(c) \/ NextRemove(c)

Next ==
  \/ MainStep \/ Tick \/ TakeEvent \/ Crash
  \/ \E c \in Containers : UserChange(c)
  \/ \E b \in Backups : BackupStep(b) \/ \E c \in Containers : Begin(b, c)

Spec == Init /\ [][Next]_vars

\* The goroutines are scheduled, a dead daemon is started again, and select
\* takes each of its ready cases again and again.
FairSpec ==
  /\ Spec
  /\ WF_vars(MainStep)
  /\ SF_vars(Tick)
  /\ SF_vars(TakeEvent)
  /\ \A b \in Backups : WF_vars(BackupStep(b))

-----------------------------------------------------------------------------
(* Properties.                                                             *)

TypeOK ==
  /\ docker \in [Containers -> {"up", "down", "gone"}]
  /\ changes \in 0 .. MaxChanges
  /\ events \in Seq([type : EventTypes, id : Containers])
  /\ main \in {"off", "serving", "loop", "sync", "register", "mark"}
  /\ loop \in {"none", "scan", "add", "remove"}
  /\ item \in Containers \cup {None}
  /\ main \in {"sync", "register", "mark"} => item # None
  /\ listed \subseteq Containers /\ todo \subseteq Containers
  /\ loop = "remove" => todo \subseteq registered \ listed
  /\ registered \subseteq Containers
  /\ ignored \subseteq Containers
  /\ target \in [Backups -> Containers \cup {None}]
  /\ at \in [Backups -> {"idle", "queued", "inspected", "synced", "ignoring",
                         "stopped", "releasing"}]
  /\ linked \subseteq Containers /\ unsaved \subseteq Containers
  /\ known \subseteq Repos /\ orphaned \subseteq known

\* docs/configuration.md, "repos belonging to removed containers": the repositories
\* of a container on schedule are known and not orphaned, or maintenance and the
\* default listings of buoyctl would leave them out; unless the write of its
\* registration failed and no backup has recorded them since.
ScheduledNotOrphaned ==
  \A c \in registered \ unsaved : c \in linked /\ ReposOf[c] \subseteq known \ orphaned

\* Whatever events were lost, late or ignored, and wherever the daemon crashed:
\* once users and backups leave the containers alone, the schedule is exactly the
\* running containers, and stays so.
Converges ==
  <>[](\A b \in Backups : at[b] = "idle")
    => <>[](registered = Running \ BadSchedule)

\* The repositories of a container that is removed while it is on schedule are
\* orphaned, whether or not its events arrive, unless the daemon dies first or the
\* write fails: nothing repeats it.
OrphanDetected ==
  \A c \in Containers :
    c \in registered /\ docker[c] = "gone"
      ~> \/ ReposOf[c] \subseteq orphaned
         \/ c \in unsaved \/ main = "off"

\* docs/configuration.md, the database tracks "whether the associated container still
\* exists" and survives restarts: a container with repositories in it that has been
\* removed has them orphaned in the end, if the writes about it succeed.
RemovedOrphaned ==
  \A c \in Containers :
    c \in linked /\ docker[c] = "gone" ~> (ReposOf[c] \subseteq orphaned \/ c \in unsaved)
=============================================================================
