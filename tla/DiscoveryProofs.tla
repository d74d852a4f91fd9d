--------------------------- MODULE DiscoveryProofs ---------------------------
(***************************************************************************)
(* Proofs about Discovery: its types, and that the repositories of a       *)
(* container on schedule are known, and not orphaned unless it shares one, *)
(* as long as the write of its registration did not fail.                  *)
(***************************************************************************)
EXTENDS Discovery, TLAPS

(***************************************************************************)
(* The inductive invariant.  Only the main goroutine changes the schedule  *)
(* and orphans repositories, so what it knows of its container holds until *)
(* it acts on it; a backup can only record repositories.                   *)
(***************************************************************************)
\* The loop the main goroutine is in, and what it knows of its container.
MainInv ==
  /\ main \in {"off", "serving"} => loop = "none"
  /\ main \in {"sync", "register"} => loop # "remove"
  /\ main = "mark" => item \notin registered

\* A backup under way has a container.
BackupInv == \A b \in Backups : at[b] # "idle" => target[b] \in Containers

Types == TypeOK /\ MainInv /\ BackupInv

\* No other container resolves to a repository of c.
Unshared(c) == \A d \in Containers \ {c} : ReposOf[c] \cap ReposOf[d] = {}

\* No two containers resolve to one repository.
ReposDisjoint == \A c \in Containers : Unshared(c)

\* The repositories of c are known, and not orphaned unless another's removal may
\* have orphaned them.
Recorded(c) ==
  /\ c \in linked /\ ReposOf[c] \subseteq known
  /\ Unshared(c) => ReposOf[c] \cap orphaned = {}

\* The containers on schedule, and the one that is about to be
Entered == registered \cup {c \in {item} : main = "register"}

\* Inductive: the write for a container comes before its entry, and the entry is
\* gone before its repositories are orphaned.
RepoInv == \A c \in Entered \ unsaved : Recorded(c)

-----------------------------------------------------------------------------
(* Types.                                                                  *)

LEMMA InitTypes == Init => Types
<1> SUFFICES ASSUME Init PROVE Types
  OBVIOUS
<1> USE DiscoveryAssumption DEF Init
<1>1. events \in Seq([type : EventTypes, id : Containers])
  <2>1. \A T : <<>> \in Seq(T)
    OBVIOUS
  <2>2. QED
    BY <2>1
<1>2. TypeOK
  BY <1>1 DEF TypeOK
<1>3. MainInv /\ BackupInv
  BY DEF MainInv, BackupInv
<1>4. QED
  BY <1>2, <1>3 DEF Types

\* An event the watcher delivers is of the type of the channel's events.
LEMMA EmitType ==
  ASSUME TypeOK, NEW c \in Containers, NEW type \in EventTypes, Emit(type, c)
  PROVE  events' \in Seq([type : EventTypes, id : Containers])
<1> DEFINE e == [type |-> type, id |-> c]
<1>1. \A T : \A s \in Seq(T), x \in T : Append(s, x) \in Seq(T)
  OBVIOUS
<1>2. events \in Seq([type : EventTypes, id : Containers])
  BY DEF TypeOK
<1>3. e \in [type : EventTypes, id : Containers]
  OBVIOUS
<1>4. events' = events \/ events' = Append(events, e)
  BY DEF Emit
<1>5. QED
  BY <1>1, <1>2, <1>3, <1>4

LEMMA MainTypes == Types /\ (MainStep \/ Tick \/ TakeEvent \/ Crash) => Types'
<1> SUFFICES ASSUME Types, MainStep \/ Tick \/ TakeEvent \/ Crash PROVE Types'
  OBVIOUS
<1> USE DiscoveryAssumption DEF Types, TypeOK, MainInv, BackupInv, mainVars, dockerVars,
        boltVars, backupVars
<1>1. CASE StartDaemon
  BY <1>1 DEF StartDaemon, List, Running
<1>2. CASE Tick
  BY <1>2 DEF Tick, List, Running
<1>3. ASSUME NEW c \in Containers, NextAdd(c) PROVE Types'
  BY <1>3 DEF NextAdd
<1>4. CASE SyncRepos
  BY <1>4 DEF SyncRepos, Synced, Written, NotWritten
<1>5. CASE Register
  BY <1>5 DEF Register, Resume
<1>6. CASE ScanDone
  BY <1>6 DEF ScanDone
<1>7. CASE AddsDone
  BY <1>7 DEF AddsDone, Unlisted
<1>8. ASSUME NEW c \in Containers, NextRemove(c) PROVE Types'
  BY <1>8 DEF NextRemove, Drop
<1>9. CASE Mark
  BY <1>9 DEF Mark, MarkedOrphaned, Written, NotWritten, Resume
<1>10. CASE RemovesDone
  BY <1>10 DEF RemovesDone
<1>11. CASE TakeEvent
  <2> DEFINE e == Head(events)
  <2>1. e \in [type : EventTypes, id : Containers]
        /\ events' \in Seq([type : EventTypes, id : Containers])
    <3>1. \A T : \A s \in Seq(T) : s # <<>> => Head(s) \in T /\ Tail(s) \in Seq(T)
      OBVIOUS
    <3>2. events # <<>> /\ events' = Tail(events)
      BY <1>11 DEF TakeEvent
    <3> HIDE DEF TypeOK
    <3>3. events \in Seq([type : EventTypes, id : Containers])
      BY DEF TypeOK
    <3>4. QED
      BY <3>1, <3>2, <3>3
  <2>2. e.id \in Containers
    BY <2>1
  <2> HIDE DEF e
  <2>3. CASE UNCHANGED <<main, item, registered>>
    BY <1>11, <2>1, <2>3 DEF TakeEvent
  <2>4. CASE main' = "sync" /\ item' = e.id /\ UNCHANGED registered
    BY <1>11, <2>1, <2>2, <2>4 DEF TakeEvent
  <2>5. CASE Drop(e.id)
    BY <1>11, <2>1, <2>2, <2>5 DEF TakeEvent, Drop
  <2>6. QED
    BY <1>11, <2>3, <2>4, <2>5 DEF TakeEvent, e
<1>12. CASE Crash
  BY <1>12 DEF Crash
<1>13. QED
  BY <1>1, <1>2, <1>3, <1>4, <1>5, <1>6, <1>7, <1>8, <1>9, <1>10, <1>11, <1>12 DEF MainStep

LEMMA UserTypes ==
  ASSUME Types, NEW c \in Containers, UserChange(c)
  PROVE  Types'
<1> USE DiscoveryAssumption DEF Types, TypeOK, MainInv, BackupInv, mainVars, backupVars, boltVars
<1>1. PICK from \in SUBSET {"up", "down"}, to \in {"up", "down", "gone"},
           type \in EventTypes : Change(c, from, to, type)
  BY DEF UserChange, EventTypes
<1>2. Emit(type, c)
  BY <1>1 DEF Change
<1>3. events' \in Seq([type : EventTypes, id : Containers])
  BY <1>2, EmitType
<1>4. QED
  BY <1>1, <1>3 DEF Change

LEMMA BackupTypes ==
  ASSUME Types, NEW b \in Backups, BackupStep(b) \/ \E c \in Containers : Begin(b, c)
  PROVE  Types'
<1> USE DiscoveryAssumption DEF Types, TypeOK, MainInv, BackupInv, Goto, mainVars,
        dockerVars, boltVars
<1>1. CASE \E c \in Containers : Begin(b, c)
  BY <1>1 DEF Begin
<1>2. CASE Inspect(b)
  BY <1>2 DEF Inspect
<1>3. CASE SyncBackup(b)
  BY <1>3 DEF SyncBackup, Synced, Written
<1>4. CASE Ignore(b)
  BY <1>4 DEF Ignore
<1>5. CASE Stop(b)
  <2>1. events' \in Seq([type : EventTypes, id : Containers])
    <3>1. CASE Emit("die", target[b])
      BY <1>5, <3>1, EmitType DEF Stop, EventTypes
    <3>2. QED
      BY <1>5, <3>1 DEF Stop
  <2>2. QED
    BY <1>5, <2>1, SMTT(30) DEF Stop
<1>6. CASE StartAgain(b)
  <2>1. events' \in Seq([type : EventTypes, id : Containers])
    <3>1. CASE Emit("start", target[b])
      BY <1>6, <3>1, EmitType DEF StartAgain, EventTypes
    <3>2. QED
      BY <1>6, <3>1 DEF StartAgain
  <2>2. QED
    BY <1>6, <2>1 DEF StartAgain
<1>7. CASE Release(b)
  BY <1>7 DEF Release
<1>8. QED
  BY <1>1, <1>2, <1>3, <1>4, <1>5, <1>6, <1>7 DEF BackupStep

LEMMA TypesStep == Types /\ [Next]_vars => Types'
<1> SUFFICES ASSUME Types, [Next]_vars PROVE Types'
  OBVIOUS
<1>1. CASE UNCHANGED vars
  BY <1>1 DEF vars, dockerVars, mainVars, backupVars, boltVars, Types, TypeOK, MainInv,
     BackupInv
<1>2. CASE Next
  BY <1>2, MainTypes, UserTypes, BackupTypes DEF Next
<1>3. QED
  BY <1>1, <1>2

\* Every variable keeps its type, and what Resync is about to remove from the
\* schedule is on it and was not listed.
THEOREM TypeCorrect == Spec => []TypeOK
<1>1. Spec => []Types
  BY InitTypes, TypesStep, PTL DEF Spec
<1>2. Types => TypeOK
  BY DEF Types
<1>3. QED
  BY <1>1, <1>2, PTL

-----------------------------------------------------------------------------
(* Repositories of the containers on schedule.                             *)

\* Recording the repositories of c takes nobody's away, and c is recorded.
LEMMA SyncKeeps ==
  ASSUME RepoInv, NEW c, Synced(c), Written(c), Entered' \subseteq Entered \cup {c}
  PROVE  RepoInv'
<1> SUFFICES ASSUME NEW d \in Entered', d \notin unsaved' PROVE Recorded(d)'
  BY DEF RepoInv
<1>1. CASE d = c
  BY <1>1 DEF Recorded, Synced, Unshared
<1>2. CASE d # c
  <2>1. d \in Entered \ unsaved
    BY <1>2 DEF Written
  <2>2. Recorded(d)
    BY <2>1 DEF RepoInv
  <2>3. QED
    BY <2>2 DEF Recorded, Synced, Unshared
<1>3. QED
  BY <1>1, <1>2

\* A container that is entered although its write failed is remembered as unsaved.
LEMMA FailureKeeps ==
  ASSUME RepoInv, NEW c, NotWritten(c), Entered' \subseteq Entered \cup {c}
  PROVE  RepoInv'
  BY DEF RepoInv, Recorded, Unshared, NotWritten

\* The schedule only shrinks, and the repositories are left alone.
LEMMA OthersKeep ==
  ASSUME RepoInv, Entered' \subseteq Entered, UNCHANGED boltVars
  PROVE  RepoInv'
  BY DEF RepoInv, Recorded, Unshared, boltVars

\* What is marked belongs to a container that is not on schedule any more.
LEMMA MarkKeeps ==
  ASSUME Types, RepoInv, Mark
  PROVE  RepoInv'
<1>1. item \in Containers \ registered /\ Entered' = registered
  BY DiscoveryAssumption DEF Types, TypeOK, MainInv, Mark, Resume, Entered
<1>2. CASE MarkedOrphaned(item) /\ Written(item)
  <2> SUFFICES ASSUME NEW c \in registered, c \notin unsaved' PROVE Recorded(c)'
    BY <1>1 DEF RepoInv
  <2>1. c \in Containers /\ c # item
    BY <1>1 DEF Types, TypeOK
  <2>2. Recorded(c)
    BY <1>2, <2>1 DEF RepoInv, Entered, Written
  <2>3. Unshared(c) => ReposOf[c] \cap ReposOf[item] = {}
    BY <1>1, <2>1 DEF Unshared
  <2>4. orphaned' \subseteq orphaned \cup ReposOf[item] /\ c \in linked' /\ known' = known
    BY <1>2, <2>1, <2>2 DEF MarkedOrphaned, Recorded
  <2>5. Unshared(c)' = Unshared(c)
    BY DEF Unshared
  <2>6. QED
    BY <2>2, <2>3, <2>4, <2>5 DEF Recorded
<1>3. CASE NotWritten(item)
  BY <1>1, <1>3, FailureKeeps DEF Entered
<1>4. QED
  BY <1>2, <1>3 DEF Mark

LEMMA RepoStep ==
  ASSUME Types, RepoInv, [Next]_vars
  PROVE  RepoInv'
<1> USE DEF Entered
<1>1. CASE UNCHANGED vars
  BY <1>1, OthersKeep DEF vars, mainVars
<1>2. CASE MainStep \/ Tick \/ TakeEvent \/ Crash
  <2>1. CASE Register
    <3>1. Entered' \subseteq Entered
      BY <2>1 DEF Register, Resume
    <3>2. QED
      BY <2>1, <3>1, OthersKeep DEF Register
  <2>2. CASE Mark
    BY <2>2, MarkKeeps
  <2>3. CASE SyncRepos
    <3>1. Entered' \subseteq Entered \cup {item}
      BY <2>3 DEF SyncRepos
    <3>2. QED
      BY <2>3, <3>1, SyncKeeps, FailureKeeps DEF SyncRepos
  <2>4. CASE StartDaemon \/ Tick \/ ScanDone \/ AddsDone \/ RemovesDone \/ TakeEvent
    BY <2>4, OthersKeep DEF StartDaemon, Tick, List, ScanDone, AddsDone, RemovesDone,
       TakeEvent, Drop
  <2>5. CASE Crash
    BY <2>5 DEF RepoInv, Crash
  <2>6. ASSUME NEW c \in Containers, NextAdd(c) \/ NextRemove(c) PROVE RepoInv'
    BY <2>6, OthersKeep DEF NextAdd, NextRemove, Drop
  <2>7. QED
    BY <1>2, <2>1, <2>2, <2>3, <2>4, <2>5, <2>6 DEF MainStep
<1>3. ASSUME NEW c \in Containers, UserChange(c) PROVE RepoInv'
  BY <1>3, OthersKeep DEF UserChange, Change, mainVars
<1>4. ASSUME NEW b \in Backups, BackupStep(b) \/ \E c \in Containers : Begin(b, c)
      PROVE  RepoInv'
  <2>1. CASE SyncBackup(b)
    <3>1. Entered' = Entered
      BY <2>1 DEF SyncBackup, mainVars
    <3>2. CASE UNCHANGED boltVars
      BY <3>1, <3>2, OthersKeep
    <3>3. CASE Synced(target[b]) /\ Written(target[b])
      BY <3>1, <3>3, SyncKeeps
    <3>4. QED
      BY <2>1, <3>2, <3>3 DEF SyncBackup
  <2>2. CASE Inspect(b) \/ Ignore(b) \/ Stop(b) \/ StartAgain(b) \/ Release(b)
    BY <2>2, OthersKeep DEF Inspect, Ignore, Stop, StartAgain, Release, mainVars
  <2>3. CASE \E c \in Containers : Begin(b, c)
    BY <2>3, OthersKeep DEF Begin, mainVars
  <2>4. QED
    BY <1>4, <2>1, <2>2, <2>3 DEF BackupStep
<1>5. QED
  BY <1>1, <1>2, <1>3, <1>4 DEF Next

\* The repositories of a container on schedule are known, and those of one that
\* shares none are not orphaned, unless the last write about it failed; whatever
\* events are lost and wherever the daemon crashes.
THEOREM ScheduledRecorded ==
  Spec => [](\A c \in registered \ unsaved : Recorded(c))
<1>1. Init => RepoInv
  BY DEF Init, RepoInv, Entered
<1>2. Types /\ RepoInv /\ [Next]_vars => RepoInv'
  BY RepoStep
<1>3. RepoInv => \A c \in registered \ unsaved : Recorded(c)
  BY DEF RepoInv, Entered
<1>4. QED
  BY <1>1, <1>2, <1>3, InitTypes, TypesStep, PTL DEF Spec

\* So where no two containers share a repository, as db and web do in the run
\* Discovery, none of theirs is orphaned.
THEOREM ScheduledNotOrphanedTheorem ==
  ASSUME ReposDisjoint
  PROVE  Spec => []ScheduledNotOrphaned
<1>1. TypeOK /\ (\A c \in registered \ unsaved : Recorded(c)) => ScheduledNotOrphaned
  BY DEF TypeOK, ScheduledNotOrphaned, Recorded, ReposDisjoint
<1>2. QED
  BY <1>1, TypeCorrect, ScheduledRecorded, PTL
=============================================================================
