------------------------ MODULE RepositoryJobsProofs ------------------------
(***************************************************************************)
(* Proofs about RepositoryJobs.                                            *)
(***************************************************************************)
EXTENDS RepositoryJobs, FiniteSetTheorems, TLAPS

\* Steps of a run that is at a repository
AtRepo == Saving \ {"repo"}

\* Whoever is at work on a repository has one, and a lock where it holds one.
Places ==
  /\ \A r \in Runs :
       /\ at[r] \in AtRepo \cup {"forgetting"} => target[r] \in Repos
       /\ at[r] = "saving" => mount[r] \in Mounts
       /\ at[r] \in {"saving", "forgetting"} => held[r] \in Modes
  /\ stage \in {"running", "unlock"} => target[Job] \in Repos
  /\ stage = "running" <=> held[Job] # "none"
  /\ opstage = "running" => target[Op] \in Repos /\ held[Op] \in Modes

Types == TypeOK /\ Places

USE ClientsAssumption, RunsAssumption, JobAssumption, ActorsAssumption
    DEF Types, TypeOK, RepoTypeOK, BackupTypeOK, JobTypeOK, Places, AtRepo, Saving, Steps, Modes,
        repoVars, clientVars, lockVars, entryVars, backupVars, dockerVars, labelVars, loopVars,
        resultVars, jobVars, opVars

\* The initial states are typed.
LEMMA InitTypes == Init => Types
<1> SUFFICES ASSUME Init PROVE Types
  OBVIOUS
<1> USE DEF Init
<1>1. RepoTypeOK
  BY DEF RepoInit
<1>2. BackupTypeOK
  BY DEF BackupInit, RepoInit
<1>3. JobTypeOK
  BY DEF JobInit
<1>4. TypeOK /\ Places
  BY <1>1, <1>2, <1>3 DEF RepoInit, BackupInit, JobInit
<1>5. QED
  BY <1>4

\* What the operators of Repository do to their variables
LEMMA LockTypes ==
  ASSUME Types, NEW c \in Clients, held[c] \in Modes => target[c] \in Repos,
         Exits(c) \/ (held[c] \in Modes /\ Killed(c))
  PROVE  /\ held' = [held EXCEPT ![c] = "none"]
         /\ stale' \subseteq AllLocks /\ present' = present
BY DEF Exits, Killed, AllLocks

\* A mark keeps the type of the entries, if it is written.
LEMMA MarkTypes ==
  ASSUME Types, NEW x \in Repos, NEW res \in {"ok", "failed"}
  PROVE  /\ MarkBackup(x, res) =>
              /\ entry' \in [Repos -> {"none", "new", "ok", "failed"}]
              /\ plan' = plan /\ checked' = checked
         /\ MarkCheck(x, res) =>
              /\ checked' \in [Repos -> {"none", "ok", "failed"}]
              /\ plan' = plan /\ entry' = entry
BY DEF MarkBackup, MarkCheck, Result

\* So does the recording of a container.
LEMMA SyncTypes ==
  ASSUME Types, SyncContainer
  PROVE  /\ entry' \in [Repos -> {"none", "new", "ok", "failed"}]
         /\ plan' = plan /\ checked' = checked
BY DEF SyncContainer

\* A step of a backup under way keeps the types.
LEMMA RunTypes ==
  ASSUME Types, NEW r \in Runs, Proceed(r), UNCHANGED <<jobVars, acting, opVars>>
  PROVE  Types'
<1> r \in Clients /\ r # Job /\ r # Op
  OBVIOUS
<1>1. CASE CallStop(r)
  BY <1>1 DEF CallStop, Go
<1>2. CASE Stopped(r)
  <2>1. up' \in BOOLEAN /\ adrift' \in BOOLEAN /\ ignored' \in BOOLEAN
    BY <1>2, Zenon DEF Stopped
  <2>2. QED
    BY <1>2, <2>1 DEF Stopped, Go
<1>3. CASE StopFails(r)
  <2>1. up' \in BOOLEAN /\ adrift' \in BOOLEAN /\ ignored' \in BOOLEAN
    BY <1>3, Zenon DEF StopFails
  <2>2. QED
    BY <1>3, <2>1 DEF StopFails, Go
<1>4. CASE StopConfirmed(r)
  BY <1>4 DEF StopConfirmed, Go
<1>5. CASE WaitStopFails(r)
  <2>1. up' \in BOOLEAN /\ adrift' \in BOOLEAN /\ ignored' \in BOOLEAN
    BY <1>5, Zenon DEF WaitStopFails
  <2>2. QED
    BY <1>5, <2>1 DEF WaitStopFails, Go
<1>6. ASSUME NEW x \in Repos, NextRepo(r, x) PROVE Types'
  BY <1>6 DEF NextRepo, Turns, Go
<1>7. CASE Unlock(r)
  BY <1>7 DEF Unlock, Unlocked, Go
<1>8. CASE RepoExists(r)
  <2>1. /\ entry' \in [Repos -> {"none", "new", "ok", "failed"}]
        /\ plan' = plan /\ checked' = checked
    BY <1>8, MarkTypes DEF RepoExists, RepoFails
  <2>2. failed' \in [Runs -> SUBSET Repos]
    BY <1>8 DEF RepoExists, RepoFails, Fails
  <2>3. QED
    BY <1>8, <2>1, <2>2 DEF RepoExists, RepoFails, Go
<1>9. CASE InitRepo(r)
  <2>1. /\ entry' \in [Repos -> {"none", "new", "ok", "failed"}]
        /\ plan' = plan /\ checked' = checked
    BY <1>9, MarkTypes DEF InitRepo, RepoFails
  <2>2. failed' \in [Runs -> SUBSET Repos]
    BY <1>9 DEF InitRepo, RepoFails, Fails
  <2>3. at' \in [Runs -> Steps] /\ present' \subseteq Repos
    BY <1>9 DEF InitRepo, RepoFails, Go
  <2>4. QED
    BY <1>9, <2>1, <2>2, <2>3 DEF InitRepo, RepoFails, Go
<1>10. CASE SaveEnds(r)
  <2>1. /\ held' = [held EXCEPT ![r] = "none"]
        /\ stale' \subseteq AllLocks /\ present' = present
    BY <1>10, LockTypes DEF SaveEnds, Aborts
  <2>2. /\ saved' \in [Runs -> SUBSET (Repos \X Mounts)]
        /\ failed' \in [Runs -> SUBSET Repos] /\ spoiled' \subseteq Runs
    BY <1>10 DEF SaveEnds, Fails
  <2>3. at' = [at EXCEPT ![r] = "mounts"] /\ mount' = [mount EXCEPT ![r] = None]
    BY <1>10 DEF SaveEnds, Go
  <2>4. UNCHANGED <<clientVars, entryVars, dockerVars, todo, left, unlocked, stopped, issues,
                    tried, forgotten, notified, crossed>>
    BY <1>10 DEF SaveEnds
  <2>5. TypeOK'
    <3>1. RepoTypeOK' /\ JobTypeOK'
      BY <2>1, <2>4
    <3>2. mount' \in [Runs -> Mounts \cup {None}] /\ at' \in [Runs -> Steps]
      BY <2>3
    <3>3. BackupTypeOK'
      BY <2>2, <2>4, <3>2
    <3>4. QED
      BY <3>1, <3>3
  <2>6. Places'
    <3>1. \A q \in Runs \ {r} : at'[q] = at[q] /\ held'[q] = held[q] /\ mount'[q] = mount[q]
      BY <2>1, <2>3
    <3>2. at'[r] = "mounts" /\ held'[Job] = held[Job] /\ held'[Op] = held[Op]
      BY <2>1, <2>3
    <3>3. target' = target /\ stage' = stage /\ opstage' = opstage
      BY <2>4
    <3>4. target[r] \in Repos
      BY <1>10 DEF SaveEnds
    <3> HIDE DEF RepoTypeOK, BackupTypeOK, JobTypeOK
    <3>5. QED
      BY <3>1, <3>2, <3>3, <3>4
  <2>7. QED
    BY <2>5, <2>6
<1>11. CASE RepoDone(r)
  BY <1>11, MarkTypes DEF RepoDone, Go
<1>12. CASE MountsDone(r)
  BY <1>12 DEF MountsDone, Turns, Go
<1>13. ASSUME NEW m \in Mounts, MountEmpty(r, m) PROVE Types'
  BY <1>13 DEF MountEmpty
<1>14. ASSUME NEW m \in Mounts, MountFails(r, m) PROVE Types'
  BY <1>14 DEF MountFails, Fails
<1>15. ASSUME NEW m \in Mounts, Save(r, m) PROVE Types'
  BY <1>15 DEF Save, Locks, Go
<1>16. CASE Start(r)
  <2>1. up' \in BOOLEAN /\ adrift' \in BOOLEAN /\ ignored' \in BOOLEAN
    BY <1>16, Zenon DEF Start
  <2>2. QED
    BY <1>16, <2>1 DEF Start, Go
<1>17. ASSUME NEW x \in Repos, ForgetFails(r, x) PROVE Types'
  BY <1>17 DEF ForgetFails
<1>18. ASSUME NEW x \in Repos, Forget(r, x) PROVE Types'
  BY <1>18 DEF Forget, Turns, Locks, Go
<1>19. CASE ForgetEnds(r)
  <2>1. /\ held' = [held EXCEPT ![r] = "none"]
        /\ stale' \subseteq AllLocks /\ present' = present
    BY <1>19, LockTypes DEF ForgetEnds, Aborts
  <2>2. forgotten' \in [Runs -> SUBSET Repos]
    BY <1>19 DEF ForgetEnds
  <2>3. issues' \subseteq Runs /\ at' = [at EXCEPT ![r] = "retain"]
    BY <1>19 DEF ForgetEnds, Go
  <2>4. UNCHANGED <<clientVars, entryVars, dockerVars, loopVars, stopped, failed, tried, saved,
                    notified, crossed>>
    BY <1>19 DEF ForgetEnds
  <2>5. TypeOK'
    BY <2>1, <2>2, <2>3, <2>4
  <2>6. Places'
    BY <2>1, <2>3, <2>4
  <2>7. QED
    BY <2>5, <2>6
<1>20. CASE Notify(r)
  BY <1>20 DEF Notify, Go
<1>21. QED
  BY <1>1, <1>2, <1>3, <1>4, <1>5, <1>6, <1>7, <1>8, <1>9, <1>10, <1>11, <1>12, <1>13,
     <1>14, <1>15, <1>16, <1>17, <1>18, <1>19, <1>20 DEF Proceed

\* So do its beginning and its deadlines, ...
LEMMA BeginTypes ==
  ASSUME Types, NEW r \in Runs, Begin(r) \/ Skip(r) \/ Expire(r),
         UNCHANGED <<jobVars, acting, opVars>>
  PROVE  Types'
<1>1. CASE Begin(r)
  BY <1>1, SyncTypes DEF Begin, Go, Going
<1>2. CASE Skip(r)
  BY <1>2 DEF Skip, Go
<1>3. CASE Expire(r)
  BY <1>3 DEF Expire, RunsLate, IsCut
<1>4. QED
  BY <1>1, <1>2, <1>3

\* ... the job ...
LEMMA JobTypes ==
  ASSUME Types, JobBegin \/ JobProceeds \/ JobUnlock \/ JobExpires,
         UNCHANGED <<backupVars, acting, opVars>>
  PROVE  Types'
<1> \A S \in SUBSET Repos : Cardinality(S) \in Nat
  BY FS_Subset, FS_CardinalityType
<1>1. CASE JobBegin
  <2>1. fallback' \in BOOLEAN
    BY <1>1, Zenon DEF JobBegin
  <2>2. QED
    BY <1>1, <2>1, SyncTypes DEF JobBegin, Recorded
<1>2. ASSUME NEW x \in Repos, JobNext(x) PROVE Types'
  BY <1>2 DEF JobNext, Turns, Locks
<1>3. CASE JobEnds
  BY <1>3, LockTypes, MarkTypes DEF JobEnds, Aborts
<1>4. CASE JobUnlock
  BY <1>4, MarkTypes DEF JobUnlock, UnlockDetached, Unlocked
<1>5. ASSUME NEW x \in Repos, JobGivesUp(x) PROVE Types'
  BY <1>5 DEF JobGivesUp, Others
<1>6. CASE JobDone
  BY <1>6 DEF JobDone
<1>7. CASE JobExpires
  <2>1. closing' \in BOOLEAN
    BY <1>7, Zenon DEF JobExpires
  <2>2. QED
    BY <1>7, <2>1 DEF JobExpires, RunsLate, IsCut
<1>8. QED
  BY <1>1, <1>2, <1>3, <1>4, <1>5, <1>6, <1>7 DEF JobProceeds

\* The steps of the request
OpStep ==
  \/ \E kd \in Requests : OpBegin(kd)
  \/ \E x \in Repos : OpNext(x)
  \/ OpEnds \/ OpDone \/ OpCancelled

\* ... and the request.
LEMMA OpTypes ==
  ASSUME Types, OpStep
  PROVE  Types'
<1> USE DEF Requests, Guarded
<1>1. ASSUME NEW kd \in Requests, OpBegin(kd) PROVE Types'
  BY <1>1 DEF OpBegin, Recorded
<1>2. ASSUME NEW x \in Repos, OpNext(x) PROVE Types'
  BY <1>2 DEF OpNext, Turns, Locks, Unlocked, Mode
<1>3. CASE OpEnds
  BY <1>3, LockTypes DEF OpEnds, Aborts
<1>4. CASE OpDone
  BY <1>4 DEF OpDone
<1>5. CASE OpCancelled
  BY <1>5 DEF OpCancelled, RunsLate
<1>6. QED
  BY <1>1, <1>2, <1>3, <1>4, <1>5 DEF OpStep

\* Every step keeps the types.
LEMMA NextTypes == Types /\ [Next]_vars => Types'
<1> SUFFICES ASSUME Types, [Next]_vars PROVE Types'
  OBVIOUS
<1>1. CASE UNCHANGED vars
  BY <1>1 DEF vars
<1>2. CASE Next
  BY <1>2, RunTypes, BeginTypes, JobTypes, OpTypes DEF Next, RunStep, JobStep, OpStep
<1>3. QED
  BY <1>1, <1>2

\* Every variable keeps its type, and a client at work has a repository.
THEOREM TypeCorrect == Spec => []TypeOK
<1>1. Types => TypeOK
  OBVIOUS
<1>2. QED
  BY InitTypes, NextTypes, <1>1, PTL DEF Spec

-----------------------------------------------------------------------------
(* Locks.                                                                  *)

\* No backup runs together with the job, and what a killed command of the job
\* left is gone from where a backup has unlocked.
LocksInv ==
  /\ AnyRun => ~JobGoing
  /\ \A r \in unlocked : at[r] \notin {"exists", "init", "unlock"}
  /\ StaleLocksCleared
  /\ \A r \in unlocked, l \in stale :
       at[r] \in {"mounts", "saving"} /\ l.by = Job => l.repo # target[r]

\* A step of a backup keeps LocksInv: the job stands still meanwhile.
LEMMA RunLocks ==
  ASSUME Types, LocksInv, NEW r \in Runs, Proceed(r), UNCHANGED <<jobVars, acting, opVars>>
  PROVE  LocksInv'
<1> r \in Clients /\ r # Job /\ r # Op
  OBVIOUS
<1> USE DEF LocksInv, StaleLocksCleared, AnyRun, Going, JobGoing
<1>1. CASE CallStop(r)
  BY <1>1 DEF CallStop, Go
<1>2. CASE Stopped(r)
  BY <1>2 DEF Stopped, Go
<1>3. CASE StopFails(r)
  BY <1>3 DEF StopFails, Go
<1>4. CASE StopConfirmed(r)
  BY <1>4 DEF StopConfirmed, Go
<1>5. CASE WaitStopFails(r)
  BY <1>5 DEF WaitStopFails, Go
<1>6. ASSUME NEW x \in Repos, NextRepo(r, x) PROVE LocksInv'
  BY <1>6 DEF NextRepo, Go, Turns
<1>7. CASE Unlock(r)
  BY <1>7 DEF Unlock, Go, Unlocked
<1>8. CASE RepoExists(r)
  BY <1>8 DEF RepoExists, Go, RepoFails, Fails
<1>9. CASE InitRepo(r)
  BY <1>9 DEF InitRepo, Go, RepoFails, Fails
<1>10. CASE SaveEnds(r)
  BY <1>10 DEF SaveEnds, Go, Aborts, Exits, Killed, Fails
<1>11. CASE RepoDone(r)
  BY <1>11 DEF RepoDone, Go
<1>12. CASE MountsDone(r)
  BY <1>12 DEF MountsDone, Go, Turns
<1>13. ASSUME NEW m \in Mounts, MountEmpty(r, m) PROVE LocksInv'
  BY <1>13 DEF MountEmpty, Go
<1>14. ASSUME NEW m \in Mounts, MountFails(r, m) PROVE LocksInv'
  BY <1>14 DEF MountFails, Go, Fails
<1>15. ASSUME NEW m \in Mounts, Save(r, m) PROVE LocksInv'
  BY <1>15 DEF Save, Go, Locks
<1>16. CASE Start(r)
  BY <1>16 DEF Start, Go
<1>17. ASSUME NEW x \in Repos, ForgetFails(r, x) PROVE LocksInv'
  BY <1>17 DEF ForgetFails, Go
<1>18. ASSUME NEW x \in Repos, Forget(r, x) PROVE LocksInv'
  BY <1>18 DEF Forget, Go, Turns, Locks
<1>19. CASE ForgetEnds(r)
  BY <1>19 DEF ForgetEnds, Go, Aborts, Exits, Killed
<1>20. CASE Notify(r)
  BY <1>20 DEF Notify, Go
<1>21. QED
  BY <1>1, <1>2, <1>3, <1>4, <1>5, <1>6, <1>7, <1>8, <1>9, <1>10, <1>11, <1>12, <1>13,
     <1>14, <1>15, <1>16, <1>17, <1>18, <1>19, <1>20 DEF Proceed

\* A backup begins only when the job does not go.
LEMMA BeginLocks ==
  ASSUME Types, LocksInv, NEW r \in Runs, (RunAdmitted /\ Begin(r)) \/ Skip(r) \/ Expire(r),
         UNCHANGED <<jobVars, acting, opVars>>
  PROVE  LocksInv'
<1> USE DEF LocksInv, StaleLocksCleared, AnyRun, Going, JobGoing
<1>1. CASE RunAdmitted /\ Begin(r)
  BY <1>1 DEF RunAdmitted, Begin, Go
<1>2. CASE Skip(r)
  BY <1>2 DEF Skip, Go
<1>3. CASE Expire(r)
  BY <1>3 DEF Expire, RunsLate, IsCut
<1>4. QED
  BY <1>1, <1>2, <1>3

\* The job leaves no lock behind but that of the repository it is to unlock.
LEMMA JobLocks ==
  ASSUME Types, LocksInv, (JobAdmitted /\ JobBegin) \/ JobProceeds \/ JobUnlock \/ JobExpires,
         UNCHANGED <<backupVars, acting, opVars>>
  PROVE  LocksInv'
<1> USE DEF LocksInv, StaleLocksCleared, AnyRun, Going, JobGoing
<1>1. CASE JobAdmitted /\ JobBegin
  BY <1>1 DEF JobAdmitted, JobBegin
<1>2. ASSUME NEW x \in Repos, JobNext(x) PROVE LocksInv'
  BY <1>2 DEF JobNext, Turns, Locks
<1>3. CASE JobEnds
  BY <1>3 DEF JobEnds, Aborts, Exits, Killed
<1>4. CASE JobUnlock
  BY <1>4 DEF JobUnlock, UnlockDetached, Unlocked
<1>5. ASSUME NEW x \in Repos, JobGivesUp(x) PROVE LocksInv'
  BY <1>5 DEF JobGivesUp
<1>6. CASE JobDone
  BY <1>6 DEF JobDone
<1>7. CASE JobExpires
  BY <1>7 DEF JobExpires, RunsLate, IsCut
<1>8. QED
  BY <1>1, <1>2, <1>3, <1>4, <1>5, <1>6, <1>7 DEF JobProceeds

\* A request runs at any time, and its locks are its own.
LEMMA OpLocks == ASSUME Types, LocksInv, OpStep PROVE LocksInv'
<1> USE DEF LocksInv, StaleLocksCleared, AnyRun, Going, JobGoing
<1>1. ASSUME NEW kd \in Requests, OpBegin(kd) PROVE LocksInv'
  BY <1>1 DEF OpBegin
<1>2. ASSUME NEW x \in Repos, OpNext(x) PROVE LocksInv'
  BY <1>2 DEF OpNext, Turns, Locks, Unlocked
<1>3. CASE OpEnds
  BY <1>3 DEF OpEnds, Aborts, Exits, Killed
<1>4. CASE OpDone
  BY <1>4 DEF OpDone
<1>5. CASE OpCancelled
  BY <1>5 DEF OpCancelled, RunsLate
<1>6. QED
  BY <1>1, <1>2, <1>3, <1>4, <1>5 DEF OpStep

\* Every step keeps LocksInv.
LEMMA NextLocks == Types /\ LocksInv /\ [Next]_vars => LocksInv'
<1> SUFFICES ASSUME Types, LocksInv, [Next]_vars PROVE LocksInv'
  OBVIOUS
<1>1. CASE UNCHANGED vars
  BY <1>1 DEF vars, LocksInv, StaleLocksCleared, AnyRun, Going, JobGoing
<1>2. CASE Next
  BY <1>2, RunLocks, BeginLocks, JobLocks, OpLocks DEF Next, RunStep, JobStep, OpStep
<1>3. QED
  BY <1>1, <1>2

\* Both properties about locks follow from LocksInv.
LEMMA LocksSafe == Spec => [](StaleLocksCleared /\ BackupsUnblocked)
<1>1. Init => LocksInv
  BY DEF Init, RepoInit, BackupInit, JobInit, LocksInv, StaleLocksCleared, AnyRun, Going,
         JobGoing
<1>2. Types /\ LocksInv => BackupsUnblocked
  BY DEF LocksInv, BackupsUnblocked, Conflicts, Live, AllLocks, AnyRun, Going, JobGoing
<1>3. LocksInv => StaleLocksCleared
  BY DEF LocksInv
<1>4. QED
  BY InitTypes, NextTypes, NextLocks, <1>1, <1>2, <1>3, PTL DEF Spec

\* recordCheck and recordPrune: the lock that a killed check or prune left is gone
\* before the job turns to another repository, unless its unlock failed.
THEOREM StaleLocksClearedTheorem == Spec => []StaleLocksCleared
BY LocksSafe, PTL

\* ensureRepo and the semaphore: a backup that has unlocked its repository meets
\* no lock of a maintenance job there, live or stale.
THEOREM BackupsUnblockedTheorem == Spec => []BackupsUnblocked
BY LocksSafe, PTL

-----------------------------------------------------------------------------
(* The container.                                                          *)

Stopping == {"stop", "stopping", "unsent", "waiting"}

\* A run that is not crossed is alone and knows what Docker does; whoever
\* stopped the container has yet to start it.
DockerInv ==
  /\ \A r \in Runs \ crossed : \A s \in Runs : Going(r) /\ Going(s) => r = s
  /\ \A r \in Runs : at[r] \in Stopping \/ r \in stopped => cold
  /\ ignored => cold /\ AnyRun
  /\ ~up => \/ adrift
            \/ \E r \in Runs : \/ at[r] = "waiting"
                               \/ r \in stopped /\ at[r] \in Saving \cup {"start"}
  /\ \A r \in Runs \ crossed :
       /\ cold /\ at[r] \in (Stopping \ {"stop"}) \cup Saving => ignored
       /\ (at[r] = "waiting" \/ (cold /\ at[r] \in Saving)) => ~up

\* A step of a backup keeps DockerInv, whatever the other backups do.
LEMMA RunDocker ==
  ASSUME Types, DockerInv, NEW r \in Runs, Proceed(r), UNCHANGED <<jobVars, acting, opVars>>
  PROVE  DockerInv'
<1> r \in Clients /\ r # Job /\ r # Op
  OBVIOUS
<1> USE DEF DockerInv, Stopping, AnyRun, Going
<1>1. CASE CallStop(r)
  BY <1>1 DEF CallStop, Go
<1>2. CASE Stopped(r)
  BY <1>2 DEF Stopped, Go
<1>3. CASE StopFails(r)
  BY <1>3 DEF StopFails, Go
<1>4. CASE StopConfirmed(r)
  BY <1>4 DEF StopConfirmed, Go
<1>5. CASE WaitStopFails(r)
  BY <1>5 DEF WaitStopFails, Go
<1>6. ASSUME NEW x \in Repos, NextRepo(r, x) PROVE DockerInv'
  BY <1>6 DEF NextRepo, Go, Turns
<1>7. CASE Unlock(r)
  BY <1>7 DEF Unlock, Go, Unlocked
<1>8. CASE RepoExists(r)
  BY <1>8 DEF RepoExists, Go, RepoFails, Fails
<1>9. CASE InitRepo(r)
  BY <1>9 DEF InitRepo, Go, RepoFails, Fails
<1>10. CASE SaveEnds(r)
  BY <1>10 DEF SaveEnds, Go, Aborts, Exits, Killed, Fails
<1>11. CASE RepoDone(r)
  BY <1>11 DEF RepoDone, Go
<1>12. CASE MountsDone(r)
  BY <1>12 DEF MountsDone, Go, Turns
<1>13. ASSUME NEW m \in Mounts, MountEmpty(r, m) PROVE DockerInv'
  BY <1>13 DEF MountEmpty, Go
<1>14. ASSUME NEW m \in Mounts, MountFails(r, m) PROVE DockerInv'
  BY <1>14 DEF MountFails, Go, Fails
<1>15. ASSUME NEW m \in Mounts, Save(r, m) PROVE DockerInv'
  BY <1>15 DEF Save, Go, Locks
<1>16. CASE Start(r)
  BY <1>16 DEF Start, Go
<1>17. ASSUME NEW x \in Repos, ForgetFails(r, x) PROVE DockerInv'
  BY <1>17 DEF ForgetFails, Go
<1>18. ASSUME NEW x \in Repos, Forget(r, x) PROVE DockerInv'
  BY <1>18 DEF Forget, Go, Turns, Locks
<1>19. CASE ForgetEnds(r)
  BY <1>19 DEF ForgetEnds, Go, Aborts, Exits, Killed
<1>20. CASE Notify(r)
  <2>1. ignored' = FALSE
    BY <1>20 DEF Notify
  <2>2. /\ at' = [at EXCEPT ![r] = "done"]
        /\ UNCHANGED <<cold, up, adrift, stopped, crossed>>
    BY <1>20 DEF Notify, Go
  <2>3. QED
    BY <1>20, <2>1, <2>2 DEF Notify
<1>21. QED
  BY <1>1, <1>2, <1>3, <1>4, <1>5, <1>6, <1>7, <1>8, <1>9, <1>10, <1>11, <1>12, <1>13,
     <1>14, <1>15, <1>16, <1>17, <1>18, <1>19, <1>20 DEF Proceed

\* A second backup that begins makes both crossed.
LEMMA BeginDocker ==
  ASSUME Types, DockerInv, NEW r \in Runs, Begin(r) \/ Skip(r) \/ Expire(r)
  PROVE  DockerInv'
<1> USE DEF DockerInv, Stopping, AnyRun, Going
<1>1. CASE Begin(r)
  BY <1>1 DEF Begin, Go
<1>2. CASE Skip(r)
  BY <1>2 DEF Skip, Go
<1>3. CASE Expire(r)
  BY <1>3 DEF Expire
<1>4. QED
  BY <1>1, <1>2, <1>3

\* Every step keeps DockerInv.
LEMMA NextDocker == Types /\ DockerInv /\ [Next]_vars => DockerInv'
<1> SUFFICES ASSUME Types, DockerInv, [Next]_vars PROVE DockerInv'
  OBVIOUS
<1>1. CASE UNCHANGED backupVars
  BY <1>1 DEF DockerInv, Stopping, AnyRun, Going
<1>2. CASE OpStep
  BY <1>1, <1>2 DEF OpStep, OpBegin, OpNext, OpEnds, OpDone, OpCancelled
<1>3. QED
  BY <1>1, <1>2, RunDocker, BeginDocker DEF vars, Next, RunStep, JobStep, OpStep

\* Both properties about the container follow from DockerInv.
LEMMA DockerSafe == Spec => [](HotOnlyByOverlap /\ RestartedAfterAll)
<1>1. Init => DockerInv
  BY DEF Init, BackupInit, DockerInv, Stopping, AnyRun, Going
<1>2. DockerInv => HotOnlyByOverlap /\ RestartedAfterAll
  BY DEF DockerInv, HotOnlyByOverlap, RestartedAfterAll, Stopping, AnyRun, Going
<1>3. QED
  BY InitTypes, NextTypes, NextDocker, <1>1, <1>2, PTL DEF Spec

\* Run: a backup of a container that is to be stopped reads it stopped, and its
\* events ignored, unless it is one of two.
THEOREM HotOnlyByOverlapTheorem == Spec => []HotOnlyByOverlap
BY DockerSafe, PTL

\* stopContainer and startContainer: no end of the backups leaves the container
\* stopped or ignored, but for a stop that came late or a refused start.
THEOREM RestartedTheorem == Spec => []RestartedAfterAll
BY DockerSafe, PTL

-----------------------------------------------------------------------------
(* The job.                                                                *)

\* What the job found is passed, in the report, at hand or still to come.
AccountInv ==
  LET current == IF stage \in {"running", "unlock"} THEN {target[Job]} ELSE {}
  IN /\ \A x \in Repos : checked[x] = "ok" => x \in passed
     /\ stage = "idle" => listed = {}
     /\ JobGoing \/ stage = "idle" =>
          /\ skipped = 0
          /\ listed = passed \cup broken \cup queue \cup current
          /\ passed \cap broken = {} /\ (passed \cup broken) \cap (queue \cup current) = {}
          /\ queue \cap current = {}
     /\ stage = "done" /\ ~fallback =>
          /\ passed \cap broken = {}
          /\ Cardinality(passed \cup broken) + skipped = Cardinality(listed)
          /\ skipped > 0 => closing

\* A backup neither records checks nor moves the job.
LEMMA RunLeavesJob ==
  ASSUME Types, NEW r \in Runs, Proceed(r), UNCHANGED <<jobVars, acting, opVars>>
  PROVE  checked' = checked /\ target'[Job] = target[Job]
<1> r \in Clients /\ r # Job /\ r # Op
  OBVIOUS
<1> USE DEF MarkBackup
<1>1. CASE CallStop(r)
  BY <1>1 DEF CallStop, Go
<1>2. CASE Stopped(r)
  BY <1>2 DEF Stopped, Go
<1>3. CASE StopFails(r)
  BY <1>3 DEF StopFails, Go
<1>4. CASE StopConfirmed(r)
  BY <1>4 DEF StopConfirmed, Go
<1>5. CASE WaitStopFails(r)
  BY <1>5 DEF WaitStopFails, Go
<1>6. ASSUME NEW x \in Repos, NextRepo(r, x) PROVE checked' = checked /\ target'[Job] = target[Job]
  BY <1>6 DEF NextRepo, Go, Turns
<1>7. CASE Unlock(r)
  BY <1>7 DEF Unlock, Go, Unlocked
<1>8. CASE RepoExists(r)
  BY <1>8 DEF RepoExists, Go, RepoFails, Fails
<1>9. CASE InitRepo(r)
  BY <1>9 DEF InitRepo, Go, RepoFails, Fails
<1>10. CASE SaveEnds(r)
  BY <1>10 DEF SaveEnds, Go, Aborts, Exits, Killed, Fails
<1>11. CASE RepoDone(r)
  BY <1>11 DEF RepoDone, Go
<1>12. CASE MountsDone(r)
  BY <1>12 DEF MountsDone, Go, Turns
<1>13. ASSUME NEW m \in Mounts, MountEmpty(r, m) PROVE checked' = checked /\ target'[Job] = target[Job]
  BY <1>13 DEF MountEmpty, Go
<1>14. ASSUME NEW m \in Mounts, MountFails(r, m) PROVE checked' = checked /\ target'[Job] = target[Job]
  BY <1>14 DEF MountFails, Go, Fails
<1>15. ASSUME NEW m \in Mounts, Save(r, m) PROVE checked' = checked /\ target'[Job] = target[Job]
  BY <1>15 DEF Save, Go, Locks
<1>16. CASE Start(r)
  BY <1>16 DEF Start, Go
<1>17. ASSUME NEW x \in Repos, ForgetFails(r, x) PROVE checked' = checked /\ target'[Job] = target[Job]
  BY <1>17 DEF ForgetFails, Go
<1>18. ASSUME NEW x \in Repos, Forget(r, x) PROVE checked' = checked /\ target'[Job] = target[Job]
  BY <1>18 DEF Forget, Go, Turns, Locks
<1>19. CASE ForgetEnds(r)
  BY <1>19 DEF ForgetEnds, Go, Aborts, Exits, Killed
<1>20. CASE Notify(r)
  BY <1>20 DEF Notify, Go
<1>21. QED
  BY <1>1, <1>2, <1>3, <1>4, <1>5, <1>6, <1>7, <1>8, <1>9, <1>10, <1>11, <1>12, <1>13,
     <1>14, <1>15, <1>16, <1>17, <1>18, <1>19, <1>20 DEF Proceed

\* Neither do the request and the beginning of a backup.
LEMMA OthersLeaveJob ==
  ASSUME Types, OpStep \/ \E r \in Runs : Begin(r) \/ Skip(r) \/ Expire(r)
  PROVE  checked' = checked /\ target'[Job] = target[Job]
<1>1. CASE OpStep
  BY <1>1 DEF OpStep, OpBegin, OpNext, OpEnds, OpDone, OpCancelled, Turns, RunsLate
<1>2. ASSUME NEW r \in Runs, Begin(r) \/ Skip(r) \/ Expire(r)
      PROVE  checked' = checked /\ target'[Job] = target[Job]
  BY <1>2 DEF Begin, Skip, Expire, SyncContainer, RunsLate, IsCut
<1>3. QED
  BY <1>1, <1>2

\* A step of the job moves a repository from one account to another.
LEMMA JobAccount ==
  ASSUME Types, AccountInv, JobBegin \/ JobProceeds \/ JobUnlock \/ JobExpires
  PROVE  AccountInv'
<1> USE DEF AccountInv, JobGoing
<1>1. CASE JobBegin
  <2>1. stage = "idle" /\ listed = {} /\ passed = {} /\ broken = {} /\ queue = {} /\ skipped = 0
    BY <1>1 DEF JobBegin
  <2>2. checked' = checked /\ UNCHANGED <<passed, broken, skipped, closing>>
    BY <1>1 DEF JobBegin, SyncContainer
  <2>3. CASE stage' = "done"
    <3>1. listed' = {} /\ passed' \cup broken' = {} /\ skipped' = 0
      BY <1>1, <2>1, <2>2, <2>3 DEF JobBegin
    <3>2. Cardinality(passed' \cup broken') = 0 /\ Cardinality(listed') = 0
      BY <3>1, FS_EmptySet, Zenon
    <3>3. QED
      BY <2>1, <2>2, <2>3, <3>1, <3>2
  <2>4. CASE stage' = "next"
    BY <1>1, <2>1, <2>2, <2>4 DEF JobBegin
  <2>5. QED
    BY <1>1, <2>3, <2>4 DEF JobBegin
<1>2. ASSUME NEW x \in Repos, JobNext(x) PROVE AccountInv'
  BY <1>2 DEF JobNext, Turns
<1>3. CASE JobEnds
  BY <1>3 DEF JobEnds, MarkCheck, Result
<1>4. CASE JobUnlock
  BY <1>4 DEF JobUnlock, MarkCheck, Result
<1>5. ASSUME NEW x \in Repos, JobGivesUp(x) PROVE AccountInv'
  <2> USE DEF JobGivesUp
  <2>1. CASE fallback
    BY <1>5, <2>1
  <2> DEFINE named == passed \cup broken \cup {x}
  <2>2. IsFiniteSet(named) /\ IsFiniteSet(queue \ {x}) /\ IsFiniteSet(listed)
    BY <1>5, FS_Subset
  <2>3. named \cap (queue \ {x}) = {} /\ listed = named \cup (queue \ {x})
    BY <1>5
  <2>4. Cardinality(listed) = Cardinality(named) + Cardinality(queue \ {x})
    <3> DEFINE rest == queue \ {x}
    <3>1. Cardinality(named \cup rest)
            = Cardinality(named) + Cardinality(rest) - Cardinality(named \cap rest)
      BY <2>2, FS_Union
    <3>2. Cardinality(named) \in Nat /\ Cardinality(rest) \in Nat
      BY <2>2, FS_CardinalityType
    <3>3. Cardinality(named \cap rest) = 0
      BY <2>3, FS_EmptySet
    <3>4. QED
      BY <3>1, <3>2, <3>3, <2>3
  <2>5. CASE ~fallback
    <3>1. /\ passed' \cup broken' = named /\ skipped' = Cardinality(queue \ {x})
          /\ UNCHANGED <<listed, checked, passed>> /\ stage' = "done"
      BY <1>5, <2>5 DEF Others
    <3>2. passed' \cap broken' = {} /\ closing'
      BY <1>5, <2>5
    <3>3. Cardinality(passed' \cup broken') + skipped' = Cardinality(listed')
      BY <2>4, <3>1
    <3>4. QED
      BY <3>1, <3>2, <3>3
  <2>6. QED
    BY <2>1, <2>5
<1>6. CASE JobDone
  BY <1>6, FS_Subset, FS_CardinalityType DEF JobDone
<1>7. CASE JobExpires
  BY <1>7 DEF JobExpires, RunsLate, IsCut
<1>8. QED
  BY <1>1, <1>2, <1>3, <1>4, <1>5, <1>6, <1>7 DEF JobProceeds

\* Every step keeps AccountInv.
LEMMA NextAccount == Types /\ AccountInv /\ [Next]_vars => AccountInv'
<1> SUFFICES ASSUME Types, AccountInv, [Next]_vars PROVE AccountInv'
  OBVIOUS
<1>1. CASE UNCHANGED jobVars /\ checked' = checked /\ target'[Job] = target[Job]
  BY <1>1 DEF AccountInv, JobGoing
<1>2. CASE JobBegin \/ JobProceeds \/ JobUnlock \/ JobExpires
  BY <1>2, JobAccount
<1>3. CASE OpStep
  BY <1>1, <1>3, OthersLeaveJob DEF OpStep, OpBegin, OpNext, OpEnds, OpDone, OpCancelled
<1>4. ASSUME NEW r \in Runs, UNCHANGED <<jobVars, acting, opVars>>,
             Proceed(r) \/ Begin(r) \/ Skip(r) \/ Expire(r)
      PROVE  AccountInv'
  BY <1>1, <1>4, RunLeavesJob, OthersLeaveJob
<1>5. CASE UNCHANGED vars
  BY <1>1, <1>5 DEF vars
<1>6. QED
  BY <1>2, <1>3, <1>4, <1>5 DEF Next, RunStep, JobStep, OpStep

\* A finished job accounts for every repository it found in the registry.
THEOREM EveryRepoAccountedTheorem == Spec => []EveryRepoAccounted
<1>1. Init => AccountInv
  BY DEF Init, RepoInit, JobInit, AccountInv, JobGoing
<1>2. AccountInv => EveryRepoAccounted
  BY DEF AccountInv, EveryRepoAccounted
<1>3. QED
  BY InitTypes, NextTypes, NextAccount, <1>1, <1>2, PTL DEF Spec


-----------------------------------------------------------------------------
(* Where a client is never goes back.                                      *)

\* The parts of Run, in their order ...
PartOf(r) ==
  CASE at[r] = "idle" -> 0
    [] at[r] \in {"stop", "stopping", "unsent", "waiting"} -> 1
    [] at[r] \in Saving -> 2
    [] at[r] = "start" -> 3
    [] at[r] \in {"retain", "forgetting"} -> 4
    [] at[r] = "done" -> 5

\* ... and the calls it has left before the next repository or mount, or part.
CallsLeft(r) ==
  CASE at[r] = "stop" -> 2
    [] at[r] \in {"stopping", "unsent"} -> 1
    [] at[r] = "exists" -> 5
    [] at[r] = "init" -> 4
    [] at[r] = "unlock" -> 3
    [] at[r] = "saving" -> 2
    [] at[r] = "mounts" -> 1
    [] at[r] = "forgetting" -> 1
    [] OTHER -> 0

\* A part done, a repository of its loop taken, a mount taken, or a call done, with no
\* earlier one of these undone.
RunDescent(r) ==
  \/ PartOf(r)' > PartOf(r)
  \/ /\ PartOf(r)' = PartOf(r)
     /\ \/ todo'[r] \subseteq todo[r] /\ todo'[r] # todo[r]
        \/ todo'[r] = todo[r] /\ left'[r] \subseteq left[r] /\ left'[r] # left[r]
        \/ todo'[r] = todo[r] /\ left'[r] = left[r] /\ CallsLeft(r)' < CallsLeft(r)

RunStands(r) == UNCHANGED <<at[r], todo[r], left[r]>>

\* The job ends, takes a repository, or is a step further with the one it has.
JobDescent ==
  \/ stage = "idle" /\ stage' # "idle"
  \/ stage \notin {"idle", "done"} /\ stage' = "done"
  \/ /\ stage \notin {"idle", "done"} /\ stage' \notin {"idle", "done"}
     /\ \/ queue' \subseteq queue /\ queue' # queue
        \/ queue' = queue /\ <<stage, stage'>> \in { <<"running", "unlock">>,
                                 <<"running", "next">>, <<"unlock", "next">> }

\* So does the request.
OpDescent ==
  \/ opstage = "idle" /\ opstage' # "idle"
  \/ opstage = "next" /\ opqueue' \subseteq opqueue /\ opqueue' # opqueue
  \/ opstage = "running" /\ opstage' = "next" /\ opqueue' = opqueue
  \/ opstage = "next" /\ opstage' = "done" /\ opqueue' = opqueue

\* Every step of a backup under way, whatever fails in it, takes it further.
LEMMA ProceedDescends ==
  ASSUME Types, NEW r \in Runs, Proceed(r) PROVE RunDescent(r)
<1> USE DEF RunDescent, PartOf, CallsLeft
<1>1. CASE CallStop(r)
  BY <1>1 DEF CallStop, Go
<1>2. CASE Stopped(r)
  BY <1>2 DEF Stopped, Go
<1>3. CASE StopFails(r)
  BY <1>3 DEF StopFails, Go
<1>4. CASE StopConfirmed(r)
  BY <1>4 DEF StopConfirmed, Go
<1>5. CASE WaitStopFails(r)
  BY <1>5 DEF WaitStopFails, Go
<1>6. CASE Unlock(r)
  BY <1>6 DEF Unlock, Go
<1>7. CASE RepoExists(r)
  BY <1>7 DEF RepoExists, Go, RepoFails
<1>8. CASE InitRepo(r)
  BY <1>8 DEF InitRepo, Go, RepoFails
<1>9. CASE SaveEnds(r)
  BY <1>9 DEF SaveEnds, Go
<1>10. CASE RepoDone(r)
  BY <1>10 DEF RepoDone, Go
<1>11. CASE MountsDone(r)
  BY <1>11 DEF MountsDone, Go
<1>12. CASE Start(r)
  BY <1>12 DEF Start, Go
<1>13. CASE ForgetEnds(r)
  BY <1>13 DEF ForgetEnds, Go
<1>14. CASE Notify(r)
  BY <1>14 DEF Notify, Go
<1>15. ASSUME NEW x \in Repos, NextRepo(r, x) PROVE RunDescent(r)
  BY <1>15 DEF NextRepo, Go
<1>16. ASSUME NEW x \in Repos, ForgetFails(r, x) PROVE RunDescent(r)
  BY <1>16 DEF ForgetFails, Go
<1>17. ASSUME NEW x \in Repos, Forget(r, x) PROVE RunDescent(r)
  BY <1>17 DEF Forget, Go
<1>18. ASSUME NEW m \in Mounts, MountEmpty(r, m) PROVE RunDescent(r)
  BY <1>18 DEF MountEmpty, Go
<1>19. ASSUME NEW m \in Mounts, MountFails(r, m) PROVE RunDescent(r)
  BY <1>19 DEF MountFails, Go
<1>20. ASSUME NEW m \in Mounts, Save(r, m) PROVE RunDescent(r)
  BY <1>20 DEF Save, Go
<1>21. QED
  BY <1>1, <1>2, <1>3, <1>4, <1>5, <1>6, <1>7, <1>8, <1>9, <1>10, <1>11,
     <1>12, <1>13, <1>14, <1>15, <1>16, <1>17, <1>18, <1>19, <1>20 DEF Proceed

\* A step of one backup leaves the others where they are.
LEMMA ProceedAlone ==
  ASSUME Types, NEW r \in Runs, Proceed(r) \/ Begin(r) \/ Skip(r) \/ Expire(r),
         NEW q \in Runs \ {r}
  PROVE  RunStands(q)
<1> USE DEF RunStands
<1>1. CASE CallStop(r)
  BY <1>1 DEF CallStop, Go
<1>2. CASE Stopped(r)
  BY <1>2 DEF Stopped, Go
<1>3. CASE StopFails(r)
  BY <1>3 DEF StopFails, Go
<1>4. CASE StopConfirmed(r)
  BY <1>4 DEF StopConfirmed, Go
<1>5. CASE WaitStopFails(r)
  BY <1>5 DEF WaitStopFails, Go
<1>6. CASE Unlock(r)
  BY <1>6 DEF Unlock, Go
<1>7. CASE RepoExists(r)
  BY <1>7 DEF RepoExists, Go, RepoFails
<1>8. CASE InitRepo(r)
  BY <1>8 DEF InitRepo, Go, RepoFails
<1>9. CASE SaveEnds(r)
  BY <1>9 DEF SaveEnds, Go
<1>10. CASE RepoDone(r)
  BY <1>10 DEF RepoDone, Go
<1>11. CASE MountsDone(r)
  BY <1>11 DEF MountsDone, Go
<1>12. CASE Start(r)
  BY <1>12 DEF Start, Go
<1>13. CASE ForgetEnds(r)
  BY <1>13 DEF ForgetEnds, Go
<1>14. CASE Notify(r)
  BY <1>14 DEF Notify, Go
<1>15. ASSUME NEW x \in Repos, NextRepo(r, x) PROVE RunStands(q)
  BY <1>15 DEF NextRepo, Go
<1>16. ASSUME NEW x \in Repos, ForgetFails(r, x) PROVE RunStands(q)
  BY <1>16 DEF ForgetFails, Go
<1>17. ASSUME NEW x \in Repos, Forget(r, x) PROVE RunStands(q)
  BY <1>17 DEF Forget, Go
<1>18. ASSUME NEW m \in Mounts, MountEmpty(r, m) PROVE RunStands(q)
  BY <1>18 DEF MountEmpty, Go
<1>19. ASSUME NEW m \in Mounts, MountFails(r, m) PROVE RunStands(q)
  BY <1>19 DEF MountFails, Go
<1>20. ASSUME NEW m \in Mounts, Save(r, m) PROVE RunStands(q)
  BY <1>20 DEF Save, Go
<1>21. CASE Begin(r)
  BY <1>21 DEF Begin, Go
<1>22. CASE Skip(r)
  BY <1>22 DEF Skip, Go
<1>23. CASE Expire(r)
  BY <1>23 DEF Expire
<1>24. QED
  BY <1>1, <1>2, <1>3, <1>4, <1>5, <1>6, <1>7, <1>8, <1>9, <1>10, <1>11,
     <1>12, <1>13, <1>14, <1>15, <1>16, <1>17, <1>18, <1>19, <1>20, <1>21, <1>22, <1>23 DEF Proceed

\* A backup begins with a part of its own, ends there, or stays where it is.
LEMMA BeginDescends ==
  ASSUME Types, NEW r \in Runs, Begin(r) \/ Skip(r) \/ Expire(r)
  PROVE  RunDescent(r) \/ RunStands(r)
<1>1. CASE Begin(r)
  BY <1>1 DEF Begin, Go, RunDescent, PartOf
<1>2. CASE Skip(r)
  BY <1>2 DEF Skip, Go, RunDescent, PartOf
<1>3. CASE Expire(r)
  BY <1>3 DEF Expire, RunStands
<1>4. QED
  BY <1>1, <1>2, <1>3

\* Every step of the job but the passing of its time takes it further.
LEMMA JobDescends == ASSUME Types, JobBegin \/ JobProceeds \/ JobUnlock PROVE JobDescent
<1> USE DEF JobDescent
<1>1. CASE JobBegin
  BY <1>1 DEF JobBegin
<1>2. ASSUME NEW x \in Repos, JobNext(x) PROVE JobDescent
  BY <1>2 DEF JobNext
<1>3. CASE JobEnds
  BY <1>3 DEF JobEnds
<1>4. CASE JobUnlock
  BY <1>4 DEF JobUnlock
<1>5. ASSUME NEW x \in Repos, JobGivesUp(x) PROVE JobDescent
  BY <1>5 DEF JobGivesUp
<1>6. CASE JobDone
  BY <1>6 DEF JobDone
<1>7. QED
  BY <1>1, <1>2, <1>3, <1>4, <1>5, <1>6 DEF JobProceeds

\* So does every step of the request but its cancellation.
LEMMA OpDescends ==
  ASSUME Types, OpStep PROVE OpDescent \/ UNCHANGED <<opstage, opqueue>>
<1> USE DEF OpDescent
<1>1. ASSUME NEW kd \in Requests, OpBegin(kd) PROVE OpDescent
  BY <1>1 DEF OpBegin
<1>2. ASSUME NEW x \in Repos, OpNext(x) PROVE OpDescent
  BY <1>2 DEF OpNext
<1>3. CASE OpEnds
  BY <1>3 DEF OpEnds
<1>4. CASE OpDone
  BY <1>4 DEF OpDone
<1>5. CASE OpCancelled
  BY <1>5 DEF OpCancelled
<1>6. QED
  BY <1>1, <1>2, <1>3, <1>4, <1>5 DEF OpStep

\* Run, a check or prune, and a request go through their repositories and mounts
\* without ever going back, whatever fails or runs out of time and whoever else is at
\* work there: each of their own steps takes them further, and no step of another, no
\* deadline and no cancellation takes them back.  They end after as many steps as they
\* have repositories, mounts and calls, unless one of these never returns.
THEOREM ClientsDescend ==
  Spec => [][/\ \A r \in Runs : /\ RunStep(r) => RunDescent(r)
                                /\ RunDescent(r) \/ RunStands(r)
             /\ JobStep => JobDescent
             /\ JobDescent \/ UNCHANGED <<stage, queue>>
             /\ OpDescent \/ UNCHANGED <<opstage, opqueue>>]_vars
<1> DEFINE Onward ==
      /\ \A r \in Runs : /\ RunStep(r) => RunDescent(r)
                         /\ RunDescent(r) \/ RunStands(r)
      /\ JobStep => JobDescent
      /\ JobDescent \/ UNCHANGED <<stage, queue>>
      /\ OpDescent \/ UNCHANGED <<opstage, opqueue>>
<1>1. ASSUME Types, Next PROVE Onward
  <2> HIDE DEF Types, TypeOK, RepoTypeOK, BackupTypeOK, JobTypeOK, Places
  <2>1. \A r \in Runs : RunStep(r) => RunDescent(r)
    BY <1>1, ProceedDescends DEF RunStep
  <2>2. JobStep => JobDescent
    BY <1>1, JobDescends DEF JobStep
  <2>3. ASSUME NEW r \in Runs, Proceed(r) \/ Begin(r) \/ Skip(r) \/ Expire(r),
               UNCHANGED <<jobVars, acting, opVars>>
        PROVE  Onward
    <3>1. \A q \in Runs \ {r} : RunStands(q)
      BY <1>1, <2>3, ProceedAlone
    <3>2. RunDescent(r) \/ RunStands(r)
      BY <1>1, <2>3, ProceedDescends, BeginDescends
    <3>3. QED
      BY <2>1, <2>2, <2>3, <3>1, <3>2
  <2>4. ASSUME JobBegin \/ JobProceeds \/ JobUnlock \/ JobExpires,
               UNCHANGED <<backupVars, acting, opVars>>
        PROVE  Onward
    <3>1. \A q \in Runs : RunStands(q)
      BY <2>4 DEF RunStands
    <3>2. JobDescent \/ UNCHANGED <<stage, queue>>
      BY <1>1, <2>4, JobDescends DEF JobExpires
    <3>3. QED
      BY <2>1, <2>2, <2>4, <3>1, <3>2
  <2>5. ASSUME OpStep PROVE Onward
    <3>1. UNCHANGED <<backupVars, jobVars>>
      BY <2>5 DEF OpStep, OpBegin, OpNext, OpEnds, OpDone, OpCancelled
    <3>2. \A q \in Runs : RunStands(q)
      BY <3>1 DEF RunStands
    <3>3. QED
      BY <1>1, <2>1, <2>2, <2>5, <3>1, <3>2, OpDescends
  <2>6. QED
    BY <1>1, <2>3, <2>4, <2>5 DEF Next, RunStep, JobStep, OpStep
<1>2. Types /\ [Next]_vars => [Onward]_vars
  BY <1>1
<1>3. QED
  BY InitTypes, NextTypes, <1>2, PTL DEF Spec
=============================================================================
