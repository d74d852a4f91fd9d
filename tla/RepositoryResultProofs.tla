----------------------- MODULE RepositoryResultProofs -----------------------
(***************************************************************************)
(* Proofs about RepositoryJobs: what a backup stores, records and reports. *)
(***************************************************************************)
EXTENDS RepositoryJobsProofs

\* The steps of a backup that has not turned to a repository yet
Before == {"idle"} \cup Stopping

\* The steps of retention
Retaining == {"retain", "forgetting"}

\* The mounts that hold something
Full == chosen \ Empty

\* Repositories the loop is through with
Through(r) == (plan \ todo[r]) \ (IF at[r] \in AtRepo THEN {target[r]} ELSE {})

\* The backup has no result.
Nothing(r) ==
  /\ failed[r] = {} /\ tried[r] = {} /\ saved[r] = {} /\ forgotten[r] = {}
  /\ r \notin issues /\ notified[r] = "none"

\* Before the loop, and in a backup that gave up at the stop
BeforeInv(r) ==
  /\ at[r] \in Before => Nothing(r)
  /\ at[r] \in Stopping => todo[r] = plan
  /\ at[r] = "done" /\ notified[r] = "none" => Nothing(r)

\* In the loop over repositories
SavingInv(r) ==
  /\ at[r] \in Saving =>
       /\ todo[r] \subseteq plan
       /\ tried[r] \cup failed[r] \subseteq plan \ todo[r]
       /\ forgotten[r] = {} /\ r \notin issues /\ notified[r] = "none"
       /\ failed[r] = {} => /\ Through(r) \subseteq tried[r]
                            /\ Through(r) \X Full \subseteq saved[r]
  /\ at[r] \in AtRepo =>
       /\ target[r] \in plan \ todo[r]
       /\ target[r] \in tried[r] \/ (at[r] = "exists" /\ r \in late)
       /\ target[r] \in failed[r] <=> r \in spoiled
       /\ \A m \in Full : \/ m \in left[r] \/ <<target[r], m>> \in saved[r]
                          \/ (at[r] = "saving" /\ m = mount[r]) \/ r \in spoiled
  /\ at[r] \in {"exists", "init", "unlock"} => left[r] = chosen /\ r \notin spoiled

\* In retention, and in the report
AfterInv(r) ==
  /\ at[r] \in {"start"} \cup Retaining \/ notified[r] # "none" =>
       (failed[r] = {} => tried[r] = plan /\ plan \X Full \subseteq saved[r])
  /\ at[r] = "start" => forgotten[r] = {} /\ r \notin issues /\ notified[r] = "none"
  /\ at[r] \in Retaining =>
       LET current == IF at[r] = "forgetting" THEN {target[r]} ELSE {}
       IN /\ notified[r] = "none"
          /\ todo[r] \cup current \cup forgotten[r] \subseteq plan
          /\ (todo[r] \cup current) \cap forgotten[r] = {} /\ current \cap todo[r] = {}
          /\ todo[r] \cup current # {} \/ forgotten[r] # {} \/ r \in issues => failed[r] = {}
          /\ failed[r] = {} =>
               (r \in issues <=> plan # todo[r] \cup current \cup forgotten[r])
  /\ forgotten[r] # {} => failed[r] = {}
  /\ notified[r] # "none" =>
       /\ at[r] = "done"
       /\ notified[r] = "info" <=> failed[r] = {} /\ forgotten[r] = plan

\* What is known of a backup
RunInv(r) ==
  /\ BeforeInv(r) /\ SavingInv(r) /\ AfterInv(r)
  /\ failed[r] \subseteq tried[r] \/ r \in late

-----------------------------------------------------------------------------
\* A run is where it was, and may be out of time.
Same(s) ==
  /\ at'[s] = at[s] /\ target'[s] = target[s] /\ todo'[s] = todo[s] /\ left'[s] = left[s]
  /\ mount'[s] = mount[s] /\ failed'[s] = failed[s] /\ tried'[s] = tried[s]
  /\ saved'[s] = saved[s] /\ forgotten'[s] = forgotten[s] /\ notified'[s] = notified[s]
  /\ s \in spoiled' <=> s \in spoiled
  /\ s \in issues' <=> s \in issues
  /\ late \subseteq late' /\ plan' = plan /\ chosen' = chosen

USE ClientsAssumption, RunsAssumption, JobAssumption, ActorsAssumption
    DEF Types, TypeOK, RepoTypeOK, BackupTypeOK, JobTypeOK, Places, AtRepo, Saving, Steps, Modes,
        repoVars, clientVars, lockVars, entryVars, backupVars, dockerVars, labelVars, loopVars,
        resultVars, jobVars, opVars

\* A step of one backup leaves the others where they were.
LEMMA RunLeavesRuns ==
  ASSUME Types, NEW s \in Runs, NEW r \in Runs, Proceed(r), UNCHANGED <<jobVars, acting, opVars>>
  PROVE  s # r => Same(s)
<1> s \in Clients /\ r \in Clients /\ r # Job /\ r # Op
  OBVIOUS
<1> USE DEF Same, MarkBackup
<1>1. CASE CallStop(r)
  BY <1>1 DEF CallStop, Go
<1>2. CASE Stopped(r)
  BY <1>2 DEF Stopped, Go
<1>3. CASE StopFails(r)
  BY <1>3 DEF StopFails, Go
<1>4. CASE StopConfirmed(r)
  BY <1>4 DEF StopConfirmed, Go
<1>5. CASE WaitStopFails(r)
  BY <1>5 DEF WaitStopFails, Go
<1>6. ASSUME NEW x \in Repos, NextRepo(r, x) PROVE s # r => Same(s)
  BY <1>6 DEF NextRepo, Go, Turns
<1>7. CASE Unlock(r)
  BY <1>7 DEF Unlock, Go, Unlocked
<1>8. CASE RepoExists(r)
  BY <1>8 DEF RepoExists, Go, RepoFails, Fails
<1>9. CASE InitRepo(r)
  BY <1>9 DEF InitRepo, Go, RepoFails, Fails
<1>10. CASE SaveEnds(r)
  BY <1>10 DEF SaveEnds, Go, Aborts, Exits, Killed, Fails
<1>11. CASE RepoDone(r)
  BY <1>11 DEF RepoDone, Go
<1>12. CASE MountsDone(r)
  BY <1>12 DEF MountsDone, Go, Turns
<1>13. ASSUME NEW m \in Mounts, MountEmpty(r, m) PROVE s # r => Same(s)
  BY <1>13 DEF MountEmpty, Go
<1>14. ASSUME NEW m \in Mounts, MountFails(r, m) PROVE s # r => Same(s)
  BY <1>14 DEF MountFails, Go, Fails
<1>15. ASSUME NEW m \in Mounts, Save(r, m) PROVE s # r => Same(s)
  BY <1>15 DEF Save, Go, Locks
<1>16. CASE Start(r)
  BY <1>16 DEF Start, Go
<1>17. ASSUME NEW x \in Repos, ForgetFails(r, x) PROVE s # r => Same(s)
  BY <1>17 DEF ForgetFails, Go
<1>18. ASSUME NEW x \in Repos, Forget(r, x) PROVE s # r => Same(s)
  BY <1>18 DEF Forget, Go, Turns, Locks
<1>19. CASE ForgetEnds(r)
  BY <1>19 DEF ForgetEnds, Go, Aborts, Exits, Killed
<1>20. CASE Notify(r)
  BY <1>20 DEF Notify, Go
<1>21. QED
  BY <1>1, <1>2, <1>3, <1>4, <1>5, <1>6, <1>7, <1>8, <1>9, <1>10, <1>11, <1>12, <1>13,
     <1>14, <1>15, <1>16, <1>17, <1>18, <1>19, <1>20 DEF Proceed

\* A step of a backup under way keeps what is known of it.
LEMMA RunStepInv ==
  ASSUME Types, NEW r \in Runs, RunInv(r), Proceed(r), UNCHANGED <<jobVars, acting, opVars>>
  PROVE  RunInv(r)'
<1> r \in Clients /\ r # Job /\ r # Op
  OBVIOUS
<1> USE DEF RunInv, BeforeInv, SavingInv, AfterInv, Before, Stopping, Retaining, Full, Through, Nothing, MarkBackup
<1>1. CASE CallStop(r)
  BY <1>1 DEF CallStop, Go
<1>2. CASE Stopped(r)
  BY <1>2 DEF Stopped, Go
<1>3. CASE StopFails(r)
  BY <1>3 DEF StopFails, Go
<1>4. CASE StopConfirmed(r)
  BY <1>4 DEF StopConfirmed, Go
<1>5. CASE WaitStopFails(r)
  BY <1>5 DEF WaitStopFails, Go
<1>6. ASSUME NEW x \in Repos, NextRepo(r, x) PROVE RunInv(r)'
  BY <1>6 DEF NextRepo, Go, Turns
<1>7. CASE Unlock(r)
  BY <1>7 DEF Unlock, Go, Unlocked
<1>8. CASE RepoExists(r)
  <2>1. CASE UNCHANGED <<entryVars, failed>>
    BY <1>8, <2>1 DEF RepoExists, Go, RepoFails, Fails, Alive
  <2>2. CASE RepoFails(r)
    <3>1. BeforeInv(r)' /\ AfterInv(r)'
      BY <1>8, <2>2 DEF RepoExists, Go, RepoFails, Fails
    <3>2. SavingInv(r)'
      BY <1>8, <2>2 DEF RepoExists, Go, RepoFails, Fails
    <3>3. (failed[r] \subseteq tried[r] \/ r \in late)'
      BY <1>8, <2>2 DEF RepoExists, Go, RepoFails, Fails
    <3>4. QED
      BY <3>1, <3>2, <3>3
  <2>3. QED
    BY <1>8, <2>1, <2>2 DEF RepoExists
<1>9. CASE InitRepo(r)
  BY <1>9 DEF InitRepo, Go, RepoFails, Fails
<1>10. CASE SaveEnds(r)
  BY <1>10 DEF SaveEnds, Go, Aborts, Exits, Killed, Fails
<1>11. CASE RepoDone(r)
  BY <1>11 DEF RepoDone, Go
<1>12. CASE MountsDone(r)
  <2>1. BeforeInv(r)' /\ SavingInv(r)'
    BY <1>12 DEF MountsDone, Go, Turns
  <2>2. AfterInv(r)'
    BY <1>12 DEF MountsDone, Go, Turns
  <2>3. QED
    BY <1>12, <2>1, <2>2 DEF MountsDone, Turns
<1>13. ASSUME NEW m \in Mounts, MountEmpty(r, m) PROVE RunInv(r)'
  BY <1>13 DEF MountEmpty, Go
<1>14. ASSUME NEW m \in Mounts, MountFails(r, m) PROVE RunInv(r)'
  BY <1>14 DEF MountFails, Go, Fails
<1>15. ASSUME NEW m \in Mounts, Save(r, m) PROVE RunInv(r)'
  BY <1>15 DEF Save, Go, Locks
<1>16. CASE Start(r)
  BY <1>16 DEF Start, Go
<1>17. ASSUME NEW x \in Repos, ForgetFails(r, x) PROVE RunInv(r)'
  BY <1>17 DEF ForgetFails, Go
<1>18. ASSUME NEW x \in Repos, Forget(r, x) PROVE RunInv(r)'
  BY <1>18 DEF Forget, Go, Turns, Locks
<1>19. CASE ForgetEnds(r)
  BY <1>19 DEF ForgetEnds, Go, Aborts, Exits, Killed
<1>20. CASE Notify(r)
  BY <1>20 DEF Notify, Go
<1>21. QED
  BY <1>1, <1>2, <1>3, <1>4, <1>5, <1>6, <1>7, <1>8, <1>9, <1>10, <1>11, <1>12, <1>13,
     <1>14, <1>15, <1>16, <1>17, <1>18, <1>19, <1>20 DEF Proceed


\* What is known of a backup that does not move stays true.
LEMMA SameRunInv == ASSUME Types, NEW s \in Runs, RunInv(s), Same(s) PROVE RunInv(s)'
<1> USE DEF Same
<1>1. BeforeInv(s)'
  BY DEF RunInv, BeforeInv, Before, Stopping, Nothing
<1>2. SavingInv(s)'
  BY DEF RunInv, SavingInv, Full, Through
<1>3. AfterInv(s)'
  BY DEF RunInv, AfterInv, Retaining, Full
<1>4. (failed[s] \subseteq tried[s] \/ s \in late)'
  BY DEF RunInv
<1>5. QED
  BY <1>1, <1>2, <1>3, <1>4 DEF RunInv

\* The steps of the job
JobMoves == JobBegin \/ JobProceeds \/ JobUnlock \/ JobExpires

\* The request, the job and other backups leave a backup where it was.
LEMMA OthersLeaveRuns ==
  ASSUME Types, NEW s \in Runs
  PROVE  /\ OpStep => Same(s)
         /\ JobMoves /\ UNCHANGED backupVars => Same(s)
         /\ \A r \in Runs : Begin(r) \/ Skip(r) \/ Expire(r) => s = r \/ Same(s)
         /\ \A r \in Runs : Expire(r) => Same(s)
<1> s \in Clients /\ s # Job /\ s # Op
  OBVIOUS
<1> USE DEF Same
<1>1. ASSUME OpStep PROVE Same(s)
  BY <1>1 DEF OpStep, OpBegin, OpNext, OpEnds, OpDone, OpCancelled, Turns, RunsLate
<1>2. ASSUME JobMoves, UNCHANGED backupVars PROVE Same(s)
  <2>1. CASE JobBegin
    BY <1>2, <2>1 DEF JobBegin, SyncContainer
  <2>2. ASSUME NEW x \in Repos, JobNext(x) \/ JobGivesUp(x) PROVE Same(s)
    BY <1>2, <2>2 DEF JobNext, JobGivesUp, Turns
  <2>3. CASE JobEnds \/ JobDone
    BY <1>2, <2>3 DEF JobEnds, JobDone, MarkCheck
  <2>4. CASE JobUnlock
    BY <1>2, <2>4 DEF JobUnlock, MarkCheck
  <2>5. CASE JobExpires
    BY <1>2, <2>5 DEF JobExpires, RunsLate, IsCut
  <2>6. QED
    BY <1>2, <2>1, <2>2, <2>3, <2>4, <2>5 DEF JobMoves, JobProceeds
<1>3. ASSUME NEW r \in Runs, Begin(r) \/ Skip(r) PROVE s = r \/ Same(s)
  BY <1>3 DEF Begin, Skip, Go, SyncContainer
<1>4. ASSUME NEW r \in Runs, Expire(r) PROVE Same(s)
  BY <1>4 DEF Expire, RunsLate, IsCut
<1>5. QED
  BY <1>1, <1>2, <1>3, <1>4

\* A backup that begins has no results.
LEMMA BeginRunInv ==
  ASSUME Types, NEW r \in Runs, RunInv(r), Begin(r) \/ Skip(r)
  PROVE  RunInv(r)'
<1> USE DEF RunInv, BeforeInv, SavingInv, AfterInv, Before, Stopping, Retaining, Full,
            Through, Nothing, Go
<1>1. CASE Begin(r)
  BY <1>1 DEF Begin, SyncContainer
<1>2. CASE Skip(r)
  BY <1>2 DEF Skip
<1>3. QED
  BY <1>1, <1>2

\* What is known of every backup
ResultInv == \A r \in Runs : RunInv(r)

\* Every step keeps what is known of every backup.
LEMMA NextResult == Types /\ ResultInv /\ [Next]_vars => ResultInv'
<1> SUFFICES ASSUME Types, ResultInv, [Next]_vars, NEW s \in Runs PROVE RunInv(s)'
  BY DEF ResultInv
<1>1. RunInv(s)
  BY DEF ResultInv
<1>2. CASE UNCHANGED vars
  <2>1. Same(s)
    BY <1>2 DEF vars, Same
  <2>2. QED
    BY <1>1, <2>1, SameRunInv
<1>3. CASE OpStep \/ (JobMoves /\ UNCHANGED backupVars)
  BY <1>1, <1>3, OthersLeaveRuns, SameRunInv
<1>4. ASSUME NEW r \in Runs, Begin(r) \/ Skip(r) \/ Expire(r) PROVE RunInv(s)'
  BY <1>1, <1>4, OthersLeaveRuns, SameRunInv, BeginRunInv
<1>5. ASSUME NEW r \in Runs, RunStep(r) PROVE RunInv(s)'
  BY <1>1, <1>5, RunLeavesRuns, SameRunInv, RunStepInv DEF RunStep
<1>6. QED
  BY <1>2, <1>3, <1>4, <1>5 DEF Next, OpStep, JobMoves, JobStep

\* Both properties of a backup alone follow from its invariant.
LEMMA ResultSafe == Spec => [](NoStarvation /\ HonestReport)
<1>1. Init => ResultInv
  BY DEF Init, RepoInit, BackupInit, ResultInv, RunInv, BeforeInv, SavingInv, AfterInv, Before,
         Stopping, Retaining, Full, Through, Nothing
<1>2. Types /\ ResultInv => NoStarvation /\ HonestReport
  <2> SUFFICES ASSUME Types, ResultInv PROVE NoStarvation /\ HonestReport
    OBVIOUS
  <2>1. NoStarvation
    BY DEF ResultInv, RunInv, NoStarvation
  <2>2. ASSUME NEW r \in Runs
        PROVE  LET stored == failed[r] = {} /\ tried[r] \X (chosen \ Empty) \subseteq saved[r]
               IN /\ forgotten[r] # {} => stored /\ tried[r] = plan
                  /\ notified[r] = "info" => stored /\ plan \subseteq tried[r] \cap forgotten[r]
                  /\ notified[r] = "error" => failed[r] # {} \/ forgotten[r] # plan
                  /\ at[r] = "done" /\ (failed[r] # {} \/ saved[r] # {}) => notified[r] # "none"
    <3> USE DEF ResultInv, RunInv, BeforeInv, SavingInv, AfterInv, Nothing, Full, Retaining,
                Before, Stopping
    <3>1. at[r] \in Steps /\ notified[r] \in {"none", "info", "error"}
      OBVIOUS
    <3>2. forgotten[r] # {} => at[r] \in Retaining \/ notified[r] # "none"
      BY <3>1
    <3>3. forgotten[r] # {} => /\ failed[r] = {} /\ tried[r] = plan
                               /\ plan \X (chosen \ Empty) \subseteq saved[r]
      BY <3>2
    <3>4. notified[r] = "info" => /\ failed[r] = {} /\ tried[r] = plan /\ forgotten[r] = plan
                                  /\ plan \X (chosen \ Empty) \subseteq saved[r]
      OBVIOUS
    <3>5. notified[r] = "error" => failed[r] # {} \/ forgotten[r] # plan
      OBVIOUS
    <3>6. at[r] = "done" /\ (failed[r] # {} \/ saved[r] # {}) => notified[r] # "none"
      OBVIOUS
    <3> HIDE DEF ResultInv, RunInv, BeforeInv, SavingInv, AfterInv
    <3>7. QED
      BY <3>3, <3>4, <3>5, <3>6
  <2>3. HonestReport
    BY <2>2 DEF HonestReport
  <2>4. QED
    BY <2>1, <2>3
<1>3. QED
  BY InitTypes, NextTypes, NextResult, <1>1, <1>2, PTL DEF Spec

\* backupMounts: the timeout of one repository fails no other.
THEOREM NoStarvationTheorem == Spec => []NoStarvation
BY ResultSafe, PTL

\* Run and applyRetention: snapshots are removed only after a backup that stored
\* every mount that holds something, and the message tells which it was.
THEOREM HonestReportTheorem == Spec => []HonestReport
BY ResultSafe, PTL


-----------------------------------------------------------------------------
(* The marks of the registry.                                              *)

\* A run that vouches for the mark OK of x will not turn to x again.
Vouches(r, x) ==
  /\ {x} \X Full \subseteq saved[r] /\ x \notin failed[r]
  /\ at[r] \notin Before
  /\ at[r] \in Saving => x \notin todo[r]
  /\ at[r] \in AtRepo => x # target[r]

\* Whoever vouched still does, and whoever marks has what the mark says.
Keeps(r) ==
  /\ failed[r] \subseteq failed'[r]
  /\ \A x \in Repos : Vouches(r, x) => Vouches(r, x)'

Marks(r) ==
  \A x \in Repos :
    /\ entry'[x] = "ok" => entry[x] = "ok" \/ Vouches(r, x)'
    /\ entry'[x] = "failed" => entry[x] = "failed" \/ x \in failed'[r]

\* For each mark there is a backup that vouches for it.
MarksInv ==
  \A x \in Repos :
    /\ entry[x] = "ok" => \E r \in Runs : Vouches(r, x)
    /\ entry[x] = "failed" => \E r \in Runs : x \in failed[r]

\* A mark changes at most the entry of its repository.
LEMMA MarkChanges ==
  ASSUME Types, NEW x \in Repos, NEW res \in {"ok", "failed"}, MarkBackup(x, res)
  PROVE  \A y \in Repos : entry'[y] = entry[y] \/ (y = x /\ entry'[y] = res)
BY DEF MarkBackup, Result

\* A repository that is given up is marked as failed, and has a failure.
LEMMA RepoFailsMarks ==
  ASSUME Types, NEW r \in Runs, at[r] \in {"exists", "init"}, RepoFails(r),
         UNCHANGED <<loopVars, saved, plan, chosen, target>>
  PROVE  Keeps(r) /\ Marks(r)
<1>1. target[r] \in Repos
  OBVIOUS
<1>2. \A y \in Repos : entry'[y] = entry[y] \/ (y = target[r] /\ entry'[y] = "failed")
  BY <1>1, MarkChanges DEF RepoFails
<1>3. failed' = [failed EXCEPT ![r] = @ \cup {target[r]}] /\ at' = [at EXCEPT ![r] = "repo"]
  BY DEF RepoFails, Fails, Go
<1>4. Marks(r)
  BY <1>1, <1>2, <1>3 DEF Marks
<1>5. Keeps(r)
  BY <1>1, <1>3 DEF Keeps, Vouches, Full, Before, Stopping
<1>6. QED
  BY <1>4, <1>5

\* A step of a backup keeps what it vouches for, and marks what it has done.
LEMMA RunMarks ==
  ASSUME Types, ResultInv, NEW r \in Runs, Proceed(r), UNCHANGED <<jobVars, acting, opVars>>
  PROVE  Keeps(r) /\ Marks(r)
<1> r \in Clients /\ r # Job /\ r # Op
  OBVIOUS
<1> USE DEF Keeps, Marks, Vouches, Full, Before, Stopping
<1>1. CASE CallStop(r)
  BY <1>1 DEF CallStop, Go
<1>2. CASE Stopped(r)
  BY <1>2 DEF Stopped, Go
<1>3. CASE StopFails(r)
  BY <1>3 DEF StopFails, Go
<1>4. CASE StopConfirmed(r)
  BY <1>4 DEF StopConfirmed, Go
<1>5. CASE WaitStopFails(r)
  BY <1>5 DEF WaitStopFails, Go
<1>6. ASSUME NEW x \in Repos, NextRepo(r, x) PROVE Keeps(r) /\ Marks(r)
  BY <1>6 DEF NextRepo, Go, Turns
<1>7. CASE Unlock(r)
  BY <1>7 DEF Unlock, Go, Unlocked
<1>8. CASE RepoExists(r)
  <2>1. CASE RepoFails(r)
    <3>1. at[r] \in {"exists", "init"} /\ UNCHANGED <<loopVars, saved, plan, chosen, target>>
      BY <1>8, <2>1 DEF RepoExists, RepoFails, MarkBackup
    <3> HIDE DEF Keeps, Marks
    <3>2. QED
      BY <2>1, <3>1, RepoFailsMarks
  <2>2. CASE ~RepoFails(r)
    BY <1>8, <2>2 DEF RepoExists, Go
  <2>3. QED
    BY <2>1, <2>2
<1>9. CASE InitRepo(r)
  <2>1. CASE RepoFails(r)
    <3>1. at[r] \in {"exists", "init"} /\ UNCHANGED <<loopVars, saved, plan, chosen, target>>
      BY <1>9, <2>1 DEF InitRepo, RepoFails, MarkBackup
    <3> HIDE DEF Keeps, Marks
    <3>2. QED
      BY <2>1, <3>1, RepoFailsMarks
  <2>2. CASE ~RepoFails(r)
    BY <1>9, <2>2 DEF InitRepo, Go
  <2>3. QED
    BY <2>1, <2>2
<1>10. CASE SaveEnds(r)
  BY <1>10 DEF SaveEnds, Go, Aborts, Exits, Killed, Fails
<1>11. CASE RepoDone(r)
  <2>1. target[r] \in Repos /\ RunInv(r)
    BY <1>11 DEF RepoDone, ResultInv
  <2>2. /\ at[r] = "mounts" /\ left[r] = {} /\ at' = [at EXCEPT ![r] = "repo"]
        /\ UNCHANGED <<clientVars, todo, failed, saved, plan, chosen>>
    BY <1>11 DEF RepoDone, Go, MarkBackup
  <2>3. Keeps(r)
    BY <2>1, <2>2
  <2>4. CASE r \in spoiled
    <3>1. target[r] \in failed[r]
      BY <2>1, <2>2, <2>4 DEF RunInv, SavingInv
    <3>2. \A y \in Repos : entry'[y] = entry[y] \/ (y = target[r] /\ entry'[y] = "failed")
      BY <1>11, <2>1, <2>4, MarkChanges DEF RepoDone
    <3>3. QED
      BY <2>2, <2>3, <3>1, <3>2
  <2>5. CASE r \notin spoiled
    <3>1. target[r] \notin failed[r] /\ target[r] \notin todo[r]
      BY <2>1, <2>2, <2>5 DEF RunInv, SavingInv
    <3>2. {target[r]} \X Full \subseteq saved[r]
      BY <2>1, <2>2, <2>5 DEF RunInv, SavingInv
    <3>3. \A y \in Repos : y = target[r] => Vouches(r, y)'
      BY <2>1, <2>2, <3>1, <3>2
    <3>4. \A y \in Repos : entry'[y] = entry[y] \/ (y = target[r] /\ entry'[y] = "ok")
      BY <1>11, <2>1, <2>5, MarkChanges DEF RepoDone
    <3> HIDE DEF Keeps, Vouches
    <3>5. Marks(r)
      BY <3>3, <3>4
    <3>6. QED
      BY <2>3, <3>5
  <2>6. QED
    BY <2>4, <2>5
<1>12. CASE MountsDone(r)
  BY <1>12 DEF MountsDone, Go, Turns
<1>13. ASSUME NEW m \in Mounts, MountEmpty(r, m) PROVE Keeps(r) /\ Marks(r)
  BY <1>13 DEF MountEmpty, Go
<1>14. ASSUME NEW m \in Mounts, MountFails(r, m) PROVE Keeps(r) /\ Marks(r)
  BY <1>14 DEF MountFails, Go, Fails
<1>15. ASSUME NEW m \in Mounts, Save(r, m) PROVE Keeps(r) /\ Marks(r)
  BY <1>15 DEF Save, Go, Locks
<1>16. CASE Start(r)
  BY <1>16 DEF Start, Go
<1>17. ASSUME NEW x \in Repos, ForgetFails(r, x) PROVE Keeps(r) /\ Marks(r)
  BY <1>17 DEF ForgetFails, Go
<1>18. ASSUME NEW x \in Repos, Forget(r, x) PROVE Keeps(r) /\ Marks(r)
  BY <1>18 DEF Forget, Go, Turns, Locks
<1>19. CASE ForgetEnds(r)
  BY <1>19 DEF ForgetEnds, Go, Aborts, Exits, Killed
<1>20. CASE Notify(r)
  BY <1>20 DEF Notify, Go
<1>21. QED
  BY <1>1, <1>2, <1>3, <1>4, <1>5, <1>6, <1>7, <1>8, <1>9, <1>10, <1>11, <1>12, <1>13,
     <1>14, <1>15, <1>16, <1>17, <1>18, <1>19, <1>20 DEF Proceed

\* A backup that does not move vouches on.
LEMMA SameKeeps == ASSUME Types, NEW s \in Runs, Same(s) PROVE Keeps(s)
BY DEF Same, Keeps, Vouches, Full, Before, Stopping

\* A backup that has not begun vouches for nothing.
LEMMA BeginKeeps ==
  ASSUME Types, ResultInv, NEW r \in Runs, Begin(r) \/ Skip(r)
  PROVE  Keeps(r)
BY DEF Begin, Skip, Go, Keeps, Vouches, Before, Stopping

\* Only a step of a backup marks a repository OK or failed.
LEMMA OthersMark ==
  ASSUME Types, \/ OpStep \/ (JobMoves /\ UNCHANGED backupVars)
                \/ \E r \in Runs : Begin(r) \/ Skip(r) \/ Expire(r)
  PROVE  \A x \in Repos : entry'[x] \in {"ok", "failed"} => entry'[x] = entry[x]
<1>1. CASE OpStep
  BY <1>1 DEF OpStep, OpBegin, OpNext, OpEnds, OpDone, OpCancelled
<1>2. CASE JobMoves
  BY <1>2 DEF JobMoves, JobProceeds, JobBegin, JobNext, JobGivesUp, JobEnds, JobDone, JobUnlock,
              JobExpires, SyncContainer, MarkCheck
<1>3. ASSUME NEW r \in Runs, Begin(r) \/ Skip(r) \/ Expire(r)
      PROVE  \A x \in Repos : entry'[x] \in {"ok", "failed"} => entry'[x] = entry[x]
  BY <1>3 DEF Begin, Skip, Expire, SyncContainer
<1>4. QED
  BY <1>1, <1>2, <1>3

\* Every step keeps MarksInv.
LEMMA NextMarks == Types /\ ResultInv /\ MarksInv /\ [Next]_vars => MarksInv'
<1> SUFFICES ASSUME Types, ResultInv, MarksInv, [Next]_vars PROVE MarksInv'
  OBVIOUS
<1> DEFINE Elsewhere == \/ OpStep \/ (JobMoves /\ UNCHANGED backupVars)
                        \/ \E r \in Runs : Begin(r) \/ Skip(r) \/ Expire(r)
<1>1. CASE UNCHANGED vars
  <2>1. entry' = entry /\ \A s \in Runs : Same(s)
    BY <1>1 DEF vars, Same
  <2>2. QED
    BY <2>1, SameKeeps DEF Keeps, MarksInv
<1>2. CASE Elsewhere
  <2>1. \A s \in Runs : Keeps(s)
    BY <1>2, OthersLeaveRuns, SameKeeps, BeginKeeps
  <2>2. QED
    BY <1>2, <2>1, OthersMark DEF Keeps, MarksInv
<1>3. ASSUME NEW r \in Runs, RunStep(r) PROVE MarksInv'
  <2>1. \A s \in Runs : Keeps(s)
    BY <1>3, RunLeavesRuns, SameKeeps, RunMarks DEF RunStep
  <2>2. Marks(r)
    BY <1>3, RunMarks DEF RunStep
  <2>3. QED
    BY <2>1, <2>2 DEF Keeps, Marks, MarksInv
<1>4. QED
  BY <1>1, <1>2, <1>3 DEF Next, OpStep, JobMoves, JobStep

\* The registry says OK of a repository only after a backup that stored every
\* mount there, and says failed only after one that failed there.
THEOREM MarksTrueTheorem == Spec => []MarksTrue
<1>1. Init => MarksInv
  BY DEF Init, RepoInit, MarksInv
<1>2. Init => ResultInv
  BY DEF Init, RepoInit, BackupInit, ResultInv, RunInv, BeforeInv, SavingInv, AfterInv, Before,
         Stopping, Retaining, Full, Through, Nothing
<1>3. MarksInv => MarksTrue
  BY DEF MarksInv, MarksTrue, Vouches, Full
<1>4. QED
  BY InitTypes, NextTypes, NextResult, NextMarks, <1>1, <1>2, <1>3, PTL DEF Spec
=============================================================================
