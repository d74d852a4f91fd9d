---------------------------- MODULE RepositoryJobs ----------------------------
(***************************************************************************)
(* The users of repositories together: backups of a container, the         *)
(* maintenance job, which holds every place of the semaphore and so runs   *)
(* alone, and a request of the API (internal/api/repos.go), which holds    *)
(* none.                                                                   *)
(***************************************************************************)
EXTENDS SingleBackup, Maintenance

CONSTANTS
  Op,        \* the client that is the request
  Scenarios  \* who acts, on a container and repositories that are how

ASSUME ActorsAssumption ==
  /\ Op \in Clients /\ {Job, Op} \cap Runs = {} /\ Job # Op
  /\ \A s \in Scenarios : s.actors \subseteq Clients

VARIABLES
  acting,   \* the clients that act
  request,  \* the operation asked for
  opstage,
  opqueue   \* entries it has left

opVars == <<request, opstage, opqueue>>
vars == <<repoVars, backupVars, jobVars, acting, opVars>>

Guarded == {"unlock", "forget", "prune"}
Requests == Guarded \cup {"check", "stats"}

TypeOK ==
  /\ RepoTypeOK /\ BackupTypeOK /\ JobTypeOK
  /\ acting \subseteq Clients
  /\ request \in Requests \cup {"none"}
  /\ opstage \in {"idle", "next", "running", "done"}
  /\ opqueue \subseteq Repos

Init ==
  /\ RepoInit /\ BackupInit /\ JobInit
  /\ \E s \in Scenarios :
       /\ acting = s.actors
       /\ cold \in s.cold /\ chosen = s.chosen /\ plan = s.plan
       /\ present = s.present /\ Recorded = s.known
  /\ request = "none" /\ opstage = "idle" /\ opqueue = {}

AnyRun == \E r \in Runs : Going(r)

\* The semaphore: backups hold one place each, maintenance all of them.
RunAdmitted == ~JobGoing

\* Seeded fault: maintenance takes one place like the others.
OnePlace == TRUE

JobAdmitted == ~AnyRun

-----------------------------------------------------------------------------
(* runRepoOp and handleReposStats.                                         *)

\* A command that locks its repository, and how
Mode == IF request = "stats" THEN "shared" ELSE "exclusive"

OpBegin(kd) ==
  /\ opstage = "idle" /\ Recorded # {}
  /\ kd \in Guarded => ~AnyRun /\ ~JobGoing
  /\ request' = kd
  /\ opqueue' = Recorded
  /\ opstage' = "next"
  /\ UNCHANGED <<repoVars, backupVars, jobVars, acting>>

OpNext(x) ==
  /\ opstage = "next" /\ x \in opqueue
  /\ opqueue' = opqueue \ {x}
  /\ Turns(Op, x)
  /\ \/ request = "unlock" /\ Alive(Op) /\ Unlocked(x) /\ UNCHANGED opstage
     \/ request # "unlock" /\ Locks(Op, x, Mode) /\ opstage' = "running"
     \/ UNCHANGED <<lockVars, opstage>>
  /\ UNCHANGED <<entryVars, backupVars, jobVars, acting, request>>

OpEnds ==
  /\ opstage = "running"
  /\ Aborts(Op)
  /\ opstage' = "next"
  /\ UNCHANGED <<clientVars, entryVars, backupVars, jobVars, acting, request, opqueue>>

OpDone ==
  /\ opstage = "next" /\ opqueue = {}
  /\ opstage' = "done"
  /\ UNCHANGED <<repoVars, backupVars, jobVars, acting, request, opqueue>>

\* The client of the API goes away.
OpCancelled ==
  /\ opstage \in {"next", "running"} /\ RunsLate(Op)
  /\ UNCHANGED <<lockVars, entryVars, backupVars, jobVars, acting, opVars>>

-----------------------------------------------------------------------------
RunStep(r) == Proceed(r) /\ UNCHANGED <<jobVars, acting, opVars>>
JobStep == JobProceeds /\ UNCHANGED <<backupVars, acting, opVars>>

Next ==
  \/ \E r \in Runs \cap acting :
       \/ RunAdmitted /\ Begin(r) /\ UNCHANGED <<jobVars, acting, opVars>>
       \/ Skip(r) /\ UNCHANGED <<jobVars, acting, opVars>>
       \/ RunStep(r)
       \/ Expire(r) /\ UNCHANGED <<jobVars, acting, opVars>>
  \/ /\ Job \in acting
     /\ \/ JobAdmitted /\ JobBegin /\ UNCHANGED <<backupVars, acting, opVars>>
        \/ JobStep
        \/ (JobUnlock \/ JobExpires) /\ UNCHANGED <<backupVars, acting, opVars>>
  \/ /\ Op \in acting
     /\ \/ \E kd \in Requests : OpBegin(kd)
        \/ \E x \in Repos : OpNext(x)
        \/ OpEnds \/ OpDone \/ OpCancelled

Spec == Init /\ [][Next]_vars
FairSpec == Spec /\ (\A r \in Runs : WF_vars(RunStep(r))) /\ WF_vars(JobStep)

-----------------------------------------------------------------------------
(* Properties.                                                             *)

\* A backup that asked for the container to be stopped reads its mounts while
\* it is stopped and its events are ignored, unless it ran together with
\* another backup of the container: the first to end starts it again and lets
\* go of its id (runner.go, Run, 128-142; nothing makes such backups wait for
\* each other, scheduler.go, TriggerBackup).
HotOnlyByOverlap ==
  \A r \in Runs : (cold /\ at[r] \in Saving /\ r \notin crossed) => ~up /\ ignored

\* When no backup is under way the container runs again and its events are
\* heeded, whatever failed or ran out of time, unless the stop was not
\* confirmed in time or Docker refused the start (lifecycle.go).
RestartedAfterAll == ~AnyRun => ~ignored /\ (up \/ adrift)

\* A registry entry says OK only for a repository to which some backup stored
\* every mount that holds something, with no failure there, and says failed
\* only after a failure (mounts.go, backupMounts and ensureRepo).
MarksTrue ==
  \A x \in Repos :
    /\ entry[x] = "ok" => \E r \in Runs : /\ {x} \X (chosen \ Empty) \subseteq saved[r]
                                          /\ x \notin failed[r]
    /\ entry[x] = "failed" => \E r \in Runs : x \in failed[r]

\* A repository fails a backup without having been tried only when the backup
\* itself is out of time: the timeout of one repository is spent on that one
\* (mounts.go, 24-31).
NoStarvation == \A r \in Runs : failed[r] \subseteq tried[r] \/ r \in late

\* Snapshots are removed only after every mount that holds something was stored in
\* every repository, and the message of a finished backup says that all went well
\* exactly when they were and retention applied everywhere (Run, 145-183).
HonestReport ==
  \A r \in Runs :
    LET stored == failed[r] = {} /\ tried[r] \X (chosen \ Empty) \subseteq saved[r]
    IN /\ forgotten[r] # {} => stored /\ tried[r] = plan
       /\ notified[r] = "info" => stored /\ plan \subseteq tried[r] \cap forgotten[r]
       /\ notified[r] = "error" => failed[r] # {} \/ forgotten[r] # plan
       /\ at[r] = "done" /\ (failed[r] # {} \/ saved[r] # {}) => notified[r] # "none"

\* A lock that a killed check or prune left is removed before the job turns to
\* the next repository, though its time be over, unless restic unlock failed
\* (check.go, recordCheck; prune.go, recordPrune).
StaleLocksCleared ==
  \A l \in stale : l.by = Job =>
    l.repo \in refused \/ (stage = "unlock" /\ target[Job] = l.repo)

\* Once it has unlocked its repository a backup finds no lock of a maintenance
\* job there, live or stale: none runs together with it.
BackupsUnblocked ==
  \A r \in unlocked : at[r] \in {"mounts", "saving"} =>
    \A l \in Conflicts(target[r], "shared") : l.by # Job

\* A finished job that took its repositories from the registry accounts for
\* each of them once: passed, named in the report, or counted as skipped; and
\* it skips none but for the window (check.go and prune.go, checkRepoEntries
\* and pruneRepoEntries).
EveryRepoAccounted ==
  /\ \A x \in Repos : checked[x] = "ok" => x \in passed
  /\ stage = "done" /\ ~fallback =>
       /\ passed \cap broken = {}
       /\ Cardinality(passed \cup broken) + skipped = Cardinality(listed)
       /\ skipped > 0 => closing

\* Every backup ends, and every job ends or is at the unlock that nothing
\* bounds (check.go, 138).
JobsEnd ==
  /\ \A r \in Runs : Going(r) ~> at[r] = "done"
  /\ JobGoing ~> stage \in {"done", "unlock"}
=============================================================================
