----------------------------- MODULE SingleBackup -----------------------------
(***************************************************************************)
(* internal/backup/runner.go, mounts.go and retention.go: the backups of   *)
(* one container that belongs to no project.  A run inspects the container *)
(* and records its repositories, stops it if the label says so, backs      *)
(* every mount up to every repository, starts it again, runs the           *)
(* post-hooks, applies retention and notifies.  A schedule and a request   *)
(* of the API may each have a run of the same container.                   *)
(***************************************************************************)
EXTENDS Repository

CONSTANTS
  Runs,     \* backups of the container
  Mounts,   \* its mounts
  Empty     \* those whose source holds nothing

ASSUME RunsAssumption ==
  /\ Runs \subseteq Clients
  /\ Empty \subseteq Mounts
  /\ None \notin Mounts

VARIABLES
  cold,      \* the container's label buoy.stop-before
  chosen,    \* the mounts that its labels select
  up,        \* Docker: it runs
  ignored,   \* Runner.ignoredIDs has it
  adrift,    \* a stop ended after its run had given up, or Docker refused a start
  at,        \* the step each run takes next
  todo,      \* repositories the loop of a run has left
  left,      \* mounts left for the current repository
  mount,     \* the mount being backed up
  spoiled,   \* runs whose current repository has a failure (repoOK)
  unlocked,  \* runs that have unlocked their current repository
  stopped,   \* runs that have stopped the container (wasRunning)
  failed,    \* repositories with a failure of the run
  issues,    \* runs whose retention failed somewhere
  tried,     \* repositories a run turned to with a context that was not done
  saved,     \* repository and mount of each snapshot of a run
  forgotten, \* repositories a run has applied retention to
  notified,
  crossed    \* runs that were under way together with another

labelVars  == <<cold, chosen>>
dockerVars == <<labelVars, up, ignored, adrift>>
loopVars   == <<todo, left, mount, spoiled, unlocked>>
resultVars == <<stopped, failed, issues, tried, saved, forgotten, notified, crossed>>
backupVars == <<dockerVars, at, loopVars, resultVars>>

\* Steps of the loops over repositories and mounts
Saving == {"repo", "exists", "init", "unlock", "mounts", "saving"}

Steps == Saving \cup {"idle", "stop", "stopping", "unsent", "waiting", "start", "retain",
                      "forgetting", "done"}

BackupTypeOK ==
  /\ cold \in BOOLEAN /\ chosen \subseteq Mounts
  /\ up \in BOOLEAN /\ ignored \in BOOLEAN /\ adrift \in BOOLEAN
  /\ at \in [Runs -> Steps]
  /\ todo \in [Runs -> SUBSET Repos]
  /\ left \in [Runs -> SUBSET Mounts]
  /\ mount \in [Runs -> Mounts \cup {None}]
  /\ spoiled \subseteq Runs /\ unlocked \subseteq Runs /\ stopped \subseteq Runs
  /\ issues \subseteq Runs /\ crossed \subseteq Runs
  /\ failed \in [Runs -> SUBSET Repos] /\ tried \in [Runs -> SUBSET Repos]
  /\ saved \in [Runs -> SUBSET (Repos \X Mounts)]
  /\ forgotten \in [Runs -> SUBSET Repos]
  /\ notified \in [Runs -> {"none", "info", "error"}]

BackupInit ==
  /\ cold \in BOOLEAN /\ chosen \in SUBSET Mounts
  /\ up = TRUE /\ ignored = FALSE /\ adrift = FALSE
  /\ at = [r \in Runs |-> "idle"]
  /\ todo = [r \in Runs |-> {}] /\ left = [r \in Runs |-> {}]
  /\ mount = [r \in Runs |-> None]
  /\ spoiled = {} /\ unlocked = {} /\ stopped = {} /\ issues = {} /\ crossed = {}
  /\ failed = [r \in Runs |-> {}] /\ tried = [r \in Runs |-> {}]
  /\ saved = [r \in Runs |-> {}] /\ forgotten = [r \in Runs |-> {}]
  /\ notified = [r \in Runs |-> "none"]

Going(r) == at[r] \notin {"idle", "done"}

Go(r, step) == at' = [at EXCEPT ![r] = step]

Fails(r) == failed' = [failed EXCEPT ![r] = @ \cup {target[r]}]

-----------------------------------------------------------------------------
(* Seeded faults: variants of steps below, for the sensitivity of the      *)
(* properties.  No step of the specification uses them.                    *)

\* The failed wait is logged, and the backup goes on.
WaitIgnored(r) ==
  /\ at[r] = "waiting"
  /\ up' = TRUE
  /\ ignored' = FALSE
  /\ Go(r, "repo")
  /\ UNCHANGED <<repoVars, labelVars, adrift, loopVars, resultVars>>

\* The wait is detached from the deadline.
WaitUnbounded(r) ==
  /\ at[r] = "waiting" /\ r \notin late
  /\ up' = TRUE /\ adrift' = TRUE /\ ignored' = FALSE
  /\ Go(r, "done")
  /\ UNCHANGED <<repoVars, labelVars, loopVars, resultVars>>

\* The mark is that of the repository, whatever became of the mounts.
MarkReached(r) ==
  /\ at[r] = "mounts" /\ left[r] = {}
  /\ MarkBackup(target[r], "ok")
  /\ Go(r, "repo")
  /\ UNCHANGED <<clientVars, lockVars, dockerVars, loopVars, resultVars>>

\* The start uses the context of the run.
StartInContext(r) ==
  /\ at[r] = "start"
  /\ up' = (up \/ r \in stopped \ late)
  /\ todo' = [todo EXCEPT ![r] = IF failed[r] = {} THEN plan ELSE {}]
  /\ Go(r, "retain")
  /\ UNCHANGED <<repoVars, labelVars, ignored, adrift, left, mount, spoiled, unlocked,
                 resultVars>>

\* Retention follows every backup.
RetainAlways(r) ==
  /\ at[r] = "start"
  /\ up' = (up \/ r \in stopped)
  /\ todo' = [todo EXCEPT ![r] = plan]
  /\ Go(r, "retain")
  /\ UNCHANGED <<repoVars, labelVars, ignored, adrift, left, mount, spoiled, unlocked,
                 resultVars>>

-----------------------------------------------------------------------------
\* The container cannot be inspected, does not run, or has no repositories.
Skip(r) ==
  /\ at[r] = "idle"
  /\ Go(r, "done")
  /\ UNCHANGED <<repoVars, dockerVars, loopVars, resultVars>>

\* SyncContainer may fail to write, which is only logged; so do the pre-hooks.
Begin(r) ==
  /\ at[r] = "idle"
  /\ up /\ plan # {} /\ r \notin late
  /\ SyncContainer \/ UNCHANGED entryVars
  /\ todo' = [todo EXCEPT ![r] = plan]
  /\ Go(r, IF cold THEN "stop" ELSE "repo")
  /\ LET others == {s \in Runs : Going(s)}
     IN crossed' = IF others = {} THEN crossed ELSE crossed \cup others \cup {r}
  /\ UNCHANGED <<clientVars, lockVars, dockerVars, left, mount, spoiled, unlocked,
                 stopped, failed, issues, tried, saved, forgotten, notified>>

-----------------------------------------------------------------------------
(* stopContainer.  A run that cannot stop the container ends there.        *)

CallStop(r) ==
  /\ at[r] = "stop"
  /\ ignored' = TRUE
  /\ Go(r, IF r \in late THEN "unsent" ELSE "stopping")
  /\ UNCHANGED <<repoVars, labelVars, up, adrift, loopVars, resultVars>>

Stopped(r) ==
  /\ at[r] = "stopping" /\ r \notin late
  /\ up' = FALSE
  /\ Go(r, "waiting")
  /\ UNCHANGED <<repoVars, labelVars, ignored, adrift, loopVars, resultVars>>

\* Docker refuses, or the call ends with ctx while Docker goes on stopping.
StopFails(r) ==
  /\ at[r] \in {"stopping", "unsent"}
  /\ \/ at[r] = "stopping" /\ r \in late /\ up' = FALSE /\ adrift' = TRUE
     \/ UNCHANGED <<up, adrift>>
  /\ ignored' = FALSE
  /\ Go(r, "done")
  /\ UNCHANGED <<repoVars, labelVars, loopVars, resultVars>>

StopConfirmed(r) ==
  /\ at[r] = "waiting" /\ r \notin late
  /\ stopped' = stopped \cup {r}
  /\ Go(r, "repo")
  /\ UNCHANGED <<repoVars, dockerVars, loopVars, failed, issues, tried, saved, forgotten,
                 notified, crossed>>

\* The restart uses the same context.
WaitStopFails(r) ==
  /\ at[r] = "waiting"
  /\ \/ r \notin late /\ up' = TRUE /\ UNCHANGED adrift
     \/ adrift' = TRUE /\ UNCHANGED up
  /\ ignored' = FALSE
  /\ Go(r, "done")
  /\ UNCHANGED <<repoVars, labelVars, loopVars, resultVars>>

-----------------------------------------------------------------------------
(* backupMounts, ensureRepo and backupSingleMount.  The order of the       *)
(* repositories is the configuration's and that of the mounts Docker's; no *)
(* property depends on them.                                               *)

NextRepo(r, x) ==
  /\ at[r] = "repo" /\ x \in todo[r]
  /\ Turns(r, x)
  /\ todo' = [todo EXCEPT ![r] = @ \ {x}]
  /\ left' = [left EXCEPT ![r] = chosen]
  /\ spoiled' = spoiled \ {r} /\ unlocked' = unlocked \ {r}
  /\ tried' = IF r \in late \cup cut' THEN tried ELSE [tried EXCEPT ![r] = @ \cup {x}]
  /\ Go(r, "exists")
  /\ UNCHANGED <<lockVars, entryVars, dockerVars, mount, stopped, failed, issues, saved,
                 forgotten, notified, crossed>>

\* ensureRepo gives the repository up.
RepoFails(r) ==
  /\ Fails(r)
  /\ MarkBackup(target[r], "failed")
  /\ Go(r, "repo")

\* restic cat config needs a lock that excludes no reader, for a moment.
RepoExists(r) ==
  /\ at[r] = "exists"
  /\ \/ /\ Alive(r) /\ Conflicts(target[r], "shared") = {}
        /\ Go(r, IF target[r] \in present THEN "unlock" ELSE "init")
        /\ UNCHANGED <<entryVars, failed>>
     \/ RepoFails(r)
  /\ UNCHANGED <<clientVars, lockVars, dockerVars, loopVars, stopped, issues, tried, saved,
                 forgotten, notified, crossed>>

\* An init that fails may have created the repository all the same.
InitRepo(r) ==
  /\ at[r] = "init"
  /\ \/ /\ Alive(r) /\ target[r] \notin present
        /\ present' = present \cup {target[r]}
        /\ \/ Go(r, "unlock") /\ UNCHANGED <<entryVars, failed>>
           \/ RepoFails(r)
     \/ RepoFails(r) /\ UNCHANGED present
  /\ UNCHANGED <<clientVars, held, stale, dockerVars, loopVars, stopped, issues, tried,
                 saved, forgotten, notified, crossed>>

\* A failure is only logged.
Unlock(r) ==
  /\ at[r] = "unlock"
  /\ \/ Alive(r) /\ Unlocked(target[r]) /\ unlocked' = unlocked \cup {r}
     \/ UNCHANGED <<lockVars, unlocked>>
  /\ Go(r, "mounts")
  /\ UNCHANGED <<clientVars, entryVars, dockerVars, todo, left, mount, spoiled, resultVars>>

MountEmpty(r, m) ==
  /\ at[r] = "mounts" /\ m \in left[r] \cap Empty
  /\ left' = [left EXCEPT ![r] = @ \ {m}]
  /\ UNCHANGED <<repoVars, dockerVars, at, todo, mount, spoiled, unlocked, resultVars>>

\* The source is gone or unreadable, the context done, the repository locked.
MountFails(r, m) ==
  /\ at[r] = "mounts" /\ m \in left[r]
  /\ left' = [left EXCEPT ![r] = @ \ {m}]
  /\ spoiled' = spoiled \cup {r}
  /\ Fails(r)
  /\ UNCHANGED <<repoVars, dockerVars, at, todo, mount, unlocked, stopped, issues, tried,
                 saved, forgotten, notified, crossed>>

Save(r, m) ==
  /\ at[r] = "mounts" /\ m \in left[r] \ Empty
  /\ Locks(r, target[r], "shared")
  /\ left' = [left EXCEPT ![r] = @ \ {m}]
  /\ mount' = [mount EXCEPT ![r] = m]
  /\ Go(r, "saving")
  /\ UNCHANGED <<clientVars, entryVars, dockerVars, todo, spoiled, unlocked, resultVars>>

SaveEnds(r) ==
  /\ at[r] = "saving"
  /\ \/ /\ Exits(r)
        /\ saved' = [saved EXCEPT ![r] = @ \cup {<<target[r], mount[r]>>}]
        /\ UNCHANGED <<failed, spoiled>>
     \/ /\ Aborts(r)
        /\ Fails(r) /\ spoiled' = spoiled \cup {r}
        /\ UNCHANGED saved
  /\ mount' = [mount EXCEPT ![r] = None]
  /\ Go(r, "mounts")
  /\ UNCHANGED <<clientVars, entryVars, dockerVars, todo, left, unlocked, stopped, issues,
                 tried, forgotten, notified, crossed>>

RepoDone(r) ==
  /\ at[r] = "mounts" /\ left[r] = {}
  /\ MarkBackup(target[r], IF r \in spoiled THEN "failed" ELSE "ok")
  /\ Go(r, "repo")
  /\ UNCHANGED <<clientVars, lockVars, dockerVars, loopVars, resultVars>>

MountsDone(r) ==
  /\ at[r] = "repo" /\ todo[r] = {}
  /\ Turns(r, None)
  /\ Go(r, "start")
  /\ UNCHANGED <<lockVars, entryVars, dockerVars, loopVars, resultVars>>

-----------------------------------------------------------------------------
(* startContainer and the post-hooks, detached from the deadline; then     *)
(* applyRetention, in the context of the run, and the notification.        *)

Start(r) ==
  /\ at[r] = "start"
  /\ \/ r \in stopped /\ up' = TRUE /\ UNCHANGED adrift
     \/ r \in stopped /\ UNCHANGED up /\ adrift' = TRUE
     \/ r \notin stopped /\ UNCHANGED <<up, adrift>>
  /\ todo' = [todo EXCEPT ![r] = IF failed[r] = {} THEN plan ELSE {}]
  /\ Go(r, "retain")
  /\ UNCHANGED <<repoVars, labelVars, ignored, left, mount, spoiled, unlocked, resultVars>>

\* forget does not start: the context is done, or the repository locked.
ForgetFails(r, x) ==
  /\ at[r] = "retain" /\ x \in todo[r]
  /\ todo' = [todo EXCEPT ![r] = @ \ {x}]
  /\ issues' = issues \cup {r}
  /\ UNCHANGED <<repoVars, dockerVars, at, left, mount, spoiled, unlocked, stopped, failed,
                 tried, saved, forgotten, notified, crossed>>

Forget(r, x) ==
  /\ at[r] = "retain" /\ x \in todo[r]
  /\ Turns(r, x)
  /\ Locks(r, x, "exclusive")
  /\ todo' = [todo EXCEPT ![r] = @ \ {x}]
  /\ Go(r, "forgetting")
  /\ UNCHANGED <<entryVars, dockerVars, left, mount, spoiled, unlocked, resultVars>>

ForgetEnds(r) ==
  /\ at[r] = "forgetting"
  /\ \/ /\ Exits(r)
        /\ forgotten' = [forgotten EXCEPT ![r] = @ \cup {target[r]}]
        /\ UNCHANGED issues
     \/ Aborts(r) /\ issues' = issues \cup {r} /\ UNCHANGED forgotten
  /\ Go(r, "retain")
  /\ UNCHANGED <<clientVars, entryVars, dockerVars, loopVars, stopped, failed, tried, saved,
                 notified, crossed>>

Notify(r) ==
  /\ at[r] = "retain" /\ todo[r] = {}
  /\ notified' = [notified EXCEPT ![r] =
                    IF failed[r] # {} \/ r \in issues THEN "error" ELSE "info"]
  /\ ignored' = (ignored /\ ~cold)
  /\ Go(r, "done")
  /\ UNCHANGED <<repoVars, labelVars, up, adrift, loopVars, stopped, failed, issues, tried,
                 saved, forgotten, crossed>>

-----------------------------------------------------------------------------
\* The deadline of the run passes, or the timeout of its repository.
Expire(r) ==
  /\ \/ Going(r) /\ RunsLate(r)
     \/ at[r] \in Saving \ {"repo"} /\ IsCut(r)
  /\ UNCHANGED <<lockVars, entryVars, backupVars>>

\* The steps of a run once it is under way
Proceed(r) ==
  \/ CallStop(r) \/ Stopped(r) \/ StopFails(r) \/ StopConfirmed(r) \/ WaitStopFails(r)
  \/ \E x \in Repos : NextRepo(r, x) \/ ForgetFails(r, x) \/ Forget(r, x)
  \/ \E m \in Mounts : MountEmpty(r, m) \/ MountFails(r, m) \/ Save(r, m)
  \/ RepoExists(r) \/ InitRepo(r) \/ Unlock(r) \/ SaveEnds(r) \/ RepoDone(r)
  \/ MountsDone(r) \/ Start(r) \/ ForgetEnds(r) \/ Notify(r)
=============================================================================
