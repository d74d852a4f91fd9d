----------------------------- MODULE StackBackup -----------------------------
(***************************************************************************)
(* internal/backup/stack.go and lifecycle.go: one run of RunStackBatch for *)
(* a batch of containers of one compose project - discover the stack, stop *)
(* the stop set, back the batch up, start what was stopped, run post-hooks *)
(* and retention, notify.  Docker calls fail, containers exit and change   *)
(* health on their own, and the backup deadline may pass between any two   *)
(* steps.                                                                  *)
(***************************************************************************)
EXTENDS StackGraph

CONSTANTS
  StopBefore,  \* containers labelled buoy.stop-before=true
  Checked,     \* containers with a health check
  Repoless,    \* containers whose labels resolve to no repository
  Bare,        \* containers no mount of which takes part and holds anything
  Flaky,       \* bound: containers that exit or change health on their own
  Lost,        \* bound: sets of containers that cannot be inspected
  StartOrder,  \* StartOrder[D]: topological order of the labels of containers D
  None

ASSUME RunAssumption ==
  /\ StopBefore \subseteq Containers
  /\ Repoless \subseteq Containers /\ Bare \subseteq Containers
  /\ Flaky \subseteq Containers /\ Lost \subseteq SUBSET Containers
  /\ None \notin Containers

\* What DepsProofs proves of topologicalSort
ASSUME StartOrderAssumption ==
  /\ StartOrder \in [SUBSET Containers -> Seq(Services)]
  /\ \A D \in SUBSET Containers : IsStartOrder(StartOrder[D], D)

VARIABLES
  phase,      \* the part of RunStackBatch that runs
  expired,    \* the deadline of ctx has passed
  st,         \* Docker: the state of each container
  batch,      \* the containers the scheduler asked for
  all,        \* containers listed and inspected
  fresh,      \* those of the batch, one per service
  order,      \* services the stop or start loop has left
  todo,       \* containers the current loop has left
  cur,        \* the container being stopped
  waits,      \* dependencies waitForDeps has left, with their conditions
  wasStopped, stopFailed, started,
  taken,      \* stopped by buoy, and not asked to start in a live context since
  ignored,    \* Runner.ignoredIDs
  failed,     \* keys of backupErrors
  issues,     \* allIssues is not empty
  saved,      \* containers with a snapshot of each mount that holds anything
  posted,     \* containers whose post-hooks ran
  forgotten,  \* containers retention was applied to
  notified

stackVars  == <<batch, all, fresh>>
loopVars   == <<order, todo, cur, waits>>
stopVars   == <<wasStopped, stopFailed, started, taken, ignored>>
resultVars == <<failed, issues, saved, posted, forgotten, notified>>
vars == <<phase, expired, st, stackVars, loopVars, stopVars, resultVars>>

\* running without a health result, running with one, exited with or without code 0
Up == {"up", "healthy", "unhealthy"}
States == Up \cup {"exited", "failed"}

-----------------------------------------------------------------------------
(* Seeded faults.                                                          *)

\* batch containers that were not found in the stack are kept (Deduplicated)
KeepsMissing(F, B) == F = batch

\* services outside the dependency graph are not started (StartOrders)
GraphOnly == {StartOrder[all]}

\* the topological order is not reversed (StopOrders)
NotReversed(stop) ==
  {StartOrder[all] \o rest : rest \in SetToSeqs(stop \ Range(StartOrder[all]))}

\* it is (StartOrders)
ReversedStart ==
  {Reverse(StartOrder[all]) \o rest :
     rest \in SetToSeqs({ServiceOf[c] : c \in all} \ Range(StartOrder[all]))}

\* the container's events are no longer ignored once it is stopped
ReleaseEarly ==
  /\ phase = "waiting"
  /\ ~expired
  /\ wasStopped' = wasStopped \cup {cur}
  /\ ignored' = ignored \ {cur}
  /\ cur' = None
  /\ phase' = "stop"
  /\ UNCHANGED <<expired, st, stackVars, order, todo, waits, stopFailed, started,
                 taken, resultVars>>

\* only the labelled services are stopped (StopSvc)
RootsOnly == {ServiceOf[c] : c \in fresh \cap StopBefore} \ {NoService}

\* a backup error does not reach the notification (BackupFails)
FailSilently(c) ==
  /\ phase = "backup" /\ c \in todo
  /\ c \notin stopFailed \cup Repoless
  /\ failed' = failed \cup {ServiceOf[c]}
  /\ todo' = todo \ {c}
  /\ UNCHANGED <<phase, expired, st, stackVars, order, cur, waits, stopVars,
                 issues, saved, posted, forgotten, notified>>

\* post-hooks share the backup deadline (Hooked)
HookedInTime(c) == IF expired THEN {} ELSE {c}

\* a wait has no timeout of its own (GiveUp)
NeverGiveUp == expired

-----------------------------------------------------------------------------
(* The services to stop, and the orders (deps.go).                         *)

StopSvc == Cascade({ServiceOf[c] : c \in fresh \cap StopBefore} \ {NoService}, all)

\* The order of the graph, then the services it does not mention as the map
\* iteration yields them.
StopOrders(stop) ==
  {Reverse(StartOrder[all]) \o rest : rest \in SetToSeqs(stop \ Range(StartOrder[all]))}

StartOrders ==
  {StartOrder[all] \o rest :
     rest \in SetToSeqs({ServiceOf[c] : c \in all} \ Range(StartOrder[all]))}

\* c is of the first service in order that has containers left
InTurn(c) ==
  /\ c \in todo
  /\ \E i \in DOMAIN order :
       /\ order[i] = ServiceOf[c]
       /\ \A j \in 1 .. i - 1 : Of(order[j], todo) = {}

\* deduplicateByService: F keeps one container of each service of B
Deduplicated(F, B) ==
  /\ F \subseteq B
  /\ Of(NoService, B) \subseteq F
  /\ \A svc \in {ServiceOf[c] : c \in B} \ {NoService} : Cardinality(Of(svc, F)) = 1

-----------------------------------------------------------------------------
Init ==
  /\ phase = "discover"
  /\ expired = FALSE
  /\ st \in [Containers -> {"up", "healthy", "exited"}]
  /\ \A c \in Containers \ Checked : st[c] # "healthy"
  /\ batch \in (SUBSET Containers) \ {{}}
  /\ \A c \in batch : st[c] \in Up
  /\ all = {} /\ fresh = {}
  /\ order = <<>> /\ todo = {} /\ cur = None /\ waits = {}
  /\ wasStopped = {} /\ stopFailed = {} /\ started = {} /\ taken = {}
  /\ ignored = {}
  /\ failed = {} /\ issues = FALSE
  /\ saved = {} /\ posted = {} /\ forgotten = {}
  /\ notified = "none"

\* discoverStackContainers, deduplicateByService and resolveStackConfigs: a
\* container that cannot be inspected is left out, all are when the list fails.
Discover ==
  /\ phase = "discover"
  /\ \E lost \in Lost \cup {Containers} :
       /\ expired => lost = Containers
       /\ all' = Containers \ lost
  /\ fresh' \in {F \in SUBSET Containers : Deduplicated(F, batch \cap all')}
  /\ phase' = "prehooks"
  /\ UNCHANGED <<expired, st, batch, loopVars, stopVars, resultVars>>

\* runParallelPreHooks: a failed hook is only logged.  Then the stop order.
PreHooks ==
  /\ phase = "prehooks"
  /\ order' \in StopOrders(StopSvc)
  /\ todo' = {c \in all : ServiceOf[c] \in StopSvc}
  /\ phase' = "stop"
  /\ UNCHANGED <<expired, st, stackVars, cur, waits, stopVars, resultVars>>

-----------------------------------------------------------------------------
(* stopStackServices and stopContainer.                                    *)

\* With the deadline behind, no request reaches Docker.
CallStop(c) ==
  /\ phase = "stop"
  /\ InTurn(c)
  /\ cur' = c
  /\ ignored' = ignored \cup {c}
  /\ todo' = todo \ {c}
  /\ phase' = IF expired THEN "unsent" ELSE "stopping"
  /\ UNCHANGED <<expired, st, stackVars, order, waits, wasStopped, stopFailed,
                 started, taken, resultVars>>

\* Docker stops cur, if it runs, with whatever exit code.
Taken ==
  IF st[cur] \in Up
  THEN /\ \E s \in {"exited", "failed"} : st' = [st EXCEPT ![cur] = s]
       /\ taken' = taken \cup {cur}
  ELSE UNCHANGED <<st, taken>>

GiveUpStop ==
  /\ stopFailed' = stopFailed \cup {cur}
  /\ ignored' = ignored \ {cur}
  /\ cur' = None
  /\ phase' = "stop"
  /\ UNCHANGED <<expired, stackVars, order, todo, waits, wasStopped, started, resultVars>>

Stopped ==
  /\ phase = "stopping"
  /\ ~expired
  /\ Taken
  /\ phase' = "waiting"
  /\ UNCHANGED <<expired, stackVars, loopVars, wasStopped, stopFailed, started,
                 ignored, resultVars>>

\* Docker refuses, or the call ends with ctx while Docker goes on stopping cur.
StopFails ==
  /\ phase \in {"stopping", "unsent"}
  /\ \/ phase = "stopping" /\ expired /\ Taken
     \/ UNCHANGED <<st, taken>>
  /\ GiveUpStop

StopConfirmed ==
  /\ phase = "waiting"
  /\ ~expired
  /\ wasStopped' = wasStopped \cup {cur}
  /\ cur' = None
  /\ phase' = "stop"
  /\ UNCHANGED <<expired, st, stackVars, order, todo, waits, stopFailed, started,
                 taken, ignored, resultVars>>

\* ContainerWait fails; the restart uses the same ctx and may fail too.
WaitStopFails ==
  /\ phase = "waiting"
  /\ \/ ~expired /\ st' = [st EXCEPT ![cur] = "up"]
     \/ UNCHANGED st
  /\ taken' = IF expired THEN taken ELSE taken \ {cur}
  /\ GiveUpStop

StopsDone ==
  /\ phase = "stop"
  /\ \A c \in todo : ~InTurn(c)
  /\ todo' = fresh
  /\ phase' = "backup"
  /\ UNCHANGED <<expired, st, stackVars, order, cur, waits, stopVars, resultVars>>

-----------------------------------------------------------------------------
(* backupStackServices.                                                    *)

\* The container that could not be stopped is skipped.
Skip(c) ==
  /\ phase = "backup" /\ c \in todo
  /\ c \in stopFailed
  /\ failed' = failed \cup {ServiceOf[c]}
  /\ issues' = TRUE
  /\ todo' = todo \ {c}
  /\ UNCHANGED <<phase, expired, st, stackVars, order, cur, waits, stopVars,
                 saved, posted, forgotten, notified>>

\* backupMounts returns no error.  Without a repository it has nothing to do; for
\* a container without a mount to back up, or with empty sources only, it makes
\* no snapshot and only logs that.
BackupOk(c) ==
  /\ phase = "backup" /\ c \in todo
  /\ c \notin stopFailed
  /\ expired => c \in Repoless
  /\ saved' = saved \cup ({c} \ (Repoless \cup Bare))
  /\ todo' = todo \ {c}
  /\ UNCHANGED <<phase, expired, st, stackVars, order, cur, waits, stopVars,
                 failed, issues, posted, forgotten, notified>>

BackupFails(c) ==
  /\ phase = "backup" /\ c \in todo
  /\ c \notin stopFailed \cup Repoless
  /\ failed' = failed \cup {ServiceOf[c]}
  /\ issues' = TRUE
  /\ todo' = todo \ {c}
  /\ UNCHANGED <<phase, expired, st, stackVars, order, cur, waits, stopVars,
                 saved, posted, forgotten, notified>>

BackupsDone ==
  /\ phase = "backup" /\ todo = {}
  /\ order' \in StartOrders
  /\ phase' = "start"
  /\ UNCHANGED <<expired, st, stackVars, todo, cur, waits, stopVars, resultVars>>

-----------------------------------------------------------------------------
(* startStackServices: services in order, and for each first waitForDeps,  *)
(* then startContainer for those of its containers that were stopped.      *)

WaitsOf(svc) ==
  {w \in all \X Conditions : [on |-> ServiceOf[w[1]], cond |-> w[2]] \in DepsOf(svc, all)}

\* waitForCondition's check of the inspected container
Met(d, k) ==
  CASE k = "started"   -> st[d] \in Up
    [] k = "healthy"   -> st[d] = "healthy"
    [] k = "completed" -> st[d] = "exited"

\* A wait ends without its condition: the container is unhealthy, has no
\* health check or a bad exit code, Docker fails, or the time is over.
GiveUp == TRUE

NextService ==
  /\ phase = "start"
  /\ waits = {} /\ todo = {} /\ order # <<>>
  /\ waits' = WaitsOf(Head(order))
  /\ todo' = Of(Head(order), wasStopped)
  /\ order' = Tail(order)
  /\ UNCHANGED <<phase, expired, st, stackVars, cur, stopVars, resultVars>>

WaitMet(d, k) ==
  /\ phase = "start"
  /\ <<d, k>> \in waits
  /\ ~expired /\ Met(d, k)
  /\ waits' = waits \ {<<d, k>>}
  /\ UNCHANGED <<phase, expired, st, stackVars, order, todo, cur, stopVars, resultVars>>

\* The first error ends waitForDeps; the service is started all the same.
WaitFails ==
  /\ phase = "start"
  /\ waits # {}
  /\ GiveUp
  /\ waits' = {}
  /\ UNCHANGED <<phase, expired, st, stackVars, order, todo, cur, stopVars, resultVars>>

\* startContainer does not look at the deadline, and returns no error.
Start(c) ==
  /\ phase = "start"
  /\ waits = {} /\ c \in todo
  /\ \/ st' = [st EXCEPT ![c] = IF @ \in Up THEN @ ELSE "up"]
     \/ UNCHANGED st
  /\ taken' = taken \ {c}
  /\ started' = started \cup {c}
  /\ todo' = todo \ {c}
  /\ UNCHANGED <<phase, expired, stackVars, order, cur, waits, wasStopped,
                 stopFailed, ignored, resultVars>>

StartsDone ==
  /\ phase = "start"
  /\ waits = {} /\ todo = {} /\ order = <<>>
  /\ todo' = fresh
  /\ phase' = "post"
  /\ UNCHANGED <<expired, st, stackVars, order, cur, waits, stopVars, resultVars>>

-----------------------------------------------------------------------------
(* runPostHooksAndRetention, finalizeStackBackup, releaseBatch.            *)

\* Post-hooks are detached from the deadline.
Hooked(c) == {c}

\* applyRetention, with the deadline, unless backupErrors has c's service
Post(c) ==
  /\ phase = "post" /\ c \in todo
  /\ posted' = posted \cup Hooked(c)
  /\ \/ ServiceOf[c] \in failed /\ UNCHANGED <<forgotten, issues>>
     \/ /\ ServiceOf[c] \notin failed
        /\ expired => c \in Repoless
        /\ forgotten' = forgotten \cup ({c} \ Repoless)
        /\ UNCHANGED issues
     \/ /\ ServiceOf[c] \notin failed
        /\ c \notin Repoless
        /\ issues' = TRUE
        /\ UNCHANGED forgotten
  /\ todo' = todo \ {c}
  /\ UNCHANGED <<phase, expired, st, stackVars, order, cur, waits, stopVars,
                 failed, saved, notified>>

Finalize ==
  /\ phase = "post" /\ todo = {}
  /\ notified' = IF issues THEN "error" ELSE "info"
  /\ phase' = "release"
  /\ UNCHANGED <<expired, st, stackVars, loopVars, stopVars,
                 failed, issues, saved, posted, forgotten>>

ReleaseBatch ==
  /\ phase = "release"
  /\ ignored' = {}
  /\ phase' = "done"
  /\ UNCHANGED <<expired, st, stackVars, loopVars, wasStopped, stopFailed,
                 started, taken, resultVars>>

-----------------------------------------------------------------------------
(* The environment.                                                        *)

Expire ==
  /\ phase # "done"
  /\ ~expired /\ expired' = TRUE
  /\ UNCHANGED <<phase, st, stackVars, loopVars, stopVars, resultVars>>

\* A running container exits or reports its health.
Drift(c) ==
  /\ phase # "done"
  /\ st[c] \in Up
  /\ \E s \in {"exited", "failed"} \cup
               (IF c \in Checked THEN {"healthy", "unhealthy"} ELSE {}) :
       st' = [st EXCEPT ![c] = s]
  /\ UNCHANGED <<phase, expired, stackVars, loopVars, stopVars, resultVars>>

Run ==
  \/ Discover \/ PreHooks
  \/ Stopped \/ StopFails \/ StopConfirmed \/ WaitStopFails \/ StopsDone
  \/ BackupsDone \/ NextService \/ WaitFails \/ StartsDone
  \/ Finalize \/ ReleaseBatch
  \/ \E c \in Containers : CallStop(c) \/ Skip(c) \/ BackupOk(c) \/ BackupFails(c)
                             \/ Start(c) \/ Post(c)
  \/ \E d \in Containers, k \in Conditions : WaitMet(d, k)

Next == Run \/ Expire \/ \E c \in Flaky : Drift(c)

Spec == Init /\ [][Next]_vars

\* Every Docker call, wait, hook and restic command carries a timeout; the output
\* of a hook is read until Docker closes its stream, which it does when the hook
\* has ended (docker/client.go waits for that without a context).
FairSpec == Spec /\ WF_vars(Run)

-----------------------------------------------------------------------------
(* Properties.                                                             *)

TypeOK ==
  /\ phase \in {"discover", "prehooks", "stop", "stopping", "unsent", "waiting",
                "backup", "start", "post", "release", "done"}
  /\ expired \in BOOLEAN
  /\ st \in [Containers -> States]
  /\ batch \subseteq Containers /\ all \subseteq Containers
  /\ fresh \subseteq all
  /\ order \in Seq(Services \cup {NoService})
  /\ todo \subseteq all
  /\ cur \in all \cup {None}
  /\ waits \subseteq all \X Conditions
  /\ wasStopped \subseteq all /\ stopFailed \subseteq all /\ started \subseteq all
  /\ taken \subseteq all /\ ignored \subseteq all
  /\ failed \subseteq Services \cup {NoService}
  /\ issues \in BOOLEAN
  /\ saved \subseteq fresh /\ posted \subseteq fresh /\ forgotten \subseteq fresh
  /\ notified \in {"none", "info", "error"}

\* Before any post-hook runs, every container the batch stopped has been
\* started again, and no other: whatever failed, whether or not the deadline
\* passed, and for services outside the dependency graph too.
Restored ==
  phase \in {"post", "release", "done"} => started = wasStopped

\* README.md, "buoy restarts containers in dependency order": a container is
\* started after every stopped container its service depends on.
RestartOrdered ==
  [][\A c \in started' \ started : \A d \in wasStopped :
       Before(ServiceOf[d], ServiceOf[c], all) => d \in started]_vars

\* README.md, "the API also stops rather than crashing on a lost connection": a
\* container of the stop set is backed up only when it, the other replicas of
\* its service and all that transitively depend on it are down, except those
\* that could not be stopped.
ColdBackup ==
  [][\A c \in saved' \ saved : ServiceOf[c] \in StopSvc =>
       \A d \in all : ServiceOf[d] \in Cascade({ServiceOf[c]}, all)
                        => st[d] \notin Up \/ d \in stopFailed]_vars

\* When Docker is asked to stop a container, every discovered container that
\* depends on it is down or could not be stopped.
StopOrdered ==
  [][cur' \in Containers \ {cur} => \A d \in all :
       Before(ServiceOf[cur'], ServiceOf[d], all) => d \in wasStopped \cup stopFailed]_vars

\* The daemon ignores a container's events for as long as this run has it down,
\* so that it stays scheduled, and no longer than the run.
OwnEventsIgnored ==
  /\ phase # "done" => wasStopped \cup ({cur} \ {None}) \subseteq ignored
  /\ phase = "done" => ignored = {}

\* hooks.go: "post-hooks must run even when the budget is gone, since pre-hooks
\* may have left state behind that needs tearing down".
PostHooksRun == phase = "done" => posted = fresh

\* The containers of this run that stand for c: c, or one replica of its service
StandsFor(c) == IF ServiceOf[c] = NoService THEN fresh \cap {c} ELSE Of(ServiceOf[c], fresh)

\* Retention follows a backup of this run that stored whatever the container has
\* to store.  Success is only reported when each container of the batch that was
\* found, or the replica that stands for it, has its backup and retention or has no
\* repository; those that were not found are left out of the report.  An error is
\* only reported when a backup or a retention failed.
HonestReport ==
  /\ forgotten \subseteq saved \cup Bare
  /\ notified = "info" =>
       \A c \in batch \cap all : StandsFor(c) \cap (forgotten \cup Repoless) # {}
  /\ notified = "error" => failed # {} \/ forgotten # fresh \ Repoless

\* A run ends, so its project's queue moves on.
Terminates == <>(phase = "done")

\* lifecycle.go: "the container must be restarted even if the backup timed out,
\* otherwise it is left stopped".
NoneLeftStopped == phase = "done" => taken = {}
=============================================================================
