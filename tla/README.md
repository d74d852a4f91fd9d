# A TLA+ verification project for buoy

buoy is a daemon that backs up Docker containers with restic. It reads labels,
schedules containers with cron, groups the containers of a compose project into
batches, stops what has to be stopped, backs mounts up, starts everything again
and applies retention. An HTTP API triggers backups and operates on repositories.

This directory holds TLA+ modules of the parts of buoy where many goroutines,
Docker, deadlines and failures meet, the TLC configurations that model-check
them, and TLAPS proofs of every safety property that a run checks. Paths below are relative
to `src/`; `PROJECT.json` maps every definition to the lines it models.

## 1. The system

| Component | State | Operations | Interacts with |
| --- | --- | --- | --- |
| Scheduler `internal/scheduler/scheduler.go` | semaphore `sem`, one `stackQueue` (`pending`, `active`) per project, counters `active` and `wg` | run a schedule group, enqueue and drain a project's batches, trigger, maintenance, `Stop`, `Resync` | cron, runner, both registries |
| Container registry `internal/scheduler/registry.go` | groups of containers, one cron entry per group | `register`, `unregister`, lookups | scheduler, cron |
| Daemon main loop `cmd/buoy/run.go` | `ignoredIDs`, channels of events, ticks and signals | startup scan, event, resync, shutdown | everything |
| Stack backup `internal/backup/stack.go` | local to one run, plus `ignoredIDs` | one `RunStackBatch` | Docker, restic, repository registry, notifier |
| Dependency graph `internal/backup/deps.go` | none | topological sort, stop set | stack backup |
| Container lifecycle `internal/backup/lifecycle.go` | Docker's | stop, start, wait | Docker |
| Single backup `internal/backup/runner.go`, `mounts.go`, `retention.go`, `hooks.go` | `ignoredIDs`, repository entries | `Run`, mounts x repositories, hooks, `forget` | Docker, restic, repository registry |
| Check and prune `internal/backup/check.go`, `prune.go` | repository entries, restic locks | one maintenance job over all repositories | restic, repository registry |
| Repository registry `internal/registry/registry.go` | bbolt: repositories with their marks and orphan flag; the repositories of each container | `SyncContainer`, `MarkOrphaned`, marks, lists | scheduler, runner, API, metrics |
| Docker watcher `internal/docker/watcher.go` | buffered event channel, backoff | forward events, reconnect | Docker, main loop |
| API `internal/api` | none of its own | backups, `check`, `unlock`, `forget`, `prune`, lists | scheduler, repository registry, restic |
| Restic and Docker clients, labels, configuration, compose parser, notifications, telemetry, `buoyctl` | none that a property depends on | | |

### What is hard here

* **Interleaving.** Every cron invocation, API request and maintenance job is a
  goroutine. A project's queue hands the drainer's role from one to another under
  a lock that is not held during the batch. Counters and the semaphore are taken
  and returned in different goroutines.
* **Check, then act.** `Running()` guards destructive requests and chooses the
  shutdown path, and is stale once read. `Resync` and the event loop decide from
  Docker's state while a backup has containers stopped.
* **Deadlines.** A backup's context may expire between any two steps of a run that
  has half a stack stopped; some calls are detached from it and some are not.
* **Partial failure.** Docker refuses or loses a request, containers exit on their
  own, restic fails for one container of a batch.
* **Locks that outlive their holder.** A restic command that its deadline kills leaves its
  lock in the repository. A client that is gone must not keep the next one out.
* **Ordering.** Stop and start orders come from a depth-first search over labels
  that may contain cycles, self-references and unknown services.
* **Termination.** Maintenance takes the whole semaphore piece by piece; shutdown
  waits for cron and then for a wait group.

`PROJECT.json` lists these hazards one by one at their lines, with the properties
that cover them or the reason none does yet.

### What makes each component correct

* Scheduler: one drainer per project and no lost request; at most
  `daemon.concurrency` goroutines at work; maintenance excludes backups; `Running()`
  and the wait group tell the truth; every queued container is served; maintenance
  and shutdown end.
* API guard: a destructive request is admitted only in an idle daemon (and, as the
  documentation has it, stays alone, which the code does not ensure).
* Dependency graph: the order is complete, free of repetitions and puts
  dependencies first outside cycles; the stop set is the closure under dependents.
* Stack backup: what it stopped it starts, in order, whatever fails; cold
  containers are backed up while they and their dependents are down; it ignores its
  own events and nothing else's; no container that has anything to store loses snapshots
  without a new one; post-hooks always run; the report is honest about the containers found; a
  run ends.
* Discovery and repository registry: the schedule comes to be the running
  containers, whatever events are lost; the repositories of scheduled containers are
  active and those of removed ones orphaned, as far as the writes about them succeed.
* Single backup: a container that is to be backed up cold is, and runs again afterwards;
  the time of one repository is not spent on another; no snapshots are removed before every
  mount that holds something is stored in every repository; the marks in the registry and the message say what happened.
* Check and prune: a job that is cut off leaves no lock behind, meets no backup, and accounts
  for every repository it found. Every backup and every job ends.

## 2. The modules

| Module | What it is |
| --- | --- |
| `StackQueue` | Abstract specification: what a compose project is promised about its backup requests |
| `Scheduler` | The scheduler, container registry, API guard and shutdown; implements `StackQueue` |
| `MCScheduler` | Instances for TLC |
| `SchedulerProofs` | Inductive invariant; types, one drainer, no lost batch, exclusion, concurrency bound; `Scheduler` implements `StackQueue` |
| `SchedulerCounterProofs` | `active` and `wg` as counts of goroutines; `Running()`, the drained shutdown, the guard |
| `Deps`, `MCDeps` | `topologicalSort` and `stopSet`, one step per call and turn of a loop, over every small graph |
| `DepsProofs` | What both compute, that their steps descend, and that `StackBackup` may rely on it |
| `StackGraph` | Abstract specification of both for the containers of a project; `StackBackup` extends it |
| `StackBackup`, `MCStackBackup` | One `RunStackBatch` with Docker and the deadline |
| `Discovery`, `MCDiscovery` | Startup scan, event loop, `Resync`, the watcher and the repository registry, next to backups and crashes |
| `DiscoveryProofs` | Its types; scheduled containers keep their repositories active |
| `StackBackupProofs` | The types of `StackBackup`; restart, ignored events, hooks, retention and report; its steps descend |
| `StackOrderProofs` | The orders in which it stops and starts, and that cold backups are cold |
| `Repository` | What the users of repositories share: locks, entries and marks, contexts; no actions |
| `SingleBackup` | `Runner.Run`: two backups of a container that belongs to no project |
| `Maintenance` | The periodic check or prune of the known repositories |
| `RepositoryJobs`, `MCRepositoryJobs` | Backups, maintenance and a request of the API on the same repositories |
| `RepositoryJobsProofs` | Types; cold backups, the locks of maintenance, the account of a job; the clients' steps descend |
| `RepositoryResultProofs` | Budgets, retention, message and marks of a backup |

Each module of the code has a section *Seeded faults*: altered versions of
definitions, each a plausible bug. Nothing uses them. They are there so that every
property can be shown to fail when the code it is about is broken; the pairs are
under `mutants` in `PROJECT.json`.

### Scheduler

A step is one access to shared state: a critical section under `q.mu` or the
registry's lock, an atomic add, a channel operation, the read of `Running()`.
`pc[p]` says which access goroutine `p` makes next. The goroutines are

* `Jobs`: cron invocations of schedule groups (`runScheduleGroup`). `Fire` needs the
  group's cron entry to exist and to have no running invocation
  (`SkipIfStillRunning`). A job of a project walks `lookup`, `enqueue`, `count`,
  `join`, `acquire`, then alternates `drain` and `batch`, then `done`, `uncount`,
  `release`: the deferred calls run in reverse order. A job of plain containers
  counts, joins and acquires for each container and spawns a worker.
* `Workers`: the goroutines of plain containers; they hold a place that the job took.
* `Calls`: API backup requests, `TriggerBackup` and `TriggerProjectBackup`.
* `Maint`: maintenance jobs; `AcquireNext` takes one place of the semaphore at a
  time, as the loop of `scheduleMaintenance` does. Work that is cut off may go on to `unlock`,
  the detached `restic unlock` of `check.go` and `prune.go`, with every place still held.
* `Ops`: API requests past `rejectIfBusy` (`Admit`, `FinishOp`).
* `main`: the main goroutine, from `serving` over the two shutdown paths of `runCmd`
  to `exited`; `path` records which one.

| Variable | Code |
| --- | --- |
| `registered`, `current` | `containerRegistry.index` and the cron entries of its groups |
| `pending[P]`, `qactive[P]` | `stackQueue.pending` (as a set), `stackQueue.active` |
| `owner[s]` | the tokens in `Scheduler.sem`, with who sent them |
| `active`, `wg` | `Scheduler.active`, `Scheduler.wg` |
| `group`, `stack`, `work` | local variables of a goroutine: its group, project and batch |

A container is in one group for its life, as labels do not change; `Resync` and
Docker events are the actions `Register` and `Unregister` at any time.

### Deps

`graph` maps each service to the sequence of services its label names, and `call` is the
function that runs on it. Both are depth-first searches whose recursion is part of the state:

| Variable | Code |
| --- | --- |
| `todo` | the sorted services which the loop of `topologicalSort` has left |
| `path`, `left` | the calls of `visit` under way, outermost first, and what the loop of each has left |
| `temp`, `visited`, `result` | the variables of those names |
| `warned` | who the warning callback was called with |
| `batch`, `roots` | the labelled services of `stopSet`, those its loop has left |
| `stop`, `branches` | the stop set, and what the loop of each `addDependents` under way has left |

`VisitRoot`, `VisitDependency` and `Leave` are a call of `visit` from the outer loop, one from
the loop of another, and its return; `AddRoot`, `AddDependent` and `Return` the same for
`addDependents`, whose loops range over Go maps and so take any order. A recursive function would
be shorter, but nothing could be proved about it: what it computes takes an induction over data.
The searches as steps have an inductive invariant.

`StackGraph` says what the searches are to find for a set `D` of discovered containers, without
saying how: `IsStartOrder(s, D)` and `Cascade(S, D)`. `StackBackup` is written in those terms.

### StackBackup

`phase` is the part of `RunStackBatch` that runs, and the actions are its calls:
`Discover`, `PreHooks`, `CallStop` / `Stopped` / `StopFails` / `StopConfirmed` /
`WaitStopFails` for `stopContainer`, `Skip` / `BackupOk` / `BackupFails` for
`backupStackServices`, `NextService` / `WaitMet` / `WaitFails` / `Start` for
`startStackServices` and `waitForDeps`, `Post`, `Finalize`, `ReleaseBatch`. `Expire`
(the deadline) and `Drift` (a container exits or changes health) are the
environment, and may come between any two of them.

`st` is Docker's state of each container. `wasStopped`, `stopFailed`, `ignored`,
`failed` and `issues` are the variables of the code with those roles. `taken`,
`started`, `saved`, `posted` and `forgotten` only record what was done, for the
properties. `taken` is what buoy has stopped and not since asked Docker to start in
a context that was alive. A stop request that the deadline cuts may have reached Docker or not
(`StopFails`); one made after the deadline does not reach it (`unsent`).

The start order is a constant, `StartOrder`, of which `StartOrderAssumption` says only that it is
an `IsStartOrder` of the containers discovered; the stop set is their `Cascade`. `DepsProofs`
shows that `topologicalSort` and `stopSet` return just these (`StartOrderTheorem`,
`CascadeTheorem`), for every project. `MCStackBackup` takes some such order. Services outside the graph come in any order, as
Go's map iteration yields them.

What is abstracted: hooks, mounts and repositories of a container are one outcome
each. `Repoless` containers have no repository and so no backup and no error; `Bare` ones have
no mount that takes part and holds anything: the backup succeeds, no snapshot is made (`saved`
leaves them out), and retention follows all the same, as in the code. `fresh` is what of the
batch was found, one replica for each service; what discovery loses is in no report.
The result of `waitRunning` after a start is only logged and left out; a batch that
names one container twice is the set. The labels of a container without a service are not read,
as in the code.

External assumptions: nothing but the run starts a stopped container
(`docs/deployment.md` forbids a restart policy on containers buoy stops), and
Docker's report that a container is not running is true.

### Discovery

The main goroutine (`main`) is in the startup scan, in one of the two halves of
`Resync` (`loop`, with `listed` and what is left, `todo`), or serves its `select`. It
handles one container at a time (`item`), and the two writes of `AddContainer` and of
`RemoveContainer` are two steps each: `SyncRepos` then `Register`, `Drop` then `Mark`.
Between any two, backups go on, users change containers (`UserChange`) and the process
may be killed (`Crash`), which empties everything but Docker and the database.

| Variable | Code |
| --- | --- |
| `docker` | Docker's state of each container: up, down (or not created yet), removed |
| `events` | what Docker has sent over the stream and the loop has not taken |
| `registered`, `ignored` | `containerRegistry.index`, `ignoredIDs` |
| `linked`, `known`, `orphaned` | keys of `containerReposBucket`, keys of `reposBucket`, those with `Orphaned` set |
| `target`, `at` | a backup's container and the step it takes next |

`Emit` may lose any event and keeps the others in order; nothing is sent while the daemon
is down or scans. A backup is the steps of `Run` that Docker, the ignored ids or the
registry can see; one of a `Stacked` container runs also when the container is down, as
`RunStackBatch` does. A container that only the cascade of its stack stops is not
ignored here and is left to `StackBackup`. A container's labels, and so its repositories
(`ReposOf`), are fixed for its life. A listing that fails is one that did not take place.

A write to the registry may fail (`NotWritten`, and the second and third case of `SyncBackup`). `AddContainer`
and `RemoveContainer` then warn and go on: the container is registered, or dropped, and nothing
repeats the write. `unsaved` is the set of containers whose last write by the main goroutine
failed with no successful one since; no step depends on it. `ScheduledNotOrphaned` and
`OrphanDetected` except exactly these, since the code promises nothing for them, and so say that a
failed write harms no other container and that a successful one makes up for it. A crash
empties `unsaved`, as the schedule it is about is gone.

### Repository, SingleBackup, Maintenance and RepositoryJobs

A *client* runs restic commands, one after another: a backup of the container (`Runs`), the
maintenance job (`Job`), a request of the API (`Op`). `Repository` declares the variables they
share and the operators their actions are built from; `SingleBackup` and `Maintenance` extend
it, and `RepositoryJobs` composes the two and adds the request.

| Variable | Code |
| --- | --- |
| `late`, `cut` | contexts that are done: of the backup, window or request, and of its current repository |
| `target` | the repository a client is at |
| `present`, `held`, `stale` | restic's: initialised repositories, the lock of each process, locks of killed ones |
| `plan`, `entry`, `checked` | what `ResolveReposFor` gives; `reposBucket` with `LastBackupOK`, `LastCheckOK` |
| `at` | the step of `Run` that a backup takes next |
| `up`, `ignored` | Docker's state of the container, `Runner.ignoredIDs` |
| `stopped`, `failed`, `issues`, `spoiled` | the container was stopped, the repositories in `failures` of `backupMounts`, `applyRetention` returned issues, `!repoOK` |
| `queue`, `broken`, `skipped`, `closing` | the loop of `checkRepoEntries` / `pruneRepoEntries`, the failures it reports, the count in the last of them, less than 10s left |
| `opqueue`, `opstage` | the loop of `runRepoOp` or `handleReposStats` |

`tried`, `saved`, `forgotten`, `passed`, `unlocked`, `refused`, `crossed` and `adrift` only
record what happened, for the properties; `adrift` is that a stop took effect after its run had
given up on it, or that Docker refused the start.

The actions of a backup are the calls of `Run` in its order: `Skip` or `Begin` (with
`SyncContainer`), the steps of `stopContainer`, `NextRepo`, `RepoExists`, `InitRepo` and `Unlock`
for `ensureRepo`, `MountEmpty` / `MountFails` / `Save` and `SaveEnds` for `backupSingleMount`,
`RepoDone` with the mark, `Start`, `ForgetFails` / `Forget` and `ForgetEnds` for
`applyRetention`, `Notify`. Those of the job are `JobBegin` (the entries, or the containers
when there are none), `JobNext`, `JobEnds`, `JobUnlock` with the mark of a check, `JobGivesUp`
for the end of the window, `JobDone`. `Expire` and `JobExpires` let any of the contexts end
between any two steps. A command is two steps where its lock is held in between, and one where
nothing can tell: it starts only in a context that is not done, and ends by itself, on SIGTERM,
or by SIGKILL with its lock left behind (`gracefulKill`).

What is abstracted: pre- and post-hooks, which change nothing here (their order and deadline
are `StackBackup`'s); the order of repositories and mounts, on which no property depends; the
orphan flag and the filters of the lists, which are `Discovery`'s; the content of the report
beyond which repositories it names and the number it gives; a merged job, which is a prune and
then a check. Check and prune of one repository are one pair of actions with `kind`, since the
files differ in the command and in the mark.

External, from how `client.go` and its comments use restic: `unlock` and `init` take no lock;
every other command takes one, `cat config` for a moment and shared; `forget`, `prune` and
`check` are exclusive and exclude everybody; `unlock` removes exactly the locks whose process is
gone. A request of the API may come at any time, as its guard is read once.

## 3. The runs

| Run | Instance | Properties | Shows |
| --- | --- | --- | --- |
| `SchedulerQueue` | 2 services of one project in 2 groups, 2 jobs, 2 calls, 2 places; symmetry | `TypeOK`, `OneDrainer`, `NoLostBatch`, `ImplementsStackQueue` | The hand-over of the queue, between cron and the API, with the lock released during a batch |
| `SchedulerSemaphore` | a service, a plain container, 1 job, 1 worker, 1 call, 1 maintenance job, 1 API operation, 2 signals, 2 places; symmetry | `MaintenanceExclusive`, `ConcurrencyBounded`, `RunningAccurate`, `CronWorkDrained` | Who shares the semaphore, what `Running()` says, and what `Stop` waits for |
| `SchedulerLive` | 1 service, 1 job, 1 call, 1 maintenance job, 1 signal, 2 places; fair | `BatchServed`, `MaintenanceReturns`, `ShutdownCompletes` | If no detached unlock hangs: queued containers are served, maintenance ends, shutdown ends |
| `SchedulerTwoMaintenance` | 2 maintenance jobs, 2 places; fair | `MaintenanceReturns` **violated** | Finding 1 |
| `SchedulerGuardRace` | 1 job, 1 API operation, 1 place | `DestructiveExclusive` **violated** | Finding 2 |
| `DependencyOrder` | every graph over 4 services with labels of up to 2, and one label with a repetition; batches of 1 and 2 | `OrderComplete`, `DependenciesFirst`, `WarnsOfCycles`, `StopSetIsClosure`, `Descends` | Both searches against declarative definitions, and that each step brings them to their end |
| `StackBackup` | 2 replicas of a cold, health-checked database, one with nothing to store, an API that depends on them; fair | `TypeOK`, `Restored`, `OwnEventsIgnored`, `PostHooksRun`, `HonestReport`, `StopOrdered`, `RestartOrdered`, `ColdBackup`, `Terminates` | A whole run under every failure and every moment of the deadline |
| `StackLeftStopped` | the same | `NoneLeftStopped` **violated** | Finding 3 |
| `Discovery` | 2 containers with a repository each, one stopped for its backups, 1 backup at a time, 2 changes or crashes; fair | `TypeOK`, `ScheduledNotOrphaned`, `Converges`, `OrphanDetected` | The schedule and the registry recover from lost, late and ignored events, and from crashes; failed writes harm only their own container |
| `DiscoveryReplicas` | 2 containers with one repository, no backups | `ScheduledNotOrphaned` **violated** | Finding 4 |
| `DiscoveryDowntime` | as `Discovery`, no backups, 3 changes or crashes; fair | `RemovedOrphaned` **violated** | Finding 5 |
| `RepositoryJobs` | 2 repositories, one with a timeout of its own, 2 mounts, one empty, 8 scenarios; fair | `TypeOK`, `HotOnlyByOverlap`, `RestartedAfterAll`, `MarksTrue`, `NoStarvation`, `HonestReport`, `StaleLocksCleared`, `BackupsUnblocked`, `EveryRepoAccounted`, `JobsEnd` | Backups, maintenance and requests meet in a repository, with commands killed at any step |

Each property is stated in words above its definition.

**Bounds.** Two places are the fewest with which concurrency and a partly taken semaphore differ; two
jobs and two calls are the fewest with which a request finds a busy queue, arrives
while the drainer leaves, and becomes the next drainer. `Signals` bounds the signals
to the two `runCmd` distinguishes. Invocations, calls and operations return to their
initial state and start again, so the runs cover any number of them over time; only
how many coexist is bounded. In `Deps`, `Labels` bounds a label to two services,
and four services are enough for a cycle with a service before it, one after it and
a diamond; `Batches` has one batch with one service and one with two, as every graph over the
four is there under every renaming of the services. In `StackBackup`, `Flaky` restricts what changes on its own to one
database replica and `Lost` the containers that cannot be inspected; `Lost` always
includes the failure of the whole list. Two replicas are needed for deduplication and
for a service of which one container stops and the other does not; the API is the
dependent, stopped because of the cascade and, being `Repoless`, also the case
without a repository.
In `Discovery`, `MaxChanges` bounds what users do plus the crashes; two are enough for a
container that stops and is removed with both events lost, one that stops and starts while
`Resync` looks, and a change around a crash. Backups are not bounded: each stop and start is
a change that does not count. `MaxEvents` lets a backup begin only when at most one event
waits, which bounds the channel, whose buffer of 64 is never full. `MaxUnsaved` is one: at any
time the last write about at most one of the two containers has failed, and any number of writes
fail one after another. `BadSchedule`
is empty in the runs.
In `RepositoryJobs` the scenarios bound who acts together. A backup alone has both repositories and
both mounts, so that a failure in one is followed by success in another, in either order, and one
repository runs out of its own time while the other has only the backup's. Clients meet in pairs, in one
repository, as a lock conflicts in one repository and between two: two backups (the schedule and
the API), a backup and a request, a backup and the job, the job and a request. The job alone goes
through two repositories, enough to leave one uncounted or count one twice when the window ends.
A client acts once; what an earlier one leaves behind, a lock or a mark, is met by the other.

**Deadlock** is checked in `SchedulerQueue`, in the runs of `Discovery`, and in the two violation runs of the
scheduler. Elsewhere the system may stop: the daemon has exited, the run or every client is done, or the graph is sorted.

**Fairness.** `Scheduler`'s: a goroutine that can go on does (weak fairness per step),
because Go schedules it and every backup and maintenance context carries a timeout;
senders blocked on a channel are served in order, so one whose send is possible again
and again succeeds (strong fairness of the acquire steps); `wg.Wait` returns when the
counter is seen at zero again and again (strong fairness of `WgZero`). Signals, cron ticks, API requests and registrations are
not fair. `daemon.maintenance_timeout: 0` would take the timeout away from
maintenance, and its fairness with it.
The unlock after a failed check or prune is the exception: `check.go:138` and `prune.go:134` detach
it from every context, so nothing in the code makes it return. `UnlockReturns` has no fairness,
and the work of a maintenance job, which may enter the unlock for one repository after another, is
strongly fair only in that it ends if it is out of the unlock again and again. `BatchServed`,
`MaintenanceReturns` and `ShutdownCompletes` hold under the premise `UnlocksReturn`, that no job
stays in its unlock for ever. If one does, it keeps every place, cron's goroutine and the wait
group: backups, maintenance and a shutdown with one signal all wait for it.
Two properties assume `QueuesQuiet`, that requests to projects' queues cease, and
`BatchServed` assumes it of the other projects: a drainer holds its place across
batches, so a project requested faster than it is backed up does keep the others
waiting. `SchedulerLive` has one project, where that premise is empty; with two its state space is
beyond the bound on a run, so the run says nothing of one project against another.
`StackBackup` asks for weak fairness of the run's steps as a whole: every Docker call,
wait and restic command carries a timeout, so each returns in some way. A hook does, too, but for one
wait: when Docker reports that an exec has ended and its output stream does not close,
`internal/docker/client.go:176` waits for the stream without looking at the context. The fairness
takes Docker to close the stream of a process that has ended. Nothing
forces a wait to be met, the deadline to pass or a container to change.
`Discovery` asks for weak fairness of the main goroutine within a case and of each backup,
and strong fairness of `Tick` and `TakeEvent`, since `select` picks at random among
its ready cases. That a tick comes again and again needs `daemon.resync_interval > 0` (the
default is `5m`); with `0`, `Converges` and `OrphanDetected` would not hold, as lost events are
never made up for. `StartDaemon` is fair because a supervisor restarts the daemon. Changes by
users, crashes and the beginning of backups are not fair, and `Converges` assumes that
backups cease; it is the changes' bound that lets users cease.
`RepositoryJobs` asks for weak fairness of each backup and of the job's steps within its window:
every Docker call and every restic command ends with its context, by SIGKILL at the latest. The
job's part of it needs a `daemon.maintenance_timeout`. The unlock after a failed check or prune
is detached from every context, so its step is not fair, and `JobsEnd` promises of a job only
that it ends or is at this unlock. Deadlines, requests and the beginning of anything are not fair.

## 4. The proofs

All proofs are checked by TLAPS with SMT, Zenon and LS4, for any number of places, containers,
projects, goroutines and operations. The scheduler's assumptions are the named `ASSUME`s of `Scheduler`: the
semaphore has finitely many and at least one place, the process sets are
finite and disjoint, groups and projects are consistent, at most two signals.

**`SchedulerProofs`.** No safety property is inductive by itself: that two goroutines
do not drain one queue depends on `qactive` being true exactly while someone drains,
and that on which goroutine may be at which `pc`. The invariant is
`IInv == TypeOK /\ Roles /\ QueueInv /\ SemInv`:

* `Roles`: which kind of goroutine can be at which `pc`, with which project and group;
* `QueueInv`: a queue is active if and only if it has a drainer, it has one at most,
  and an inactive queue is empty;
* `SemInv`: who holds places of the semaphore at which `pc`, and that a maintenance job that runs
  holds all of them.

There is one lemma per conjunct (`TypeStep`, `RolesStep`, `QueueStep`, `SemStep`) with a
step per action, and `Invariance` puts them together. `TypeCorrect`,
`OneDrainerTheorem`, `NoLostBatchTheorem` and `MaintenanceExclusiveTheorem` follow. `ConcurrencyTheorem`
adds that the map from working goroutines to a place they hold is injective.

**`SchedulerCounterProofs`.** `CInv` adds to `IInv` that `active` is the number of
goroutines between their `active.Add(1)` and `active.Add(-1)`, `wg` likewise, and that
once shutdown has seen cron and the wait group finished nothing that cron
started is under way. Each action adds one goroutine to the set counted, removes one, swaps two or
leaves it, which is where `CardinalityFacts` and `SwapCardinality` are used.
`RunningAccurateTheorem` and `CronWorkDrainedTheorem` follow.

**The refinement** (`StackQueueTheorem` in `SchedulerProofs`). Under the mapping `waiting <- pending`, `running <-` the
union of the batches being run, `Enqueue` is a `Request`, `Drain` with something
pending is a `Start`, `FinishWork` of a batch is a `Finish`, and every other step leaves the mapped
variables alone. `Start` needs that nobody else runs a batch of the project, which is `IInv`.

**`DiscoveryProofs`.** `RepoInv` says of the containers on schedule and of the one that is about
to be (`Entered`) that each is unsaved or `Recorded`: its repositories are known, and not orphaned if no other
container resolves to one of them (`Unshared`). It needs `MainInv`: the container whose
repositories are being marked is off the schedule by then. `TypeCorrect` and `ScheduledRecorded` follow, for any
containers and repositories, shared or not, any backups, any number of changes, crashes and failed writes, and any
channel. `ScheduledNotOrphanedTheorem` is the case that the run `Discovery` has an instance of: it assumes
`ReposDisjoint`, that no two containers share a repository; finding 4 is what happens without it.

**`DepsProofs`.** For every graph, with any number of services and any cycles. `IInv` is the
conjunction of `Typed` and

* `CallInv`: only one of the searches runs;
* `ListInv`: `temp` is the path and `visited` the result, each without repetitions and apart, and each
  service of the path depends on the one after it (`Chain`);
* `CoverInv`: a service that a label names is in `todo`, on the path or in the result, and so is
  each dependency that the loop of a visit has left behind;
* `OrderInv`: a dependency comes before its dependent in the result, or reaches it;
* `WarnInv`: who is warned of is on a cycle, and without a warning the first half of `OrderInv`
  holds alone, and so it does along the path;
* `StopInv`: the stop set is within every set that the closure is the least of, and each
  dependent of its services is in it or in a loop under way.

The step that matters is `Leave`: a dependency that is then on the path, not in the result, is where
the path came from (`PathReaches`), hence on a cycle with the service that is listed before it.
`OrderCompleteTheorem`, `DependenciesFirstTheorem`, `WarnsOfCyclesTheorem` and `StopSetTheorem` follow. For
the third, the services listed before any one are closed under dependencies when no warning was
given, so none of them reaches a later one. Reachability is stated by the sets that are closed under
dependencies (`Closure`), so that no proof has to construct a path.
`DescendsTheorem`: each step turns to a new service, or takes one from the outer loop, or shortens
what the inner loops and calls have left; with finitely many services no cycle keeps a search going.
`StartOrderTheorem` and `CascadeTheorem` join `Deps` to `StackGraph`: for the labels of the discovered
containers (`LabelsOf`), the sorted result is an `IsStartOrder` and the stop set a `Cascade`. The
assumption that the proofs of `StackBackup` make about its order is thus proved of the code's search.

**`StackBackupProofs`.** Everything follows from `ContainersAssumption`, `RunAssumption` and
`StartOrderAssumption`, for
any stack and any order they allow. The invariant is
`Inv == Types /\ StopInv /\ Standing /\ Saving /\ Retaining`:
`PhaseInv`, in `Types`, says in which phases the loops' variables are empty; `Stopping`, that
the container being stopped, those that were and those left are apart and ignored; `Starting`,
that each stopped container is started, at hand, or of a service still in the order, for which
`OrdersAreSeqs` shows that every order holds every service; `Standing`, that each container of the
batch that was found is in the run or a replica of its service is; `Saving`, that a container which the
backup loop has passed has a snapshot, needs none, or has its service among the failed, and that
a failed service is an issue; `Retaining`, that the last loop has run the hooks of exactly the
containers it has passed. `RestoredTheorem`, `OwnEventsTheorem`,
`PostHooksTheorem` and `HonestReportTheorem` follow; the last includes that no container outside
`Bare` loses snapshots without a new one, and rests on `OneIsSome`, that deduplication leaves someone for each service.
`RunDescends` says that every step of `RunStackBatch`
is one further in its parts and loops, and that the environment takes none back.

**`StackOrderProofs`.** Two lemmas carry the assumption on the graph's order over to the orders of the
loops: `StartOrdersSorted`, that a dependency comes before its dependents whatever follows the graph's
order, and `StopOrdersSorted`, the reverse, with nothing of the stop set left out. `OrderInv` adds to `Inv`:
`InStartOrder`, that no service still to come is a dependency of one at hand or of one after it;
`InStopOrder`, that every container of the stop set is before the loop, in its hands or behind it; `Down`, that
what was stopped is down until the start loop. That the stop loop ends only when it has no
container left needs a first place among those left (`FirstPlace`, from the well-foundedness of
finite sets under inclusion), and that dependents of the stop set are in it is `StopSvcClosed`.
`RestartOrderTheorem`, `StopOrderTheorem` and `ColdBackupTheorem` follow.

**`RepositoryJobsProofs`.** For any repositories, mounts, backups and scenarios. `Types` adds to
`TypeOK` that whoever is at work on a repository has one, and a lock where it holds one. On it rest three
invariants. `LocksInv`: a lock of the job is stale only where its unlock failed or comes next, and the
job holds a lock only while it runs; hence `StaleLocksClearedTheorem` and `BackupsUnblockedTheorem`. `DockerInv`: a backup that is under way
without having met another, past its stop, is the one that has the container down and ignored; hence
`HotOnlyByOverlapTheorem` and `RestartedTheorem`. `AccountInv`: found, left, passed and broken repositories partition what was
listed at every step, so that the count at the end is right; hence `EveryRepoAccountedTheorem`, with
the theorems on cardinalities. `ClientsDescend` says of each backup, of the job and of the request that
each of its own steps is one further in its loops over repositories and mounts (`RunDescent`, `JobDescent`,
`OpDescent`), and that no other client, deadline or cancellation takes it back.

**`RepositoryResultProofs`.** `RunInv(r)` says of one backup what it has tried, stored and failed
at each step: nothing before its loop (`BeforeInv`), in the loop all mounts of a repository but those
left, unless it is on record as failed (`SavingInv`), and after it that retention implies that
nothing failed (`AfterInv`). Other clients leave it alone, which is the lemma for each of them.
`HonestReportTheorem` and `NoStarvationTheorem` follow. `MarksInv` adds that for each mark there is a
backup that vouches for it, and keeps vouching as it never takes back what it stored or failed: `MarksTrueTheorem`.

**Only model-checked.** Liveness (`BatchServed`, `MaintenanceReturns`,
`ShutdownCompletes`, `Terminates`, `Converges`, `OrphanDetected`, `JobsEnd`): temporal proofs from fairness, and
the `ENABLED` they rest on, are out of the prover's reach. Of the properties about an end, `RunDescends` and
`ClientsDescend` prove the half that can be: that no run of steps goes round in a circle. The other half,
that a step comes as long as the end has not, is what `Terminates` and `JobsEnd` check
on their instances. That a descent cannot go on for ever is itself an
induction and is left to the reader.

## 5. Findings

1. **Two maintenance jobs can block each other and all backups** (run
   `SchedulerTwoMaintenance`). Each takes the places of the semaphore one by one; if two fire
   together, as check and prune do when their schedules are written differently but
   coincide, each may hold a part. Their timeout starts only after the last
   place is taken, while `docs/configuration.md` says that both are bounded by
   `daemon.maintenance_timeout`.
2. **The busy guard does not keep backups out** (run `SchedulerGuardRace`). It is read once, before
   the request's restic commands; a backup that starts afterwards runs next to
   `unlock`, `forget` or `prune`, which `docs/cli.md` says is prevented.
3. **A container can be left stopped** (run `StackLeftStopped`). When the deadline passes
   while `stopContainer` waits, the restart uses the expired context; when it cuts the
   stop request, there is no restart. The container is in `stopFailed` and so not
   started with the others. `lifecycle.go` says that a container must be restarted
   even if the backup timed out.
4. **A repository in use is orphaned** (run `DiscoveryReplicas`). The path of a repository
   names project and service, so replicas share it, and so do the old and the new container when
   compose recreates one. `MarkOrphaned` does not look for other containers of the
   repository. Until the other container is synced again, by its next backup, check,
   prune and the default listings leave the repository out.
5. **Removals around a restart are forgotten** (run `DiscoveryDowntime`). Only containers of the
   in-memory schedule are ever orphaned, and a restarted daemon schedules the running
   ones, so the repositories of a container removed meanwhile stay active for ever.
   `docs/configuration.md` says that the database tracks whether the container still exists.

### Seen while modelling, without a run

Observations that need no model, or that a property above already allows for:

* A schedule and a request of the API may back up the same plain container at once
  (`internal/scheduler/scheduler.go:387`): the first to end starts it while the other reads its mounts,
  and lets go of its id. `HotOnlyByOverlap` says that this is the only way.
* The unlock after a failed check or prune has no deadline (`internal/backup/check.go:138`), while
  the job holds every place of the semaphore, cron's goroutine and the wait group.
  `docs/configuration.md:131` says that check and prune are "bounded by `daemon.maintenance_timeout`"; a
  repository that does not answer its `restic unlock` contradicts it. `UnlocksReturn`, the premise of
  the liveness properties of `Scheduler`, and the exception in `JobsEnd` stand for this.
* When the registry cannot be written, `AddContainer` and `RemoveContainer` only warn
  (`internal/scheduler/scheduler.go:116` and `:132`) and the write is not repeated: the repositories of a scheduled
  container are then unlisted or orphaned until its next backup, those of a removed one active for ever.
* A container of a batch that discovery cannot list or inspect (`internal/backup/stack.go:48` and `:95`) is
  dropped with a warning, and the run still reports success.
* Retention follows the backup of a container for which no snapshot was made, as it has no mount that
  takes part or only empty ones (`internal/backup/mounts.go:90` and `:166`).
* `ExecInContainer` waits for the output of an exec that has ended without its context
  (`internal/docker/client.go:176`), so a hook is not strictly bounded by `exec_timeout`.
* `internal/config/flags.go:21` and `docs/configuration.md` offer `0` to disable a timeout, and
  `scheduler.go` (296, 357, 396) passes `backup_timeout` to `context.WithTimeout` unconditionally,
  so that `0` ends every backup at once.
* When `Run` cannot stop the container it ends without post-hooks and without a notification
  (`internal/backup/runner.go:132`), unlike a stack backup.
* A failed backup overwrites the mark of the last success, so that
  `LastSuccessTimestamps` (`internal/registry/registry.go:365`) drops the container, where
  `docs/otel.md` announces the time of its last successful backup.
* A backup without mounts to back up marks its repositories as backed up.
* `forget` has only the deadline of the backup, not the timeout of its repository.
* `ensureRepo` asks whether a repository exists (`mounts.go:101`) before it unlocks it (`:123`). Restic's
  `cat config` takes a shared lock, so that with a stale exclusive lock it fails and the unlock is not reached.

## 6. Not modelled

Parsing (labels, compose files, configuration, restic's output), notifications and telemetry
as such, the clients' transport and `buoyctl`: they keep no state that a
property of the daemon depends on. Panics in a backup are not modelled; the hazard list says
what one would do to a queue. Values of settings are not modelled either: deadlines come at any
time or not at all.

## 7. What is left

The modules were written in the order of what everything else runs under: the scheduler, the
graph, the stack backup, discovery, then the users of repositories. What could follow:

1. `Discovery` in full: stacks whose dependents are stopped by the cascade, so that their
   events are not ignored, and replicas next to backups.
2. `Scheduler` composed with an abstract stack backup, if the state space allows: batches of
   two projects over the states of Docker.
3. The merged maintenance job as a prune and a check that share a window, and the move of a container
   between schedule groups.
