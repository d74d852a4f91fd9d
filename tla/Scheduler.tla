------------------------------ MODULE Scheduler ------------------------------
(***************************************************************************)
(* internal/scheduler: the goroutines that back containers up and the      *)
(* state they share - the semaphore that bounds concurrency, the queue of  *)
(* each compose project, the counters behind Running() and Stop(), and the *)
(* cron entries of the schedule groups - together with the parts of the    *)
(* daemon that race with them: API triggers, API repository operations and *)
(* the shutdown sequence of cmd/buoy/run.go.                               *)
(*                                                                         *)
(* A step is one access to shared state.  What a backup does to containers *)
(* and repositories is out of this module: a batch or a run takes a while  *)
(* and ends (its context carries backupTimeout).  Of a maintenance job the *)
(* steps that no deadline bounds are kept apart: the unlock of a           *)
(* repository whose check or prune failed.                                 *)
(***************************************************************************)
EXTENDS Integers, FiniteSets

CONSTANTS
  Slots,        \* places of the semaphore: cap(s.sem), daemon.concurrency
  Containers,   \* containers the daemon may schedule
  Projects,     \* compose projects
  ProjectOf,    \* Containers -> Projects \cup {Standalone}
  Standalone,   \* the empty ComposeProject of a plain container
  Groups,       \* schedule groups, one cron entry each
  GroupOf,      \* Containers -> Groups: "project::schedule"
  Jobs,         \* cron invocations of schedule groups that may coexist
  Calls,        \* API backup requests in flight
  Workers,      \* goroutines runScheduleGroup starts for plain containers
  Maint,        \* maintenance jobs (check, prune or both merged)
  Ops,          \* API unlock / forget / prune requests in flight
  Signals,      \* how many shutdown signals may arrive: 0, 1 or 2
  None

Procs == Jobs \cup Calls \cup Workers \cup Maint

ASSUME SlotsAssumption == Slots # {} /\ IsFiniteSet(Slots)

ASSUME ProcsAssumption ==
  /\ IsFiniteSet(Procs)
  /\ None \notin Procs
  /\ Jobs \cap Calls = {} /\ Jobs \cap Workers = {} /\ Jobs \cap Maint = {}
  /\ Calls \cap Workers = {} /\ Calls \cap Maint = {}
  /\ Workers \cap Maint = {}

ASSUME GroupsAssumption ==
  /\ ProjectOf \in [Containers -> Projects \cup {Standalone}]
  /\ Standalone \notin Projects
  /\ GroupOf \in [Containers -> Groups]
  /\ None \notin Groups
  /\ \A c, d \in Containers :
        GroupOf[c] = GroupOf[d] => ProjectOf[c] = ProjectOf[d]

ASSUME SignalsAssumption == Signals \in 0 .. 2

VARIABLES
  registered,  \* containers in containerRegistry.index
  current,     \* current[g]: the invocation SkipIfStillRunning sees on g's entry
  group,       \* group[j]: the schedule group invocation j runs
  pc,          \* pc[p]: the next access of p to shared state
  stack,       \* stack[p]: the project p works for
  work,        \* work[p]: the batch p runs, or the containers it has left
  pending,     \* stackQueue.pending, as the set of containers asked for
  qactive,     \* stackQueue.active
  owner,       \* owner[s]: who sent the token that fills place s of s.sem
  active,      \* Scheduler.active
  wg,          \* Scheduler.wg
  ops,         \* API repository operations past the busy guard
  main,        \* where the daemon's main goroutine is
  path         \* shutdown path taken: none, idle, busy or forced

registryVars == <<registered, current>>
taskVars     == <<group, stack, work>>
queueVars    == <<pending, qactive>>
countVars    == <<active, wg>>
daemonVars   == <<ops, main, path>>
vars == <<registryVars, taskVars, queueVars, countVars, daemonVars, pc, owner>>

-----------------------------------------------------------------------------
(* Seeded faults.  Each stands in for the definition of the same shape     *)
(* below when the properties' sensitivity is tested, and is used nowhere   *)
(* else.                                                                   *)

\* the group key is passed on where the project is expected (GroupProject)
GroupKey(g) == g

\* q.active is not looked at (Busy)
NeverBusy(P) == FALSE

\* a full semaphore is not waited for (Free)
AnyPlace(s) == TRUE

\* one place is taken instead of cap(s.sem), or one more than there are (HasAll)
HasOne(m, s) == TRUE
OneMore(m, s) == FALSE

\* Running() is off by one (Running)
RunningTwo == active > 1

\* cron is not stopped (CronOn)
NeverOff == TRUE

\* the drainer leaves after one batch (AfterWork)
AfterWorkOnce(p) == IF p \in Workers THEN "uncount" ELSE "done"

\* q.active is left set when the loop ends (Drain)
DrainStaysActive(p) ==
  LET P == stack[p] IN
  /\ pc[p] = "drain"
  /\ pending' = [pending EXCEPT ![P] = {}]
  /\ work' = [work EXCEPT ![p] = pending[P]]
  /\ pc' = [pc EXCEPT ![p] = IF pending[P] = {} THEN "done" ELSE "batch"]
  /\ UNCHANGED <<registryVars, group, stack, qactive, countVars, daemonVars, owner>>

-----------------------------------------------------------------------------
Members(g) == {c \in registered : GroupOf[c] = g}

InProject(P) == {c \in registered : ProjectOf[c] = P}

\* The project of a schedule group, closed over by its cron function
GroupProject(g) == ProjectOf[CHOOSE c \in Containers : GroupOf[c] = g]

\* stackQueue.active, read under q.mu
Busy(P) == qactive[P]

\* pcs at which p is the goroutine that drains the queue of stack[p]
DrainPcs == {"count", "join", "acquire", "drain", "batch"}

Drainers(P) == {p \in Procs : stack[p] = P /\ pc[p] \in DrainPcs}

\* pcs at which containers or repositories are being worked on
Working(p) == pc[p] \in {"batch", "run", "unlock"}

BackupRunning == \E p \in Procs \ Maint : Working(p)

Held(p) == {s \in Slots : owner[s] = p}

\* A send on s.sem that does not block
Free(s) == owner[s] = None

\* The loops over cap(s.sem) of a maintenance job: s is the last to take
HasAll(m, s) == Held(m) \cup {s} = Slots

\* ... and s is the last to give back
LastHeld(p, s) == Held(p) = {s}

\* Scheduler.Running
Running == active > 0

\* Until cron.Stop
CronOn == main \in {"serving", "closing", "stop"}

\* Only the idle path shuts the API server down.
ApiUp == path # "idle" \/ main = "closing"

\* Plain containers run on their own, services through their project's queue.
EntryPoint(P) == IF P = Standalone THEN "count" ELSE "enqueue"

\* Where a goroutine goes when its work is over
Returned(p) == IF p \in Jobs THEN "return" ELSE "idle"

\* Where a goroutine goes when a batch, a run or a maintenance job is over
AfterWork(p) ==
  IF pc[p] = "batch" THEN "drain" ELSE IF p \in Workers THEN "uncount" ELSE "done"

Init ==
  /\ registered \in SUBSET Containers
  /\ current = [g \in Groups |-> None]
  /\ group = [j \in Jobs |-> None]
  /\ pc = [p \in Procs |-> "idle"]
  /\ stack = [p \in Procs |-> Standalone]
  /\ work = [p \in Procs |-> {}]
  /\ pending = [P \in Projects |-> {}]
  /\ qactive = [P \in Projects |-> FALSE]
  /\ owner = [s \in Slots |-> None]
  /\ active = 0
  /\ wg = 0
  /\ ops = {}
  /\ main = "serving"
  /\ path = "none"

-----------------------------------------------------------------------------
(* The schedule groups (registry.go).                                      *)

\* AddContainer, from the main goroutine
Register(c) ==
  /\ main = "serving"
  /\ c \notin registered
  /\ registered' = registered \cup {c}
  /\ UNCHANGED <<current, taskVars, queueVars, countVars, daemonVars, pc, owner>>

\* RemoveContainer: the last member takes the cron entry with it, and a later
\* entry for the same group starts with a fresh SkipIfStillRunning token.
Unregister(c) ==
  /\ main = "serving"
  /\ c \in registered
  /\ registered' = registered \ {c}
  /\ current' = IF Members(GroupOf[c]) = {c}
                THEN [current EXCEPT ![GroupOf[c]] = None]
                ELSE current
  /\ UNCHANGED <<taskVars, queueVars, countVars, daemonVars, pc, owner>>

-----------------------------------------------------------------------------
(* Cron invocations and API calls.                                         *)

\* The cron entry of g fires, unless its previous invocation still runs.
Fire(j, g) ==
  /\ CronOn
  /\ pc[j] = "idle"
  /\ Members(g) # {}
  /\ current[g] = None
  /\ current' = [current EXCEPT ![g] = j]
  /\ group' = [group EXCEPT ![j] = g]
  /\ pc' = [pc EXCEPT ![j] = "lookup"]
  /\ UNCHANGED <<registered, stack, work, queueVars, countVars, daemonVars, owner>>

\* runScheduleGroup: copy the group; it may have emptied since the entry fired.
Lookup(j) ==
  /\ pc[j] = "lookup"
  /\ work' = [work EXCEPT ![j] = Members(group[j])]
  /\ stack' = [stack EXCEPT ![j] = GroupProject(group[j])]
  /\ pc' = [pc EXCEPT ![j] = IF Members(group[j]) = {} THEN "return"
                             ELSE EntryPoint(GroupProject(group[j]))]
  /\ UNCHANGED <<registryVars, group, queueVars, countVars, daemonVars, owner>>

\* The invocation returns and gives SkipIfStillRunning its token back.
JobReturn(j) ==
  /\ pc[j] = "return"
  /\ pc' = [pc EXCEPT ![j] = "idle"]
  /\ group' = [group EXCEPT ![j] = None]
  /\ current' = [g \in Groups |-> IF current[g] = j THEN None ELSE current[g]]
  /\ UNCHANGED <<registered, stack, work, queueVars, countVars, daemonVars, owner>>

\* TriggerBackup of a registered container
Trigger(k, c) ==
  /\ main # "exited" /\ ApiUp
  /\ pc[k] = "idle"
  /\ c \in registered
  /\ stack' = [stack EXCEPT ![k] = ProjectOf[c]]
  /\ work' = [work EXCEPT ![k] = {c}]
  /\ pc' = [pc EXCEPT ![k] = EntryPoint(ProjectOf[c])]
  /\ UNCHANGED <<registryVars, group, queueVars, countVars, daemonVars, owner>>

\* TriggerProjectBackup of all the services of P, or of some
TriggerProject(k, P) ==
  /\ main # "exited" /\ ApiUp
  /\ pc[k] = "idle"
  /\ \E B \in SUBSET InProject(P) :
       /\ B # {}
       /\ work' = [work EXCEPT ![k] = B]
  /\ stack' = [stack EXCEPT ![k] = P]
  /\ pc' = [pc EXCEPT ![k] = "enqueue"]
  /\ UNCHANGED <<registryVars, group, queueVars, countVars, daemonVars, owner>>

-----------------------------------------------------------------------------
(* enqueueBatch and the run of a plain container.                          *)

\* Under q.mu: append, and become the drainer unless there is one.
Enqueue(p) ==
  /\ pc[p] = "enqueue"
  /\ pending' = [pending EXCEPT ![stack[p]] = @ \cup work[p]]
  /\ work' = [work EXCEPT ![p] = {}]
  /\ qactive' = [qactive EXCEPT ![stack[p]] = TRUE]
  /\ pc' = [pc EXCEPT ![p] = IF Busy(stack[p]) THEN Returned(p) ELSE "count"]
  /\ UNCHANGED <<registryVars, group, stack, countVars, daemonVars, owner>>

Count(p) ==
  /\ pc[p] = "count"
  /\ active' = active + 1
  /\ pc' = [pc EXCEPT ![p] = "join"]
  /\ UNCHANGED <<registryVars, taskVars, queueVars, wg, daemonVars, owner>>

Join(p) ==
  /\ pc[p] = "join"
  /\ wg' = wg + 1
  /\ pc' = [pc EXCEPT ![p] = "acquire"]
  /\ UNCHANGED <<registryVars, taskVars, queueVars, active, daemonVars, owner>>

\* s.sem <- struct{}{} of a drainer or of a triggered plain container
Acquire(p) ==
  /\ p \notin Maint
  /\ pc[p] = "acquire"
  /\ stack[p] = Standalone => p \in Calls
  /\ \E s \in Slots : Free(s) /\ owner' = [owner EXCEPT ![s] = p]
  /\ pc' = [pc EXCEPT ![p] = IF stack[p] = Standalone THEN "run" ELSE "drain"]
  /\ UNCHANGED <<registryVars, taskVars, queueVars, countVars, daemonVars>>

\* The cron goroutine acquires for the next plain container and hands the
\* place to the goroutine it starts.
Spawn(j, w) ==
  /\ pc[j] = "acquire"
  /\ stack[j] = Standalone
  /\ pc[w] = "idle"
  /\ \E s \in Slots : Free(s) /\ owner' = [owner EXCEPT ![s] = w]
  /\ \E c \in work[j] :
       /\ work' = [work EXCEPT ![j] = @ \ {c}, ![w] = {c}]
       /\ pc' = [pc EXCEPT ![w] = "run",
                           ![j] = IF work[j] = {c} THEN "return" ELSE "count"]
  /\ UNCHANGED <<registryVars, group, stack, queueVars, countVars, daemonVars>>

\* One turn of the drain loop, under q.mu
Drain(p) ==
  LET P == stack[p] IN
  /\ pc[p] = "drain"
  /\ pending' = [pending EXCEPT ![P] = {}]
  /\ work' = [work EXCEPT ![p] = pending[P]]
  /\ qactive' = [qactive EXCEPT ![P] = pending[P] # {}]
  /\ pc' = [pc EXCEPT ![p] = IF pending[P] = {} THEN "done" ELSE "batch"]
  /\ UNCHANGED <<registryVars, group, stack, countVars, daemonVars, owner>>

\* RunStackBatch, Run or the maintenance function returns.
FinishWork(p) ==
  /\ pc[p] \in {"batch", "run"}
  /\ work' = [work EXCEPT ![p] = {}]
  /\ pc' = [pc EXCEPT ![p] = AfterWork(p)]
  /\ UNCHANGED <<registryVars, group, stack, queueVars, countVars, daemonVars, owner>>

-----------------------------------------------------------------------------
(* The deferred calls: wg.Done, active-1 and release, in this order but in *)
(* the goroutines started for plain containers, which call wg.Done last.   *)

WgDone(p) ==
  /\ pc[p] = "done"
  /\ wg' = wg - 1
  /\ pc' = [pc EXCEPT ![p] = IF p \in Workers THEN "idle" ELSE "uncount"]
  /\ UNCHANGED <<registryVars, taskVars, queueVars, active, daemonVars, owner>>

Uncount(p) ==
  /\ pc[p] = "uncount"
  /\ active' = active - 1
  /\ pc' = [pc EXCEPT ![p] = "release"]
  /\ UNCHANGED <<registryVars, taskVars, queueVars, wg, daemonVars, owner>>

Release(p) ==
  /\ pc[p] = "release"
  /\ \E s \in Held(p) :
       /\ owner' = [owner EXCEPT ![s] = None]
       /\ pc' = [pc EXCEPT ![p] = IF ~LastHeld(p, s) THEN "release"
                                  ELSE IF p \in Workers THEN "done" ELSE Returned(p)]
  /\ UNCHANGED <<registryVars, taskVars, queueVars, countVars, daemonVars>>

-----------------------------------------------------------------------------
(* Maintenance jobs (scheduleMaintenance).                                 *)

FireMaintenance(m) ==
  /\ CronOn
  /\ pc[m] = "idle"
  /\ pc' = [pc EXCEPT ![m] = "count"]
  /\ UNCHANGED <<registryVars, taskVars, queueVars, countVars, daemonVars, owner>>

\* The places are taken one at a time, with no lock over the loop.
AcquireNext(m) ==
  /\ pc[m] = "acquire"
  /\ \E s \in Slots :
       /\ Free(s)
       /\ owner' = [owner EXCEPT ![s] = m]
       /\ pc' = [pc EXCEPT ![m] = IF HasAll(m, s) THEN "run" ELSE "acquire"]
  /\ UNCHANGED <<registryVars, taskVars, queueVars, countVars, daemonVars>>

\* The check or the prune of a repository failed, and restic unlock is called on
\* it in a context detached from the job's and without a deadline.
Unlock(m) ==
  /\ pc[m] = "run"
  /\ pc' = [pc EXCEPT ![m] = "unlock"]
  /\ UNCHANGED <<registryVars, taskVars, queueVars, countVars, daemonVars, owner>>

\* restic unlock is back, with or without an error, and the job goes on.
UnlockReturns(m) ==
  /\ pc[m] = "unlock"
  /\ pc' = [pc EXCEPT ![m] = "run"]
  /\ UNCHANGED <<registryVars, taskVars, queueVars, countVars, daemonVars, owner>>

-----------------------------------------------------------------------------
(* API operations on repositories (runRepoOp with rejectIfBusy).           *)

\* The guard is read once, before the operation starts.
Admit(o) ==
  /\ main # "exited" /\ ApiUp
  /\ o \notin ops
  /\ ~Running
  /\ ops' = ops \cup {o}
  /\ UNCHANGED <<registryVars, taskVars, queueVars, countVars, main, path, pc, owner>>

FinishOp(o) ==
  /\ o \in ops
  /\ ops' = ops \ {o}
  /\ UNCHANGED <<registryVars, taskVars, queueVars, countVars, main, path, pc, owner>>

-----------------------------------------------------------------------------
(* Shutdown: the signal case of the main loop, and Scheduler.Stop.         *)

Move(from, to) ==
  /\ main = from
  /\ main' = to
  /\ UNCHANGED <<registryVars, taskVars, queueVars, countVars, ops, pc, owner>>

Signal ==
  /\ Signals >= 1
  /\ Move("serving", IF Running THEN "stop" ELSE "closing")
  /\ path' = IF Running THEN "busy" ELSE "idle"

\* apiSrv.Shutdown gives requests in flight five seconds, here any time.
CloseApi == Move("closing", "stop") /\ UNCHANGED path

\* cron.Stop: no entry fires any more
StopCron == Move("stop", "waitcron") /\ UNCHANGED path

\* <-cronDone.Done(): no cron goroutine is left
CronDone ==
  /\ \A p \in Jobs \cup Maint : pc[p] = "idle"
  /\ Move("waitcron", "waitwg") /\ UNCHANGED path

\* s.wg.Wait() returns and Stop's context is cancelled
WgZero == wg = 0 /\ Move("waitwg", "leaving") /\ UNCHANGED path

\* main returns: whatever still runs is killed with the process
Exit == Move("leaving", "exited") /\ UNCHANGED path

\* A second signal is only looked at on the busy path.
ForceStop ==
  /\ Signals >= 2
  /\ path = "busy"
  /\ \E from \in {"waitcron", "waitwg"} : Move(from, "exited")
  /\ path' = "forced"

-----------------------------------------------------------------------------
\* What goroutine p does on its own once it is started
Step(p) ==
  \/ Enqueue(p) \/ Count(p) \/ Join(p) \/ Acquire(p) \/ Drain(p)
  \/ FinishWork(p) \/ WgDone(p) \/ Uncount(p) \/ Release(p)

JobStep(j) == Lookup(j) \/ JobReturn(j) \/ \E w \in Workers : Spawn(j, w)

Shutdown == CloseApi \/ StopCron \/ CronDone \/ WgZero \/ Exit

Next ==
  /\ main # "exited"
  /\ \/ \E c \in Containers : Register(c) \/ Unregister(c)
     \/ \E j \in Jobs : JobStep(j) \/ \E g \in Groups : Fire(j, g)
     \/ \E k \in Calls : \/ \E c \in Containers : Trigger(k, c)
                         \/ \E P \in Projects : TriggerProject(k, P)
     \/ \E p \in Procs : Step(p)
     \/ \E m \in Maint : \/ FireMaintenance(m) \/ AcquireNext(m)
                         \/ Unlock(m) \/ UnlockReturns(m)
     \/ \E o \in Ops : Admit(o) \/ FinishOp(o)
     \/ Shutdown \/ Signal \/ ForceStop

Spec == Init /\ [][Next]_vars

\* Goroutines are scheduled; backups end (their contexts carry a timeout, and
\* Docker closes the stream of an exec that has ended); a maintenance job visits
\* finitely many repositories and its context carries a timeout too, so it ends
\* although it leaves "run" for an unlock now and then; and the senders blocked
\* on a Go channel are served in order: a sender is not overtaken for ever.
\* Nothing makes UnlockReturns fair: the code puts no bound on that call.
Fairness ==
  /\ \A p \in Procs : WF_vars(main # "exited" /\ Step(p))
  /\ \A m \in Maint : SF_vars(main # "exited" /\ FinishWork(m))
  /\ \A j \in Jobs : WF_vars(main # "exited" /\ JobStep(j))
  /\ \A p \in Procs \ Maint : SF_vars(main # "exited" /\ Acquire(p))
  /\ \A j \in Jobs : SF_vars(main # "exited" /\ \E w \in Workers : Spawn(j, w))
  /\ \A m \in Maint : SF_vars(main # "exited" /\ AcquireNext(m))
  /\ WF_vars(Shutdown)
  /\ SF_vars(WgZero)

FairSpec == Spec /\ Fairness

-----------------------------------------------------------------------------
(* Properties.                                                             *)

TypeOK ==
  /\ registered \subseteq Containers
  /\ current \in [Groups -> Jobs \cup {None}]
  /\ group \in [Jobs -> Groups \cup {None}]
  /\ pc \in [Procs -> {"idle", "lookup", "enqueue", "return", "done", "uncount",
                       "release", "run", "unlock"} \cup DrainPcs]
  /\ stack \in [Procs -> Projects \cup {Standalone}]
  /\ work \in [Procs -> SUBSET Containers]
  /\ pending \in [Projects -> SUBSET Containers]
  /\ qactive \in [Projects -> BOOLEAN]
  /\ owner \in [Slots -> Procs \cup {None}]
  /\ active \in Int
  /\ wg \in Int
  /\ ops \subseteq Ops
  /\ main \in {"serving", "closing", "stop", "waitcron", "waitwg", "leaving", "exited"}
  /\ path \in {"none", "idle", "busy", "forced"}

\* However schedules and API triggers interleave, at most one goroutine drains
\* a project's queue, so a compose project never has two batches stopping and
\* starting its services at once (enqueueBatch, q.active).
OneDrainer ==
  \A P \in Projects : \A p, q \in Drainers(P) : p = q

\* A request that was appended to a project's queue has a goroutine that will
\* take it: none is left behind when the drainer gives q.active up.
NoLostBatch ==
  \A P \in Projects : pending[P] # {} => Drainers(P) # {}

\* While a maintenance job runs no backup and no other maintenance job does
\* ("runs fn while holding the full semaphore, preventing concurrent backups").
MaintenanceExclusive ==
  \A m \in Maint : Working(m) => \A p \in Procs \ {m} : ~Working(p)

\* No more than daemon.concurrency backups run at once.
ConcurrencyBounded ==
  Cardinality({p \in Procs : Working(p)}) <= Cardinality(Slots)

\* Running(), the input of the API's busy guard and of the shutdown path, is
\* true whenever a backup or a maintenance job holds or waits for the semaphore,
\* and false again once every goroutine is back.
RunningAccurate ==
  /\ (\E p \in Procs : Working(p) \/ pc[p] \in {"join", "acquire", "drain"}) => Running
  /\ (\A p \in Procs : pc[p] = "idle") => ~Running

\* When the daemon leaves without being forced, nothing cron started is still
\* under way: cron is stopped, its goroutines have returned and the ones they
\* started for plain containers have called wg.Done.
CronWorkDrained ==
  main = "leaving" => \A p \in Jobs \cup Workers \cup Maint : pc[p] = "idle"

\* docs/cli.md: unlock, forget and prune "return an error if any backup is
\* currently in progress, preventing accidental lock conflicts or corruption".
DestructiveExclusive == ops # {} => ~BackupRunning

\* No restic unlock of a failed check or prune hangs.  It runs while its job holds
\* every place of the semaphore, the counter and the wait group, and nothing in
\* the code bounds it: a premise of what follows, not a promise of the program.
UnlocksReturn == \A m \in Maint : []<>(pc[m] # "unlock")

\* Requests stop coming in while drainers are at work.
QueuesQuiet == \A P \in Projects : <>[](pending[P] = {})

\* A container waiting in a project's queue is eventually in a batch of its own
\* project, provided no other project keeps its drainer busy for ever, no unlock
\* of a maintenance job hangs and the daemon does not exit.
BatchServed ==
  UnlocksReturn =>
    \A P \in Projects :
      (\A Q \in Projects \ {P} : <>[](pending[Q] = {}))
        => \A c \in {d \in Containers : ProjectOf[d] = P} :
             c \in pending[P] ~> \/ \E p \in Procs : pc[p] = "batch" /\ c \in work[p]
                                 \/ main = "exited"

\* docs/configuration.md: a maintenance job is "bounded by
\* daemon.maintenance_timeout".  A job that fired runs and returns, provided the
\* projects' queues do not keep the semaphore busy for ever and none of its
\* detached unlocks hangs (which that timeout does not bound).
MaintenanceReturns ==
  UnlocksReturn /\ QueuesQuiet
    => \A m \in Maint : pc[m] # "idle" ~> (pc[m] = "idle" \/ main = "exited")

\* After a shutdown signal the daemon exits, provided API clients do not keep
\* the projects' queues busy for ever and no unlock of a maintenance job hangs.
ShutdownCompletes ==
  UnlocksReturn /\ QueuesQuiet => (path # "none" ~> main = "exited")

-----------------------------------------------------------------------------
(* Each project's queue is a StackQueue.                                   *)

RunningBatch ==
  [P \in Projects |-> UNION {work[p] : p \in {q \in Procs : stack[q] = P /\ pc[q] = "batch"}}]

SQ == INSTANCE StackQueue WITH waiting <- pending, running <- RunningBatch

\* The drain loop implements StackQueue.
ImplementsStackQueue == SQ!Spec
=============================================================================
