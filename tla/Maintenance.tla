----------------------------- MODULE Maintenance -----------------------------
(***************************************************************************)
(* internal/backup/check.go and prune.go: the periodic check or prune of   *)
(* the known repositories, one after another within the maintenance        *)
(* window.  With no entries in the registry the job takes the repositories *)
(* from the containers.  The two files differ in the command, and in that  *)
(* a check is recorded.                                                    *)
(***************************************************************************)
EXTENDS Repository

CONSTANT Job  \* the client that is the job

ASSUME JobAssumption == Job \in Clients

VARIABLES
  kind,      \* "check" or "prune"
  stage,     \* what the job does next
  listed,    \* the repositories it found
  queue,     \* those it has left
  passed,
  broken,    \* those its report names
  skipped,   \* the count of those its report does not name
  fallback,  \* it took them from the containers
  closing,   \* too little is left of the window to begin with another
  refused    \* repositories that restic unlock failed on

jobVars == <<kind, stage, listed, queue, passed, broken, skipped, fallback, closing, refused>>

JobTypeOK ==
  /\ kind \in {"check", "prune"}
  /\ stage \in {"idle", "next", "running", "unlock", "done"}
  /\ listed \subseteq Repos /\ queue \subseteq Repos
  /\ passed \subseteq Repos /\ broken \subseteq Repos /\ refused \subseteq Repos
  /\ skipped \in Nat
  /\ fallback \in BOOLEAN /\ closing \in BOOLEAN

JobInit ==
  /\ kind \in {"check", "prune"} /\ stage = "idle"
  /\ listed = {} /\ queue = {} /\ passed = {} /\ broken = {} /\ refused = {}
  /\ skipped = 0 /\ fallback = FALSE /\ closing = FALSE

JobGoing == stage \notin {"idle", "done"}

-----------------------------------------------------------------------------
(* Seeded faults, which no step of the specification uses.                 *)

\* The count of what is left includes the repository the report names.
ThisAndOthers(x) == Cardinality(queue)

\* The count takes those that passed off a second time.
OthersButPassed(x) == Cardinality(queue \ {x}) - Cardinality(passed)

\* The unlock runs in the context of the check.
UnlockInContext ==
  /\ IF Alive(Job) THEN Unlocked(target[Job]) ELSE UNCHANGED lockVars
  /\ UNCHANGED refused

-----------------------------------------------------------------------------
\* ListRepos, or ListBackupContainers and SyncContainer, each of which may fail
JobBegin ==
  /\ stage = "idle"
  /\ \/ stage' = "done" /\ UNCHANGED <<entryVars, listed, queue, fallback>>
     \/ /\ IF Recorded # {}
           THEN listed' = Recorded /\ fallback' = FALSE /\ UNCHANGED entryVars
           ELSE listed' = plan /\ fallback' = TRUE /\ SyncContainer
        /\ queue' = listed'
        /\ stage' = "next"
  /\ UNCHANGED <<clientVars, lockVars, kind, passed, broken, skipped, closing, refused>>

\* The command starts, or fails because the repository is locked or unreachable.
JobNext(x) ==
  /\ stage = "next" /\ ~closing /\ x \in queue
  /\ queue' = queue \ {x}
  /\ Turns(Job, x)
  /\ \/ Locks(Job, x, "exclusive") /\ stage' = "running"
     \/ stage' = "unlock" /\ UNCHANGED lockVars
  /\ UNCHANGED <<entryVars, kind, listed, passed, broken, skipped, fallback, closing, refused>>

JobEnds ==
  /\ stage = "running"
  /\ \/ /\ Exits(Job)
        /\ passed' = passed \cup {target[Job]}
        /\ IF kind = "check" THEN MarkCheck(target[Job], "ok") ELSE UNCHANGED entryVars
        /\ stage' = "next"
     \/ Aborts(Job) /\ stage' = "unlock" /\ UNCHANGED <<entryVars, passed>>
  /\ UNCHANGED <<clientVars, kind, listed, queue, broken, skipped, fallback, closing, refused>>

\* Detached from the window and from the timeout of the repository
UnlockDetached ==
  \/ Unlocked(target[Job]) /\ UNCHANGED refused
  \/ UNCHANGED lockVars /\ refused' = refused \cup {target[Job]}

JobUnlock ==
  /\ stage = "unlock"
  /\ UnlockDetached
  /\ IF kind = "check" THEN MarkCheck(target[Job], "failed") ELSE UNCHANGED entryVars
  /\ broken' = broken \cup {target[Job]}
  /\ stage' = "next"
  /\ UNCHANGED <<clientVars, kind, listed, queue, passed, skipped, fallback, closing>>

Others(x) == Cardinality(queue \ {x})

\* The window is nearly over: the report names x and counts the others.
JobGivesUp(x) ==
  /\ stage = "next" /\ closing /\ x \in queue
  /\ queue' = {} /\ stage' = "done"
  /\ IF fallback
     THEN UNCHANGED <<broken, skipped>>
     ELSE broken' = broken \cup {x} /\ skipped' = Others(x)
  /\ UNCHANGED <<repoVars, kind, listed, passed, fallback, closing, refused>>

JobDone ==
  /\ stage = "next" /\ queue = {}
  /\ stage' = "done"
  /\ UNCHANGED <<repoVars, kind, listed, queue, passed, broken, skipped, fallback, closing,
                 refused>>

\* The window closes, ends, or the repository's own timeout passes.
JobExpires ==
  /\ JobGoing
  /\ \/ ~closing /\ closing' = TRUE /\ UNCHANGED clientVars
     \/ closing /\ RunsLate(Job) /\ UNCHANGED closing
     \/ stage = "running" /\ IsCut(Job) /\ UNCHANGED closing
  /\ UNCHANGED <<lockVars, entryVars, kind, stage, listed, queue, passed, broken, skipped,
                 fallback, refused>>

\* The steps of the job that its window bounds
JobProceeds ==
  \/ \E x \in Repos : JobNext(x) \/ JobGivesUp(x)
  \/ JobEnds \/ JobDone
=============================================================================
