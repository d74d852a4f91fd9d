------------------------------ MODULE Repository ------------------------------
(***************************************************************************)
(* What the users of repositories share.  internal/restic/client.go: what  *)
(* a command does to the locks of a repository, and how it ends when its   *)
(* context is done.  internal/registry/registry.go: the entries, with the  *)
(* results of backups and checks.  A client is whoever runs restic         *)
(* commands, one after another: a backup, a maintenance job, a request of  *)
(* the API.  The module has the variables, and the operators from which    *)
(* its users build their actions.                                          *)
(***************************************************************************)
EXTENDS Integers, FiniteSets

CONSTANTS
  Clients,
  Repos,
  Budgeted,  \* repositories with a timeout of their own
  None

ASSUME ClientsAssumption ==
  /\ None \notin Clients \cup Repos
  /\ Budgeted \subseteq Repos /\ IsFiniteSet(Repos)

VARIABLES
  late,     \* clients whose own context is done: backup, window or request
  cut,      \* clients whose context for the current repository is done
  target,   \* the repository each client is at
  present,  \* repositories that have been initialised
  held,     \* the lock each client's restic process holds
  stale,    \* locks whose process was killed
  plan,     \* repositories the labels of the container resolve to
  entry,    \* the entry of each repository, with LastBackupOK
  checked   \* LastCheckOK of each repository

clientVars == <<late, cut, target>>
lockVars   == <<present, held, stale>>
entryVars  == <<plan, entry, checked>>
repoVars   == <<clientVars, lockVars, entryVars>>

Modes == {"shared", "exclusive"}
AllLocks == [repo : Repos, mode : Modes, by : Clients]

RepoTypeOK ==
  /\ late \subseteq Clients /\ cut \subseteq Clients
  /\ target \in [Clients -> Repos \cup {None}]
  /\ present \subseteq Repos
  /\ held \in [Clients -> Modes \cup {"none"}]
  /\ stale \subseteq AllLocks
  /\ plan \subseteq Repos
  /\ entry \in [Repos -> {"none", "new", "ok", "failed"}]
  /\ checked \in [Repos -> {"none", "ok", "failed"}]

RepoInit ==
  /\ late = {} /\ cut = {}
  /\ target = [c \in Clients |-> None]
  /\ plan \in SUBSET Repos /\ present \in SUBSET Repos
  /\ held = [c \in Clients |-> "none"]
  /\ stale = {}
  /\ entry \in [Repos -> {"none", "new"}]
  /\ checked = [x \in Repos |-> "none"]

-----------------------------------------------------------------------------
(* restic.                                                                 *)

\* A command started in a context that is done is killed at once.
Alive(c) == c \notin late \cup cut

Live == {l \in AllLocks : target[l.by] = l.repo /\ held[l.by] = l.mode}

\* The locks, some of processes that are gone, that keep others from x
Conflicts(x, mode) ==
  {l \in Live \cup stale : l.repo = x /\ "exclusive" \in {l.mode, mode}}

Locks(c, x, mode) ==
  /\ Alive(c)
  /\ Conflicts(x, mode) = {}
  /\ held' = [held EXCEPT ![c] = mode]
  /\ UNCHANGED <<present, stale>>

\* The process ends by itself or on SIGTERM, and removes its lock.
Exits(c) ==
  /\ held' = [held EXCEPT ![c] = "none"]
  /\ UNCHANGED <<present, stale>>

\* gracefulKill: it does not end within termGrace, and is killed.
Killed(c) ==
  /\ ~Alive(c)
  /\ held' = [held EXCEPT ![c] = "none"]
  /\ stale' = stale \cup {[repo |-> target[c], mode |-> held[c], by |-> c]}
  /\ UNCHANGED present

Aborts(c) == Exits(c) \/ Killed(c)

\* restic unlock removes the locks of processes that are gone.
Unlocked(x) ==
  /\ stale' = {l \in stale : l.repo # x}
  /\ UNCHANGED <<present, held>>

\* Seeded fault: the context is made once, before the loop.
SameContext(c, x) ==
  /\ target' = [target EXCEPT ![c] = x]
  /\ UNCHANGED <<late, cut>>

\* c turns to x, with a context for it derived from its own.
Turns(c, x) ==
  /\ target' = [target EXCEPT ![c] = x]
  /\ cut' = cut \ {c}
  /\ UNCHANGED late

\* The context of c is done, or only the one it has for its repository.
RunsLate(c) == c \notin late /\ late' = late \cup {c} /\ UNCHANGED <<cut, target>>

IsCut(c) ==
  /\ target[c] \in Budgeted /\ Alive(c)
  /\ cut' = cut \cup {c}
  /\ UNCHANGED <<late, target>>

-----------------------------------------------------------------------------
(* The registry.                                                           *)

Recorded == {x \in Repos : entry[x] # "none"}

\* updateRepoMeta: a repository without an entry is left alone.
Result(old, x, res) == IF x \in Recorded THEN [old EXCEPT ![x] = res] ELSE old

\* A write that fails is only logged.
MarkBackup(x, res) == entry' \in {entry, Result(entry, x, res)} /\ UNCHANGED <<plan, checked>>
MarkCheck(x, res)  == checked' \in {checked, Result(checked, x, res)} /\ UNCHANGED <<plan, entry>>

\* SyncContainer writes the entries of the container in one transaction.
SyncContainer ==
  /\ entry' = [x \in Repos |-> IF x \in plan \ Recorded THEN "new" ELSE entry[x]]
  /\ UNCHANGED <<plan, checked>>
=============================================================================
