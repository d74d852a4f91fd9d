----------------------------- MODULE StackGraph -----------------------------
(***************************************************************************)
(* internal/backup/deps.go: the dependency graph of the discovered         *)
(* containers D of a compose project, and what its searches are to find in *)
(* it, the order to start services in and those to stop.  Deps is how they *)
(* search.                                                                 *)
(***************************************************************************)
EXTENDS Integers, FiniteSets, SequencesExt

CONSTANTS
  Containers,  \* containers of the project
  Services,
  NoService,   \* the empty compose service of a container without the label
  ServiceOf,   \* Containers -> Services \cup {NoService}
  Depends      \* Depends[c]: c's depends_on label, a set of [on, cond] records

Conditions == {"started", "healthy", "completed"}

ASSUME ContainersAssumption ==
  /\ ServiceOf \in [Containers -> Services \cup {NoService}]
  /\ NoService \notin Services /\ IsFiniteSet(Services)
  /\ Depends \in [Containers -> SUBSET [on : Services, cond : Conditions]]

Of(svc, D) == {c \in D : ServiceOf[c] = svc}

\* deps[svc]; the label of a container without a service is not read
DepsOf(svc, D) == UNION {Depends[c] : c \in Of(svc, D) \ Of(NoService, D)}

DepNames(svc, D) == {r.on : r \in DepsOf(svc, D)}

\* allServices
Named(D) == (UNION {{r.on : r \in Depends[c]} : c \in D \ Of(NoService, D)})
              \cup {svc \in Services : DepNames(svc, D) # {}}

\* stopSet: S and the services that transitively depend on one of S
Cascade(S, D) ==
  {svc \in Services : \A X \in SUBSET Services :
     (S \subseteq X /\ \A t \in Services : DepNames(t, D) \cap X # {} => t \in X)
       => svc \in X}

\* dep has to be started before svc: a dependency, not on a cycle with it
Before(dep, svc, D) == dep \in DepNames(svc, D) /\ dep \notin Cascade({svc}, D)

\* topologicalSort
IsStartOrder(s, D) ==
  /\ Range(s) = Named(D) /\ IsInjective(s)
  /\ \A i, j \in DOMAIN s : Before(s[i], s[j], D) => i < j
=============================================================================
