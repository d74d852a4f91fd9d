-------------------------------- MODULE Deps --------------------------------
(***************************************************************************)
(* internal/backup/deps.go: from the depends_on labels of a compose stack  *)
(* to the order its services are started in (the stop order is its         *)
(* reverse) and to the set of services a stop-before backup stops.  Both   *)
(* are recursive searches of a graph that may have cycles, with the calls  *)
(* under way as part of the state.                                         *)
(***************************************************************************)
EXTENDS Integers, FiniteSets, SequencesExt

CONSTANTS
  Names,   \* the service names, in sort.Strings order
  Labels,  \* what a depends_on label may be: sequences of names
  Batches  \* the sets of services whose stop-before label a batch carries

AllNames == Range(Names)

ASSUME NamesAssumption ==
  /\ Names \in Seq(AllNames)
  /\ Labels \subseteq Seq(AllNames)
  /\ Batches \subseteq SUBSET AllNames

VARIABLES
  graph,    \* the label of each service, <<>> without one
  call,     \* the function called, topologicalSort or stopSet
  todo,     \* topologicalSort: the services its loop has left
  path,     \* the services whose visit is under way, outermost first
  left,     \* the dependencies the loop of each visit has left
  temp, visited, result,
  warned,   \* services the warning callback was given
  batch,    \* stopSet: the labelled services
  roots,    \* those its loop has left
  stop,
  branches  \* for each addDependents under way the dependents it has left

sortVars == <<todo, path, left, temp, visited, result, warned>>
stopVars == <<batch, roots, stop, branches>>
vars     == <<graph, call, sortVars, stopVars>>

-----------------------------------------------------------------------------
(* Seeded faults.                                                          *)

\* visited is not set (Leave)
LeaveUnvisited ==
  /\ path # <<>> /\ left[Last(path)] = <<>>
  /\ path' = Front(path)
  /\ temp' = temp \ {Last(path)}
  /\ result' = Append(result, Last(path))
  /\ UNCHANGED <<graph, call, todo, left, visited, warned, stopVars>>

\* the service is put before its dependencies (Leave)
LeaveFirst ==
  /\ path # <<>> /\ left[Last(path)] = <<>>
  /\ path' = Front(path)
  /\ temp' = temp \ {Last(path)}
  /\ visited' = visited \cup {Last(path)}
  /\ result' = <<Last(path)>> \o result
  /\ UNCHANGED <<graph, call, todo, left, warned, stopVars>>

\* a service on the path counts as visited (Known)
KnownOnPath(n) == n \in visited \cup temp

\* a service on the path is visited again (OnPath)
NeverOnPath(n) == FALSE

\* the graph is not reversed (Dependents)
Dependencies(svc) == Range(graph[svc])

-----------------------------------------------------------------------------
(* topologicalSort.                                                        *)

AllServices(g) ==
  {svc \in AllNames : g[svc] # <<>>} \cup (UNION {Range(g[svc]) : svc \in AllNames})

Known(n) == n \in visited

OnPath(n) == n \in temp

\* visit(n), up to its loop; rest is left, without the call.
Visit(n, rest) ==
  /\ \/ /\ Known(n)
        /\ left' = rest
        /\ UNCHANGED <<path, temp, warned>>
     \/ /\ ~Known(n) /\ OnPath(n)
        /\ warned' = warned \cup {n}
        /\ left' = rest
        /\ UNCHANGED <<path, temp>>
     \/ /\ ~Known(n) /\ ~OnPath(n)
        /\ temp' = temp \cup {n}
        /\ path' = Append(path, n)
        /\ left' = [rest EXCEPT ![n] = graph[n]]
        /\ UNCHANGED warned
  /\ UNCHANGED <<graph, call, visited, result, stopVars>>

\* The next of the sorted services.
VisitRoot(i) ==
  /\ call = "sort" /\ path = <<>>
  /\ Names[i] \in todo /\ \A j \in 1 .. i - 1 : Names[j] \notin todo
  /\ todo' = todo \ {Names[i]}
  /\ Visit(Names[i], left)

\* The next dependency of the innermost visit.
VisitDependency ==
  /\ path # <<>>
  /\ LET n == Last(path)
     IN  /\ left[n] # <<>>
         /\ Visit(Head(left[n]), [left EXCEPT ![n] = Tail(@)])
  /\ UNCHANGED todo

\* The innermost visit returns.
Leave ==
  /\ path # <<>> /\ left[Last(path)] = <<>>
  /\ path' = Front(path)
  /\ temp' = temp \ {Last(path)}
  /\ visited' = visited \cup {Last(path)}
  /\ result' = Append(result, Last(path))
  /\ UNCHANGED <<graph, call, todo, left, warned, stopVars>>

-----------------------------------------------------------------------------
(* stopSet.                                                                *)

\* buildDependents
Dependents(svc) == {t \in AllNames : svc \in Range(graph[t])}

\* The next container of the batch with the label.
AddRoot(svc) ==
  /\ call = "stop" /\ branches = <<>> /\ svc \in roots
  /\ roots' = roots \ {svc}
  /\ stop' = stop \cup {svc}
  /\ branches' = <<Dependents(svc)>>
  /\ UNCHANGED <<graph, call, batch, sortVars>>

\* A dependent of the innermost addDependents, in the order of Go's map.
AddDependent(svc) ==
  /\ branches # <<>> /\ svc \in Last(branches)
  /\ LET rest == Append(Front(branches), Last(branches) \ {svc})
     IN  \/ svc \in stop /\ branches' = rest /\ UNCHANGED stop
         \/ /\ svc \notin stop
            /\ stop' = stop \cup {svc}
            /\ branches' = Append(rest, Dependents(svc))
  /\ UNCHANGED <<graph, call, batch, roots, sortVars>>

\* The innermost addDependents returns.
Return ==
  /\ branches # <<>> /\ Last(branches) = {}
  /\ branches' = Front(branches)
  /\ UNCHANGED <<graph, call, batch, roots, stop, sortVars>>

-----------------------------------------------------------------------------
Init ==
  /\ graph \in [AllNames -> Labels]
  /\ \/ call = "sort" /\ batch = {}
     \/ call = "stop" /\ batch \in Batches
  /\ roots = batch
  /\ todo = IF call = "sort" THEN AllServices(graph) ELSE {}
  /\ path = <<>> /\ left = [svc \in AllNames |-> <<>>]
  /\ temp = {} /\ visited = {} /\ result = <<>> /\ warned = {}
  /\ stop = {} /\ branches = <<>>

Next ==
  \/ \E i \in DOMAIN Names : VisitRoot(i)
  \/ VisitDependency \/ Leave
  \/ \E svc \in AllNames : AddRoot(svc) \/ AddDependent(svc)
  \/ Return

Spec == Init /\ [][Next]_vars

-----------------------------------------------------------------------------
(* Properties.                                                             *)

Sorted == call = "sort" /\ todo = {} /\ path = <<>>

\* The services reached from S along F: what every set that holds S and is
\* closed under F contains.
Closure(S, F) ==
  {t \in AllNames : \A X \in SUBSET AllNames :
      (S \subseteq X /\ \A svc \in X : F[svc] \subseteq X) => t \in X}

Reaches(a, b) == b \in Closure(Range(graph[a]), [svc \in AllNames |-> Range(graph[svc])])

Position(svc) == CHOOSE i \in DOMAIN result : result[i] = svc

\* topologicalSort lists each service a label mentions, and once, cycles or not:
\* a service that is missing would be started last and unordered, one listed
\* twice would be stopped twice.
OrderComplete ==
  Sorted => Range(result) = AllServices(graph) /\ IsInjective(result)

\* A dependency comes before its dependents unless the two are on a cycle, even
\* when other services of the stack are on one.
DependenciesFirst ==
  Sorted => \A svc \in AllNames : \A dep \in Range(graph[svc]) :
              ~Reaches(dep, svc) => Position(dep) < Position(svc)

\* The warning callback is called if and only if there is a cycle.
WarnsOfCycles ==
  Sorted => (warned # {} <=> \E svc \in AllNames : Reaches(svc, svc))

\* README.md: the stop set is the "containers with buoy.stop-before=true plus any
\* container that transitively depends on a stopped container", whichever order
\* Go visits the maps in and whatever cycles there are.
StopSetIsClosure ==
  call = "stop" /\ roots = {} /\ branches = <<>> =>
    stop = Closure(batch, [svc \in AllNames |-> {t \in AllNames : svc \in Range(graph[t])}])

Seen == visited \cup temp \cup stop

\* A step that turns to a service for the first time, or else goes on in the outer
\* loop, or else leaves the inner loops less to look at or returns from a call.
Descent ==
  \/ Seen \subseteq Seen' /\ Seen # Seen'
  \/ /\ Seen' = Seen
     /\ todo' \cup roots' \subseteq todo \cup roots /\ todo' \cup roots' # todo \cup roots
  \/ /\ Seen' = Seen /\ todo' = todo /\ roots' = roots
     /\ Len(path') <= Len(path) /\ Len(branches') <= Len(branches)
     /\ \A n \in AllNames : Len(left'[n]) <= Len(left[n])
     /\ \A i \in DOMAIN branches' : branches'[i] \subseteq branches[i]
     /\ \/ Len(path') < Len(path) \/ Len(branches') < Len(branches)
        \/ \E n \in AllNames : Len(left'[n]) < Len(left[n])
        \/ \E i \in DOMAIN branches' : branches'[i] # branches[i]

\* No cycle keeps either search from ending: each of its steps descends.
Descends == [][Descent]_vars
=============================================================================
