--------------------------- MODULE StackOrderProofs ---------------------------
(***************************************************************************)
(* Proofs about StackBackup: the orders in which containers are stopped    *)
(* and started, and that what is to be backed up cold is cold.             *)
(***************************************************************************)
EXTENDS StackBackupProofs

-----------------------------------------------------------------------------
(* The graph.                                                              *)

\* A service is a dependent of itself.
LEMMA CascadeHas == ASSUME NEW D, NEW svc \in Services PROVE svc \in Cascade({svc}, D)
BY DEF Cascade

\* Who depends on a service of the stop set is in it, ...
LEMMA StopSvcClosed ==
  ASSUME NEW svc \in Services, NEW dep \in StopSvc, dep \in DepNames(svc, all)
  PROVE  svc \in StopSvc
<1> DEFINE S == {ServiceOf[c] : c \in fresh \cap StopBefore} \ {NoService}
           Closed(X) == S \subseteq X /\ \A t \in Services : DepNames(t, all) \cap X # {} => t \in X
<1>1. StopSvc = {t \in Services : \A X \in SUBSET Services : Closed(X) => t \in X}
  BY DEF StopSvc, Cascade
<1>2. ASSUME NEW X \in SUBSET Services, Closed(X) PROVE svc \in X
  <2>1. dep \in X
    BY <1>1, <1>2
  <2>2. QED
    BY <1>2, <2>1
<1> HIDE DEF Closed
<1>3. QED
  BY <1>1, <1>2

\* ... and so are all that transitively do.
LEMMA CascadeInStopSvc ==
  ASSUME NEW svc \in StopSvc, NEW t \in Cascade({svc}, all)
  PROVE  t \in StopSvc
<1>1. StopSvc \in SUBSET Services /\ t \in Services
  BY DEF StopSvc, Cascade
<1>2. \A u \in Services : DepNames(u, all) \cap StopSvc # {} => u \in StopSvc
  BY StopSvcClosed
<1>3. QED
  BY <1>1, <1>2 DEF Cascade

\* Where one service has to be started before another, the graph names both.
LEMMA BeforeNamed ==
  ASSUME all \in SUBSET Containers, NEW dep, NEW svc \in Names, Before(dep, svc, all)
  PROVE  svc \in Services /\ dep \in Services /\ svc \in Named(all) /\ dep \in Named(all)
<1>1. PICK c \in Of(svc, all) \ Of(NoService, all) : \E r \in Depends[c] : r.on = dep
  BY DEF Before, DepNames, DepsOf
<1>2. c \in all \ Of(NoService, all) /\ svc # NoService /\ svc \in Services
  BY <1>1 DEF Of, Names
<1>3. dep \in Services
  BY <1>1, <1>2, ContainersAssumption DEF Of
<1>4. dep \in Named(all)
  <2>1. {r.on : r \in Depends[c]} \subseteq Named(all)
    BY <1>1, <1>2 DEF Named
  <2>2. QED
    BY <1>1, <2>1
<1>5. svc \in Named(all)
  <2>1. DepNames(svc, all) # {}
    BY DEF Before
  <2>2. svc \in {t \in Services : DepNames(t, all) # {}}
    BY <1>2, <2>1
  <2>3. QED
    BY <2>2 DEF Named
<1>6. QED
  BY <1>2, <1>3, <1>4, <1>5

\* No service has to be started before itself.
LEMMA NotBeforeItself ==
  ASSUME all \in SUBSET Containers, NEW svc \in Names
  PROVE  ~Before(svc, svc, all)
BY BeforeNamed, CascadeHas DEF Before

-----------------------------------------------------------------------------
(* Sequences.                                                              *)

\* An element of a concatenation is one of a part, at its place there.
LEMMA ConcatAt ==
  ASSUME NEW T, NEW a \in Seq(T), NEW b \in Seq(T), NEW i \in DOMAIN (a \o b)
  PROVE  \/ i \in DOMAIN a /\ (a \o b)[i] = a[i]
         \/ i > Len(a) /\ (a \o b)[i] \in Range(b)
<1>1. i \in 1 .. Len(a) + Len(b)
  OBVIOUS
<1>2. CASE i \in 1 .. Len(a)
  BY <1>2
<1>3. CASE i > Len(a)
  <2>1. i - Len(a) \in DOMAIN b /\ (a \o b)[i] = b[i - Len(a)]
    BY <1>1, <1>3
  <2>2. QED
    BY <1>3, <2>1 DEF Range
<1>4. QED
  BY <1>1, <1>2, <1>3

\* A reversed sequence has at each place the element at the mirrored one, and
\* the same elements.
LEMMA ReverseAt ==
  ASSUME NEW T, NEW s \in Seq(T)
  PROVE  /\ Reverse(s) \in Seq(T) /\ Len(Reverse(s)) = Len(s)
         /\ \A i \in 1 .. Len(s) : /\ Len(s) - i + 1 \in 1 .. Len(s)
                                   /\ Reverse(s)[i] = s[Len(s) - i + 1]
         /\ Range(Reverse(s)) = Range(s)
<1>1. Reverse(s) \in Seq(T) /\ Len(Reverse(s)) = Len(s)
  BY DEF Reverse
<1>2. \A i \in 1 .. Len(s) : /\ Len(s) - i + 1 \in 1 .. Len(s)
                             /\ Reverse(s)[i] = s[Len(s) - i + 1]
  BY DEF Reverse
<1>3. \A i \in 1 .. Len(s) : s[i] = Reverse(s)[Len(s) - i + 1]
  <2> TAKE i \in 1 .. Len(s)
  <2>1. Len(s) - i + 1 \in 1 .. Len(s) /\ Len(s) - (Len(s) - i + 1) + 1 = i
    OBVIOUS
  <2>2. QED
    BY <1>2, <2>1
<1>4. DOMAIN s = 1 .. Len(s) /\ DOMAIN Reverse(s) = 1 .. Len(s)
  BY <1>1
<1>5. Range(Reverse(s)) \subseteq Range(s)
  BY <1>2, <1>4 DEF Range
<1>6. Range(s) \subseteq Range(Reverse(s))
  BY <1>2, <1>3, <1>4 DEF Range
<1>7. QED
  BY <1>1, <1>2, <1>5, <1>6

\* A set of places has a first one: of the sets of the places up to one of them
\* take one that contains no other.
LEMMA FirstPlace ==
  ASSUME NEW n \in Nat, NEW I \in SUBSET (1 .. n), I # {}
  PROVE  \E i \in I : \A j \in 1 .. i - 1 : j \notin I
<1> DEFINE S == 1 .. n
           T == {1 .. i : i \in I}
           R == StrictSubsetOrdering(S)
<1>1. IsWellFoundedOn(R, FiniteSubsetsOf(S))
  BY FS_StrictSubsetOrderingWellFounded
<1>2. T \subseteq FiniteSubsetsOf(S) /\ T # {}
  <2>1. \A i \in I : 1 .. i \subseteq S /\ IsFiniteSet(1 .. i)
    BY FS_Interval
  <2>2. QED
    BY <2>1 DEF FiniteSubsetsOf
<1>3. PICK x \in T : \A y \in T : <<y, x>> \notin R
  BY <1>1, <1>2, WFMin
<1>4. PICK i \in I : x = 1 .. i
  BY <1>3
<1>5. ASSUME NEW j \in 1 .. i - 1, j \in I PROVE FALSE
  <2>1. 1 .. j \in T
    BY <1>5
  <2>2. 1 .. j \subseteq 1 .. i /\ 1 .. j # 1 .. i
    <3>1. i \in 1 .. i /\ i \notin 1 .. j
      OBVIOUS
    <3>2. QED
      BY <3>1
  <2>3. <<1 .. j, x>> \in R
    BY <1>4, <2>2 DEF StrictSubsetOrdering
  <2>4. QED
    BY <1>3, <2>1, <2>3
<1>6. QED
  BY <1>5

-----------------------------------------------------------------------------
(* The orders.                                                             *)

\* startStackServices goes through a service before those that depend on it.
LEMMA StartOrdersSorted ==
  ASSUME all \in SUBSET Containers, NEW o \in StartOrders
  PROVE  \A i, j \in DOMAIN o : Before(o[i], o[j], all) => i < j
<1> DEFINE a == StartOrder[all]
           S == {ServiceOf[c] : c \in all} \ Range(a)
<1>1. PICK rest \in SetToSeqs(S) : o = a \o rest
  BY DEF StartOrders
<1>2. a \in Seq(Names) /\ Range(a) = Named(all)
  <2>1. a \in Seq(Services) /\ Range(a) = Named(all)
    BY StartOrderAssumption DEF IsStartOrder
  <2>2. QED
    BY <2>1 DEF Names
<1>3. S \in SUBSET Names /\ IsFiniteSet(Names)
  <2>1. S \in SUBSET Names
    BY ContainersAssumption DEF Names
  <2>2. IsFiniteSet(Names)
    BY ContainersAssumption, FS_AddElement DEF Names
  <2>3. QED
    BY <2>1, <2>2
<1>4. rest \in Seq(Names) /\ Range(rest) = S
  <2>1. IsFiniteSet(S)
    BY <1>3, FS_Subset
  <2>2. rest \in Seq(S) /\ Range(rest) = S
    BY <1>1, <2>1, SetSeqs
  <2>3. QED
    BY <1>3, <2>2
<1>5. o \in Seq(Names)
  BY <1>1, <1>2, <1>4, ConcatRange
<1>6. \A i \in DOMAIN o : o[i] \in Named(all) => i \in DOMAIN a /\ o[i] = a[i]
  BY <1>1, <1>2, <1>4, ConcatAt
<1>7. ASSUME NEW i \in DOMAIN o, NEW j \in DOMAIN o, Before(o[i], o[j], all)
      PROVE  i < j
  <2>1. o[j] \in Names
    BY <1>5
  <2>2. o[i] \in Named(all) /\ o[j] \in Named(all)
    BY <1>7, <2>1, BeforeNamed
  <2>3. i \in DOMAIN a /\ j \in DOMAIN a /\ o[i] = a[i] /\ o[j] = a[j]
    BY <1>6, <2>2
  <2>4. Before(a[i], a[j], all)
    BY <1>7, <2>3
  <2>5. QED
    BY <2>3, <2>4, StartOrderAssumption DEF IsStartOrder
<1>8. QED
  BY <1>7

\* stopStackServices goes through all of the stop set, and through a service after
\* those that depend on it.
LEMMA StopOrdersSorted ==
  ASSUME all \in SUBSET Containers, NEW stop \in SUBSET Names, NEW o \in StopOrders(stop)
  PROVE  /\ stop \subseteq Range(o)
         /\ \A i, j \in DOMAIN o : Before(o[i], o[j], all) => j < i
<1> DEFINE a == StartOrder[all]
           r == Reverse(a)
           S == stop \ Range(a)
<1>1. PICK rest \in SetToSeqs(S) : o = r \o rest
  BY DEF StopOrders
<1>2. a \in Seq(Names) /\ Range(a) = Named(all)
  <2>1. a \in Seq(Services) /\ Range(a) = Named(all)
    BY StartOrderAssumption DEF IsStartOrder
  <2>2. QED
    BY <2>1 DEF Names
<1>3. /\ r \in Seq(Names) /\ Len(r) = Len(a) /\ Range(r) = Range(a)
      /\ \A i \in 1 .. Len(a) : Len(a) - i + 1 \in 1 .. Len(a) /\ r[i] = a[Len(a) - i + 1]
  <2> HIDE DEF a
  <2>1. QED
    BY <1>2, ReverseAt
<1>4. rest \in Seq(Names) /\ Range(rest) = S
  <2>1. IsFiniteSet(S)
    <3>1. IsFiniteSet(Names)
      BY ContainersAssumption, FS_AddElement DEF Names
    <3>2. QED
      BY <3>1, FS_Subset
  <2>2. rest \in Seq(S) /\ Range(rest) = S
    BY <1>1, <2>1, SetSeqs
  <2>3. QED
    BY <2>2
<1>5. o \in Seq(Names) /\ Range(o) = Range(r) \cup Range(rest)
  <2> HIDE DEF r
  <2>1. QED
    BY <1>1, <1>3, <1>4, ConcatRange
<1>6. \A i \in DOMAIN o : o[i] \in Named(all) => i \in DOMAIN r /\ o[i] = r[i]
  <2> HIDE DEF r
  <2>1. QED
    BY <1>1, <1>2, <1>3, <1>4, ConcatAt
<1>7. ASSUME NEW i \in DOMAIN o, NEW j \in DOMAIN o, Before(o[i], o[j], all)
      PROVE  j < i
  <2>1. o[j] \in Names
    BY <1>5
  <2>2. o[i] \in Named(all) /\ o[j] \in Named(all)
    BY <1>7, <2>1, BeforeNamed
  <2>3. i \in 1 .. Len(a) /\ j \in 1 .. Len(a) /\ o[i] = r[i] /\ o[j] = r[j]
    <3> HIDE DEF r
    <3>1. QED
      BY <1>3, <1>6, <2>2
  <2> DEFINE k == Len(a) - i + 1
             l == Len(a) - j + 1
  <2>4. k \in 1 .. Len(a) /\ l \in 1 .. Len(a) /\ o[i] = a[k] /\ o[j] = a[l]
    BY <1>3, <2>3
  <2>5. Before(a[k], a[l], all)
    BY <1>7, <2>4
  <2>6. k < l
    <3>1. k \in DOMAIN a /\ l \in DOMAIN a
      BY <1>2, <2>4
    <3> HIDE DEF k, l
    <3>2. QED
      BY <2>5, <3>1, StartOrderAssumption DEF IsStartOrder
  <2>7. Len(a) \in Nat
    BY <1>2
  <2>8. QED
    BY <2>3, <2>6, <2>7
<1>8. stop \subseteq Range(o)
  BY <1>3, <1>4, <1>5
<1>9. QED
  BY <1>7, <1>8

-----------------------------------------------------------------------------
(* The invariants.                                                         *)

\* A container of the service being started has no dependency that is still to
\* come, and neither has one that is to come on a later one.
InStartOrder ==
  phase = "start" =>
    /\ \A i, j \in DOMAIN order : Before(order[i], order[j], all) => i < j
    /\ \A c \in todo, i \in DOMAIN order : ~Before(order[i], ServiceOf[c], all)
    /\ \A c, d \in todo : ServiceOf[c] = ServiceOf[d]

\* Every container of the stop set is before the stop loop, in its hands or behind
\* it, and the loop has the dependents of a service before the service.
InStopOrder ==
  /\ phase \in {"stop"} \cup InStop =>
       /\ StopSvc \subseteq Range(order)
       /\ \A i, j \in DOMAIN order : Before(order[i], order[j], all) => j < i
       /\ \A d \in all : ServiceOf[d] \in StopSvc =>
            d \in todo \cup wasStopped \cup stopFailed \cup ({cur} \ {None})
       /\ \A d \in todo \cup ({cur} \ {None}) : ServiceOf[d] \in StopSvc
  /\ phase = "backup" =>
       \A d \in all : ServiceOf[d] \in StopSvc => d \in wasStopped \cup stopFailed

\* What was stopped is down until the start loop.
Down ==
  /\ phase \in {"stop"} \cup InStop \cup {"backup"} => \A d \in wasStopped : st[d] \notin Up
  /\ phase = "waiting" => st[cur] \notin Up

\* Nothing has a service to be started or stopped at first.
LEMMA InitOrders == Init => InStartOrder /\ InStopOrder /\ Down
BY DEF Init, InStartOrder, InStopOrder, Down, InStop

\* Every step keeps the start loop in order.
LEMMA NextInStartOrder ==
  ASSUME Types, InStartOrder, [Next]_vars
  PROVE  InStartOrder'
<1> USE DEF Types, TypeOK, PhaseInv, InStop, Early, stackVars, loopVars, stopVars, resultVars
<1>1. CASE BackupsDone
  <2>1. order' \in StartOrders /\ todo' = {} /\ all' = all
    BY <1>1 DEF BackupsDone
  <2>2. \A i, j \in DOMAIN order' : Before(order'[i], order'[j], all) => i < j
    BY <2>1, StartOrdersSorted
  <2>3. QED
    BY <2>1, <2>2 DEF InStartOrder
<1>2. CASE NextService
  <2>1. /\ phase = "start" /\ phase' = "start" /\ order \in Seq(Names) /\ order # <<>>
        /\ order' = Tail(order) /\ todo' = Of(Head(order), wasStopped) /\ all' = all
    BY <1>2 DEF NextService, Names
  <2>2. \A i \in DOMAIN order' : i + 1 \in DOMAIN order /\ order'[i] = order[i + 1] /\ i + 1 > 1
    BY <2>1
  <2>3. 1 \in DOMAIN order /\ \A c \in todo' : ServiceOf[c] = order[1]
    BY <2>1 DEF Of
  <2>4. \A i, j \in DOMAIN order : Before(order[i], order[j], all) => i < j
    BY <2>1 DEF InStartOrder
  <2>5. \A i, j \in DOMAIN order' : Before(order'[i], order'[j], all) => i < j
    <3> TAKE i, j \in DOMAIN order'
    <3>1. i \in Nat /\ j \in Nat
      BY <2>1
    <3>2. Before(order'[i], order'[j], all) => i + 1 < j + 1
      BY <2>2, <2>4
    <3>3. QED
      BY <3>1, <3>2
  <2>6. \A c \in todo', i \in DOMAIN order' : ~Before(order'[i], ServiceOf[c], all)
    <3> TAKE c \in todo', i \in DOMAIN order'
    <3>1. Before(order[i + 1], order[1], all) => i + 1 < 1
      BY <2>2, <2>3, <2>4
    <3>2. i \in Nat
      BY <2>1
    <3>3. QED
      BY <2>2, <2>3, <3>1, <3>2
  <2>7. QED
    BY <2>1, <2>3, <2>5, <2>6 DEF InStartOrder
<1>3. ASSUME NEW c \in Containers, Start(c) PROVE InStartOrder'
  BY <1>3 DEF Start, InStartOrder
<1>4. ASSUME all' = all, order' = order, todo' = todo, phase' = phase PROVE InStartOrder'
  BY <1>4 DEF InStartOrder
<1>5. CASE phase' # "start"
  BY <1>5 DEF InStartOrder
<1>6. CASE WaitFails
  BY <1>4, <1>6 DEF WaitFails
<1>7. ASSUME NEW d \in Containers, NEW k \in Conditions, WaitMet(d, k) PROVE InStartOrder'
  BY <1>4, <1>7 DEF WaitMet
<1>8. CASE Expire
  BY <1>4, <1>8 DEF Expire
<1>9. ASSUME NEW c \in Flaky, Drift(c) PROVE InStartOrder'
  BY <1>4, <1>9 DEF Drift
<1>10. CASE UNCHANGED vars
  BY <1>4, <1>10 DEF vars
<1>11. CASE Discover \/ PreHooks \/ Stopped \/ StopFails \/ StopConfirmed \/ WaitStopFails
  BY <1>5, <1>11 DEF Discover, PreHooks, Stopped, StopFails, StopConfirmed, WaitStopFails, GiveUpStop
<1>12. CASE StopsDone \/ StartsDone \/ Finalize \/ ReleaseBatch
  BY <1>5, <1>12 DEF StopsDone, StartsDone, Finalize, ReleaseBatch
<1>13. ASSUME NEW c \in Containers, CallStop(c) \/ Skip(c) \/ BackupOk(c) \/ BackupFails(c) \/ Post(c)
       PROVE  InStartOrder'
  BY <1>5, <1>13 DEF CallStop, Skip, BackupOk, BackupFails, Post
<1>14. QED
  BY <1>1, <1>2, <1>3, <1>6, <1>7, <1>8, <1>9, <1>10, <1>11, <1>12, <1>13 DEF Next, Run

\* A stop loop that has no container whose turn it is has none left.
LEMMA LoopDone ==
  ASSUME Types, InStopOrder, phase = "stop", \A c \in todo : ~InTurn(c)
  PROVE  todo = {}
<1> SUFFICES ASSUME NEW d \in todo PROVE FALSE
  OBVIOUS
<1> DEFINE I == {i \in DOMAIN order : Of(order[i], todo) # {}}
<1>1. order \in Seq(Names)
  BY DEF Types, TypeOK, Names
<1>2. PICK k \in DOMAIN order : order[k] = ServiceOf[d]
  <2>1. ServiceOf[d] \in Range(order)
    BY DEF InStopOrder
  <2>2. QED
    BY <2>1 DEF Range
<1>3. I \in SUBSET (1 .. Len(order)) /\ I # {} /\ Len(order) \in Nat
  <2>1. k \in I
    BY <1>2 DEF Of
  <2>2. DOMAIN order = 1 .. Len(order) /\ Len(order) \in Nat
    BY <1>1
  <2>3. I \subseteq DOMAIN order
    OBVIOUS
  <2> HIDE DEF I
  <2>4. QED
    BY <2>1, <2>2, <2>3
<1>4. PICK i \in I : \A j \in 1 .. i - 1 : j \notin I
  <2> HIDE DEF I
  <2>1. QED
    BY <1>3, FirstPlace
<1>5. PICK c \in todo : ServiceOf[c] = order[i]
  BY DEF Of
<1>6. ASSUME NEW j \in 1 .. i - 1 PROVE Of(order[j], todo) = {}
  <2>1. i \in 1 .. Len(order) /\ Len(order) \in Nat /\ DOMAIN order = 1 .. Len(order)
    BY <1>1
  <2>2. j \in DOMAIN order
    BY <2>1
  <2>3. QED
    BY <1>4, <2>2
<1>7. InTurn(c)
  BY <1>5, <1>6 DEF InTurn
<1>8. QED
  BY <1>7

\* Every step keeps the stop loop in order, and it leaves none of the stop set out.
LEMMA NextInStopOrder ==
  ASSUME Types, InStopOrder, [Next]_vars
  PROVE  InStopOrder'
<1> USE DEF Types, TypeOK, PhaseInv, InStop, Early, stackVars, loopVars, stopVars, resultVars
<1> USE RunAssumption
<1>1. ASSUME all' = all, fresh' = fresh PROVE StopSvc' = StopSvc
  BY <1>1 DEF StopSvc, Cascade, DepNames, DepsOf, Of
<1>2. CASE PreHooks
  <2>1. /\ order' \in StopOrders(StopSvc) /\ todo' = {c \in all : ServiceOf[c] \in StopSvc}
        /\ phase' = "stop" /\ cur' = None
    BY <1>2 DEF PreHooks
  <2>2. StopSvc' = StopSvc /\ all' = all
    BY <1>1, <1>2 DEF PreHooks
  <2>3. StopSvc \in SUBSET Names
    BY DEF StopSvc, Cascade, Names
  <2>4. /\ StopSvc \subseteq Range(order')
        /\ \A i, j \in DOMAIN order' : Before(order'[i], order'[j], all) => j < i
    BY <2>1, <2>3, StopOrdersSorted
  <2>5. QED
    BY <2>1, <2>2, <2>4 DEF InStopOrder
<1>3. ASSUME NEW c \in Containers, CallStop(c) PROVE InStopOrder'
  <2>1. StopSvc' = StopSvc
    BY <1>1, <1>3 DEF CallStop
  <2>2. /\ phase = "stop" /\ phase' \in InStop /\ c \in todo /\ cur' = c /\ todo' = todo \ {c}
        /\ UNCHANGED <<order, all, wasStopped, stopFailed>>
    BY <1>3 DEF CallStop, InTurn
  <2>3. QED
    BY <2>1, <2>2 DEF InStopOrder
<1>4. CASE Stopped
  <2>1. StopSvc' = StopSvc
    BY <1>1, <1>4 DEF Stopped
  <2>2. phase = "stopping" /\ phase' = "waiting" /\ UNCHANGED <<order, all, todo, cur, wasStopped, stopFailed>>
    BY <1>4 DEF Stopped
  <2>3. QED
    BY <2>1, <2>2 DEF InStopOrder
<1>5. CASE StopFails \/ WaitStopFails
  <2>1. /\ phase \in InStop /\ phase' = "stop" /\ cur' = None /\ stopFailed' = stopFailed \cup {cur}
        /\ UNCHANGED <<order, all, fresh, todo, wasStopped>>
    BY <1>5 DEF StopFails, WaitStopFails, GiveUpStop
  <2>2. StopSvc' = StopSvc
    BY <1>1, <2>1
  <2>3. QED
    BY <2>1, <2>2 DEF InStopOrder
<1>6. CASE StopConfirmed
  <2>1. /\ phase \in InStop /\ phase' = "stop" /\ cur' = None /\ wasStopped' = wasStopped \cup {cur}
        /\ UNCHANGED <<order, all, fresh, todo, stopFailed>>
    BY <1>6 DEF StopConfirmed
  <2>2. StopSvc' = StopSvc
    BY <1>1, <2>1
  <2>3. QED
    BY <2>1, <2>2 DEF InStopOrder
<1>7. CASE StopsDone
  <2>1. /\ phase = "stop" /\ phase' = "backup" /\ \A c \in todo : ~InTurn(c)
        /\ UNCHANGED <<all, fresh, wasStopped, stopFailed>>
    BY <1>7 DEF StopsDone
  <2>2. todo = {} /\ cur = None
    BY <2>1, LoopDone
  <2>3. StopSvc' = StopSvc
    BY <1>1, <2>1
  <2>4. QED
    BY <2>1, <2>2, <2>3 DEF InStopOrder
<1>8. ASSUME NEW c \in Containers, Skip(c) \/ BackupOk(c) \/ BackupFails(c) PROVE InStopOrder'
  <2>1. phase = "backup" /\ phase' = "backup" /\ UNCHANGED <<all, fresh, wasStopped, stopFailed>>
    BY <1>8 DEF Skip, BackupOk, BackupFails
  <2>2. StopSvc' = StopSvc
    BY <1>1, <2>1
  <2>3. QED
    BY <2>1, <2>2 DEF InStopOrder
<1>9. ASSUME phase' = phase, UNCHANGED <<all, fresh, order, todo, cur, wasStopped, stopFailed>>
      PROVE  InStopOrder'
  <2>1. StopSvc' = StopSvc
    BY <1>1, <1>9
  <2>2. QED
    BY <1>9, <2>1 DEF InStopOrder
<1>10. CASE Expire
  BY <1>9, <1>10 DEF Expire
<1>11. ASSUME NEW c \in Flaky, Drift(c) PROVE InStopOrder'
  BY <1>9, <1>11 DEF Drift
<1>12. CASE UNCHANGED vars
  BY <1>9, <1>12 DEF vars
<1>13. ASSUME phase' \notin {"stop", "backup"} \cup InStop PROVE InStopOrder'
  BY <1>13 DEF InStopOrder
<1>14. CASE Discover \/ BackupsDone \/ NextService \/ WaitFails \/ StartsDone
  BY <1>13, <1>14 DEF Discover, BackupsDone, NextService, WaitFails, StartsDone
<1>15. CASE Finalize \/ ReleaseBatch
  BY <1>13, <1>15 DEF Finalize, ReleaseBatch
<1>16. ASSUME NEW c \in Containers, Start(c) \/ Post(c) PROVE InStopOrder'
  BY <1>13, <1>16 DEF Start, Post
<1>17. ASSUME NEW d \in Containers, NEW k \in Conditions, WaitMet(d, k) PROVE InStopOrder'
  BY <1>13, <1>17 DEF WaitMet
<1>18. QED
  BY <1>2, <1>3, <1>4, <1>5, <1>6, <1>7, <1>8, <1>10, <1>11, <1>12, <1>14, <1>15, <1>16, <1>17
     DEF Next, Run

\* What was stopped stays down while the rest is stopped and backed up.
LEMMA NextDown ==
  ASSUME Types, Stopping, Down, [Next]_vars
  PROVE  Down'
<1> USE DEF Types, TypeOK, PhaseInv, InStop, Early, Up, Stopping, Down, stackVars, loopVars,
           stopVars, resultVars
<1> USE RunAssumption
<1>1. CASE Discover \/ PreHooks
  BY <1>1 DEF Discover, PreHooks
<1>2. CASE Stopped
  BY <1>2 DEF Stopped, Taken
<1>3. CASE StopFails
  BY <1>3 DEF StopFails, Taken, GiveUpStop
<1>4. CASE StopConfirmed
  BY <1>4 DEF StopConfirmed
<1>5. CASE WaitStopFails
  BY <1>5 DEF WaitStopFails, GiveUpStop
<1>6. CASE StopsDone
  BY <1>6 DEF StopsDone
<1>7. CASE BackupsDone \/ NextService \/ WaitFails \/ StartsDone \/ Finalize \/ ReleaseBatch
  BY <1>7 DEF BackupsDone, NextService, WaitFails, StartsDone, Finalize, ReleaseBatch
<1>8. ASSUME NEW c \in Containers, CallStop(c) PROVE Down'
  BY <1>8 DEF CallStop
<1>9. ASSUME NEW c \in Containers, Skip(c) \/ BackupOk(c) \/ BackupFails(c) PROVE Down'
  BY <1>9 DEF Skip, BackupOk, BackupFails
<1>10. ASSUME NEW c \in Containers, Start(c) \/ Post(c) PROVE Down'
  BY <1>10 DEF Start, Post
<1>11. ASSUME NEW d \in Containers, NEW k \in Conditions, WaitMet(d, k) PROVE Down'
  BY <1>11 DEF WaitMet
<1>12. CASE Expire
  BY <1>12 DEF Expire
<1>13. ASSUME NEW c \in Flaky, Drift(c) PROVE Down'
  BY <1>13 DEF Drift
<1>14. CASE UNCHANGED vars
  BY <1>14 DEF vars
<1>15. QED
  BY <1>1, <1>2, <1>3, <1>4, <1>5, <1>6, <1>7, <1>8, <1>9, <1>10, <1>11, <1>12, <1>13, <1>14
     DEF Next, Run

-----------------------------------------------------------------------------
(* The theorems.                                                           *)

OrderInv == Inv /\ InStartOrder /\ InStopOrder /\ Down

\* The invariant holds in every state.
LEMMA OrderInvariant == Spec => []OrderInv
<1>1. Init => InStartOrder /\ InStopOrder /\ Down
  BY InitOrders
<1>2. Inv /\ InStartOrder /\ InStopOrder /\ Down /\ [Next]_vars
        => InStartOrder' /\ InStopOrder' /\ Down'
  BY NextInStartOrder, NextInStopOrder, NextDown DEF Inv, StopInv
<1>3. QED
  BY Invariant, <1>1, <1>2, PTL DEF Spec, OrderInv

\* startStackServices: a container is started after every stopped container its
\* service depends on, whatever the order of the services outside the graph.
THEOREM RestartOrderTheorem == Spec => RestartOrdered
<1>1. ASSUME OrderInv, [Next]_vars, NEW c \in started' \ started, NEW d \in wasStopped,
             Before(ServiceOf[d], ServiceOf[c], all)
      PROVE  d \in started
  <2> USE DEF OrderInv, Inv, Types, TypeOK, PhaseInv
  <2>1. Start(c)
    <3> USE DEF Next, Run, vars, stackVars, loopVars, stopVars, resultVars
    <3>1. CASE \E x \in Containers : Start(x)
      BY <1>1, <3>1 DEF Start
    <3>2. CASE \E x \in Containers : CallStop(x) \/ Skip(x) \/ BackupOk(x) \/ BackupFails(x) \/ Post(x)
      BY <1>1, <3>2 DEF CallStop, Skip, BackupOk, BackupFails, Post
    <3>3. CASE Discover \/ PreHooks \/ Stopped \/ StopFails \/ StopConfirmed \/ WaitStopFails \/ StopsDone
      BY <1>1, <3>3 DEF Discover, PreHooks, Stopped, StopFails, StopConfirmed, WaitStopFails,
                        GiveUpStop, StopsDone
    <3>4. CASE BackupsDone \/ NextService \/ WaitFails \/ StartsDone \/ Finalize \/ ReleaseBatch
      BY <1>1, <3>4 DEF BackupsDone, NextService, WaitFails, StartsDone, Finalize, ReleaseBatch
    <3>5. CASE (\E x \in Containers, k \in Conditions : WaitMet(x, k)) \/ Expire \/ \E x \in Flaky : Drift(x)
      BY <1>1, <3>5 DEF WaitMet, Expire, Drift
    <3>6. QED
      BY <1>1, <3>1, <3>2, <3>3, <3>4, <3>5
  <2>2. phase = "start" /\ c \in todo
    BY <2>1 DEF Start
  <2>3. d \in started \cup todo \/ ServiceOf[d] \in Range(order)
    BY <1>1, <2>2 DEF StopInv, Starting
  <2>4. ServiceOf[d] \notin Range(order)
    BY <1>1, <2>2 DEF InStartOrder, Range
  <2>5. d \notin todo
    <3>1. c \in Containers /\ ServiceOf[c] \in Names
      BY <1>1, <2>2, ContainersAssumption DEF Names
    <3>2. ~Before(ServiceOf[c], ServiceOf[c], all)
      BY <1>1, <3>1, NotBeforeItself
    <3>3. QED
      BY <1>1, <2>2, <3>2 DEF InStartOrder
  <2>6. QED
    BY <2>3, <2>4, <2>5
<1>2. OrderInv /\ [Next]_vars =>
        [\A c \in started' \ started : \A d \in wasStopped :
           Before(ServiceOf[d], ServiceOf[c], all) => d \in started]_vars
  BY <1>1
<1>3. QED
  BY OrderInvariant, <1>2, PTL DEF Spec, RestartOrdered

\* stopStackServices: Docker is asked to stop a container only when every discovered
\* container that depends on it was stopped or could not be.
THEOREM StopOrderTheorem == Spec => StopOrdered
<1>1. ASSUME OrderInv, [Next]_vars, cur' \in Containers \ {cur}, NEW d \in all,
             Before(ServiceOf[cur'], ServiceOf[d], all)
      PROVE  d \in wasStopped \cup stopFailed
  <2> USE DEF OrderInv, Inv, Types, TypeOK, PhaseInv
  <2>1. CallStop(cur')
    <3> USE RunAssumption
    <3> USE DEF Next, Run, vars, stackVars, loopVars, stopVars, resultVars
    <3>1. CASE \E x \in Containers : CallStop(x)
      BY <1>1, <3>1 DEF CallStop
    <3>2. CASE \E x \in Containers : Start(x) \/ Skip(x) \/ BackupOk(x) \/ BackupFails(x) \/ Post(x)
      BY <1>1, <3>2 DEF Start, Skip, BackupOk, BackupFails, Post
    <3>3. CASE Discover \/ PreHooks \/ Stopped \/ StopFails \/ StopConfirmed \/ WaitStopFails \/ StopsDone
      BY <1>1, <3>3 DEF Discover, PreHooks, Stopped, StopFails, StopConfirmed, WaitStopFails,
                        GiveUpStop, StopsDone
    <3>4. CASE BackupsDone \/ NextService \/ WaitFails \/ StartsDone \/ Finalize \/ ReleaseBatch
      BY <1>1, <3>4 DEF BackupsDone, NextService, WaitFails, StartsDone, Finalize, ReleaseBatch
    <3>5. CASE (\E x \in Containers, k \in Conditions : WaitMet(x, k)) \/ Expire \/ \E x \in Flaky : Drift(x)
      BY <1>1, <3>5 DEF WaitMet, Expire, Drift
    <3>6. QED
      BY <1>1, <3>1, <3>2, <3>3, <3>4, <3>5
  <2> DEFINE c == cur'
  <2>2. phase = "stop" /\ c \in todo /\ InTurn(c) /\ cur = None
    BY <1>1, <2>1 DEF CallStop, InTurn, InStop
  <2>3. ServiceOf[d] \in Names /\ ServiceOf[c] \in StopSvc
    BY <1>1, <2>2, ContainersAssumption DEF Names, InStopOrder
  <2>4. ServiceOf[d] \in StopSvc
    <3>1. ServiceOf[d] \in Services
      BY <1>1, <2>3, BeforeNamed
    <3>2. ServiceOf[c] \in DepNames(ServiceOf[d], all)
      BY <1>1 DEF Before
    <3>3. QED
      BY <2>3, <3>1, <3>2, StopSvcClosed
  <2>5. d \in todo \cup wasStopped \cup stopFailed
    BY <1>1, <2>2, <2>4 DEF InStopOrder
  <2>6. d \notin todo
    <3>1. PICK i \in DOMAIN order : order[i] = ServiceOf[c] /\ \A j \in 1 .. i - 1 : Of(order[j], todo) = {}
      BY <2>2 DEF InTurn
    <3>2. PICK k \in DOMAIN order : order[k] = ServiceOf[d]
      BY <1>1, <2>2, <2>4 DEF InStopOrder, Range
    <3>3. k < i
      BY <1>1, <2>2, <3>1, <3>2 DEF InStopOrder
    <3>4. k \in 1 .. i - 1
      BY <1>1, <3>3
    <3>5. QED
      BY <3>1, <3>2, <3>4 DEF Of
  <2>7. QED
    BY <2>5, <2>6
<1>2. OrderInv /\ [Next]_vars =>
        [cur' \in Containers \ {cur} => \A d \in all :
           Before(ServiceOf[cur'], ServiceOf[d], all) => d \in wasStopped \cup stopFailed]_vars
  BY <1>1
<1>3. QED
  BY OrderInvariant, <1>2, PTL DEF Spec, StopOrdered

\* backupStackServices: a container of the stop set is backed up only when it and all
\* that transitively depend on it are down, except those that could not be stopped.
THEOREM ColdBackupTheorem == Spec => ColdBackup
<1>1. ASSUME OrderInv, [Next]_vars, NEW c \in saved' \ saved, ServiceOf[c] \in StopSvc,
             NEW d \in all, ServiceOf[d] \in Cascade({ServiceOf[c]}, all)
      PROVE  st[d] \notin Up \/ d \in stopFailed
  <2> USE DEF OrderInv, Inv, Types, TypeOK, PhaseInv
  <2>1. phase = "backup"
    <3> USE DEF Next, Run, vars, stackVars, loopVars, stopVars, resultVars
    <3>1. CASE \E x \in Containers : BackupOk(x)
      BY <3>1 DEF BackupOk
    <3>2. CASE \E x \in Containers : CallStop(x) \/ Start(x) \/ Skip(x) \/ BackupFails(x) \/ Post(x)
      BY <1>1, <3>2 DEF CallStop, Start, Skip, BackupFails, Post
    <3>3. CASE Discover \/ PreHooks \/ Stopped \/ StopFails \/ StopConfirmed \/ WaitStopFails \/ StopsDone
      BY <1>1, <3>3 DEF Discover, PreHooks, Stopped, StopFails, StopConfirmed, WaitStopFails,
                        GiveUpStop, StopsDone
    <3>4. CASE BackupsDone \/ NextService \/ WaitFails \/ StartsDone \/ Finalize \/ ReleaseBatch
      BY <1>1, <3>4 DEF BackupsDone, NextService, WaitFails, StartsDone, Finalize, ReleaseBatch
    <3>5. CASE (\E x \in Containers, k \in Conditions : WaitMet(x, k)) \/ Expire \/ \E x \in Flaky : Drift(x)
      BY <1>1, <3>5 DEF WaitMet, Expire, Drift
    <3>6. QED
      BY <1>1, <3>1, <3>2, <3>3, <3>4, <3>5
  <2>2. ServiceOf[d] \in StopSvc
    BY <1>1, CascadeInStopSvc
  <2>3. d \in wasStopped \cup stopFailed
    BY <1>1, <2>1, <2>2 DEF InStopOrder
  <2>4. QED
    BY <1>1, <2>1, <2>3 DEF Down
<1>2. OrderInv /\ [Next]_vars =>
        [\A c \in saved' \ saved : ServiceOf[c] \in StopSvc =>
           \A d \in all : ServiceOf[d] \in Cascade({ServiceOf[c]}, all)
                            => st[d] \notin Up \/ d \in stopFailed]_vars
  BY <1>1
<1>3. QED
  BY OrderInvariant, <1>2, PTL DEF Spec, ColdBackup

=============================================================================
