------------------------------ MODULE DepsProofs ------------------------------
(***************************************************************************)
(* Proofs about Deps: for every graph, with any number of services and any *)
(* cycles, topologicalSort yields the order and stopSet the set that       *)
(* StackBackup takes from them, and every step brings them to their end.   *)
(***************************************************************************)
EXTENDS Deps, StackGraph, FiniteSetTheorems, SequenceTheorems, TLAPS

-----------------------------------------------------------------------------
(* Sequences.                                                              *)

\* The places up to the n-th.
LEMMA Places ==
  ASSUME NEW n \in Nat
  PROVE  /\ \A i \in 1 .. n : i = n \/ i \in 1 .. n - 1
         /\ \A i \in 1 .. n - 1 : i \in 1 .. n /\ i + 1 \in 1 .. n /\ i < n
         /\ \A i \in 1 .. n : i < n => i \in 1 .. n - 1
         /\ \A i \in 1 .. n : n \in 1 .. n /\ n # 0
         /\ \A i \in 1 .. n : i < n + 1 /\ i \in 1 .. n + 1
         /\ \A i \in 1 .. n + 1 : i \in 1 .. n \/ i = n + 1
         /\ n + 1 \in 1 .. n + 1 /\ (n + 1) - 1 = n
  OBVIOUS

\* What appending does.
LEMMA AppendFacts ==
  ASSUME NEW T, NEW s \in Seq(T), NEW e \in T
  PROVE  /\ Append(s, e) \in Seq(T) /\ Len(Append(s, e)) = Len(s) + 1
         /\ \A i \in 1 .. Len(s) : Append(s, e)[i] = s[i]
         /\ Append(s, e)[Len(s) + 1] = e
         /\ Range(Append(s, e)) = Range(s) \cup {e}
         /\ Last(Append(s, e)) = e /\ Append(s, e) # <<>>
<1> DEFINE a == Append(s, e)
<1>1. /\ a \in Seq(T) /\ Len(a) = Len(s) + 1 /\ a[Len(s) + 1] = e /\ a # <<>>
      /\ \A i \in 1 .. Len(s) : a[i] = s[i]
  OBVIOUS
<1>2. DOMAIN a = 1 .. Len(s) + 1 /\ DOMAIN s = 1 .. Len(s) /\ Len(s) \in Nat
  BY <1>1
<1> HIDE DEF a
<1>3. Last(a) = e
  BY <1>1 DEF Last
<1>4. \A i \in 1 .. Len(s) + 1 : i \in 1 .. Len(s) \/ i = Len(s) + 1
  BY <1>2
<1>5. \A i \in 1 .. Len(s) : i \in 1 .. Len(s) + 1
  BY <1>2
<1>6. Len(s) + 1 \in 1 .. Len(s) + 1
  BY <1>2
<1>7. Range(a) = Range(s) \cup {e}
  BY <1>1, <1>2, <1>4, <1>5, <1>6 DEF Range
<1>8. QED
  BY <1>1, <1>3, <1>7 DEF a

\* A sequence is its front and its last element.
LEMMA FrontFacts ==
  ASSUME NEW T, NEW s \in Seq(T), s # <<>>
  PROVE  /\ Front(s) \in Seq(T) /\ Len(Front(s)) = Len(s) - 1 /\ Len(s) \in Nat \ {0}
         /\ \A i \in 1 .. Len(s) - 1 : Front(s)[i] = s[i]
         /\ Last(s) = s[Len(s)] /\ Last(s) \in T
         /\ Range(s) = Range(Front(s)) \cup {Last(s)}
<1> DEFINE f == Front(s)
           n == Len(s)
<1>1. n \in Nat \ {0} /\ DOMAIN s = 1 .. n /\ \A i \in 1 .. n : s[i] \in T
  OBVIOUS
<1>2. f = SubSeq(s, 1, n - 1) /\ Last(s) = s[n]
  BY DEF Front, Last
<1> HIDE DEF f, n
<1>3. n - 1 \in Int /\ n - 1 - 1 + 1 = n - 1 /\ (IF 1 <= n - 1 THEN n - 1 - 1 + 1 ELSE 0) = n - 1
  BY <1>1
<1>4. \A i \in 1 .. n - 1 : i \in 1 .. n /\ 1 + i - 1 = i
  BY <1>1
<1>5. /\ f \in Seq(T) /\ Len(f) = n - 1
      /\ \A i \in 1 .. n - 1 : f[i] = s[i]
  <2>1. /\ f \in Seq(T) /\ Len(f) = (IF 1 <= n - 1 THEN n - 1 - 1 + 1 ELSE 0)
        /\ \A i \in 1 .. n - 1 - 1 + 1 : f[i] = s[1 + i - 1]
    <3>1. \A i \in 1 .. n - 1 : s[i] \in T
      BY <1>1, <1>4
    <3>2. QED
      BY <1>2, <1>3, <3>1, SubSeqProperties
  <2>2. QED
    BY <1>3, <1>4, <2>1
<1>6. DOMAIN f = 1 .. n - 1
  BY <1>5
<1>7. n \in 1 .. n /\ \A i \in 1 .. n : i \in 1 .. n - 1 \/ i = n
  BY <1>1
<1>8. Range(s) \subseteq Range(f) \cup {Last(s)}
  <2> SUFFICES ASSUME NEW i \in 1 .. n PROVE s[i] \in Range(f) \cup {Last(s)}
    BY <1>1 DEF Range
  <2>1. CASE i \in 1 .. n - 1
    BY <1>5, <1>6, <2>1 DEF Range
  <2>2. QED
    BY <1>2, <1>7, <2>1
<1>9. Range(f) \cup {Last(s)} \subseteq Range(s)
  BY <1>1, <1>2, <1>4, <1>5, <1>6, <1>7 DEF Range
<1>10. QED
  BY <1>1, <1>2, <1>5, <1>7, <1>8, <1>9 DEF f, n

\* A sequence is its head and its tail.
LEMMA TailFacts ==
  ASSUME NEW T, NEW s \in Seq(T), s # <<>>
  PROVE  /\ Tail(s) \in Seq(T) /\ Head(s) \in T /\ Len(Tail(s)) = Len(s) - 1
         /\ Range(s) = {Head(s)} \cup Range(Tail(s))
<1> DEFINE t == Tail(s)
<1>1. Len(s) \in Nat \ {0} /\ DOMAIN s = 1 .. Len(s)
  OBVIOUS
<1>2. /\ t \in Seq(T) /\ Len(t) = Len(s) - 1 /\ Head(s) = s[1] /\ Head(s) \in T
      /\ \A i \in 1 .. Len(s) - 1 : t[i] = s[i + 1]
  OBVIOUS
<1>3. DOMAIN t = 1 .. Len(s) - 1
  BY <1>2
<1> HIDE DEF t
<1>4. \A i \in 1 .. Len(s) : i = 1 \/ (i - 1 \in 1 .. Len(s) - 1 /\ i = (i - 1) + 1)
  BY <1>1
<1>5. 1 \in 1 .. Len(s) /\ \A i \in 1 .. Len(s) - 1 : i + 1 \in 1 .. Len(s)
  BY <1>1
<1>6. Range(s) \subseteq {Head(s)} \cup Range(t)
  <2> SUFFICES ASSUME NEW i \in 1 .. Len(s) PROVE s[i] \in {Head(s)} \cup Range(t)
    BY <1>1 DEF Range
  <2>1. CASE i = 1
    BY <1>2, <2>1
  <2>2. CASE i - 1 \in 1 .. Len(s) - 1 /\ i = (i - 1) + 1
    BY <1>2, <1>3, <2>2 DEF Range
  <2>3. QED
    BY <1>4, <2>1, <2>2
<1>7. {Head(s)} \cup Range(t) \subseteq Range(s)
  BY <1>1, <1>2, <1>3, <1>5 DEF Range
<1>8. QED
  BY <1>2, <1>6, <1>7 DEF t

\* Appending something new keeps a sequence free of repetitions.
LEMMA AppendOnce ==
  ASSUME NEW T, NEW s \in Seq(T), NEW e \in T, IsInjective(s), e \notin Range(s)
  PROVE  IsInjective(Append(s, e))
<1>1. /\ Len(s) \in Nat /\ DOMAIN s = 1 .. Len(s) /\ DOMAIN Append(s, e) = 1 .. Len(s) + 1
      /\ \A i \in 1 .. Len(s) : Append(s, e)[i] = s[i] /\ s[i] \in Range(s)
      /\ Append(s, e)[Len(s) + 1] = e
  BY AppendFacts DEF Range
<1> DEFINE a == Append(s, e)
           n == Len(s)
<1>2. SUFFICES ASSUME NEW i \in 1 .. n + 1, NEW j \in 1 .. n + 1, a[i] = a[j]
               PROVE  i = j
  BY <1>1 DEF IsInjective
<1> HIDE DEF a, n
<1>3. (i \in 1 .. n \/ i = n + 1) /\ (j \in 1 .. n \/ j = n + 1)
  BY <1>1 DEF n
<1>4. CASE i \in 1 .. n /\ j \in 1 .. n
  BY <1>1, <1>2, <1>4 DEF IsInjective, a, n
<1>5. QED
  BY <1>1, <1>2, <1>3, <1>4 DEF a, n

\* The last element of a sequence free of repetitions is not in its front.
LEMMA FrontOnce ==
  ASSUME NEW T, NEW s \in Seq(T), s # <<>>, IsInjective(s)
  PROVE  IsInjective(Front(s)) /\ Range(Front(s)) = Range(s) \ {Last(s)}
<1> DEFINE f == Front(s)
           n == Len(s)
<1>1. /\ f \in Seq(T) /\ Len(f) = n - 1 /\ n \in Nat \ {0} /\ DOMAIN s = 1 .. n
      /\ \A i \in 1 .. n - 1 : f[i] = s[i]
      /\ Last(s) = s[n] /\ Range(s) = Range(f) \cup {Last(s)}
  BY FrontFacts
<1>2. DOMAIN f = 1 .. n - 1
  BY <1>1
<1> HIDE DEF f, n
<1>3. n \in 1 .. n /\ \A i \in 1 .. n - 1 : i \in 1 .. n /\ i # n
  BY <1>1
<1>4. IsInjective(f)
  BY <1>1, <1>2, <1>3 DEF IsInjective
<1>5. Last(s) \notin Range(f)
  BY <1>1, <1>2, <1>3 DEF IsInjective, Range
<1>6. QED
  BY <1>1, <1>4, <1>5 DEF f

\* What putting another element last does.
LEMMA ReplaceLast ==
  ASSUME NEW T, NEW s \in Seq(T), s # <<>>, NEW e \in T
  PROVE  LET r == Append(Front(s), e)
         IN  /\ r \in Seq(T) /\ Len(r) = Len(s) /\ r[Len(s)] = e
             /\ Len(s) \in Nat \ {0} /\ \A i \in 1 .. Len(s) - 1 : r[i] = s[i]
<1> DEFINE f == Front(s)
           r == Append(f, e)
<1>1. /\ f \in Seq(T) /\ Len(f) = Len(s) - 1 /\ Len(s) \in Nat \ {0}
      /\ \A i \in 1 .. Len(s) - 1 : f[i] = s[i]
  BY FrontFacts
<1> HIDE DEF f
<1>2. /\ r \in Seq(T) /\ Len(r) = Len(f) + 1 /\ r[Len(f) + 1] = e
      /\ \A i \in 1 .. Len(f) : r[i] = f[i]
  BY <1>1, AppendFacts
<1> HIDE DEF r
<1>3. Len(f) + 1 = Len(s)
  BY <1>1
<1>4. QED
  BY <1>1, <1>2, <1>3 DEF f, r

Earlier(s, a, b) == \E i, j \in DOMAIN s : i < j /\ s[i] = a /\ s[j] = b

\* Appending keeps the order and comes after all.
LEMMA EarlierAppend ==
  ASSUME NEW T, NEW s \in Seq(T), NEW e \in T
  PROVE  /\ \A a, b : Earlier(s, a, b) => Earlier(Append(s, e), a, b)
         /\ \A a \in Range(s) : Earlier(Append(s, e), a, e)
<1> DEFINE r == Append(s, e)
           n == Len(s)
<1>1. /\ n \in Nat /\ DOMAIN s = 1 .. n /\ DOMAIN r = 1 .. n + 1
      /\ \A i \in 1 .. n : r[i] = s[i]
      /\ r[n + 1] = e
  BY AppendFacts
<1> HIDE DEF r, n
<1>2. n + 1 \in 1 .. n + 1 /\ \A i \in 1 .. n : i \in 1 .. n + 1 /\ i < n + 1
  BY <1>1
<1>3. ASSUME NEW a, NEW b, Earlier(s, a, b) PROVE Earlier(r, a, b)
  BY <1>1, <1>2, <1>3 DEF Earlier
<1>4. ASSUME NEW a \in Range(s) PROVE Earlier(r, a, e)
  <2>1. PICK i \in 1 .. n : s[i] = a
    BY <1>1 DEF Range
  <2>2. QED
    BY <1>1, <1>2, <2>1 DEF Earlier
<1>5. QED
  BY <1>3, <1>4 DEF r

\* A set of places has a first one.
LEMMA FirstPlace ==
  ASSUME NEW n \in Nat, NEW I \in SUBSET (1 .. n), I # {}
  PROVE  \E i \in I : \A j \in 1 .. i - 1 : j \notin I
<1> DEFINE S == 1 .. n
           T == {1 .. i : i \in I}
           R == StrictSubsetOrdering(S)
<1>1. IsWellFoundedOn(R, FiniteSubsetsOf(S))
  BY FS_StrictSubsetOrderingWellFounded
<1>2. T \subseteq FiniteSubsetsOf(S) /\ T # {}
  <2>1. \A i \in I : 1 .. i \subseteq S /\ IsFiniteSet(1 .. i)
    BY FS_Interval
  <2>2. QED
    BY <2>1 DEF FiniteSubsetsOf
<1>3. PICK x \in T : \A y \in T : <<y, x>> \notin R
  BY <1>1, <1>2, WFMin
<1>4. PICK i \in I : x = 1 .. i
  BY <1>3
<1>5. ASSUME NEW j \in 1 .. i - 1, j \in I PROVE FALSE
  <2>1. 1 .. j \in T
    BY <1>5
  <2>2. 1 .. j \subseteq 1 .. i /\ 1 .. j # 1 .. i
    <3>1. i \in 1 .. i /\ i \notin 1 .. j
      OBVIOUS
    <3>2. QED
      BY <3>1
  <2>3. <<1 .. j, x>> \in R
    BY <1>4, <2>2 DEF StrictSubsetOrdering
  <2>4. QED
    BY <1>3, <2>1, <2>3
<1>6. QED
  BY <1>5

-----------------------------------------------------------------------------
(* Reachability.                                                           *)

Typed ==
  /\ graph \in [AllNames -> Seq(AllNames)]
  /\ call \in {"sort", "stop"}
  /\ todo \subseteq AllNames
  /\ path \in Seq(AllNames)
  /\ left \in [AllNames -> Seq(AllNames)]
  /\ temp \subseteq AllNames /\ visited \subseteq AllNames /\ warned \subseteq AllNames
  /\ result \in Seq(AllNames)
  /\ batch \subseteq AllNames /\ roots \subseteq AllNames /\ stop \subseteq AllNames
  /\ branches \in Seq(SUBSET AllNames)

\* A set with every dependency of its services.
Closed(X) == \A svc \in X : Range(graph[svc]) \subseteq X

\* What is reached is in every closed set that has the first dependencies.
LEMMA ReachesMeans ==
  ASSUME NEW a, NEW b
  PROVE  Reaches(a, b) <=>
           /\ b \in AllNames
           /\ \A X \in SUBSET AllNames : Range(graph[a]) \subseteq X /\ Closed(X) => b \in X
<1> DEFINE F == [svc \in AllNames |-> Range(graph[svc])]
<1>1. \A X \in SUBSET AllNames : Closed(X) <=> \A svc \in X : F[svc] \subseteq X
  BY DEF Closed
<1>2. Reaches(a, b) <=> b \in Closure(Range(graph[a]), F)
  BY DEF Reaches
<1> HIDE DEF F
<1>3. QED
  BY <1>1, <1>2 DEF Closure

\* A dependency is reached.
LEMMA ReachesDependency ==
  ASSUME Typed, NEW a \in AllNames, NEW b \in Range(graph[a])
  PROVE  Reaches(a, b)
<1>1. b \in AllNames
  BY DEF Typed, Range
<1>2. QED
  BY <1>1, ReachesMeans

\* So are those of what is reached.
LEMMA ReachesOn ==
  ASSUME Typed, NEW a, NEW b, Reaches(a, b), NEW c \in Range(graph[b])
  PROVE  Reaches(a, c)
<1>1. b \in AllNames
  BY ReachesMeans
<1>2. c \in AllNames
  BY <1>1 DEF Typed, Range
<1>3. ASSUME NEW X \in SUBSET AllNames, Range(graph[a]) \subseteq X, Closed(X)
      PROVE  c \in X
  <2>1. b \in X
    BY <1>3, ReachesMeans
  <2>2. QED
    BY <1>3, <2>1 DEF Closed
<1>4. QED
  BY <1>2, <1>3, ReachesMeans

\* Each service on the path is a dependency of the one before.
Chain == \A i \in 1 .. Len(path) - 1 : path[i + 1] \in Range(graph[path[i]])

\* A service on the path reaches the later ones.
LEMMA PathReaches ==
  ASSUME Typed, Chain, NEW i \in 1 .. Len(path), NEW j \in 1 .. Len(path), i < j
  PROVE  Reaches(path[i], path[j])
<1>1. Len(path) \in Nat /\ path[j] \in AllNames
  BY DEF Typed
<1>2. ASSUME NEW X \in SUBSET AllNames, Range(graph[path[i]]) \subseteq X, Closed(X)
      PROVE  path[j] \in X
  <2> SUFFICES ASSUME path[j] \notin X PROVE FALSE
    OBVIOUS
  <2> DEFINE I == {k \in 1 .. Len(path) : i < k /\ path[k] \notin X}
  <2>1. I \in SUBSET (1 .. Len(path)) /\ j \in I
    OBVIOUS
  <2>2. PICK k \in I : \A l \in 1 .. k - 1 : l \notin I
    <3> HIDE DEF I
    <3>1. QED
      BY <1>1, <2>1, FirstPlace
  <2>3. k - 1 \in 1 .. Len(path) - 1 /\ k - 1 \in 1 .. Len(path) /\ k = (k - 1) + 1 /\ i < k
    BY <1>1
  <2>4. path[k] \in Range(graph[path[k - 1]])
    BY <2>3 DEF Chain
  <2>5. CASE k - 1 = i
    BY <1>2, <2>4, <2>5
  <2>6. CASE i < k - 1
    <3>1. k - 1 \notin I
      BY <2>2, <2>3
    <3>2. path[k - 1] \in X
      BY <2>3, <2>6, <3>1
    <3>3. QED
      BY <1>2, <2>4, <3>2 DEF Closed
  <2>7. QED
    BY <1>1, <2>3, <2>5, <2>6
<1>3. QED
  BY <1>1, <1>2, ReachesMeans

-----------------------------------------------------------------------------
(* The inductive invariant.                                                *)

\* One search runs, the other has not begun.
CallInv ==
  /\ call = "sort" => roots = {} /\ stop = {} /\ branches = <<>>
  /\ call = "stop" => todo = {} /\ path = <<>> /\ temp = {} /\ visited = {}

\* temp is the path, visited the result, and each lists a service once.
ListInv ==
  /\ temp = Range(path) /\ IsInjective(path) /\ Chain
  /\ visited = Range(result) /\ IsInjective(result)
  /\ temp \cap visited = {}

\* Each service mentioned is to come, on the path or listed, and so is each
\* dependency of a service on the path its loop has left behind.
CoverInv ==
  /\ call = "sort" => /\ AllServices(graph) \subseteq todo \cup temp \cup visited
                      /\ todo \cup temp \cup visited \subseteq AllServices(graph)
  /\ \A n \in temp : /\ Range(left[n]) \subseteq Range(graph[n])
                     /\ Range(graph[n]) \subseteq Range(left[n]) \cup temp \cup visited

\* A dependency is listed before its dependent, or reaches it.
OrderInv ==
  \A svc \in visited : \A dep \in Range(graph[svc]) : Earlier(result, dep, svc) \/ Reaches(dep, svc)

\* Who is warned of is on a cycle; without a warning every dependency is listed
\* first, and those of the path so far are listed or next on the path.
WarnInv ==
  /\ \A n \in warned : Reaches(n, n)
  /\ warned = {} =>
       /\ \A svc \in visited : \A dep \in Range(graph[svc]) : Earlier(result, dep, svc)
       /\ \A i \in 1 .. Len(path) :
            \A dep \in Range(graph[path[i]]) :
              \/ dep \in Range(left[path[i]]) \cup visited
              \/ i < Len(path) /\ dep = path[i + 1]

\* A set with every dependent of its services.
Upward(X) == \A svc \in X : Dependents(svc) \subseteq X

\* The services found are in every set the closure must be in, and each dependent
\* of theirs is found or to come.
StopInv ==
  /\ roots \subseteq batch /\ batch \subseteq stop \cup roots
  /\ \A X \in SUBSET AllNames : batch \subseteq X /\ Upward(X) =>
       stop \subseteq X /\ \A i \in 1 .. Len(branches) : branches[i] \subseteq X
  /\ \A svc \in stop : \A t \in Dependents(svc) :
       t \in stop \/ \E i \in 1 .. Len(branches) : t \in branches[i]

IInv ==
  Typed /\ CallInv /\ ListInv /\ CoverInv /\ OrderInv /\ WarnInv /\ StopInv

-----------------------------------------------------------------------------
(* topologicalSort keeps it.                                               *)

\* The state of one search is not touched by the other.
LEMMA OtherSearch ==
  ASSUME IInv, UNCHANGED <<graph, call>>
  PROVE  /\ UNCHANGED stopVars => StopInv'
         /\ UNCHANGED <<visited, result>> => OrderInv'
         /\ UNCHANGED sortVars => ListInv' /\ CoverInv' /\ OrderInv' /\ WarnInv'
         /\ AllServices(graph)' = AllServices(graph)
         /\ \A a, b : Reaches(a, b)' = Reaches(a, b)
<1>1. \A a, b : Reaches(a, b)' = Reaches(a, b)
  BY DEF Reaches, Closure
<1>2. ASSUME UNCHANGED stopVars PROVE StopInv'
  BY <1>2 DEF IInv, StopInv, Upward, Dependents, stopVars
<1>3. ASSUME UNCHANGED <<visited, result>> PROVE OrderInv'
  BY <1>1, <1>3 DEF IInv, OrderInv, Earlier
<1>4. ASSUME UNCHANGED sortVars PROVE ListInv' /\ CoverInv' /\ WarnInv'
  <2>1. ListInv'
    BY <1>4 DEF IInv, ListInv, Chain, sortVars
  <2>2. CoverInv'
    BY <1>4 DEF IInv, CoverInv, AllServices, sortVars
  <2>3. WarnInv'
    <3>1. WarnInv /\ UNCHANGED <<graph, path, left, visited, result, warned>>
      BY <1>4 DEF IInv, sortVars
    <3>2. QED
      BY <1>1, <3>1 DEF WarnInv
  <2>4. QED
    BY <2>1, <2>2, <2>3
<1>5. AllServices(graph)' = AllServices(graph)
  BY DEF AllServices
<1>6. QED
  BY <1>1, <1>2, <1>3, <1>4, <1>5 DEF sortVars

\* Whoever the visit is for: one the outer loop has left, or a dependency of the
\* innermost visit, which its loop then no longer has left.
LEMMA VisitKeeps ==
  ASSUME IInv, call = "sort", NEW n \in AllServices(graph),
         NEW rest \in [AllNames -> Seq(AllNames)],
         todo' \subseteq todo, todo \subseteq todo' \cup {n},
         path # <<>> => n \in Range(graph[Last(path)]),
         \A m \in temp : /\ Range(rest[m]) \subseteq Range(left[m])
                         /\ Range(left[m]) \subseteq Range(rest[m]) \cup {n}
                         /\ m # Last(path) => rest[m] = left[m],
         Visit(n, rest)
  PROVE  IInv'
<1>1. /\ UNCHANGED <<graph, call, visited, result, stopVars>>
      /\ Typed /\ CallInv /\ ListInv /\ CoverInv /\ OrderInv /\ WarnInv /\ StopInv
  BY DEF IInv, Visit
<1>2. /\ n \in AllNames /\ StopInv' /\ OrderInv' /\ AllServices(graph)' = AllServices(graph)
      /\ \A a, b : Reaches(a, b)' = Reaches(a, b)
  <2>1. n \in AllNames
    BY <1>1 DEF AllServices, Typed, Range
  <2>2. QED
    BY <1>1, <2>1, OtherSearch
<1>3. /\ temp = Range(path) /\ Len(path) \in Nat /\ DOMAIN path = 1 .. Len(path)
      /\ \A i \in 1 .. Len(path) : path[i] \in temp
  <2>1. Len(path) \in Nat /\ DOMAIN path = 1 .. Len(path)
    BY <1>1 DEF Typed
  <2>2. QED
    BY <1>1, <2>1 DEF ListInv, Range
<1>4. /\ UNCHANGED <<batch, roots, stop, branches>> /\ CallInv'
  BY <1>1 DEF stopVars, CallInv
<1>5. ASSUME UNCHANGED <<path, temp>>, left' = rest,
             \/ n \in visited /\ warned' = warned
             \/ n \in temp /\ warned' = warned \cup {n}
      PROVE  IInv'
  <2>1. Typed'
    BY <1>1, <1>2, <1>4, <1>5 DEF Typed
  <2>2. ListInv'
    BY <1>1, <1>5 DEF ListInv, Chain
  <2>3. CoverInv'
    <3>1. call' = "sort" => /\ AllServices(graph)' \subseteq todo' \cup temp' \cup visited'
                            /\ todo' \cup temp' \cup visited' \subseteq AllServices(graph)'
      BY <1>1, <1>2, <1>5 DEF CoverInv
    <3>2. ASSUME NEW m \in temp'
          PROVE  /\ Range(left'[m]) \subseteq Range(graph'[m])
                 /\ Range(graph'[m]) \subseteq Range(left'[m]) \cup temp' \cup visited'
      BY <1>1, <1>5, <3>2 DEF CoverInv
    <3>3. QED
      BY <3>1, <3>2 DEF CoverInv
  <2>4. WarnInv'
    <3>1. CASE n \in visited /\ warned' = warned
      <4>1. ASSUME warned = {}, NEW i \in 1 .. Len(path), NEW dep \in Range(graph[path[i]])
            PROVE  \/ dep \in Range(rest[path[i]]) \cup visited
                   \/ i < Len(path) /\ dep = path[i + 1]
        BY <1>1, <1>3, <3>1, <4>1 DEF WarnInv
      <4>2. QED
        BY <1>1, <1>2, <1>5, <3>1, <4>1 DEF WarnInv
    <3>2. CASE n \in temp /\ warned' = warned \cup {n}
      <4>1. PICK i \in 1 .. Len(path) : path[i] = n
        BY <1>3, <3>2 DEF Range
      <4>2. path # <<>> /\ Len(path) \in 1 .. Len(path) /\ Last(path) = path[Len(path)]
        <5>1. Len(path) \in 1 .. Len(path) /\ Len(path) # 0
          BY <1>3, <4>1, Places
        <5>2. QED
          BY <5>1 DEF Last
      <4>3. Reaches(n, n)
        <5>1. CASE i = Len(path)
          <6>1. n \in Range(graph[n])
            BY <4>1, <4>2, <5>1
          <6>2. QED
            BY <1>1, <1>2, <6>1, ReachesDependency
        <5>2. CASE i \in 1 .. Len(path) - 1
          <6>0. i < Len(path)
            BY <1>3, <5>2, Places
          <6>1. Reaches(n, Last(path))
            BY <1>1, <4>1, <4>2, <6>0, PathReaches DEF ListInv
          <6>2. QED
            BY <1>1, <4>2, <6>1, ReachesOn
        <5>3. QED
          BY <1>3, <4>1, <5>1, <5>2, Places
      <4>4. QED
        BY <1>1, <1>2, <3>2, <4>3 DEF WarnInv
    <3>3. QED
      BY <1>5, <3>1, <3>2
  <2>5. QED
    BY <1>2, <1>4, <2>1, <2>2, <2>3, <2>4 DEF IInv
<1>6. ASSUME n \notin visited, n \notin temp, temp' = temp \cup {n}, path' = Append(path, n),
             left' = [rest EXCEPT ![n] = graph[n]], warned' = warned
      PROVE  IInv'
  <2>1. /\ path' \in Seq(AllNames) /\ Len(path') = Len(path) + 1
        /\ \A i \in 1 .. Len(path) : path'[i] = path[i]
        /\ path'[Len(path) + 1] = n /\ Range(path') = Range(path) \cup {n}
    BY <1>1, <1>2, <1>6, AppendFacts DEF Typed
  <2>2. /\ left' \in [AllNames -> Seq(AllNames)] /\ left'[n] = graph[n]
        /\ \A m \in temp : left'[m] = rest[m]
    BY <1>1, <1>2, <1>6 DEF Typed
  <2>3. Len(path') - 1 = Len(path)
    BY <1>3, <2>1, Places
  <2>4. Typed'
    BY <1>1, <1>2, <1>4, <1>6, <2>1, <2>2 DEF Typed
  <2>5. ListInv'
    <3>1. temp' = Range(path') /\ temp' \cap visited' = {} /\ visited' = Range(result')
      BY <1>1, <1>6, <2>1 DEF ListInv
    <3>2. IsInjective(path') /\ IsInjective(result')
      BY <1>1, <1>2, <1>3, <1>6, AppendOnce DEF ListInv, Typed
    <3>3. ASSUME NEW i \in 1 .. Len(path') - 1
          PROVE  path'[i + 1] \in Range(graph'[path'[i]])
      <4>1. i \in 1 .. Len(path) /\ path'[i] = path[i]
        BY <2>1, <2>3
      <4>2. CASE i \in 1 .. Len(path) - 1
        <5>1. i + 1 \in 1 .. Len(path)
          BY <1>3, <4>2, Places
        <5>2. QED
          BY <1>1, <2>1, <4>1, <4>2, <5>1 DEF ListInv, Chain
      <4>3. CASE i = Len(path)
        <5>1. path # <<>> /\ path[i] = Last(path) /\ path'[i + 1] = n
          <6>1. Len(path) # 0
            BY <1>3, <4>1, Places
          <6>2. QED
            BY <2>1, <4>3, <6>1 DEF Last
        <5>2. QED
          BY <1>1, <4>1, <5>1
      <4>4. QED
        BY <1>3, <4>1, <4>2, <4>3, Places
    <3>4. QED
      BY <3>1, <3>2, <3>3 DEF ListInv, Chain
  <2>6. CoverInv'
    <3>1. call' = "sort" => /\ AllServices(graph)' \subseteq todo' \cup temp' \cup visited'
                            /\ todo' \cup temp' \cup visited' \subseteq AllServices(graph)'
      BY <1>1, <1>2, <1>6 DEF CoverInv
    <3>2. ASSUME NEW m \in temp'
          PROVE  /\ Range(left'[m]) \subseteq Range(graph'[m])
                 /\ Range(graph'[m]) \subseteq Range(left'[m]) \cup temp' \cup visited'
      <4>1. CASE m = n
        BY <1>1, <2>2, <4>1
      <4>2. CASE m \in temp
        BY <1>1, <1>6, <2>2, <4>2 DEF CoverInv
      <4>3. QED
        BY <1>6, <3>2, <4>1, <4>2
    <3>3. QED
      BY <3>1, <3>2 DEF CoverInv
  <2>7. WarnInv'
    <3>1. ASSUME warned = {}, NEW i \in 1 .. Len(path'), NEW dep \in Range(graph[path'[i]])
          PROVE  \/ dep \in Range(left'[path'[i]]) \cup visited
                 \/ i < Len(path') /\ dep = path'[i + 1]
      <4>1. CASE i = Len(path) + 1
        BY <2>1, <2>2, <3>1, <4>1
      <4>2. CASE i \in 1 .. Len(path)
        <5>1. path'[i] = path[i] /\ path[i] \in temp /\ i < Len(path')
          BY <1>3, <2>1, <4>2, Places
        <5>2. CASE dep \in visited
          BY <5>2
        <5>3. CASE i < Len(path) /\ dep = path[i + 1]
          <6>1. i + 1 \in 1 .. Len(path)
            BY <1>3, <4>2, <5>3, Places
          <6>2. QED
            BY <2>1, <5>1, <5>3, <6>1
        <5>4. CASE dep \in Range(left[path[i]])
          <6>1. CASE i = Len(path)
            BY <2>1, <2>2, <5>1, <5>4, <6>1
          <6>2. CASE i \in 1 .. Len(path) - 1
            <7>1. Len(path) \in 1 .. Len(path) /\ i # Len(path)
              BY <1>3, <4>2, <6>2, Places
            <7>2. path[i] # Last(path)
              BY <1>1, <1>3, <4>2, <7>1 DEF ListInv, IsInjective, Last
            <7>3. QED
              BY <2>2, <5>1, <5>4, <7>2
          <6>3. QED
            BY <1>3, <4>2, <6>1, <6>2, Places
        <5>5. QED
          BY <1>1, <3>1, <4>2, <5>1, <5>2, <5>3, <5>4 DEF WarnInv
      <4>3. QED
        BY <1>3, <2>1, <4>1, <4>2, Places
    <3>2. QED
      BY <1>1, <1>2, <1>6, <3>1 DEF WarnInv
  <2>8. QED
    BY <1>2, <1>4, <2>4, <2>5, <2>6, <2>7 DEF IInv
<1>7. QED
  BY <1>5, <1>6 DEF Visit, Known, OnPath

\* The next service of the outer loop.
LEMMA VisitRootKeeps ==
  ASSUME IInv, NEW i \in DOMAIN Names, VisitRoot(i)
  PROVE  IInv'
<1> DEFINE n == Names[i]
<1>1. /\ Typed /\ ListInv /\ CoverInv /\ call = "sort" /\ path = <<>>
      /\ n \in todo /\ todo' = todo \ {n} /\ Visit(n, left)
  BY DEF IInv, VisitRoot
<1>2. n \in AllServices(graph) /\ left \in [AllNames -> Seq(AllNames)] /\ temp = {}
  BY <1>1 DEF CoverInv, ListInv, Typed, Range
<1> HIDE DEF n
<1>3. QED
  BY <1>1, <1>2, VisitKeeps

\* The next dependency of the innermost visit.
LEMMA VisitDependencyKeeps ==
  ASSUME IInv, VisitDependency
  PROVE  IInv'
<1> DEFINE p == Last(path)
           n == Head(left[p])
           rest == [left EXCEPT ![p] = Tail(@)]
<1>1. /\ Typed /\ CallInv /\ ListInv /\ CoverInv /\ path # <<>> /\ left[p] # <<>>
      /\ Visit(n, rest) /\ todo' = todo
  BY DEF IInv, VisitDependency
<1>2. p \in AllNames /\ p \in temp
  BY <1>1, FrontFacts DEF Typed, ListInv
<1>3. call = "sort"
  BY <1>1 DEF Typed, CallInv
<1>4. /\ Tail(left[p]) \in Seq(AllNames) /\ n \in AllNames
      /\ Range(left[p]) = {n} \cup Range(Tail(left[p]))
  BY <1>1, <1>2, TailFacts DEF Typed
<1>5. /\ rest \in [AllNames -> Seq(AllNames)] /\ rest[p] = Tail(left[p])
      /\ \A m \in AllNames : m # p => rest[m] = left[m]
  BY <1>1, <1>2, <1>4 DEF Typed
<1>6. n \in Range(graph[p]) /\ n \in AllServices(graph)
  BY <1>1, <1>2, <1>4 DEF CoverInv, AllServices
<1>7. temp \subseteq AllNames
  BY <1>1 DEF Typed
<1> HIDE DEF n, rest
<1>8. \A m \in temp : /\ Range(rest[m]) \subseteq Range(left[m])
                      /\ Range(left[m]) \subseteq Range(rest[m]) \cup {n}
                      /\ m # p => rest[m] = left[m]
  BY <1>4, <1>5, <1>7
<1>9. QED
  BY <1>1, <1>3, <1>5, <1>6, <1>8, VisitKeeps

\* The innermost visit returns: what its service depends on is listed, or on the
\* path with it.
LEMMA LeaveKeeps ==
  ASSUME IInv, Leave
  PROVE  IInv'
<1> DEFINE p == Last(path)
           k == Len(path)
<1>1. /\ Typed /\ CallInv /\ ListInv /\ CoverInv /\ OrderInv /\ WarnInv /\ StopInv
      /\ path # <<>> /\ left[p] = <<>>
      /\ path' = Front(path) /\ temp' = temp \ {p} /\ visited' = visited \cup {p}
      /\ result' = Append(result, p)
      /\ UNCHANGED <<graph, call, todo, left, warned, stopVars>>
  BY DEF IInv, Leave
<1>2. /\ path \in Seq(AllNames) /\ result \in Seq(AllNames)
      /\ IsInjective(path) /\ IsInjective(result)
      /\ temp = Range(path) /\ visited = Range(result) /\ temp \cap visited = {}
  BY <1>1 DEF Typed, ListInv
<1>3. /\ path' \in Seq(AllNames) /\ Len(path') = k - 1 /\ k \in Nat \ {0}
      /\ \A i \in 1 .. k - 1 : path'[i] = path[i]
      /\ p = path[k] /\ p \in AllNames /\ p \in temp
  <2>1. /\ Front(path) \in Seq(AllNames) /\ Len(Front(path)) = k - 1 /\ k \in Nat \ {0}
        /\ \A i \in 1 .. k - 1 : Front(path)[i] = path[i]
        /\ p = path[k] /\ p \in AllNames /\ Range(path) = Range(Front(path)) \cup {p}
    BY <1>1, <1>2, FrontFacts
  <2> HIDE DEF p, k
  <2>2. QED
    BY <1>1, <1>2, <2>1
<1>4. /\ StopInv' /\ AllServices(graph)' = AllServices(graph)
      /\ \A a, b : Reaches(a, b)' = Reaches(a, b)
  BY <1>1, OtherSearch
<1>5. Typed'
  <2>1. result' \in Seq(AllNames)
    BY <1>1, <1>2, <1>3
  <2>2. QED
    BY <1>1, <1>3, <2>1 DEF Typed, stopVars
<1>6. CallInv'
  BY <1>1 DEF Typed, CallInv, stopVars
<1>7. ListInv'
  <2>1. IsInjective(path') /\ temp' = Range(path')
    BY <1>1, <1>2, FrontOnce
  <2>2. IsInjective(result') /\ visited' = Range(result')
    <3>1. p \notin Range(result)
      BY <1>2, <1>3
    <3>2. QED
      BY <1>1, <1>2, <1>3, <3>1, AppendOnce, AppendFacts
  <2>3. temp' \cap visited' = {}
    BY <1>1, <1>2
  <2>4. ASSUME NEW i \in 1 .. Len(path') - 1
        PROVE  path'[i + 1] \in Range(graph'[path'[i]])
    <3>1. k - 1 \in Nat
      BY <1>3
    <3>2. i \in 1 .. k - 1 /\ i + 1 \in 1 .. k - 1
      BY <1>3, <3>1, Places
    <3>3. path'[i] = path[i] /\ path'[i + 1] = path[i + 1]
      BY <1>3, <3>2
    <3>4. QED
      BY <1>1, <3>2, <3>3 DEF ListInv, Chain
  <2>5. QED
    BY <2>1, <2>2, <2>3, <2>4 DEF ListInv, Chain
<1>8. Range(graph[p]) \subseteq temp \cup visited /\ Range(left[p]) = {}
  BY <1>1, <1>3 DEF CoverInv, Range
<1>9. CoverInv'
  BY <1>1, <1>3, <1>4 DEF CoverInv
<1>10. /\ \A a, b : Earlier(result, a, b) => Earlier(result', a, b)
       /\ \A a \in visited : Earlier(result', a, p)
  BY <1>1, <1>2, <1>3, EarlierAppend
<1>11. OrderInv'
  <2> SUFFICES ASSUME NEW svc \in visited', NEW dep \in Range(graph[svc])
               PROVE  Earlier(result', dep, svc) \/ Reaches(dep, svc)
    BY <1>1, <1>4 DEF OrderInv
  <2>1. CASE svc \in visited
    BY <1>1, <1>10, <2>1 DEF OrderInv
  <2>2. CASE svc = p
    <3>1. CASE dep \in visited
      BY <1>10, <2>2, <3>1
    <3>2. CASE dep \in temp
      <4>1. DOMAIN path = 1 .. k
        BY <1>2
      <4>2. PICK i \in 1 .. k : path[i] = dep
        BY <1>2, <3>2, <4>1 DEF Range
      <4>3. CASE i = k
        <5>1. dep = svc
          BY <1>3, <2>2, <4>2, <4>3
        <5>2. QED
          BY <1>1, <1>3, <2>2, <5>1, ReachesDependency
      <4>4. CASE i \in 1 .. k - 1
        <5>1. i < k /\ k \in 1 .. k
          BY <1>3, <4>4, Places
        <5>2. QED
          BY <1>1, <1>3, <2>2, <4>2, <5>1, PathReaches DEF ListInv
      <4>5. QED
        BY <1>3, <4>2, <4>3, <4>4, Places
    <3>3. QED
      BY <1>8, <2>2, <3>1, <3>2
  <2>3. QED
    BY <1>1, <2>1, <2>2
<1>12. WarnInv'
  <2>1. \A n \in warned' : Reaches(n, n)'
    BY <1>1, <1>4 DEF WarnInv
  <2>2. ASSUME warned = {}, NEW svc \in visited', NEW dep \in Range(graph[svc])
        PROVE  Earlier(result', dep, svc)
    <3>1. CASE svc \in visited
      BY <1>1, <1>10, <2>2, <3>1 DEF WarnInv
    <3>2. CASE svc = p
      <4>1. k \in 1 .. k /\ ~(k < k)
        BY <1>3
      <4>2. dep \in visited
        BY <1>1, <1>3, <1>8, <2>2, <3>2, <4>1 DEF WarnInv
      <4>3. QED
        BY <1>10, <3>2, <4>2
    <3>3. QED
      BY <1>1, <3>1, <3>2
  <2>3. ASSUME warned = {}, NEW i \in 1 .. Len(path'), NEW dep \in Range(graph[path'[i]])
        PROVE  \/ dep \in Range(left[path'[i]]) \cup visited'
               \/ i < Len(path') /\ dep = path'[i + 1]
    <3>1. i \in 1 .. k - 1 /\ i \in 1 .. k /\ path'[i] = path[i] /\ k - 1 \in Nat
      BY <1>3, Places
    <3>2. CASE dep \in Range(left[path[i]]) \cup visited
      BY <1>1, <3>1, <3>2
    <3>3. CASE dep = path[i + 1] /\ i = k - 1
      <4>1. i + 1 = k
        BY <1>3, <3>3
      <4>2. QED
        BY <1>1, <1>3, <3>3, <4>1
    <3>4. CASE dep = path[i + 1] /\ i \in 1 .. (k - 1) - 1
      <4>1. i + 1 \in 1 .. k - 1 /\ i < k - 1
        BY <3>1, <3>4, Places
      <4>2. QED
        BY <1>3, <3>4, <4>1
    <3>5. QED
      <4>1. i = k - 1 \/ i \in 1 .. (k - 1) - 1
        BY <3>1, Places
      <4>2. QED
        BY <1>1, <2>3, <3>1, <3>2, <3>3, <3>4, <4>1 DEF WarnInv
  <2>4. QED
    BY <1>1, <2>1, <2>2, <2>3 DEF WarnInv
<1>13. QED
  BY <1>4, <1>5, <1>6, <1>7, <1>9, <1>11, <1>12 DEF IInv

-----------------------------------------------------------------------------
(* stopSet keeps it.                                                       *)

\* What the three steps have in common: the rest of the invariant is about the
\* other search.
LEMMA StopStep ==
  ASSUME IInv, UNCHANGED <<graph, call, batch, sortVars>>,
         call = "stop", roots' \subseteq roots, stop' \subseteq AllNames,
         branches' \in Seq(SUBSET AllNames), StopInv'
  PROVE  IInv'
<1>1. /\ UNCHANGED <<graph, call, batch, todo, path, left, temp, visited, result, warned>>
      /\ Typed /\ CallInv
  BY DEF IInv, sortVars
<1>2. Typed'
  BY <1>1 DEF Typed
<1>3. CallInv'
  BY <1>1 DEF CallInv
<1>4. ListInv' /\ CoverInv' /\ OrderInv' /\ WarnInv'
  BY OtherSearch
<1>5. QED
  BY <1>2, <1>3, <1>4 DEF IInv

\* The next labelled container.
LEMMA AddRootKeeps ==
  ASSUME IInv, NEW svc \in AllNames, AddRoot(svc)
  PROVE  IInv'
<1>1. /\ Typed /\ StopInv /\ call = "stop" /\ branches = <<>> /\ svc \in roots
      /\ roots' = roots \ {svc} /\ stop' = stop \cup {svc} /\ branches' = <<Dependents(svc)>>
      /\ UNCHANGED <<graph, call, batch, sortVars>>
  BY DEF IInv, AddRoot
<1>2. Dependents(svc) \in SUBSET AllNames /\ stop' \subseteq AllNames
  BY <1>1 DEF Dependents, Typed
<1>3. /\ branches' \in Seq(SUBSET AllNames) /\ Len(branches') = 1
      /\ branches'[1] = Dependents(svc)
  BY <1>1, <1>2
<1>4. ~ \E i \in 1 .. Len(branches) : TRUE
  BY <1>1
<1>5. roots' \subseteq batch' /\ batch' \subseteq stop' \cup roots'
  BY <1>1 DEF StopInv
<1>6. ASSUME NEW X \in SUBSET AllNames, batch \subseteq X, Upward(X)
      PROVE  stop' \subseteq X /\ \A i \in 1 .. Len(branches') : branches'[i] \subseteq X
  <2>1. stop \subseteq X /\ svc \in X
    BY <1>1, <1>6 DEF StopInv
  <2>2. Dependents(svc) \subseteq X
    BY <1>6, <2>1 DEF Upward
  <2>3. QED
    BY <1>1, <1>3, <2>1, <2>2
<1>7. ASSUME NEW s \in stop', NEW t \in Dependents(s)
      PROVE  t \in stop' \/ \E i \in 1 .. Len(branches') : t \in branches'[i]
  <2>1. CASE s = svc
    BY <1>3, <1>7, <2>1
  <2>2. CASE s \in stop
    BY <1>1, <1>4, <1>7, <2>2 DEF StopInv
  <2>3. QED
    BY <1>1, <2>1, <2>2
<1>8. StopInv'
  BY <1>1, <1>5, <1>6, <1>7 DEF StopInv, Upward, Dependents
<1>9. QED
  BY <1>1, <1>2, <1>3, <1>8, StopStep

\* A dependent of the innermost addDependents.
LEMMA AddDependentKeeps ==
  ASSUME IInv, NEW svc \in AllNames, AddDependent(svc)
  PROVE  IInv'
<1> DEFINE b == Last(branches)
           k == Len(branches)
           r == Append(Front(branches), b \ {svc})
           D == Dependents(svc)
<1>1. /\ Typed /\ CallInv /\ StopInv /\ branches # <<>> /\ svc \in b
      /\ UNCHANGED <<graph, call, batch, roots, sortVars>>
      /\ \/ svc \in stop /\ branches' = r /\ stop' = stop
         \/ /\ svc \notin stop
            /\ stop' = stop \cup {svc}
            /\ branches' = Append(r, D)
  BY DEF IInv, AddDependent
<1>2. branches \in Seq(SUBSET AllNames)
  BY <1>1 DEF Typed
<1>3. k \in Nat \ {0} /\ b = branches[k] /\ b \in SUBSET AllNames
  BY <1>1, <1>2, FrontFacts
<1>4. D \in SUBSET AllNames
  BY DEF Dependents
<1>5. b \ {svc} \in SUBSET AllNames
  BY <1>3
<1>6. /\ r \in Seq(SUBSET AllNames) /\ Len(r) = k /\ r[k] = b \ {svc}
      /\ \A i \in 1 .. k - 1 : r[i] = branches[i]
  BY <1>1, <1>2, <1>5, ReplaceLast
<1> HIDE DEF b, k, r
<1>7. \A i \in 1 .. k : r[i] \subseteq branches[i] /\ branches[i] \subseteq r[i] \cup {svc}
  <2> SUFFICES ASSUME NEW i \in 1 .. k
               PROVE  r[i] \subseteq branches[i] /\ branches[i] \subseteq r[i] \cup {svc}
    OBVIOUS
  <2>1. CASE i = k
    BY <1>3, <1>6, <2>1
  <2>2. CASE i \in 1 .. k - 1
    BY <1>6, <2>2
  <2>3. QED
    BY <1>3, <2>1, <2>2, Places
<1>8. call = "stop" /\ stop' \subseteq AllNames
  BY <1>1 DEF Typed, CallInv
<1>9. /\ branches' \in Seq(SUBSET AllNames) /\ svc \in stop' /\ stop' \subseteq stop \cup {svc}
      /\ stop \subseteq stop'
      /\ \A i \in 1 .. k : i \in 1 .. Len(branches') /\ branches'[i] = r[i]
      /\ \A i \in 1 .. Len(branches') : i \in 1 .. k \/ branches'[i] = D
      /\ svc \in stop \/ \E i \in 1 .. Len(branches') : branches'[i] = D
  <2>1. CASE svc \in stop /\ branches' = r /\ stop' = stop
    BY <1>6, <2>1
  <2>2. CASE svc \notin stop /\ stop' = stop \cup {svc} /\ branches' = Append(r, D)
    <3>1. /\ branches' \in Seq(SUBSET AllNames) /\ Len(branches') = k + 1
          /\ \A i \in 1 .. k : branches'[i] = r[i]
          /\ branches'[k + 1] = D
      BY <1>4, <1>6, <2>2, AppendFacts
    <3>2. /\ \A i \in 1 .. k : i \in 1 .. k + 1
          /\ k + 1 \in 1 .. k + 1
          /\ \A i \in 1 .. k + 1 : i \in 1 .. k \/ i = k + 1
      BY <1>3, Places
    <3>3. QED
      BY <2>2, <3>1, <3>2
  <2>3. QED
    BY <1>1, <2>1, <2>2
<1>10. roots' \subseteq batch' /\ batch' \subseteq stop' \cup roots'
  BY <1>1, <1>9 DEF StopInv
<1>11. ASSUME NEW X \in SUBSET AllNames, batch \subseteq X, Upward(X)
       PROVE  stop' \subseteq X /\ \A i \in 1 .. Len(branches') : branches'[i] \subseteq X
  <2>1. stop \subseteq X /\ \A i \in 1 .. k : branches[i] \subseteq X
    BY <1>1, <1>11 DEF StopInv, k
  <2>2. svc \in X
    BY <1>1, <1>3, <2>1
  <2>3. D \subseteq X
    BY <1>11, <2>2 DEF Upward
  <2>4. QED
    BY <1>7, <1>9, <2>1, <2>2, <2>3
<1>12. ASSUME NEW s \in stop', NEW t \in Dependents(s)
       PROVE  t \in stop' \/ \E i \in 1 .. Len(branches') : t \in branches'[i]
  <2>1. CASE s \in stop
    <3>1. t \in stop \/ \E i \in 1 .. k : t \in branches[i]
      BY <1>1, <1>12, <2>1 DEF StopInv, k
    <3>2. QED
      BY <1>7, <1>9, <3>1
  <2>2. CASE s = svc /\ svc \notin stop
    BY <1>9, <1>12, <2>2
  <2>3. QED
    BY <1>9, <2>1, <2>2
<1>13. StopInv'
  BY <1>1, <1>10, <1>11, <1>12 DEF StopInv, Upward, Dependents
<1>14. roots' \subseteq roots
  BY <1>1
<1>15. QED
  BY <1>1, <1>8, <1>9, <1>13, <1>14, StopStep

\* The innermost addDependents returns, all its dependents found.
LEMMA ReturnKeeps ==
  ASSUME IInv, Return
  PROVE  IInv'
<1> DEFINE k == Len(branches)
<1>1. /\ Typed /\ CallInv /\ StopInv /\ branches # <<>> /\ Last(branches) = {}
      /\ branches' = Front(branches)
      /\ UNCHANGED <<graph, call, batch, roots, stop, sortVars>>
  BY DEF IInv, Return
<1>2. branches \in Seq(SUBSET AllNames)
  BY <1>1 DEF Typed
<1>3. /\ branches' \in Seq(SUBSET AllNames) /\ Len(branches') = k - 1 /\ k \in Nat \ {0}
      /\ \A i \in 1 .. k - 1 : branches'[i] = branches[i]
      /\ branches[k] = {}
  BY <1>1, <1>2, FrontFacts
<1> HIDE DEF k
<1>4. call = "stop" /\ stop' \subseteq AllNames
  BY <1>1 DEF Typed, CallInv
<1>5. /\ \A i \in 1 .. k - 1 : i \in 1 .. k
      /\ \A i \in 1 .. k : i \in 1 .. k - 1 \/ i = k
  BY <1>3, Places
<1>6. ASSUME NEW X \in SUBSET AllNames, batch \subseteq X, Upward(X)
      PROVE  stop' \subseteq X /\ \A i \in 1 .. Len(branches') : branches'[i] \subseteq X
  <2>1. stop \subseteq X /\ \A i \in 1 .. k : branches[i] \subseteq X
    BY <1>1, <1>6 DEF StopInv, k
  <2>2. QED
    BY <1>1, <1>3, <1>5, <2>1
<1>7. ASSUME NEW s \in stop', NEW t \in Dependents(s)
      PROVE  t \in stop' \/ \E i \in 1 .. Len(branches') : t \in branches'[i]
  <2>1. t \in stop \/ \E i \in 1 .. k : t \in branches[i]
    BY <1>1, <1>7 DEF StopInv, k
  <2>2. QED
    BY <1>1, <1>3, <1>5, <2>1
<1>8. StopInv'
  BY <1>1, <1>6, <1>7 DEF StopInv, Upward, Dependents
<1>9. QED
  BY <1>1, <1>3, <1>4, <1>8, StopStep

-----------------------------------------------------------------------------
(* The theorems.                                                           *)

\* The invariant holds when a search is called.
LEMMA InitKeeps == Init => IInv
<1> SUFFICES ASSUME Init PROVE IInv
  OBVIOUS
<1> USE DEF Init
<1>1. <<>> \in Seq(AllNames) /\ <<>> \in Seq(SUBSET AllNames) /\ Len(<<>>) = 0 /\ DOMAIN <<>> = {}
  OBVIOUS
<1>2. ~ \E i \in 1 .. Len(<<>>) : TRUE
  OBVIOUS
<1>3. /\ graph \in [AllNames -> Seq(AllNames)] /\ batch \subseteq AllNames
      /\ left \in [AllNames -> Seq(AllNames)]
  BY <1>1, NamesAssumption
<1>4. AllServices(graph) \subseteq AllNames
  BY <1>3 DEF AllServices, Range
<1>5. Typed
  BY <1>1, <1>3, <1>4 DEF Typed
<1>6. CallInv
  BY DEF CallInv
<1>7. ListInv
  <2>1. Chain
    BY DEF Chain
  <2>2. QED
    BY <1>1, <2>1 DEF ListInv, IsInjective, Range
<1>8. CoverInv
  BY DEF CoverInv
<1>9. OrderInv /\ WarnInv
  BY <1>2 DEF OrderInv, WarnInv
<1>10. StopInv
  BY <1>2 DEF StopInv
<1>11. QED
  BY <1>5, <1>6, <1>7, <1>8, <1>9, <1>10 DEF IInv

\* In every state of either search the path, the list and the loops fit together, and
\* the stop set with what is still to come is closed.
THEOREM Invariance == Spec => []IInv
<1>1. IInv /\ [Next]_vars => IInv'
  <2> SUFFICES ASSUME IInv, [Next]_vars PROVE IInv'
    OBVIOUS
  <2>1. ASSUME NEW i \in DOMAIN Names, VisitRoot(i) PROVE IInv'
    BY <2>1, VisitRootKeeps
  <2>2. CASE VisitDependency
    BY <2>2, VisitDependencyKeeps
  <2>3. CASE Leave
    BY <2>3, LeaveKeeps
  <2>4. ASSUME NEW svc \in AllNames, AddRoot(svc) PROVE IInv'
    BY <2>4, AddRootKeeps
  <2>5. ASSUME NEW svc \in AllNames, AddDependent(svc) PROVE IInv'
    BY <2>5, AddDependentKeeps
  <2>6. CASE Return
    BY <2>6, ReturnKeeps
  <2>7. CASE UNCHANGED vars
    <3>1. UNCHANGED <<graph, call, batch, roots, stop, branches>> /\ UNCHANGED sortVars
      BY <2>7 DEF vars, stopVars
    <3>2. ListInv' /\ CoverInv' /\ OrderInv' /\ WarnInv' /\ StopInv'
      BY <3>1, OtherSearch DEF stopVars
    <3>3. Typed' /\ CallInv'
      BY <3>1 DEF IInv, Typed, CallInv, sortVars
    <3>4. QED
      BY <3>2, <3>3 DEF IInv
  <2>8. QED
    BY <2>1, <2>2, <2>3, <2>4, <2>5, <2>6, <2>7 DEF Next
<1>2. QED
  BY <1>1, InitKeeps, PTL DEF Spec

\* Every service a label mentions is listed, and once.
THEOREM OrderCompleteTheorem == Spec => []OrderComplete
<1>1. IInv => OrderComplete
  <2> SUFFICES ASSUME IInv, Sorted
               PROVE  Range(result) = AllServices(graph) /\ IsInjective(result)
    BY DEF OrderComplete
  <2>1. /\ call = "sort" /\ todo = {} /\ path = <<>> /\ ListInv /\ CoverInv
    BY DEF IInv, Sorted
  <2>2. temp = {}
    BY <2>1 DEF ListInv, Range
  <2>3. QED
    BY <2>1, <2>2 DEF ListInv, CoverInv
<1>2. QED
  BY <1>1, Invariance, PTL

\* A service that has dependencies or is one has been listed.
LEMMA ListedAtEnd ==
  ASSUME IInv, Sorted, NEW svc \in AllNames, Range(graph[svc]) # {}
  PROVE  svc \in visited
<1>1. call = "sort" /\ todo = {} /\ path = <<>> /\ ListInv /\ CoverInv /\ Typed
  BY DEF IInv, Sorted
<1>2. temp = {}
  BY <1>1 DEF ListInv, Range
<1>3. graph[svc] # <<>>
  BY DEF Range
<1>4. svc \in AllServices(graph)
  BY <1>3 DEF AllServices
<1>5. QED
  BY <1>1, <1>2, <1>4 DEF CoverInv

\* A place is the position of what is there.
LEMMA PositionIs ==
  ASSUME IInv, NEW i \in DOMAIN result
  PROVE  Position(result[i]) = i
<1>1. IsInjective(result)
  BY DEF IInv, ListInv
<1>2. QED
  BY <1>1 DEF Position, IsInjective

\* A dependency comes before its dependents unless they are on a cycle.
THEOREM DependenciesFirstTheorem == Spec => []DependenciesFirst
<1>1. IInv => DependenciesFirst
  <2> SUFFICES ASSUME IInv, Sorted, NEW svc \in AllNames, NEW dep \in Range(graph[svc]),
                      ~Reaches(dep, svc)
               PROVE  Position(dep) < Position(svc)
    BY DEF DependenciesFirst
  <2>1. svc \in visited
    BY ListedAtEnd
  <2>2. Earlier(result, dep, svc)
    BY <2>1 DEF IInv, OrderInv
  <2>3. PICK i \in DOMAIN result, j \in DOMAIN result :
          i < j /\ result[i] = dep /\ result[j] = svc
    BY <2>2 DEF Earlier
  <2>4. QED
    BY <2>3, PositionIs
<1>2. QED
  BY <1>1, Invariance, PTL

\* Two places are before one another only if they are in order.
LEMMA EarlierIsOrder ==
  ASSUME IInv
  PROVE  /\ \A a, b, c : Earlier(result, a, b) /\ Earlier(result, b, c) => Earlier(result, a, c)
         /\ \A a : ~Earlier(result, a, a)
<1>1. /\ \A i, j \in DOMAIN result : result[i] = result[j] => i = j
      /\ DOMAIN result \subseteq Int
  <2>1. result \in Seq(AllNames) /\ IsInjective(result)
    BY DEF IInv, Typed, ListInv
  <2>2. QED
    BY <2>1 DEF IsInjective
<1>2. ASSUME NEW a, NEW b, NEW c, Earlier(result, a, b), Earlier(result, b, c)
      PROVE  Earlier(result, a, c)
  <2>1. PICK i \in DOMAIN result, j \in DOMAIN result :
          i < j /\ result[i] = a /\ result[j] = b
    BY <1>2 DEF Earlier
  <2>2. PICK k \in DOMAIN result, l \in DOMAIN result :
          k < l /\ result[k] = b /\ result[l] = c
    BY <1>2 DEF Earlier
  <2>3. i < l
    BY <1>1, <2>1, <2>2
  <2>4. QED
    BY <2>1, <2>2, <2>3 DEF Earlier
<1>3. ASSUME NEW a, Earlier(result, a, a) PROVE FALSE
  <2>1. PICK i \in DOMAIN result, j \in DOMAIN result :
          i < j /\ result[i] = a /\ result[j] = a
    BY <1>3 DEF Earlier
  <2>2. QED
    BY <1>1, <2>1
<1>4. QED
  BY <1>2, <1>3

\* There is a warning if and only if there is a cycle: without one the services
\* listed before any service are closed under dependencies.
THEOREM WarnsOfCyclesTheorem == Spec => []WarnsOfCycles
<1>1. IInv => WarnsOfCycles
  <2> SUFFICES ASSUME IInv, Sorted
               PROVE  warned # {} <=> \E svc \in AllNames : Reaches(svc, svc)
    BY DEF WarnsOfCycles
  <2>1. Typed /\ ListInv /\ WarnInv
    BY DEF IInv
  <2>2. ASSUME warned # {} PROVE \E svc \in AllNames : Reaches(svc, svc)
    BY <2>1, <2>2 DEF Typed, WarnInv
  <2>3. ASSUME warned = {}, NEW svc \in AllNames, Reaches(svc, svc) PROVE FALSE
    <3> DEFINE X == {t \in AllNames : Earlier(result, t, svc)}
    <3>1. \A t \in visited : \A dep \in Range(graph[t]) : Earlier(result, dep, t)
      BY <2>1, <2>3 DEF WarnInv
    <3>2. \A t \in X : t \in visited
      <4>1. ASSUME NEW t \in X PROVE t \in Range(result)
        BY <4>1 DEF Earlier, Range
      <4>2. QED
        BY <2>1, <4>1 DEF ListInv
    <3>3. \A t \in AllNames : Range(graph[t]) \subseteq AllNames
      BY <2>1 DEF Typed, Range
    <3>4. Closed(X)
      BY <3>1, <3>2, <3>3, EarlierIsOrder DEF Closed
    <3>5. Range(graph[svc]) \subseteq X
      <4>1. CASE Range(graph[svc]) = {}
        BY <4>1
      <4>2. CASE Range(graph[svc]) # {}
        BY <3>1, <3>3, <4>2, ListedAtEnd
      <4>3. QED
        BY <4>1, <4>2
    <3>6. svc \in X
      <4>1. X \in SUBSET AllNames
        OBVIOUS
      <4> HIDE DEF X
      <4>2. QED
        BY <2>3, <3>4, <3>5, <4>1, ReachesMeans
    <3>7. QED
      BY <3>6, EarlierIsOrder
  <2>4. QED
    BY <2>2, <2>3
<1>2. QED
  BY <1>1, Invariance, PTL

\* The stop set is the closure of the labelled services under dependents.
THEOREM StopSetTheorem == Spec => []StopSetIsClosure
<1>1. IInv => StopSetIsClosure
  <2> DEFINE F == [svc \in AllNames |-> {t \in AllNames : svc \in Range(graph[t])}]
  <2> SUFFICES ASSUME IInv, call = "stop", roots = {}, branches = <<>>
               PROVE  stop = Closure(batch, F)
    BY DEF StopSetIsClosure
  <2>1. Typed /\ StopInv
    BY DEF IInv
  <2>2. ~ \E i \in 1 .. Len(branches) : TRUE
    OBVIOUS
  <2>3. \A svc \in AllNames : F[svc] = Dependents(svc)
    BY DEF Dependents
  <2> HIDE DEF F
  <2>4. stop \in SUBSET AllNames /\ batch \subseteq stop
    BY <2>1 DEF Typed, StopInv
  <2>5. \A svc \in stop : F[svc] \subseteq stop
    BY <2>1, <2>2, <2>3, <2>4 DEF StopInv
  <2>6. \A X \in SUBSET AllNames :
          batch \subseteq X /\ (\A svc \in X : F[svc] \subseteq X) => stop \subseteq X
    BY <2>1, <2>3 DEF StopInv, Upward
  <2>7. QED
    BY <2>4, <2>5, <2>6 DEF Closure
<1>2. QED
  BY <1>1, Invariance, PTL

\* A visit descends when it turns to a new service.
LEMMA VisitDescends ==
  ASSUME IInv, call = "sort", NEW n \in AllNames, n \notin visited, n \notin temp,
         temp' = temp \cup {n}, UNCHANGED <<visited, stop>>
  PROVE  Descent
<1>1. stop = {}
  BY DEF IInv, CallInv
<1>2. QED
  BY <1>1 DEF Descent, Seen

\* Every step of either search descends.
THEOREM DescendsTheorem == Spec => Descends
<1>1. ASSUME IInv, [Next]_vars PROVE [Descent]_vars
  <2>1. Typed /\ CallInv /\ ListInv
    BY <1>1 DEF IInv
  <2>2. ASSUME NEW i \in DOMAIN Names, VisitRoot(i) PROVE Descent
    <3> DEFINE n == Names[i]
    <3>1. /\ call = "sort" /\ path = <<>> /\ n \in todo /\ todo' = todo \ {n} /\ Visit(n, left)
      BY <2>2 DEF VisitRoot
    <3>2. temp = {} /\ roots = {} /\ n \in AllNames
      BY <2>1, <3>1 DEF ListInv, CallInv, Typed, Range
    <3>3. UNCHANGED <<visited, stop, roots>>
      BY <3>1 DEF Visit, stopVars
    <3> HIDE DEF n
    <3>4. CASE n \in visited /\ temp' = temp
      BY <3>1, <3>2, <3>3, <3>4 DEF Descent, Seen
    <3>5. CASE n \notin visited /\ n \notin temp /\ temp' = temp \cup {n}
      BY <1>1, <3>1, <3>2, <3>3, <3>5, VisitDescends
    <3>6. QED
      BY <3>1, <3>2, <3>4, <3>5 DEF Visit, Known, OnPath
  <2>3. CASE VisitDependency
    <3> DEFINE p == Last(path)
               n == Head(left[p])
               rest == [left EXCEPT ![p] = Tail(@)]
    <3>1. path # <<>> /\ left[p] # <<>> /\ Visit(n, rest) /\ todo' = todo
      BY <2>3 DEF VisitDependency
    <3>2. p \in AllNames /\ left[p] \in Seq(AllNames) /\ call = "sort"
      BY <2>1, <3>1, FrontFacts DEF Typed, CallInv
    <3>3. n \in AllNames /\ Len(Tail(left[p])) = Len(left[p]) - 1
      BY <3>1, <3>2, TailFacts
    <3>4. /\ \A m \in AllNames : Len(rest[m]) <= Len(left[m])
          /\ Len(rest[p]) < Len(left[p])
      <4>1. \A m \in AllNames : rest[m] = IF m = p THEN Tail(left[p]) ELSE left[m]
        BY <2>1 DEF Typed
      <4>2. \A m \in AllNames : Len(left[m]) \in Nat
        BY <2>1 DEF Typed
      <4> HIDE DEF rest, p
      <4>3. Len(rest[p]) = Len(left[p]) - 1 /\ Len(left[p]) \in Nat
        BY <3>2, <3>3, <4>1, <4>2
      <4>4. Len(rest[p]) < Len(left[p])
        BY <4>3
      <4>5. ASSUME NEW m \in AllNames PROVE Len(rest[m]) <= Len(left[m])
        <5>1. CASE m = p
          BY <4>3, <5>1
        <5>2. CASE m # p
          <6>1. rest[m] = left[m] /\ Len(left[m]) \in Nat
            BY <4>1, <4>2, <5>2
          <6>2. QED
            BY <6>1
        <5>3. QED
          BY <5>1, <5>2
      <4>6. QED
        BY <4>4, <4>5
    <3>5. UNCHANGED <<visited, stop, roots, branches>>
      BY <3>1 DEF Visit, stopVars
    <3> HIDE DEF n, rest, p
    <3>6. CASE UNCHANGED <<path, temp>> /\ left' = rest
      <4>1. Seen' = Seen
        BY <3>5, <3>6 DEF Seen
      <4>2. Len(path) \in Nat /\ Len(branches) \in Nat
        BY <2>1 DEF Typed
      <4>3. QED
        BY <3>1, <3>2, <3>4, <3>5, <3>6, <4>1, <4>2 DEF Descent
    <3>7. CASE n \notin visited /\ n \notin temp /\ temp' = temp \cup {n}
      BY <1>1, <3>2, <3>3, <3>5, <3>7, VisitDescends
    <3>8. QED
      BY <3>1, <3>6, <3>7 DEF Visit, Known, OnPath
  <2>4. CASE Leave
    <3>1. /\ path # <<>> /\ path' = Front(path)
          /\ temp' = temp \ {Last(path)} /\ visited' = visited \cup {Last(path)}
          /\ UNCHANGED <<todo, left, stop, roots, branches>>
      BY <2>4 DEF Leave, stopVars
    <3>2. Len(path') = Len(path) - 1 /\ Len(path) \in Nat /\ Last(path) \in temp
      <4>1. path \in Seq(AllNames) /\ temp = Range(path)
        BY <2>1 DEF Typed, ListInv
      <4>2. /\ Len(Front(path)) = Len(path) - 1 /\ Len(path) \in Nat \ {0}
            /\ Range(path) = Range(Front(path)) \cup {Last(path)}
        BY <3>1, <4>1, FrontFacts
      <4>3. QED
        BY <3>1, <4>1, <4>2
    <3>3. Seen' = Seen
      BY <3>1, <3>2 DEF Seen
    <3>4. \A n \in AllNames : Len(left'[n]) <= Len(left[n])
      BY <2>1, <3>1 DEF Typed
    <3>5. Len(branches) \in Nat
      BY <2>1 DEF Typed
    <3>6. QED
      BY <3>1, <3>2, <3>3, <3>4, <3>5 DEF Descent
  <2>5. ASSUME NEW svc \in AllNames, AddRoot(svc) PROVE Descent
    <3>1. /\ call = "stop" /\ svc \in roots /\ roots' = roots \ {svc} /\ stop' = stop \cup {svc}
          /\ UNCHANGED <<todo, temp, visited>>
      BY <2>5 DEF AddRoot, sortVars
    <3>2. todo = {} /\ temp = {} /\ visited = {}
      BY <2>1, <3>1 DEF CallInv
    <3>3. QED
      BY <3>1, <3>2 DEF Descent, Seen
  <2>6. ASSUME NEW svc \in AllNames, AddDependent(svc) PROVE Descent
    <3> DEFINE b == Last(branches)
               k == Len(branches)
               r == Append(Front(branches), b \ {svc})
    <3>1. /\ branches # <<>> /\ svc \in b
          /\ UNCHANGED <<todo, path, left, temp, visited, roots>>
          /\ \/ svc \in stop /\ branches' = r /\ stop' = stop
             \/ svc \notin stop /\ stop' = stop \cup {svc}
      BY <2>6 DEF AddDependent, sortVars
    <3>2. call = "stop" /\ temp = {} /\ visited = {}
      BY <2>1, <3>1 DEF Typed, CallInv
    <3>3. CASE svc \notin stop /\ stop' = stop \cup {svc}
      BY <3>1, <3>2, <3>3 DEF Descent, Seen
    <3>4. CASE svc \in stop /\ branches' = r /\ stop' = stop
      <4>1. k \in Nat \ {0} /\ b = branches[k] /\ b \in SUBSET AllNames
        BY <2>1, <3>1, FrontFacts DEF Typed
      <4>2. b \ {svc} \in SUBSET AllNames
        BY <4>1
      <4>3. /\ r \in Seq(SUBSET AllNames) /\ Len(r) = k /\ r[k] = b \ {svc}
            /\ \A i \in 1 .. k - 1 : r[i] = branches[i]
        BY <2>1, <3>1, <4>2, ReplaceLast DEF Typed
      <4>4. DOMAIN r = 1 .. k
        BY <4>3
      <4>5. Seen' = Seen
        BY <3>1, <3>4 DEF Seen
      <4>6. Len(path) \in Nat /\ \A n \in AllNames : Len(left[n]) \in Nat
        BY <2>1 DEF Typed
      <4> HIDE DEF b, k, r
      <4>7. \A i \in 1 .. k : r[i] \subseteq branches[i]
        <5> SUFFICES ASSUME NEW i \in 1 .. k PROVE r[i] \subseteq branches[i]
          OBVIOUS
        <5>1. QED
          BY <4>1, <4>3, Places
      <4>8. k \in 1 .. k /\ r[k] # branches[k]
        BY <3>1, <4>1, <4>3
      <4>9. Len(path') <= Len(path) /\ \A n \in AllNames : Len(left'[n]) <= Len(left[n])
        BY <3>1, <4>6
      <4>10. Len(branches') <= Len(branches)
        BY <3>4, <4>1, <4>3 DEF k
      <4>11. QED
        BY <3>1, <3>4, <4>4, <4>5, <4>7, <4>8, <4>9, <4>10 DEF Descent
    <3>5. QED
      BY <3>1, <3>3, <3>4
  <2>7. CASE Return
    <3> DEFINE k == Len(branches)
    <3>1. /\ branches # <<>> /\ branches' = Front(branches)
          /\ UNCHANGED <<todo, path, left, temp, visited, roots, stop>>
      BY <2>7 DEF Return, sortVars
    <3>2. /\ branches' \in Seq(SUBSET AllNames) /\ Len(branches') = k - 1 /\ k \in Nat \ {0}
          /\ \A i \in 1 .. k - 1 : branches'[i] = branches[i]
      BY <2>1, <3>1, FrontFacts DEF Typed
    <3>3. DOMAIN branches' = 1 .. k - 1
      BY <3>2
    <3>4. Len(path) \in Nat /\ \A n \in AllNames : Len(left[n]) \in Nat
      BY <2>1 DEF Typed
    <3>5. Seen' = Seen
      BY <3>1 DEF Seen
    <3> HIDE DEF k
    <3>6. Len(branches') < k /\ Len(branches') <= k
      BY <3>2
    <3>7. Len(path') <= Len(path) /\ \A n \in AllNames : Len(left'[n]) <= Len(left[n])
      BY <3>1, <3>4
    <3>8. QED
      BY <3>1, <3>2, <3>3, <3>5, <3>6, <3>7 DEF Descent, k
  <2>8. QED
    BY <1>1, <2>2, <2>3, <2>4, <2>5, <2>6, <2>7 DEF Next
<1>2. QED
  BY <1>1, Invariance, PTL DEF Spec, Descends

-----------------------------------------------------------------------------
(* What StackBackup takes from the two searches.                           *)

\* The searches are of the graph of the discovered containers D.
LabelsOf(D) == \A svc \in Services : Range(graph[svc]) = DepNames(svc, D)

\* That does not change.
LEMMA LabelsStay ==
  ASSUME NEW D
  PROVE  LabelsOf(D) /\ [Next]_vars => LabelsOf(D)'
<1> SUFFICES ASSUME LabelsOf(D), [Next]_vars PROVE UNCHANGED graph
  BY DEF LabelsOf
<1>1. QED
  BY DEF Next, VisitRoot, VisitDependency, Visit, Leave, AddRoot, AddDependent, Return, vars

\* The services mentioned are the same.
LEMMA NamedAreAll ==
  ASSUME NEW D \in SUBSET Containers, AllNames = Services, LabelsOf(D), Typed
  PROVE  Named(D) = AllServices(graph)
<1>1. \A svc \in Services : Range(graph[svc]) = DepNames(svc, D) /\ Range(graph[svc]) \subseteq Services
  BY DEF LabelsOf, Typed, Range
<1>2. \A svc \in Services : graph[svc] # <<>> <=> DepNames(svc, D) # {}
  <2> SUFFICES ASSUME NEW svc \in Services PROVE graph[svc] # <<>> <=> Range(graph[svc]) # {}
    BY <1>1
  <2>1. graph[svc] \in Seq(Services)
    BY DEF Typed
  <2> DEFINE label == graph[svc]
  <2> HIDE DEF label
  <2>2. ASSUME label # <<>> PROVE Range(label) # {}
    <3>1. Range(label) = {Head(label)} \cup Range(Tail(label))
      BY <2>1, <2>2, TailFacts DEF label
    <3>2. QED
      BY <3>1
  <2>3. ASSUME label = <<>> PROVE Range(label) = {}
    BY <2>3 DEF Range
  <2>4. QED
    BY <2>2, <2>3 DEF label
<1>3. \A c \in D \ Of(NoService, D) : {r.on : r \in Depends[c]} \subseteq DepNames(ServiceOf[c], D)
  BY DEF DepNames, DepsOf, Of
<1>4. \A c \in D \ Of(NoService, D) : ServiceOf[c] \in Services
  BY ContainersAssumption DEF Of
<1>5. \A svc \in Services : \A dep \in DepNames(svc, D) :
        \E c \in D \ Of(NoService, D) : dep \in {r.on : r \in Depends[c]}
  BY DEF DepNames, DepsOf, Of
<1>6. Named(D) \subseteq AllServices(graph)
  BY <1>1, <1>2, <1>3, <1>4 DEF Named, AllServices
<1>7. AllServices(graph) \subseteq Named(D)
  BY <1>1, <1>2, <1>5 DEF Named, AllServices
<1>8. QED
  BY <1>6, <1>7

\* A service that reaches another transitively depends on it.
LEMMA ReachesCascades ==
  ASSUME NEW D, AllNames = Services, LabelsOf(D), Typed,
         NEW dep \in Services, NEW svc, Reaches(dep, svc)
  PROVE  dep \in Cascade({svc}, D)
<1> SUFFICES ASSUME NEW X \in SUBSET Services, svc \in X, dep \notin X,
                    \A t \in Services : DepNames(t, D) \cap X # {} => t \in X
             PROVE  FALSE
  BY DEF Cascade
<1> DEFINE Y == Services \ X
<1>1. \A t \in Y : Range(graph[t]) \subseteq Y
  BY DEF LabelsOf, Typed, Range
<1>2. Range(graph[dep]) \subseteq Y /\ Closed(Y) /\ Y \in SUBSET AllNames
  BY <1>1 DEF Closed
<1>3. svc \in Y
  <2> HIDE DEF Y
  <2>1. QED
    BY <1>2, ReachesMeans
<1>4. QED
  BY <1>3

\* topologicalSort of the labels of the discovered containers is a start order of
\* theirs: what StackBackup assumes of StartOrder.
THEOREM StartOrderTheorem ==
  ASSUME NEW D \in SUBSET Containers, AllNames = Services
  PROVE  Spec /\ LabelsOf(D) => [](Sorted => IsStartOrder(result, D))
<1>1. IInv /\ LabelsOf(D) /\ OrderComplete /\ DependenciesFirst /\ Sorted => IsStartOrder(result, D)
  <2> SUFFICES ASSUME IInv, LabelsOf(D), OrderComplete, DependenciesFirst, Sorted
               PROVE  IsStartOrder(result, D)
    OBVIOUS
  <2>1. Range(result) = Named(D) /\ IsInjective(result)
    BY NamedAreAll DEF OrderComplete, IInv
  <2>2. ASSUME NEW i \in DOMAIN result, NEW j \in DOMAIN result, Before(result[i], result[j], D)
        PROVE  i < j
    <3>1. result[i] \in Services /\ result[j] \in Services
      BY DEF IInv, Typed
    <3>2. result[i] \in Range(graph[result[j]])
      BY <2>2, <3>1 DEF Before, LabelsOf
    <3>3. ~Reaches(result[i], result[j])
      BY <2>2, <3>1, ReachesCascades DEF Before, IInv
    <3>4. Position(result[i]) < Position(result[j])
      BY <3>1, <3>2, <3>3 DEF DependenciesFirst
    <3>5. QED
      BY <3>4, PositionIs
  <2>3. QED
    BY <2>1, <2>2 DEF IsStartOrder
<1>2. LabelsOf(D) /\ [Next]_vars => LabelsOf(D)'
  BY LabelsStay
<1>3. QED
  BY <1>1, <1>2, Invariance, OrderCompleteTheorem, DependenciesFirstTheorem, PTL DEF Spec

\* stopSet of those labels is the cascade of the labelled services: what StackBackup
\* stops.
THEOREM CascadeTheorem ==
  ASSUME NEW D \in SUBSET Containers, AllNames = Services
  PROVE  Spec /\ LabelsOf(D) =>
           [](call = "stop" /\ roots = {} /\ branches = <<>> => stop = Cascade(batch, D))
<1>1. ASSUME LabelsOf(D), StopSetIsClosure, call = "stop", roots = {}, branches = <<>>
      PROVE  stop = Cascade(batch, D)
  <2> DEFINE F == [svc \in AllNames |-> {t \in AllNames : svc \in Range(graph[t])}]
  <2>1. stop = Closure(batch, F)
    BY <1>1 DEF StopSetIsClosure
  <2>2. ASSUME NEW X \in SUBSET Services
        PROVE  (\A svc \in X : F[svc] \subseteq X)
                 <=> \A t \in Services : DepNames(t, D) \cap X # {} => t \in X
    <3>1. \A svc \in X : F[svc] = {t \in Services : svc \in DepNames(t, D)}
      BY <1>1 DEF LabelsOf
    <3> HIDE DEF F
    <3>2. QED
      BY <3>1
  <2> HIDE DEF F
  <2>3. QED
    BY <2>1, <2>2 DEF Closure, Cascade
<1>2. LabelsOf(D) /\ [Next]_vars => LabelsOf(D)'
  BY LabelsStay
<1>3. LabelsOf(D) /\ StopSetIsClosure =>
        (call = "stop" /\ roots = {} /\ branches = <<>> => stop = Cascade(batch, D))
  BY <1>1
<1>4. QED
  BY <1>2, <1>3, StopSetTheorem, PTL DEF Spec
=============================================================================
