--------------------------- MODULE StackBackupProofs ---------------------------
(***************************************************************************)
(* Proofs about StackBackup: its types, and what a run of RunStackBatch    *)
(* leaves behind and reports.  They hold for every stack, with any order   *)
(* that StartOrderAssumption allows.                                       *)
(***************************************************************************)
EXTENDS StackBackup, FiniteSetTheorems, TLAPS

-----------------------------------------------------------------------------
(* Orders.                                                                 *)

\* A sequence of a set without repetition, as long as the set, has all of it.
LEMMA SetSeqs ==
  ASSUME NEW S, IsFiniteSet(S), NEW s \in SetToSeqs(S)
  PROVE  s \in Seq(S) /\ Range(s) = S
<1> DEFINE D == 1 .. Cardinality(S)
<1>1. Cardinality(S) \in Nat
  BY FS_CardinalityType
<1>2. s \in [D -> S] /\ \A i, j \in D : i # j => s[i] # s[j]
  BY DEF SetToSeqs
<1>3. s \in Injection(D, S)
  BY <1>2 DEF Injection, IsInjective
<1>4. Cardinality(D) = Cardinality(S) /\ IsFiniteSet(D)
  BY <1>1, FS_Interval
<1>5. s \in Surjection(D, S)
  BY <1>3, <1>4, FS_Injection
<1>6. Range(s) = S
  BY <1>2, <1>5 DEF Surjection, Range
<1>7. s \in Seq(S)
  BY <1>1, <1>2
<1>8. QED
  BY <1>6, <1>7

\* A concatenation has the elements of both parts.
LEMMA ConcatRange ==
  ASSUME NEW T, NEW a \in Seq(T), NEW b \in Seq(T)
  PROVE  a \o b \in Seq(T) /\ Range(a \o b) = Range(a) \cup Range(b)
<1>1. a \o b \in Seq(T) /\ Len(a \o b) = Len(a) + Len(b)
  OBVIOUS
<1>2. \A i \in 1 .. Len(a) : (a \o b)[i] = a[i]
  OBVIOUS
<1>3. \A i \in 1 .. Len(b) : (a \o b)[Len(a) + i] = b[i]
  OBVIOUS
<1>4. \A i \in 1 .. Len(a) + Len(b) : i \in 1 .. Len(a) \/ i - Len(a) \in 1 .. Len(b)
  OBVIOUS
<1>5. Range(a) \cup Range(b) \subseteq Range(a \o b)
  <2>1. ASSUME NEW i \in 1 .. Len(a) PROVE a[i] \in Range(a \o b)
    <3>1. i \in DOMAIN (a \o b)
      BY <1>1
    <3>2. QED
      BY <1>2, <3>1 DEF Range
  <2>2. ASSUME NEW i \in 1 .. Len(b) PROVE b[i] \in Range(a \o b)
    <3>1. Len(a) + i \in DOMAIN (a \o b)
      BY <1>1
    <3>2. QED
      BY <1>3, <3>1 DEF Range
  <2>3. DOMAIN a = 1 .. Len(a) /\ DOMAIN b = 1 .. Len(b)
    OBVIOUS
  <2>4. QED
    BY <2>1, <2>2, <2>3 DEF Range
<1>6. Range(a \o b) \subseteq Range(a) \cup Range(b)
  <2> SUFFICES ASSUME NEW i \in 1 .. Len(a) + Len(b)
               PROVE  (a \o b)[i] \in Range(a) \cup Range(b)
    BY <1>1 DEF Range
  <2>1. CASE i \in 1 .. Len(a)
    BY <1>2, <2>1 DEF Range
  <2>2. CASE i - Len(a) \in 1 .. Len(b)
    BY <1>3, <2>2 DEF Range
  <2>3. QED
    BY <1>4, <2>1, <2>2
<1>7. QED
  BY <1>1, <1>5, <1>6

\* Reversal keeps a sequence one of its set.
LEMMA ReverseSeq == ASSUME NEW T, NEW s \in Seq(T) PROVE Reverse(s) \in Seq(T)
BY DEF Reverse

Names == Services \cup {NoService}

\* The start order and the stop order list services, and the first has those of
\* all containers.
LEMMA OrdersAreSeqs ==
  ASSUME all \in SUBSET Containers
  PROVE  /\ \A o \in StartOrders : o \in Seq(Names) /\ \A c \in all : ServiceOf[c] \in Range(o)
         /\ \A S \in SUBSET Names : \A o \in StopOrders(S) : o \in Seq(Names)
<1> USE ContainersAssumption DEF Names
<1>1. IsFiniteSet(Names)
  BY FS_AddElement
<1>2. StartOrder[all] \in Seq(Names)
  <2>1. StartOrder[all] \in Seq(Services)
    BY StartOrderAssumption
  <2>2. QED
    BY <2>1
<1>3. ASSUME NEW S \in SUBSET Names, NEW rest \in SetToSeqs(S)
      PROVE  rest \in Seq(Names) /\ Range(rest) = S
  <2>1. IsFiniteSet(S)
    BY <1>1, FS_Subset
  <2>2. rest \in Seq(S) /\ Range(rest) = S
    BY <2>1, SetSeqs
  <2>3. QED
    BY <2>2
<1>4. ASSUME NEW o \in StartOrders
      PROVE  o \in Seq(Names) /\ \A c \in all : ServiceOf[c] \in Range(o)
  <2> DEFINE S == {ServiceOf[c] : c \in all} \ Range(StartOrder[all])
  <2>1. PICK rest \in SetToSeqs(S) : o = StartOrder[all] \o rest
    BY DEF StartOrders
  <2>2. S \in SUBSET Names
    OBVIOUS
  <2>3. rest \in Seq(Names) /\ Range(rest) = S
    BY <1>3, <2>1, <2>2
  <2>4. o \in Seq(Names) /\ Range(o) = Range(StartOrder[all]) \cup S
    BY <1>2, <2>1, <2>3, ConcatRange
  <2>5. QED
    BY <2>4
<1>5. ASSUME NEW S \in SUBSET Names, NEW o \in StopOrders(S)
      PROVE  o \in Seq(Names)
  <2> DEFINE R == S \ Range(StartOrder[all])
  <2>1. PICK rest \in SetToSeqs(R) : o = Reverse(StartOrder[all]) \o rest
    BY DEF StopOrders
  <2>2. R \in SUBSET Names
    OBVIOUS
  <2>3. rest \in Seq(Names) /\ Reverse(StartOrder[all]) \in Seq(Names)
    BY <1>2, <1>3, <2>1, <2>2, ReverseSeq
  <2>4. QED
    BY <2>1, <2>3, ConcatRange
<1>6. QED
  BY <1>4, <1>5

-----------------------------------------------------------------------------
(* Types.                                                                  *)

\* The steps in which a container is being stopped
InStop == {"stopping", "unsent", "waiting"}

\* Those before the backup
Early == {"discover", "prehooks", "stop"} \cup InStop

\* The loops are over what was found, and nothing is done before its time.
PhaseInv ==
  /\ cur # None <=> phase \in InStop
  /\ phase = "discover" => all = {} /\ fresh = {}
  /\ phase \in {"discover", "prehooks"} =>
       todo = {} /\ waits = {} /\ wasStopped = {} /\ stopFailed = {} /\ taken = {} /\ ignored = {}
  /\ phase \in Early => saved = {} /\ posted = {} /\ forgotten = {}
  /\ phase \in Early \cup {"backup"} => started = {}
  /\ phase \in {"backup", "post"} => todo \subseteq fresh

Types == TypeOK /\ PhaseInv

\* The initial states are typed.
LEMMA InitTypes == Init => Types
<1> SUFFICES ASSUME Init PROVE Types
  OBVIOUS
<1>1. <<>> \in Seq(Services \cup {NoService})
  OBVIOUS
<1>2. TypeOK
  BY <1>1 DEF Init, TypeOK, States, Up
<1>3. PhaseInv
  BY DEF Init, PhaseInv, InStop, Early
<1>4. QED
  BY <1>2, <1>3 DEF Types

\* Every step keeps the types.
LEMMA NextTypes ==
  ASSUME Types, [Next]_vars
  PROVE  Types'
<1> USE DEF Types, TypeOK, PhaseInv, InStop, Early, States, Up, Conditions, stackVars,
           loopVars, stopVars, resultVars
<1> USE RunAssumption
<1>1. CASE Discover
  <2>1. all' \subseteq Containers
    BY <1>1 DEF Discover
  <2>2. fresh' \subseteq all'
    BY <1>1 DEF Discover, Deduplicated
  <2> HIDE DEF States
  <2>3. QED
    BY <1>1, <2>1, <2>2 DEF Discover
<1>2. CASE PreHooks
  <2>1. {c \in all : ServiceOf[c] \in StopSvc} \subseteq all
    OBVIOUS
  <2>2. StopSvc \in SUBSET Names
    BY DEF StopSvc, Cascade, Names
  <2>3. order' \in Seq(Services \cup {NoService})
    BY <1>2, <2>2, OrdersAreSeqs DEF PreHooks, Names
  <2> HIDE DEF TypeOK, PhaseInv
  <2>4. QED
    BY <1>2, <2>1, <2>3 DEF PreHooks, TypeOK, PhaseInv
<1>3. CASE Stopped
  BY <1>3 DEF Stopped, Taken
<1>4. CASE StopFails
  BY <1>4 DEF StopFails, Taken, GiveUpStop
<1>5. CASE StopConfirmed
  BY <1>5 DEF StopConfirmed
<1>6. CASE WaitStopFails
  BY <1>6 DEF WaitStopFails, GiveUpStop
<1>7. CASE StopsDone
  BY <1>7 DEF StopsDone
<1>8. CASE BackupsDone
  <2>1. order' \in Seq(Services \cup {NoService})
    BY <1>8, OrdersAreSeqs DEF BackupsDone, Names
  <2>2. QED
    BY <1>8, <2>1 DEF BackupsDone
<1>9. CASE NextService
  <2>1. Tail(order) \in Seq(Services \cup {NoService})
    BY <1>9 DEF NextService
  <2>2. QED
    BY <1>9, <2>1 DEF NextService, WaitsOf, Of
<1>10. CASE WaitFails
  BY <1>10 DEF WaitFails
<1>11. CASE StartsDone
  BY <1>11 DEF StartsDone
<1>12. CASE Finalize
  BY <1>12 DEF Finalize
<1>13. CASE ReleaseBatch
  BY <1>13 DEF ReleaseBatch
<1>14. ASSUME NEW c \in Containers, CallStop(c) PROVE Types'
  BY <1>14 DEF CallStop, InTurn
<1>15. ASSUME NEW c \in Containers, Skip(c) PROVE Types'
  BY <1>15, ContainersAssumption DEF Skip
<1>16. ASSUME NEW c \in Containers, BackupOk(c) PROVE Types'
  BY <1>16 DEF BackupOk
<1>17. ASSUME NEW c \in Containers, BackupFails(c) PROVE Types'
  BY <1>17, ContainersAssumption DEF BackupFails
<1>18. ASSUME NEW c \in Containers, Start(c) PROVE Types'
  BY <1>18 DEF Start
<1>19. ASSUME NEW c \in Containers, Post(c) PROVE Types'
  <2>1. issues' \in BOOLEAN
    BY <1>19, Zenon DEF Post
  <2>2. QED
    BY <1>19, <2>1 DEF Post, Hooked
<1>20. ASSUME NEW d \in Containers, NEW k \in Conditions, WaitMet(d, k) PROVE Types'
  BY <1>20 DEF WaitMet
<1>21. CASE Expire
  BY <1>21 DEF Expire
<1>22. ASSUME NEW c \in Flaky, Drift(c) PROVE Types'
  BY <1>22 DEF Drift
<1>23. CASE UNCHANGED vars
  BY <1>23 DEF vars
<1>24. QED
  BY <1>1, <1>2, <1>3, <1>4, <1>5, <1>6, <1>7, <1>8, <1>9, <1>10, <1>11, <1>12, <1>13,
     <1>14, <1>15, <1>16, <1>17, <1>18, <1>19, <1>20, <1>21, <1>22, <1>23 DEF Next, Run

-----------------------------------------------------------------------------
(* What was stopped.                                                       *)

\* The stop loop goes through each container once, and its events are ignored
\* until the run ends or the stop has failed.
Stopping ==
  /\ phase \in {"stop"} \cup InStop =>
       wasStopped \cap todo = {} /\ cur \notin wasStopped \cup todo
  /\ phase # "done" => wasStopped \cup ({cur} \ {None}) \subseteq ignored
  /\ phase = "done" => ignored = {}

\* The start loop has each stopped container behind it, at hand or before it.
Starting ==
  /\ phase = "start" =>
       /\ started \subseteq wasStopped /\ todo \subseteq wasStopped
       /\ \A c \in wasStopped : c \in started \cup todo \/ ServiceOf[c] \in Range(order)
  /\ phase \in {"post", "release", "done"} => started = wasStopped

StopInv == Stopping /\ Starting

\* An order is its head and its tail.
LEMMA HeadAndTail ==
  ASSUME NEW T, NEW s \in Seq(T), s # <<>>
  PROVE  Range(s) \subseteq {Head(s)} \cup Range(Tail(s))
<1> SUFFICES ASSUME NEW i \in 1 .. Len(s), i # 1 PROVE s[i] \in Range(Tail(s))
  BY DEF Range
<1>1. i - 1 \in DOMAIN Tail(s) /\ Tail(s)[i - 1] = s[i]
  OBVIOUS
<1>2. QED
  BY <1>1 DEF Range

\* The initial states have stopped nothing.
LEMMA InitStop == Init => StopInv
BY DEF Init, StopInv, Stopping, Starting, InStop

\* What is being stopped, and what was, stays apart and ignored.
LEMMA NextStopping ==
  ASSUME Types, Stopping, [Next]_vars
  PROVE  Stopping'
<1> USE DEF Types, TypeOK, PhaseInv, InStop, Early, Stopping, stackVars, loopVars, stopVars,
           resultVars
<1> USE RunAssumption
<1>1. CASE Discover
  BY <1>1 DEF Discover
<1>2. CASE PreHooks
  BY <1>2 DEF PreHooks
<1>3. CASE Stopped
  BY <1>3 DEF Stopped, Taken
<1>4. CASE StopFails
  BY <1>4 DEF StopFails, Taken, GiveUpStop
<1>5. CASE StopConfirmed
  BY <1>5 DEF StopConfirmed
<1>6. CASE WaitStopFails
  BY <1>6 DEF WaitStopFails, GiveUpStop
<1>7. CASE StopsDone
  BY <1>7 DEF StopsDone
<1>8. CASE BackupsDone
  BY <1>8 DEF BackupsDone
<1>9. CASE NextService
  BY <1>9 DEF NextService
<1>10. CASE WaitFails
  BY <1>10 DEF WaitFails
<1>11. CASE StartsDone
  BY <1>11 DEF StartsDone
<1>12. CASE Finalize
  BY <1>12 DEF Finalize
<1>13. CASE ReleaseBatch
  BY <1>13 DEF ReleaseBatch
<1>14. ASSUME NEW c \in Containers, CallStop(c) PROVE Stopping'
  BY <1>14 DEF CallStop, InTurn
<1>15. ASSUME NEW c \in Containers, Skip(c) PROVE Stopping'
  BY <1>15 DEF Skip
<1>16. ASSUME NEW c \in Containers, BackupOk(c) PROVE Stopping'
  BY <1>16 DEF BackupOk
<1>17. ASSUME NEW c \in Containers, BackupFails(c) PROVE Stopping'
  BY <1>17 DEF BackupFails
<1>18. ASSUME NEW c \in Containers, Start(c) PROVE Stopping'
  BY <1>18 DEF Start
<1>19. ASSUME NEW c \in Containers, Post(c) PROVE Stopping'
  BY <1>19 DEF Post, Hooked
<1>20. ASSUME NEW d \in Containers, NEW k \in Conditions, WaitMet(d, k) PROVE Stopping'
  BY <1>20 DEF WaitMet
<1>21. CASE Expire
  BY <1>21 DEF Expire
<1>22. ASSUME NEW c \in Flaky, Drift(c) PROVE Stopping'
  BY <1>22 DEF Drift
<1>23. CASE UNCHANGED vars
  BY <1>23 DEF vars
<1>24. QED
  BY <1>1, <1>2, <1>3, <1>4, <1>5, <1>6, <1>7, <1>8, <1>9, <1>10, <1>11, <1>12, <1>13,
     <1>14, <1>15, <1>16, <1>17, <1>18, <1>19, <1>20, <1>21, <1>22, <1>23 DEF Next, Run

\* The start loop loses no container.
LEMMA NextStarting ==
  ASSUME Types, Starting, [Next]_vars
  PROVE  Starting'
<1> USE DEF Types, TypeOK, PhaseInv, InStop, Early, Starting, stackVars, loopVars, stopVars,
           resultVars
<1>1. CASE Discover
  BY <1>1 DEF Discover
<1>2. CASE PreHooks
  BY <1>2 DEF PreHooks
<1>3. CASE Stopped
  BY <1>3 DEF Stopped, Taken
<1>4. CASE StopFails
  BY <1>4 DEF StopFails, Taken, GiveUpStop
<1>5. CASE StopConfirmed
  BY <1>5 DEF StopConfirmed
<1>6. CASE WaitStopFails
  BY <1>6 DEF WaitStopFails, GiveUpStop
<1>7. CASE StopsDone
  BY <1>7 DEF StopsDone
<1>8. CASE BackupsDone
  <2>1. \A c \in all : ServiceOf[c] \in Range(order')
    BY <1>8, OrdersAreSeqs DEF BackupsDone
  <2>2. QED
    BY <1>8, <2>1 DEF BackupsDone
<1>9. CASE NextService
  <2>1. Range(order) \subseteq {Head(order)} \cup Range(Tail(order))
    BY <1>9, HeadAndTail DEF NextService
  <2>2. todo' = Of(Head(order), wasStopped) /\ order' = Tail(order)
    BY <1>9 DEF NextService
  <2>3. ASSUME NEW c \in wasStopped, c \notin started, c \notin todo'
        PROVE  ServiceOf[c] \in Range(order')
    <3>1. ServiceOf[c] \in Range(order) /\ ServiceOf[c] # Head(order)
      BY <1>9, <2>2, <2>3 DEF NextService, Of
    <3>2. QED
      BY <2>1, <2>2, <3>1
  <2>4. todo' \subseteq wasStopped
    BY <2>2 DEF Of
  <2>5. QED
    BY <1>9, <2>3, <2>4 DEF NextService
<1>10. CASE WaitFails
  BY <1>10 DEF WaitFails
<1>11. CASE StartsDone
  <2>1. Range(<<>>) = {}
    BY DEF Range
  <2>2. QED
    BY <1>11, <2>1 DEF StartsDone
<1>12. CASE Finalize
  BY <1>12 DEF Finalize
<1>13. CASE ReleaseBatch
  BY <1>13 DEF ReleaseBatch
<1>14. ASSUME NEW c \in Containers, CallStop(c) PROVE Starting'
  BY <1>14 DEF CallStop, InTurn
<1>15. ASSUME NEW c \in Containers, Skip(c) PROVE Starting'
  BY <1>15 DEF Skip
<1>16. ASSUME NEW c \in Containers, BackupOk(c) PROVE Starting'
  BY <1>16 DEF BackupOk
<1>17. ASSUME NEW c \in Containers, BackupFails(c) PROVE Starting'
  BY <1>17 DEF BackupFails
<1>18. ASSUME NEW c \in Containers, Start(c) PROVE Starting'
  BY <1>18 DEF Start
<1>19. ASSUME NEW c \in Containers, Post(c) PROVE Starting'
  BY <1>19 DEF Post, Hooked
<1>20. ASSUME NEW d \in Containers, NEW k \in Conditions, WaitMet(d, k) PROVE Starting'
  BY <1>20 DEF WaitMet
<1>21. CASE Expire
  BY <1>21 DEF Expire
<1>22. ASSUME NEW c \in Flaky, Drift(c) PROVE Starting'
  BY <1>22 DEF Drift
<1>23. CASE UNCHANGED vars
  BY <1>23 DEF vars
<1>24. QED
  BY <1>1, <1>2, <1>3, <1>4, <1>5, <1>6, <1>7, <1>8, <1>9, <1>10, <1>11, <1>12, <1>13,
     <1>14, <1>15, <1>16, <1>17, <1>18, <1>19, <1>20, <1>21, <1>22, <1>23 DEF Next, Run

-----------------------------------------------------------------------------
(* What was done.                                                          *)

\* c has nothing to back up, has a backup, or its service is on record as failed
Handled(c) == c \in saved \cup Repoless \cup Bare \/ ServiceOf[c] \in failed

\* What the backup loop has done; a failure is always an issue, and until retention
\* an issue a failure.
Saving ==
  /\ phase \in Early => ~issues
  /\ ~issues => failed = {}
  /\ issues /\ phase \in {"backup", "start"} => failed # {}
  /\ saved \subseteq fresh \ Repoless
  /\ phase = "backup" => \A c \in fresh \ todo : Handled(c)
  /\ phase \in {"start", "post", "release", "done"} => \A c \in fresh : Handled(c)

\* Each container of the batch that was found has one that stands for it.
Standing == phase # "discover" => \A c \in batch \cap all : StandsFor(c) # {}

\* What the loop of post-hooks and retention has done
Retaining ==
  /\ forgotten \subseteq (saved \cup Bare) \ Repoless
  /\ phase \notin {"release", "done"} => notified = "none"
  /\ phase \in {"backup", "start"} => posted = {} /\ forgotten = {}
  /\ phase = "post" =>
       /\ posted = fresh \ todo
       /\ ~issues => (fresh \ todo) \ Repoless \subseteq forgotten
       /\ forgotten \subseteq fresh \ todo
       /\ issues => failed # {} \/ ~((fresh \ todo) \ Repoless \subseteq forgotten)
  /\ phase \in {"release", "done"} =>
       /\ posted = fresh
       /\ ~issues <=> failed = {} /\ fresh \ Repoless \subseteq forgotten
       /\ notified = (IF issues THEN "error" ELSE "info")

\* The initial states have done nothing.
LEMMA InitResults == Init => Saving /\ Standing /\ Retaining
BY DEF Init, Saving, Standing, Retaining, InStop, Early

\* Every container of the batch is handled by the time of the restart.
LEMMA NextSaving ==
  ASSUME Types, Saving, [Next]_vars
  PROVE  Saving'
<1> USE DEF Types, TypeOK, PhaseInv, InStop, Early, Saving, Handled, stackVars, loopVars, stopVars,
           resultVars
<1>1. CASE Discover
  BY <1>1 DEF Discover
<1>2. CASE PreHooks
  BY <1>2 DEF PreHooks
<1>3. CASE Stopped
  BY <1>3 DEF Stopped, Taken
<1>4. CASE StopFails
  BY <1>4 DEF StopFails, Taken, GiveUpStop
<1>5. CASE StopConfirmed
  BY <1>5 DEF StopConfirmed
<1>6. CASE WaitStopFails
  BY <1>6 DEF WaitStopFails, GiveUpStop
<1>7. CASE StopsDone
  BY <1>7 DEF StopsDone
<1>8. CASE BackupsDone
  BY <1>8 DEF BackupsDone
<1>9. CASE NextService
  BY <1>9 DEF NextService
<1>10. CASE WaitFails
  BY <1>10 DEF WaitFails
<1>11. CASE StartsDone
  BY <1>11 DEF StartsDone
<1>12. CASE Finalize
  BY <1>12 DEF Finalize
<1>13. CASE ReleaseBatch
  BY <1>13 DEF ReleaseBatch
<1>14. ASSUME NEW c \in Containers, CallStop(c) PROVE Saving'
  BY <1>14 DEF CallStop, InTurn
<1>15. ASSUME NEW c \in Containers, Skip(c) PROVE Saving'
  BY <1>15 DEF Skip
<1>16. ASSUME NEW c \in Containers, BackupOk(c) PROVE Saving'
  BY <1>16 DEF BackupOk
<1>17. ASSUME NEW c \in Containers, BackupFails(c) PROVE Saving'
  BY <1>17 DEF BackupFails
<1>18. ASSUME NEW c \in Containers, Start(c) PROVE Saving'
  BY <1>18 DEF Start
<1>19. ASSUME NEW c \in Containers, Post(c) PROVE Saving'
  BY <1>19 DEF Post, Hooked
<1>20. ASSUME NEW d \in Containers, NEW k \in Conditions, WaitMet(d, k) PROVE Saving'
  BY <1>20 DEF WaitMet
<1>21. CASE Expire
  BY <1>21 DEF Expire
<1>22. ASSUME NEW c \in Flaky, Drift(c) PROVE Saving'
  BY <1>22 DEF Drift
<1>23. CASE UNCHANGED vars
  BY <1>23 DEF vars
<1>24. QED
  BY <1>1, <1>2, <1>3, <1>4, <1>5, <1>6, <1>7, <1>8, <1>9, <1>10, <1>11, <1>12, <1>13,
     <1>14, <1>15, <1>16, <1>17, <1>18, <1>19, <1>20, <1>21, <1>22, <1>23 DEF Next, Run

\* What was found is settled once, at the start.
LEMMA OnlyDiscover ==
  ASSUME [Next]_vars
  PROVE  Discover \/ (UNCHANGED <<batch, all, fresh>> /\ (phase' # "discover" => phase # "discover"))
  BY DEF Next, Run, vars, stackVars, Discover, PreHooks, Stopped, Taken, StopFails, GiveUpStop,
         StopConfirmed, WaitStopFails, StopsDone, BackupsDone, NextService, WaitFails, StartsDone,
         Finalize, ReleaseBatch, CallStop, Skip, BackupOk, BackupFails, Start, Post, WaitMet,
         Expire, Drift

\* A set with one element has one.
LEMMA OneIsSome ==
  ASSUME NEW S, Cardinality(S) = 1
  PROVE  S # {}
<1>1. Cardinality({}) = 0
  BY FS_EmptySet
<1>2. QED
  BY <1>1

\* Deduplication keeps one container of each service, and nobody drops it.
LEMMA NextStanding ==
  ASSUME Types, Standing, [Next]_vars
  PROVE  Standing'
<1> USE DEF Types, TypeOK, PhaseInv, stackVars, loopVars, stopVars, resultVars
<1>1. CASE Discover
  <2>1. ASSUME NEW c \in batch' \cap all' PROVE StandsFor(c)' # {}
    <3>1. Deduplicated(fresh', batch \cap all') /\ c \in batch \cap all' /\ c \in Containers
      BY <1>1, <2>1 DEF Discover
    <3>2. CASE ServiceOf[c] = NoService
      BY <3>1, <3>2 DEF Deduplicated, StandsFor, Of
    <3>3. CASE ServiceOf[c] # NoService
      <4>1. Cardinality(Of(ServiceOf[c], fresh')) = 1
        BY <3>1, <3>3 DEF Deduplicated
      <4>2. Of(ServiceOf[c], fresh') # {}
        BY <4>1, OneIsSome
      <4>3. QED
        BY <3>3, <4>2 DEF StandsFor, Of
    <3>4. QED
      BY <3>2, <3>3
  <2>2. QED
    BY <2>1 DEF Standing
<1>2. CASE ~Discover
  <2>1. UNCHANGED <<batch, all, fresh>>
    BY <1>2, OnlyDiscover
  <2>2. \A c : StandsFor(c)' = StandsFor(c)
    BY <2>1 DEF StandsFor, Of
  <2>3. phase' # "discover" => phase # "discover"
    BY <1>2, OnlyDiscover
  <2>4. QED
    BY <2>1, <2>2, <2>3 DEF Standing
<1>3. QED
  BY <1>1, <1>2

\* Retention follows the snapshots, and success both.
LEMMA NextRetaining ==
  ASSUME Types, Saving, Retaining, [Next]_vars
  PROVE  Retaining'
<1> USE DEF Types, TypeOK, PhaseInv, InStop, Early, Saving, Handled, Retaining, stackVars,
           loopVars, stopVars, resultVars
<1>1. CASE Discover
  BY <1>1 DEF Discover
<1>2. CASE PreHooks
  BY <1>2 DEF PreHooks
<1>3. CASE Stopped
  BY <1>3 DEF Stopped, Taken
<1>4. CASE StopFails
  BY <1>4 DEF StopFails, Taken, GiveUpStop
<1>5. CASE StopConfirmed
  BY <1>5 DEF StopConfirmed
<1>6. CASE WaitStopFails
  BY <1>6 DEF WaitStopFails, GiveUpStop
<1>7. CASE StopsDone
  BY <1>7 DEF StopsDone
<1>8. CASE BackupsDone
  BY <1>8 DEF BackupsDone
<1>9. CASE NextService
  BY <1>9 DEF NextService
<1>10. CASE WaitFails
  BY <1>10 DEF WaitFails
<1>11. CASE StartsDone
  BY <1>11 DEF StartsDone
<1>12. CASE Finalize
  BY <1>12 DEF Finalize
<1>13. CASE ReleaseBatch
  BY <1>13 DEF ReleaseBatch
<1>14. ASSUME NEW c \in Containers, CallStop(c) PROVE Retaining'
  BY <1>14 DEF CallStop, InTurn
<1>15. ASSUME NEW c \in Containers, Skip(c) PROVE Retaining'
  BY <1>15 DEF Skip
<1>16. ASSUME NEW c \in Containers, BackupOk(c) PROVE Retaining'
  BY <1>16 DEF BackupOk
<1>17. ASSUME NEW c \in Containers, BackupFails(c) PROVE Retaining'
  BY <1>17 DEF BackupFails
<1>18. ASSUME NEW c \in Containers, Start(c) PROVE Retaining'
  BY <1>18 DEF Start
<1>19. ASSUME NEW c \in Containers, Post(c) PROVE Retaining'
  BY <1>19 DEF Post, Hooked
<1>20. ASSUME NEW d \in Containers, NEW k \in Conditions, WaitMet(d, k) PROVE Retaining'
  BY <1>20 DEF WaitMet
<1>21. CASE Expire
  BY <1>21 DEF Expire
<1>22. ASSUME NEW c \in Flaky, Drift(c) PROVE Retaining'
  BY <1>22 DEF Drift
<1>23. CASE UNCHANGED vars
  BY <1>23 DEF vars
<1>24. QED
  BY <1>1, <1>2, <1>3, <1>4, <1>5, <1>6, <1>7, <1>8, <1>9, <1>10, <1>11, <1>12, <1>13,
     <1>14, <1>15, <1>16, <1>17, <1>18, <1>19, <1>20, <1>21, <1>22, <1>23 DEF Next, Run

-----------------------------------------------------------------------------
(* The theorems.                                                           *)

Inv == Types /\ StopInv /\ Saving /\ Standing /\ Retaining

\* The invariant holds in every state.
LEMMA Invariant == Spec => []Inv
<1>1. Init => Inv
  BY InitTypes, InitStop, InitResults DEF Inv
<1>2. Inv /\ [Next]_vars => Inv'
  BY NextTypes, NextStopping, NextStarting, NextSaving, NextStanding, NextRetaining DEF Inv, StopInv
<1>3. QED
  BY <1>1, <1>2, PTL DEF Spec

\* Every variable keeps its type.
THEOREM TypeCorrect == Spec => []TypeOK
<1>1. Inv => TypeOK
  BY DEF Inv, Types
<1>2. QED
  BY Invariant, <1>1, PTL

\* lifecycle.go and stack.go, startStackServices: whatever fails, and whether or
\* not the deadline passes, every container the run has stopped is asked to start
\* again before any post-hook, and no other.
THEOREM RestoredTheorem == Spec => []Restored
<1>1. Inv => Restored
  BY DEF Inv, StopInv, Starting, Restored
<1>2. QED
  BY Invariant, <1>1, PTL

\* stopContainer and releaseBatch: the events of a container this run has down are
\* ignored until the run ends, and nothing is ignored afterwards.
THEOREM OwnEventsTheorem == Spec => []OwnEventsIgnored
<1>1. Inv => OwnEventsIgnored
  BY DEF Inv, StopInv, Stopping, OwnEventsIgnored
<1>2. QED
  BY Invariant, <1>1, PTL

\* hooks.go: post-hooks run for the whole batch, whether or not the deadline passes.
THEOREM PostHooksTheorem == Spec => []PostHooksRun
<1>1. Inv => PostHooksRun
  BY DEF Inv, Retaining, PostHooksRun
<1>2. QED
  BY Invariant, <1>1, PTL

\* applyRetention and finalizeStackBackup: snapshots are removed only after a backup
\* of this run that stored whatever the container has to store; the message of
\* success means backup and retention of each container of the batch that was found
\* and has a repository, or of the replica that stands for it; that of an error means
\* that one of these failed.
THEOREM HonestReportTheorem == Spec => []HonestReport
<1>1. ASSUME Inv PROVE HonestReport
  <2> USE <1>1 DEF Inv, Types, TypeOK, PhaseInv, Early, InStop, Saving, Standing, Retaining
  <2>1. forgotten \subseteq saved \cup Bare
    OBVIOUS
  <2>2. ASSUME notified = "info", NEW c \in batch \cap all
        PROVE  StandsFor(c) \cap (forgotten \cup Repoless) # {}
    <3>1. phase \in {"release", "done"} /\ ~issues
      BY <2>2
    <3>2. fresh \subseteq forgotten \cup Repoless
      BY <3>1
    <3>3. StandsFor(c) # {} /\ StandsFor(c) \subseteq fresh
      BY <2>2, <3>1 DEF StandsFor, Of
    <3>4. QED
      BY <3>2, <3>3
  <2>3. notified = "error" => failed # {} \/ forgotten # fresh \ Repoless
    OBVIOUS
  <2>4. QED
    BY <2>1, <2>2, <2>3 DEF HonestReport
<1>2. QED
  BY Invariant, <1>1, PTL

-----------------------------------------------------------------------------
(* Each step of the run brings it nearer to its end.                       *)

\* The parts of RunStackBatch in their order, ...
Part ==
  CASE phase = "discover" -> 0
    [] phase = "prehooks" -> 1
    [] phase \in {"stop"} \cup InStop -> 2
    [] phase = "backup" -> 3
    [] phase = "start" -> 4
    [] phase = "post" -> 5
    [] phase = "release" -> 6
    [] phase = "done" -> 7

\* ... and the calls stopContainer has before it.
CallsLeft ==
  CASE phase \in {"stopping", "unsent"} -> 2
    [] phase = "waiting" -> 1
    [] OTHER -> 0

\* A part done, a service of the start loop done, a container done, a wait done, or
\* a call of stopContainer done, with no earlier one of these undone.
Descent ==
  \/ Part' > Part
  \/ /\ Part' = Part
     /\ \/ Len(order') < Len(order)
        \/ order' = order /\ todo' \subseteq todo /\ todo' # todo
        \/ order' = order /\ todo' = todo /\ waits' \subseteq waits /\ waits' # waits
        \/ order' = order /\ todo' = todo /\ waits' = waits /\ CallsLeft' < CallsLeft

\* RunStackBatch goes through its parts and loops without ever going back, whatever
\* fails; the deadline, and containers that exit or change health, undo nothing of it.
THEOREM RunDescends ==
  Spec => [][(Run /\ Descent) \/ UNCHANGED <<phase, order, todo, waits>>]_vars
<1>1. ASSUME Types, Run PROVE Descent
  <2> USE <1>1 DEF Types, TypeOK, PhaseInv, InStop, Early, loopVars, stackVars, Descent, Part, CallsLeft
  <2>1. CASE Discover
    BY <2>1 DEF Discover
  <2>2. CASE PreHooks
    BY <2>2 DEF PreHooks
  <2>3. CASE Stopped
    BY <2>3 DEF Stopped
  <2>4. CASE StopFails
    BY <2>4 DEF StopFails, GiveUpStop
  <2>5. CASE StopConfirmed
    BY <2>5 DEF StopConfirmed
  <2>6. CASE WaitStopFails
    BY <2>6 DEF WaitStopFails, GiveUpStop
  <2>7. CASE StopsDone
    BY <2>7 DEF StopsDone
  <2>8. CASE BackupsDone
    BY <2>8 DEF BackupsDone
  <2>9. CASE NextService
    <3>1. Len(Tail(order)) < Len(order)
      BY <2>9 DEF NextService
    <3>2. QED
      BY <2>9, <3>1 DEF NextService
  <2>10. CASE WaitFails
    BY <2>10 DEF WaitFails
  <2>11. CASE StartsDone
    BY <2>11 DEF StartsDone
  <2>12. CASE Finalize
    BY <2>12 DEF Finalize
  <2>13. CASE ReleaseBatch
    BY <2>13 DEF ReleaseBatch
  <2>14. ASSUME NEW c \in Containers, CallStop(c) PROVE Descent
    BY <2>14 DEF CallStop, InTurn
  <2>15. ASSUME NEW c \in Containers, Skip(c) PROVE Descent
    BY <2>15 DEF Skip
  <2>16. ASSUME NEW c \in Containers, BackupOk(c) PROVE Descent
    BY <2>16 DEF BackupOk
  <2>17. ASSUME NEW c \in Containers, BackupFails(c) PROVE Descent
    BY <2>17 DEF BackupFails
  <2>18. ASSUME NEW c \in Containers, Start(c) PROVE Descent
    BY <2>18 DEF Start
  <2>19. ASSUME NEW c \in Containers, Post(c) PROVE Descent
    BY <2>19 DEF Post
  <2>20. ASSUME NEW d \in Containers, NEW k \in Conditions, WaitMet(d, k) PROVE Descent
    BY <2>20 DEF WaitMet
  <2>21. QED
    BY <1>1, <2>1, <2>2, <2>3, <2>4, <2>5, <2>6, <2>7, <2>8, <2>9, <2>10, <2>11, <2>12, <2>13,
       <2>14, <2>15, <2>16, <2>17, <2>18, <2>19, <2>20 DEF Run
<1>2. ASSUME Expire \/ \E c \in Flaky : Drift(c) PROVE UNCHANGED <<phase, order, todo, waits>>
  BY <1>2 DEF Expire, Drift, loopVars
<1>3. Inv /\ [Next]_vars => [(Run /\ Descent) \/ UNCHANGED <<phase, order, todo, waits>>]_vars
  BY <1>1, <1>2 DEF Inv, Next
<1>4. QED
  BY Invariant, <1>3, PTL DEF Spec
=============================================================================
