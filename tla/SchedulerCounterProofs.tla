----------------------- MODULE SchedulerCounterProofs -----------------------
(***************************************************************************)
(* The counters behind Running() and Stop(): active and wg count the       *)
(* goroutines that have announced themselves and not yet left, whatever    *)
(* the order of the deferred calls.  From that, Running() never misses     *)
(* work under way, and the daemon does not leave before the work cron      *)
(* started is over.                                                        *)
(***************************************************************************)
EXTENDS SchedulerProofs

\* The goroutines s.active counts: from active.Add(1) to active.Add(-1).  A cron
\* goroutine counts for the worker it is about to start.
Counted ==
  {p \in Procs : \/ pc[p] \in {"join", "acquire", "drain", "batch", "run", "unlock",
                              "uncount"}
                 \/ pc[p] = "done" /\ p \notin Workers}

\* The goroutines s.wg counts: from wg.Add(1) to wg.Done()
Joined ==
  {p \in Procs : \/ pc[p] \in {"acquire", "drain", "batch", "run", "unlock", "done"}
                 \/ pc[p] \in {"uncount", "release"} /\ p \in Workers}

ActiveCounts == active = Cardinality(Counted)

WgCounts == wg = Cardinality(Joined)

\* Once cron's goroutines are gone no worker starts, and when wg reaches zero
\* none is left.
DrainedInv ==
  /\ main \in {"waitwg", "leaving"} => \A p \in Jobs \cup Maint : pc[p] = "idle"
  /\ main = "leaving" => \A w \in Workers : pc[w] = "idle"

CInv == IInv /\ ActiveCounts /\ WgCounts /\ DrainedInv

-----------------------------------------------------------------------------
(* Cardinalities.                                                          *)

\* Finite sets of goroutines that differ by one or by a swap
LEMMA CardinalityFacts ==
  ASSUME NEW S, NEW T, S \subseteq Procs, T \subseteq Procs
  PROVE  /\ Cardinality(S) \in Nat
         /\ S = {} <=> Cardinality(S) = 0
         /\ \A p \in Procs : p \notin S /\ T = S \cup {p} => Cardinality(T) = Cardinality(S) + 1
         /\ \A p \in Procs : p \in S /\ T = S \ {p} => Cardinality(T) = Cardinality(S) - 1
<1>1. IsFiniteSet(S) /\ IsFiniteSet(T)
  BY ProcsAssumption, FS_Subset
<1>2. Cardinality(S) \in Nat /\ (S = {} <=> Cardinality(S) = 0)
  BY <1>1, FS_CardinalityType, FS_EmptySet
<1>3. ASSUME NEW p \in Procs, p \notin S, T = S \cup {p}
      PROVE  Cardinality(T) = Cardinality(S) + 1
  BY <1>1, <1>3, FS_AddElement
<1>4. ASSUME NEW p \in Procs, p \in S, T = S \ {p}
      PROVE  Cardinality(T) = Cardinality(S) - 1
  BY <1>1, <1>4, FS_RemoveElement
<1>5. QED
  BY <1>2, <1>3, <1>4

\* The effect on a count of a step of goroutine p only
LEMMA SwapCardinality ==
  ASSUME NEW S \in SUBSET Procs, NEW j \in S, NEW w \in Procs \ S
  PROVE  Cardinality((S \ {j}) \cup {w}) = Cardinality(S)
<1> DEFINE R == S \ {j}
<1>1. Cardinality(R) = Cardinality(S) - 1
  BY CardinalityFacts
<1>2. Cardinality(R \cup {w}) = Cardinality(R) + 1
  BY CardinalityFacts
<1>3. Cardinality(S) \in Nat
  BY CardinalityFacts
<1>4. QED
  BY <1>1, <1>2, <1>3

-----------------------------------------------------------------------------
(* The steps.                                                              *)

\* Every step keeps active the number of goroutines counted.
LEMMA ActiveStep == TypeOK /\ Roles /\ ActiveCounts /\ [Next]_vars => ActiveCounts'
<1> SUFFICES ASSUME TypeOK /\ Roles /\ ActiveCounts, [Next]_vars PROVE ActiveCounts'
  OBVIOUS
<1> USE Kinds, ProcsAssumption, GroupsAssumption DEF registryVars, taskVars, queueVars, countVars, daemonVars
<1>1. ASSUME NEW c \in Containers, Register(c) PROVE ActiveCounts'
  <2>1. Counted' = Counted /\ active' = active
    BY <1>1 DEF Register, TypeOK, Roles, Counted, DrainPcs
  <2>2. QED
    BY <2>1 DEF ActiveCounts
<1>2. ASSUME NEW c \in Containers, Unregister(c) PROVE ActiveCounts'
  <2>1. Counted' = Counted /\ active' = active
    BY <1>2 DEF Unregister, Members, TypeOK, Roles, Counted, DrainPcs
  <2>2. QED
    BY <2>1 DEF ActiveCounts
<1>3. ASSUME NEW j \in Jobs, NEW g \in Groups, Fire(j, g) PROVE ActiveCounts'
  <2>1. Counted' = Counted /\ active' = active
    BY <1>3 DEF Fire, Members, TypeOK, Roles, Counted, DrainPcs
  <2>2. QED
    BY <2>1 DEF ActiveCounts
<1>4. ASSUME NEW j \in Jobs, Lookup(j) PROVE ActiveCounts'
  <2>1. Counted' = Counted /\ active' = active
    BY <1>4 DEF Lookup, Members, EntryPoint, TypeOK, Roles, Counted, DrainPcs
  <2>2. QED
    BY <2>1 DEF ActiveCounts
<1>5. ASSUME NEW j \in Jobs, JobReturn(j) PROVE ActiveCounts'
  <2>1. Counted' = Counted /\ active' = active
    BY <1>5 DEF JobReturn, TypeOK, Roles, Counted, DrainPcs
  <2>2. QED
    BY <2>1 DEF ActiveCounts
<1>6. ASSUME NEW j \in Jobs, NEW w \in Workers, Spawn(j, w) PROVE ActiveCounts'
  <2>1. /\ j \in Counted /\ w \in Procs \ Counted
        /\ Counted' = (Counted \ {j}) \cup {w}
    BY <1>6 DEF Spawn, Free, TypeOK, Roles, Counted, DrainPcs
  <2>2. Counted \in SUBSET Procs
    BY DEF Counted
  <2>3. active' = active
    BY <1>6 DEF Spawn
  <2>4. QED
    BY <2>1, <2>2, <2>3, SwapCardinality DEF ActiveCounts
<1>7. ASSUME NEW k \in Calls, NEW c \in Containers, Trigger(k, c) PROVE ActiveCounts'
  <2>1. Counted' = Counted /\ active' = active
    BY <1>7 DEF Trigger, EntryPoint, TypeOK, Roles, Counted, DrainPcs
  <2>2. QED
    BY <2>1 DEF ActiveCounts
<1>8. ASSUME NEW k \in Calls, NEW P \in Projects, TriggerProject(k, P) PROVE ActiveCounts'
  <2>1. Counted' = Counted /\ active' = active
    BY <1>8 DEF TriggerProject, InProject, TypeOK, Roles, Counted, DrainPcs
  <2>2. QED
    BY <2>1 DEF ActiveCounts
<1>9. ASSUME NEW p \in Procs, Enqueue(p) PROVE ActiveCounts'
  <2>1. Counted' = Counted /\ active' = active
    BY <1>9 DEF Enqueue, Busy, Returned, TypeOK, Roles, Counted, DrainPcs
  <2>2. QED
    BY <2>1 DEF ActiveCounts
<1>10. ASSUME NEW p \in Procs, Count(p) PROVE ActiveCounts'
  <2>1. p \notin Counted /\ Counted' = Counted \cup {p} /\ active' = active + 1
    BY <1>10 DEF Count, TypeOK, Roles, Counted, DrainPcs
  <2>2. Counted \subseteq Procs /\ Counted' \subseteq Procs
    BY DEF Counted
  <2>3. Cardinality(Counted') = Cardinality(Counted) + 1
    BY <2>1, <2>2, CardinalityFacts
  <2>4. QED
    BY <2>1, <2>3 DEF ActiveCounts
<1>11. ASSUME NEW p \in Procs, Join(p) PROVE ActiveCounts'
  <2>1. Counted' = Counted /\ active' = active
    BY <1>11 DEF Join, TypeOK, Roles, Counted, DrainPcs
  <2>2. QED
    BY <2>1 DEF ActiveCounts
<1>12. ASSUME NEW p \in Procs, Acquire(p) PROVE ActiveCounts'
  <2>1. Counted' = Counted /\ active' = active
    BY <1>12 DEF Acquire, Free, TypeOK, Roles, Counted, DrainPcs
  <2>2. QED
    BY <2>1 DEF ActiveCounts
<1>13. ASSUME NEW p \in Procs, Drain(p) PROVE ActiveCounts'
  <2>1. Counted' = Counted /\ active' = active
    BY <1>13 DEF Drain, TypeOK, Roles, Counted, DrainPcs
  <2>2. QED
    BY <2>1 DEF ActiveCounts
<1>14. ASSUME NEW p \in Procs, FinishWork(p) PROVE ActiveCounts'
  <2>1. Counted' = Counted /\ active' = active
    BY <1>14 DEF FinishWork, AfterWork, TypeOK, Roles, Counted, DrainPcs
  <2>2. QED
    BY <2>1 DEF ActiveCounts
<1>15. ASSUME NEW p \in Procs, WgDone(p) PROVE ActiveCounts'
  <2>1. Counted' = Counted /\ active' = active
    BY <1>15 DEF WgDone, TypeOK, Roles, Counted, DrainPcs
  <2>2. QED
    BY <2>1 DEF ActiveCounts
<1>16. ASSUME NEW p \in Procs, Uncount(p) PROVE ActiveCounts'
  <2>1. p \in Counted /\ Counted' = Counted \ {p} /\ active' = active - 1
    BY <1>16 DEF Uncount, TypeOK, Roles, Counted, DrainPcs
  <2>2. Counted \subseteq Procs /\ Counted' \subseteq Procs
    BY DEF Counted
  <2>3. Cardinality(Counted') = Cardinality(Counted) - 1
    BY <2>1, <2>2, CardinalityFacts
  <2>4. QED
    BY <2>1, <2>3 DEF ActiveCounts
<1>17. ASSUME NEW p \in Procs, Release(p) PROVE ActiveCounts'
  <2>1. Counted' = Counted /\ active' = active
    BY <1>17 DEF Release, Held, LastHeld, Returned, TypeOK, Roles, Counted, DrainPcs
  <2>2. QED
    BY <2>1 DEF ActiveCounts
<1>18. ASSUME NEW m \in Maint, FireMaintenance(m) PROVE ActiveCounts'
  <2>1. Counted' = Counted /\ active' = active
    BY <1>18 DEF FireMaintenance, TypeOK, Roles, Counted, DrainPcs
  <2>2. QED
    BY <2>1 DEF ActiveCounts
<1>19. ASSUME NEW m \in Maint, AcquireNext(m) PROVE ActiveCounts'
  <2>1. Counted' = Counted /\ active' = active
    BY <1>19 DEF AcquireNext, Free, HasAll, Held, TypeOK, Roles, Counted, DrainPcs
  <2>2. QED
    BY <2>1 DEF ActiveCounts
<1>20. ASSUME NEW o \in Ops, Admit(o) PROVE ActiveCounts'
  <2>1. Counted' = Counted /\ active' = active
    BY <1>20 DEF Admit, TypeOK, Roles, Counted, DrainPcs
  <2>2. QED
    BY <2>1 DEF ActiveCounts
<1>21. ASSUME NEW o \in Ops, FinishOp(o) PROVE ActiveCounts'
  <2>1. Counted' = Counted /\ active' = active
    BY <1>21 DEF FinishOp, TypeOK, Roles, Counted, DrainPcs
  <2>2. QED
    BY <2>1 DEF ActiveCounts
<1>22. CASE Shutdown \/ Signal \/ ForceStop
  <2>1. pc' = pc /\ active' = active
    BY <1>22 DEF Shutdown, CloseApi, StopCron, CronDone, WgZero, Exit, Signal, ForceStop, Move
  <2>2. QED
    BY <2>1 DEF ActiveCounts, Counted
<1>23. CASE UNCHANGED vars
  BY <1>23 DEF vars, ActiveCounts, Counted
<1>24. ASSUME NEW m \in Maint, Unlock(m) PROVE ActiveCounts'
  <2>1. Counted' = Counted /\ active' = active
    BY <1>24 DEF Unlock, TypeOK, Roles, Counted, DrainPcs
  <2>2. QED
    BY <2>1 DEF ActiveCounts
<1>25. ASSUME NEW m \in Maint, UnlockReturns(m) PROVE ActiveCounts'
  <2>1. Counted' = Counted /\ active' = active
    BY <1>25 DEF UnlockReturns, TypeOK, Roles, Counted, DrainPcs
  <2>2. QED
    BY <2>1 DEF ActiveCounts
<1>26. QED
  BY <1>1, <1>2, <1>3, <1>4, <1>5, <1>6, <1>7, <1>8, <1>9, <1>10, <1>11, <1>12,
     <1>13, <1>14, <1>15, <1>16, <1>17, <1>18, <1>19, <1>20, <1>21, <1>22, <1>23,
     <1>24, <1>25
  DEF Next, Step, JobStep

\* Every step keeps wg the number of goroutines joined.
LEMMA WgStep == TypeOK /\ Roles /\ WgCounts /\ [Next]_vars => WgCounts'
<1> SUFFICES ASSUME TypeOK /\ Roles /\ WgCounts, [Next]_vars PROVE WgCounts'
  OBVIOUS
<1> USE Kinds, ProcsAssumption, GroupsAssumption DEF registryVars, taskVars, queueVars, countVars, daemonVars
<1>1. ASSUME NEW c \in Containers, Register(c) PROVE WgCounts'
  <2>1. Joined' = Joined /\ wg' = wg
    BY <1>1 DEF Register, TypeOK, Roles, Joined, DrainPcs
  <2>2. QED
    BY <2>1 DEF WgCounts
<1>2. ASSUME NEW c \in Containers, Unregister(c) PROVE WgCounts'
  <2>1. Joined' = Joined /\ wg' = wg
    BY <1>2 DEF Unregister, Members, TypeOK, Roles, Joined, DrainPcs
  <2>2. QED
    BY <2>1 DEF WgCounts
<1>3. ASSUME NEW j \in Jobs, NEW g \in Groups, Fire(j, g) PROVE WgCounts'
  <2>1. Joined' = Joined /\ wg' = wg
    BY <1>3 DEF Fire, Members, TypeOK, Roles, Joined, DrainPcs
  <2>2. QED
    BY <2>1 DEF WgCounts
<1>4. ASSUME NEW j \in Jobs, Lookup(j) PROVE WgCounts'
  <2>1. Joined' = Joined /\ wg' = wg
    BY <1>4 DEF Lookup, Members, EntryPoint, TypeOK, Roles, Joined, DrainPcs
  <2>2. QED
    BY <2>1 DEF WgCounts
<1>5. ASSUME NEW j \in Jobs, JobReturn(j) PROVE WgCounts'
  <2>1. Joined' = Joined /\ wg' = wg
    BY <1>5 DEF JobReturn, TypeOK, Roles, Joined, DrainPcs
  <2>2. QED
    BY <2>1 DEF WgCounts
<1>6. ASSUME NEW j \in Jobs, NEW w \in Workers, Spawn(j, w) PROVE WgCounts'
  <2>1. /\ j \in Joined /\ w \in Procs \ Joined
        /\ Joined' = (Joined \ {j}) \cup {w}
    BY <1>6 DEF Spawn, Free, TypeOK, Roles, Joined, DrainPcs
  <2>2. Joined \in SUBSET Procs
    BY DEF Joined
  <2>3. wg' = wg
    BY <1>6 DEF Spawn
  <2>4. QED
    BY <2>1, <2>2, <2>3, SwapCardinality DEF WgCounts
<1>7. ASSUME NEW k \in Calls, NEW c \in Containers, Trigger(k, c) PROVE WgCounts'
  <2>1. Joined' = Joined /\ wg' = wg
    BY <1>7 DEF Trigger, EntryPoint, TypeOK, Roles, Joined, DrainPcs
  <2>2. QED
    BY <2>1 DEF WgCounts
<1>8. ASSUME NEW k \in Calls, NEW P \in Projects, TriggerProject(k, P) PROVE WgCounts'
  <2>1. Joined' = Joined /\ wg' = wg
    BY <1>8 DEF TriggerProject, InProject, TypeOK, Roles, Joined, DrainPcs
  <2>2. QED
    BY <2>1 DEF WgCounts
<1>9. ASSUME NEW p \in Procs, Enqueue(p) PROVE WgCounts'
  <2>1. Joined' = Joined /\ wg' = wg
    BY <1>9 DEF Enqueue, Busy, Returned, TypeOK, Roles, Joined, DrainPcs
  <2>2. QED
    BY <2>1 DEF WgCounts
<1>10. ASSUME NEW p \in Procs, Count(p) PROVE WgCounts'
  <2>1. Joined' = Joined /\ wg' = wg
    BY <1>10 DEF Count, TypeOK, Roles, Joined, DrainPcs
  <2>2. QED
    BY <2>1 DEF WgCounts
<1>11. ASSUME NEW p \in Procs, Join(p) PROVE WgCounts'
  <2>1. p \notin Joined /\ Joined' = Joined \cup {p} /\ wg' = wg + 1
    BY <1>11 DEF Join, TypeOK, Roles, Joined, DrainPcs
  <2>2. Joined \subseteq Procs /\ Joined' \subseteq Procs
    BY DEF Joined
  <2>3. Cardinality(Joined') = Cardinality(Joined) + 1
    BY <2>1, <2>2, CardinalityFacts
  <2>4. QED
    BY <2>1, <2>3 DEF WgCounts
<1>12. ASSUME NEW p \in Procs, Acquire(p) PROVE WgCounts'
  <2>1. Joined' = Joined /\ wg' = wg
    BY <1>12 DEF Acquire, Free, TypeOK, Roles, Joined, DrainPcs
  <2>2. QED
    BY <2>1 DEF WgCounts
<1>13. ASSUME NEW p \in Procs, Drain(p) PROVE WgCounts'
  <2>1. Joined' = Joined /\ wg' = wg
    BY <1>13 DEF Drain, TypeOK, Roles, Joined, DrainPcs
  <2>2. QED
    BY <2>1 DEF WgCounts
<1>14. ASSUME NEW p \in Procs, FinishWork(p) PROVE WgCounts'
  <2>1. Joined' = Joined /\ wg' = wg
    BY <1>14 DEF FinishWork, AfterWork, TypeOK, Roles, Joined, DrainPcs
  <2>2. QED
    BY <2>1 DEF WgCounts
<1>15. ASSUME NEW p \in Procs, WgDone(p) PROVE WgCounts'
  <2>1. p \in Joined /\ Joined' = Joined \ {p} /\ wg' = wg - 1
    BY <1>15 DEF WgDone, TypeOK, Roles, Joined, DrainPcs
  <2>2. Joined \subseteq Procs /\ Joined' \subseteq Procs
    BY DEF Joined
  <2>3. Cardinality(Joined') = Cardinality(Joined) - 1
    BY <2>1, <2>2, CardinalityFacts
  <2>4. QED
    BY <2>1, <2>3 DEF WgCounts
<1>16. ASSUME NEW p \in Procs, Uncount(p) PROVE WgCounts'
  <2>1. Joined' = Joined /\ wg' = wg
    BY <1>16 DEF Uncount, TypeOK, Roles, Joined, DrainPcs
  <2>2. QED
    BY <2>1 DEF WgCounts
<1>17. ASSUME NEW p \in Procs, Release(p) PROVE WgCounts'
  <2>1. Joined' = Joined /\ wg' = wg
    BY <1>17 DEF Release, Held, LastHeld, Returned, TypeOK, Roles, Joined, DrainPcs
  <2>2. QED
    BY <2>1 DEF WgCounts
<1>18. ASSUME NEW m \in Maint, FireMaintenance(m) PROVE WgCounts'
  <2>1. Joined' = Joined /\ wg' = wg
    BY <1>18 DEF FireMaintenance, TypeOK, Roles, Joined, DrainPcs
  <2>2. QED
    BY <2>1 DEF WgCounts
<1>19. ASSUME NEW m \in Maint, AcquireNext(m) PROVE WgCounts'
  <2>1. Joined' = Joined /\ wg' = wg
    BY <1>19 DEF AcquireNext, Free, HasAll, Held, TypeOK, Roles, Joined, DrainPcs
  <2>2. QED
    BY <2>1 DEF WgCounts
<1>20. ASSUME NEW o \in Ops, Admit(o) PROVE WgCounts'
  <2>1. Joined' = Joined /\ wg' = wg
    BY <1>20 DEF Admit, TypeOK, Roles, Joined, DrainPcs
  <2>2. QED
    BY <2>1 DEF WgCounts
<1>21. ASSUME NEW o \in Ops, FinishOp(o) PROVE WgCounts'
  <2>1. Joined' = Joined /\ wg' = wg
    BY <1>21 DEF FinishOp, TypeOK, Roles, Joined, DrainPcs
  <2>2. QED
    BY <2>1 DEF WgCounts
<1>22. CASE Shutdown \/ Signal \/ ForceStop
  <2>1. pc' = pc /\ wg' = wg
    BY <1>22 DEF Shutdown, CloseApi, StopCron, CronDone, WgZero, Exit, Signal, ForceStop, Move
  <2>2. QED
    BY <2>1 DEF WgCounts, Joined
<1>23. CASE UNCHANGED vars
  BY <1>23 DEF vars, WgCounts, Joined
<1>24. ASSUME NEW m \in Maint, Unlock(m) PROVE WgCounts'
  <2>1. Joined' = Joined /\ wg' = wg
    BY <1>24 DEF Unlock, TypeOK, Roles, Joined, DrainPcs
  <2>2. QED
    BY <2>1 DEF WgCounts
<1>25. ASSUME NEW m \in Maint, UnlockReturns(m) PROVE WgCounts'
  <2>1. Joined' = Joined /\ wg' = wg
    BY <1>25 DEF UnlockReturns, TypeOK, Roles, Joined, DrainPcs
  <2>2. QED
    BY <2>1 DEF WgCounts
<1>26. QED
  BY <1>1, <1>2, <1>3, <1>4, <1>5, <1>6, <1>7, <1>8, <1>9, <1>10, <1>11, <1>12,
     <1>13, <1>14, <1>15, <1>16, <1>17, <1>18, <1>19, <1>20, <1>21, <1>22, <1>23,
     <1>24, <1>25
  DEF Next, Step, JobStep

\* Every step after cron is stopped leaves cron's goroutines gone.
LEMMA DrainedStep == TypeOK /\ Roles /\ WgCounts /\ DrainedInv /\ [Next]_vars => DrainedInv'
<1> SUFFICES ASSUME TypeOK /\ Roles /\ WgCounts /\ DrainedInv, [Next]_vars PROVE DrainedInv'
  OBVIOUS
<1> USE Kinds, ProcsAssumption DEF registryVars, taskVars, queueVars, countVars, daemonVars
<1>1. ASSUME NEW c \in Containers, Register(c) PROVE DrainedInv'
  BY <1>1 DEF Register, TypeOK, Roles, DrainedInv, DrainPcs, CronOn
<1>2. ASSUME NEW c \in Containers, Unregister(c) PROVE DrainedInv'
  BY <1>2 DEF Unregister, Members, TypeOK, Roles, DrainedInv, DrainPcs, CronOn
<1>3. ASSUME NEW j \in Jobs, NEW g \in Groups, Fire(j, g) PROVE DrainedInv'
  BY <1>3 DEF Fire, Members, TypeOK, Roles, DrainedInv, DrainPcs, CronOn
<1>4. ASSUME NEW j \in Jobs, Lookup(j) PROVE DrainedInv'
    BY <1>4 DEF Lookup, Members, EntryPoint, TypeOK, Roles, DrainedInv, DrainPcs,
     CronOn
<1>5. ASSUME NEW j \in Jobs, JobReturn(j) PROVE DrainedInv'
  BY <1>5 DEF JobReturn, TypeOK, Roles, DrainedInv, DrainPcs, CronOn
<1>6. ASSUME NEW j \in Jobs, NEW w \in Workers, Spawn(j, w) PROVE DrainedInv'
  BY <1>6 DEF Spawn, Free, TypeOK, Roles, DrainedInv, DrainPcs, CronOn
<1>7. ASSUME NEW k \in Calls, NEW c \in Containers, Trigger(k, c) PROVE DrainedInv'
  BY <1>7 DEF Trigger, EntryPoint, TypeOK, Roles, DrainedInv, DrainPcs, CronOn
<1>8. ASSUME NEW k \in Calls, NEW P \in Projects, TriggerProject(k, P) PROVE DrainedInv'
  BY <1>8 DEF TriggerProject, InProject, TypeOK, Roles, DrainedInv, DrainPcs, CronOn
<1>9. ASSUME NEW p \in Procs, Enqueue(p) PROVE DrainedInv'
  BY <1>9 DEF Enqueue, Busy, Returned, TypeOK, Roles, DrainedInv, DrainPcs, CronOn
<1>10. ASSUME NEW p \in Procs, Count(p) PROVE DrainedInv'
  BY <1>10 DEF Count, TypeOK, Roles, DrainedInv, DrainPcs, CronOn
<1>11. ASSUME NEW p \in Procs, Join(p) PROVE DrainedInv'
  BY <1>11 DEF Join, TypeOK, Roles, DrainedInv, DrainPcs, CronOn
<1>12. ASSUME NEW p \in Procs, Acquire(p) PROVE DrainedInv'
  BY <1>12 DEF Acquire, Free, TypeOK, Roles, DrainedInv, DrainPcs, CronOn
<1>13. ASSUME NEW p \in Procs, Drain(p) PROVE DrainedInv'
  BY <1>13 DEF Drain, TypeOK, Roles, DrainedInv, DrainPcs, CronOn
<1>14. ASSUME NEW p \in Procs, FinishWork(p) PROVE DrainedInv'
    BY <1>14 DEF FinishWork, AfterWork, TypeOK, Roles, DrainedInv,
     DrainPcs, CronOn
<1>15. ASSUME NEW p \in Procs, WgDone(p) PROVE DrainedInv'
  BY <1>15 DEF WgDone, TypeOK, Roles, DrainedInv, DrainPcs, CronOn
<1>16. ASSUME NEW p \in Procs, Uncount(p) PROVE DrainedInv'
  BY <1>16 DEF Uncount, TypeOK, Roles, DrainedInv, DrainPcs, CronOn
<1>17. ASSUME NEW p \in Procs, Release(p) PROVE DrainedInv'
    BY <1>17 DEF Release, Held, LastHeld, Returned, TypeOK, Roles, DrainedInv,
     DrainPcs, CronOn
<1>18. ASSUME NEW m \in Maint, FireMaintenance(m) PROVE DrainedInv'
  BY <1>18 DEF FireMaintenance, TypeOK, Roles, DrainedInv, DrainPcs, CronOn
<1>19. ASSUME NEW m \in Maint, AcquireNext(m) PROVE DrainedInv'
    BY <1>19 DEF AcquireNext, Free, HasAll, Held, TypeOK, Roles, DrainedInv,
     DrainPcs, CronOn
<1>20. ASSUME NEW o \in Ops, Admit(o) PROVE DrainedInv'
  BY <1>20 DEF Admit, TypeOK, Roles, DrainedInv, DrainPcs, CronOn
<1>21. ASSUME NEW o \in Ops, FinishOp(o) PROVE DrainedInv'
  BY <1>21 DEF FinishOp, TypeOK, Roles, DrainedInv, DrainPcs, CronOn
<1>22. CASE Shutdown \/ Signal \/ ForceStop
  <2>1. CASE WgZero
    <3>1. Joined \subseteq Procs /\ Cardinality(Joined) = 0
      BY <2>1 DEF WgZero, WgCounts, Joined
    <3>2. Joined = {}
      BY <3>1, CardinalityFacts
    <3>3. \A w \in Workers : pc[w] = "idle"
      BY <3>2 DEF Joined, Roles
    <3>4. QED
      BY <2>1, <3>3 DEF WgZero, Move, DrainedInv
  <2>2. CASE CloseApi \/ StopCron \/ CronDone \/ Exit \/ Signal \/ ForceStop
    BY <2>2 DEF CloseApi, StopCron, CronDone, Exit, Signal, ForceStop, Move, DrainedInv
  <2>3. QED
    BY <1>22, <2>1, <2>2 DEF Shutdown
<1>23. CASE UNCHANGED vars
  BY <1>23 DEF vars, TypeOK, Roles, DrainedInv, DrainPcs, CronOn
<1>24. ASSUME NEW m \in Maint, Unlock(m) PROVE DrainedInv'
  BY <1>24 DEF Unlock, TypeOK, Roles, DrainedInv, DrainPcs, CronOn
<1>25. ASSUME NEW m \in Maint, UnlockReturns(m) PROVE DrainedInv'
  BY <1>25 DEF UnlockReturns, TypeOK, Roles, DrainedInv, DrainPcs, CronOn
<1>26. QED
  BY <1>1, <1>2, <1>3, <1>4, <1>5, <1>6, <1>7, <1>8, <1>9, <1>10, <1>11, <1>12,
     <1>13, <1>14, <1>15, <1>16, <1>17, <1>18, <1>19, <1>20, <1>21, <1>22, <1>23,
     <1>24, <1>25
  DEF Next, Step, JobStep

-----------------------------------------------------------------------------
(* The theorems.                                                           *)

\* The counters agree with the goroutines in every reachable state.
THEOREM CountersInvariance == Spec => []CInv
<1>1. Init => ActiveCounts /\ WgCounts /\ DrainedInv
  <2> SUFFICES ASSUME Init PROVE ActiveCounts /\ WgCounts /\ DrainedInv
    OBVIOUS
  <2>1. Counted = {} /\ Joined = {}
    BY DEF Init, Counted, Joined
  <2>2. QED
    BY <2>1, FS_EmptySet DEF Init, ActiveCounts, WgCounts, DrainedInv
<1>2. IInv /\ ActiveCounts /\ WgCounts /\ DrainedInv /\ [Next]_vars
        => (ActiveCounts /\ WgCounts /\ DrainedInv)'
  BY ActiveStep, WgStep, DrainedStep DEF IInv
<1>3. QED
  BY <1>1, <1>2, Invariance, PTL DEF Spec, CInv

\* Running() is true while a backup or a maintenance job is under way or waits
\* for the semaphore, and false once every goroutine is back.
THEOREM RunningAccurateTheorem == Spec => []RunningAccurate
<1>1. ASSUME CInv PROVE RunningAccurate
  <2>1. Counted \subseteq Procs
    BY DEF Counted
  <2>2. Cardinality(Counted) \in Nat /\ (Counted = {} <=> Cardinality(Counted) = 0)
    BY <2>1, CardinalityFacts
  <2>3. active = Cardinality(Counted)
    BY <1>1 DEF CInv, ActiveCounts
  <2>4. (\E p \in Procs : Working(p) \/ pc[p] \in {"join", "acquire", "drain"}) => Counted # {}
    BY DEF Counted, Working
  <2>5. (\A p \in Procs : pc[p] = "idle") => Counted = {}
    BY DEF Counted
  <2>6. QED
    BY <2>2, <2>3, <2>4, <2>5 DEF RunningAccurate, Running
<1>2. QED
  BY <1>1, CountersInvariance, PTL

\* Nothing cron started is under way when the daemon leaves unforced.
THEOREM CronWorkDrainedTheorem == Spec => []CronWorkDrained
<1>1. CInv => CronWorkDrained
  BY DEF CInv, DrainedInv, CronWorkDrained
<1>2. QED
  BY <1>1, CountersInvariance, PTL
=============================================================================
