--------------------------- MODULE SchedulerProofs ---------------------------
(***************************************************************************)
(* What holds of Scheduler for every number of containers, projects,       *)
(* goroutines and semaphore places, with proofs checked by TLAPS.          *)
(*                                                                         *)
(* The inductive invariant IInv has three parts beside the types: what a   *)
(* goroutine works on at each pc (Roles), what q.active says about the     *)
(* goroutines draining a queue (QueueInv) and who fills the semaphore      *)
(* (SemInv).                                                               *)
(***************************************************************************)
EXTENDS Scheduler, FiniteSetTheorems, TLAPS

-----------------------------------------------------------------------------
\* Only jobs and calls enqueue, and what they enqueue is of their project;
\* workers and maintenance jobs never touch a queue.
Roles ==
  /\ \A j \in Jobs : pc[j] = "lookup" => \E c \in Containers : GroupOf[c] = group[j]
  /\ \A p \in Procs :
       /\ pc[p] = "lookup" => p \in Jobs
       /\ pc[p] = "return" => p \in Jobs
       /\ pc[p] = "unlock" => p \in Maint
       /\ pc[p] \in {"enqueue", "drain", "batch"} => stack[p] \in Projects
       /\ pc[p] = "enqueue" =>
            /\ p \in Jobs \cup Calls
            /\ work[p] # {}
            /\ \A c \in work[p] : ProjectOf[c] = stack[p]
       /\ pc[p] = "batch" => work[p] # {}
       /\ p \in Maint \cup Workers => stack[p] = Standalone
       /\ p \in Workers => pc[p] \in {"idle", "run", "uncount", "release", "done"}
       /\ p \in Jobs => pc[p] # "run"

\* q.active is set exactly while some goroutine drains the queue, that goroutine
\* is the only one, and nothing waits in a queue nobody drains.
QueueInv ==
  \A P \in Projects :
    /\ qactive[P] <=> \E p \in Procs : stack[p] = P /\ pc[p] \in DrainPcs
    /\ \A p, q \in Procs :
         stack[p] = P /\ pc[p] \in DrainPcs /\ stack[q] = P /\ pc[q] \in DrainPcs => p = q
    /\ pending[P] # {} => qactive[P]

\* A goroutine that works on containers fills a place of the semaphore, a
\* maintenance job that works fills them all.
SemInv ==
  /\ \A p \in Procs \ Maint :
       pc[p] \in {"drain", "batch", "run"} => \E s \in Slots : owner[s] = p
  /\ \A m \in Maint :
       pc[m] \in {"run", "unlock", "done", "uncount"} => \A s \in Slots : owner[s] = m

IInv == TypeOK /\ Roles /\ QueueInv /\ SemInv

-----------------------------------------------------------------------------
\* The constants' assumptions as the step proofs use them
LEMMA Kinds ==
  /\ Jobs \subseteq Procs /\ Calls \subseteq Procs
  /\ Workers \subseteq Procs /\ Maint \subseteq Procs
  /\ \A g \in Groups :
       (\E c \in Containers : GroupOf[c] = g)
         => GroupProject(g) \in Projects \cup {Standalone}
  /\ \A c \in Containers : GroupProject(GroupOf[c]) = ProjectOf[c]
<1>1. Jobs \subseteq Procs /\ Calls \subseteq Procs /\ Workers \subseteq Procs /\ Maint \subseteq Procs
  BY DEF Procs
<1>2. ASSUME NEW g \in Groups, \E c \in Containers : GroupOf[c] = g
      PROVE  GroupProject(g) \in Projects \cup {Standalone}
  <2>1. (CHOOSE c \in Containers : GroupOf[c] = g) \in Containers
    BY <1>2
  <2>2. QED
    BY <2>1, GroupsAssumption DEF GroupProject
<1>3. ASSUME NEW c \in Containers
      PROVE  GroupProject(GroupOf[c]) = ProjectOf[c]
  <2> DEFINE d == CHOOSE x \in Containers : GroupOf[x] = GroupOf[c]
  <2>1. d \in Containers /\ GroupOf[d] = GroupOf[c]
    OBVIOUS
  <2>2. QED
    BY <2>1, GroupsAssumption DEF GroupProject
<1>4. QED
  BY <1>1, <1>2, <1>3

\* The initial states satisfy the inductive invariant.
LEMMA InitIInv == Init => IInv
<1> SUFFICES ASSUME Init PROVE IInv
  OBVIOUS
<1>1. TypeOK
  BY DEF Init, TypeOK, DrainPcs
<1>2. Roles
  BY Kinds DEF Init, Roles
<1>3. QueueInv
  BY DEF Init, QueueInv, DrainPcs
<1>4. SemInv
  BY Kinds DEF Init, SemInv
<1>5. QED
  BY <1>1, <1>2, <1>3, <1>4 DEF IInv

-----------------------------------------------------------------------------
(* The steps.                                                              *)

\* Every step preserves the types.
LEMMA TypeStep == TypeOK /\ Roles /\ [Next]_vars => TypeOK'
<1> SUFFICES ASSUME TypeOK /\ Roles, [Next]_vars PROVE TypeOK'
  OBVIOUS
<1> USE Kinds DEF registryVars, taskVars, queueVars, countVars, daemonVars
<1>1. ASSUME NEW c \in Containers, Register(c) PROVE TypeOK'
  BY <1>1 DEF Register, TypeOK, Roles, DrainPcs
<1>2. ASSUME NEW c \in Containers, Unregister(c) PROVE TypeOK'
  BY <1>2 DEF Unregister, Members, TypeOK, Roles, DrainPcs
<1>3. ASSUME NEW j \in Jobs, NEW g \in Groups, Fire(j, g) PROVE TypeOK'
  BY <1>3 DEF Fire, Members, TypeOK, Roles, DrainPcs
<1>4. ASSUME NEW j \in Jobs, Lookup(j) PROVE TypeOK'
  <2>1. GroupProject(group[j]) \in Projects \cup {Standalone}
    BY <1>4, GroupsAssumption DEF Lookup, Roles
  <2>2. QED
    BY <1>4, <2>1 DEF Lookup, TypeOK, DrainPcs, Members, EntryPoint
<1>5. ASSUME NEW j \in Jobs, JobReturn(j) PROVE TypeOK'
  BY <1>5 DEF JobReturn, TypeOK, Roles, DrainPcs
<1>6. ASSUME NEW j \in Jobs, NEW w \in Workers, Spawn(j, w) PROVE TypeOK'
  <2>1. owner' \in [Slots -> Procs \cup {None}]
    BY <1>6 DEF Spawn, TypeOK
  <2>2. work' \in [Procs -> SUBSET Containers]
    BY <1>6 DEF Spawn, TypeOK
  <2>3. pc' \in [Procs -> {"idle", "lookup", "enqueue", "return", "done", "uncount",
                         "release", "run", "unlock"} \cup DrainPcs]
    BY <1>6 DEF Spawn, TypeOK, DrainPcs
  <2>4. QED
    BY <1>6, <2>1, <2>2, <2>3 DEF Spawn, TypeOK
<1>7. ASSUME NEW k \in Calls, NEW c \in Containers, Trigger(k, c) PROVE TypeOK'
  BY <1>7, GroupsAssumption DEF Trigger, TypeOK, DrainPcs, EntryPoint
<1>8. ASSUME NEW k \in Calls, NEW P \in Projects, TriggerProject(k, P) PROVE TypeOK'
  BY <1>8 DEF TriggerProject, InProject, TypeOK, Roles, DrainPcs
<1>9. ASSUME NEW p \in Procs, Enqueue(p) PROVE TypeOK'
  <2>1. stack[p] \in Projects
    BY <1>9 DEF Enqueue, Roles
  <2>2. pending' \in [Projects -> SUBSET Containers]
    BY <1>9, <2>1 DEF Enqueue, TypeOK
  <2>3. qactive' \in [Projects -> BOOLEAN]
    BY <1>9, <2>1 DEF Enqueue, TypeOK
  <2>4. work' \in [Procs -> SUBSET Containers]
    BY <1>9 DEF Enqueue, TypeOK
  <2>5. QED
    BY <1>9, <2>2, <2>3, <2>4 DEF Enqueue, TypeOK, DrainPcs, Returned
<1>10. ASSUME NEW p \in Procs, Count(p) PROVE TypeOK'
  BY <1>10 DEF Count, TypeOK, Roles, DrainPcs
<1>11. ASSUME NEW p \in Procs, Join(p) PROVE TypeOK'
  BY <1>11 DEF Join, TypeOK, Roles, DrainPcs
<1>12. ASSUME NEW p \in Procs, Acquire(p) PROVE TypeOK'
  BY <1>12 DEF Acquire, Free, TypeOK, Roles, DrainPcs
<1>13. ASSUME NEW p \in Procs, Drain(p) PROVE TypeOK'
  BY <1>13 DEF Drain, TypeOK, Roles, DrainPcs
<1>14. ASSUME NEW p \in Procs, FinishWork(p) PROVE TypeOK'
  BY <1>14 DEF FinishWork, AfterWork, TypeOK, Roles, DrainPcs
<1>15. ASSUME NEW p \in Procs, WgDone(p) PROVE TypeOK'
  BY <1>15 DEF WgDone, TypeOK, Roles, DrainPcs
<1>16. ASSUME NEW p \in Procs, Uncount(p) PROVE TypeOK'
  BY <1>16 DEF Uncount, TypeOK, Roles, DrainPcs
<1>17. ASSUME NEW p \in Procs, Release(p) PROVE TypeOK'
  BY <1>17 DEF Release, Held, LastHeld, Returned, TypeOK, Roles, DrainPcs
<1>18. ASSUME NEW m \in Maint, FireMaintenance(m) PROVE TypeOK'
  BY <1>18 DEF FireMaintenance, TypeOK, Roles, DrainPcs
<1>19. ASSUME NEW m \in Maint, AcquireNext(m) PROVE TypeOK'
  BY <1>19 DEF AcquireNext, Free, HasAll, Held, TypeOK, Roles, DrainPcs
<1>20. ASSUME NEW o \in Ops, Admit(o) PROVE TypeOK'
  BY <1>20 DEF Admit, TypeOK, Roles, DrainPcs
<1>21. ASSUME NEW o \in Ops, FinishOp(o) PROVE TypeOK'
  BY <1>21 DEF FinishOp, TypeOK, Roles, DrainPcs
<1>22. CASE Shutdown \/ Signal \/ ForceStop
    BY <1>22 DEF Shutdown, CloseApi, StopCron, CronDone, WgZero, Exit, Signal,
     ForceStop, Move, TypeOK, Roles, DrainPcs
<1>23. CASE UNCHANGED vars
  BY <1>23 DEF vars, TypeOK, Roles, DrainPcs
<1>24. ASSUME NEW m \in Maint, Unlock(m) PROVE TypeOK'
  BY <1>24 DEF Unlock, TypeOK, Roles, DrainPcs
<1>25. ASSUME NEW m \in Maint, UnlockReturns(m) PROVE TypeOK'
  BY <1>25 DEF UnlockReturns, TypeOK, Roles, DrainPcs
<1>26. QED
  BY <1>1, <1>2, <1>3, <1>4, <1>5, <1>6, <1>7, <1>8, <1>9, <1>10, <1>11, <1>12,
     <1>13, <1>14, <1>15, <1>16, <1>17, <1>18, <1>19, <1>20, <1>21, <1>22, <1>23,
     <1>24, <1>25
  DEF Next, Step, JobStep

\* Every step keeps the goroutines to their roles.
LEMMA RolesStep == TypeOK /\ Roles /\ [Next]_vars => Roles'
<1> SUFFICES ASSUME TypeOK /\ Roles, [Next]_vars PROVE Roles'
  OBVIOUS
<1> USE Kinds, ProcsAssumption, GroupsAssumption DEF registryVars, taskVars, queueVars, countVars, daemonVars
<1>1. ASSUME NEW c \in Containers, Register(c) PROVE Roles'
  BY <1>1 DEF Register, TypeOK, Roles, DrainPcs
<1>2. ASSUME NEW c \in Containers, Unregister(c) PROVE Roles'
  BY <1>2 DEF Unregister, Members, TypeOK, Roles, DrainPcs
<1>3. ASSUME NEW j \in Jobs, NEW g \in Groups, Fire(j, g) PROVE Roles'
  BY <1>3 DEF Fire, Members, TypeOK, Roles, DrainPcs
<1>4. ASSUME NEW j \in Jobs, Lookup(j) PROVE Roles'
  BY <1>4 DEF Lookup, Members, EntryPoint, TypeOK, Roles, DrainPcs
<1>5. ASSUME NEW j \in Jobs, JobReturn(j) PROVE Roles'
  BY <1>5 DEF JobReturn, TypeOK, Roles, DrainPcs
<1>6. ASSUME NEW j \in Jobs, NEW w \in Workers, Spawn(j, w) PROVE Roles'
  <2>1. /\ stack' = stack /\ group' = group
        /\ pc'[j] \in {"return", "count"} /\ pc'[w] = "run"
        /\ \A p \in Procs \ {j, w} : pc'[p] = pc[p] /\ work'[p] = work[p]
    BY <1>6 DEF Spawn, TypeOK
  <2>2. \A i \in Jobs : pc'[i] = "lookup" => pc[i] = "lookup"
    BY <2>1
  <2>3. QED
    BY <2>1, <2>2 DEF Roles
<1>7. ASSUME NEW k \in Calls, NEW c \in Containers, Trigger(k, c) PROVE Roles'
  <2>1. ProjectOf[c] \in Projects \cup {Standalone}
    OBVIOUS
  <2>2. /\ stack' = [stack EXCEPT ![k] = ProjectOf[c]]
        /\ work' = [work EXCEPT ![k] = {c}]
        /\ pc' = [pc EXCEPT ![k] = IF ProjectOf[c] = Standalone THEN "count" ELSE "enqueue"]
        /\ group' = group
    BY <1>7 DEF Trigger, EntryPoint
  <2>3. k \notin Maint \cup Workers /\ k \notin Jobs
    OBVIOUS
  <2>4. ASSUME NEW j \in Jobs, pc'[j] = "lookup"
        PROVE  \E d \in Containers : GroupOf[d] = group'[j]
    BY <2>2, <2>3, <2>4 DEF TypeOK, Roles
  <2>5. work'[k] # {} /\ (\A d \in work'[k] : ProjectOf[d] = stack'[k])
    BY <2>2 DEF TypeOK
  <2>6. pc'[k] = "count" \/ (pc'[k] = "enqueue" /\ stack'[k] \in Projects)
    <3>1. pc'[k] = (IF ProjectOf[c] = Standalone THEN "count" ELSE "enqueue") /\ stack'[k] = ProjectOf[c]
      BY <2>2 DEF TypeOK
    <3>2. CASE ProjectOf[c] = Standalone
      BY <3>1, <3>2
    <3>3. CASE ProjectOf[c] # Standalone
      BY <2>1, <3>1, <3>3
    <3>4. QED
      BY <3>2, <3>3
  <2>7. \A p \in Procs \ {k} : pc'[p] = pc[p] /\ stack'[p] = stack[p] /\ work'[p] = work[p]
    BY <2>2 DEF TypeOK
  <2>8. QED
    BY <2>3, <2>4, <2>5, <2>6, <2>7 DEF Roles
<1>8. ASSUME NEW k \in Calls, NEW P \in Projects, TriggerProject(k, P) PROVE Roles'
  BY <1>8 DEF TriggerProject, InProject, TypeOK, Roles, DrainPcs
<1>9. ASSUME NEW p \in Procs, Enqueue(p) PROVE Roles'
  BY <1>9 DEF Enqueue, Busy, Returned, TypeOK, Roles, DrainPcs
<1>10. ASSUME NEW p \in Procs, Count(p) PROVE Roles'
  BY <1>10 DEF Count, TypeOK, Roles, DrainPcs
<1>11. ASSUME NEW p \in Procs, Join(p) PROVE Roles'
  BY <1>11 DEF Join, TypeOK, Roles, DrainPcs
<1>12. ASSUME NEW p \in Procs, Acquire(p) PROVE Roles'
  BY <1>12 DEF Acquire, Free, TypeOK, Roles, DrainPcs
<1>13. ASSUME NEW p \in Procs, Drain(p) PROVE Roles'
  BY <1>13 DEF Drain, TypeOK, Roles, DrainPcs
<1>14. ASSUME NEW p \in Procs, FinishWork(p) PROVE Roles'
  BY <1>14 DEF FinishWork, AfterWork, TypeOK, Roles, DrainPcs
<1>15. ASSUME NEW p \in Procs, WgDone(p) PROVE Roles'
  BY <1>15 DEF WgDone, TypeOK, Roles, DrainPcs
<1>16. ASSUME NEW p \in Procs, Uncount(p) PROVE Roles'
  BY <1>16 DEF Uncount, TypeOK, Roles, DrainPcs
<1>17. ASSUME NEW p \in Procs, Release(p) PROVE Roles'
  BY <1>17 DEF Release, Held, LastHeld, Returned, TypeOK, Roles, DrainPcs
<1>18. ASSUME NEW m \in Maint, FireMaintenance(m) PROVE Roles'
  BY <1>18 DEF FireMaintenance, TypeOK, Roles, DrainPcs
<1>19. ASSUME NEW m \in Maint, AcquireNext(m) PROVE Roles'
  BY <1>19 DEF AcquireNext, Free, HasAll, Held, TypeOK, Roles, DrainPcs
<1>20. ASSUME NEW o \in Ops, Admit(o) PROVE Roles'
  BY <1>20 DEF Admit, TypeOK, Roles, DrainPcs
<1>21. ASSUME NEW o \in Ops, FinishOp(o) PROVE Roles'
  BY <1>21 DEF FinishOp, TypeOK, Roles, DrainPcs
<1>22. CASE Shutdown \/ Signal \/ ForceStop
    BY <1>22 DEF Shutdown, CloseApi, StopCron, CronDone, WgZero, Exit, Signal,
     ForceStop, Move, TypeOK, Roles, DrainPcs
<1>23. CASE UNCHANGED vars
  BY <1>23 DEF vars, TypeOK, Roles, DrainPcs
<1>24. ASSUME NEW m \in Maint, Unlock(m) PROVE Roles'
  BY <1>24 DEF Unlock, TypeOK, Roles, DrainPcs
<1>25. ASSUME NEW m \in Maint, UnlockReturns(m) PROVE Roles'
  BY <1>25 DEF UnlockReturns, TypeOK, Roles, DrainPcs
<1>26. QED
  BY <1>1, <1>2, <1>3, <1>4, <1>5, <1>6, <1>7, <1>8, <1>9, <1>10, <1>11, <1>12,
     <1>13, <1>14, <1>15, <1>16, <1>17, <1>18, <1>19, <1>20, <1>21, <1>22, <1>23,
     <1>24, <1>25
  DEF Next, Step, JobStep

\* Every step keeps each queue and its drainer in agreement.
LEMMA QueueStep == TypeOK /\ Roles /\ QueueInv /\ [Next]_vars => QueueInv'
<1> SUFFICES ASSUME TypeOK /\ Roles /\ QueueInv, [Next]_vars PROVE QueueInv'
  OBVIOUS
<1> USE Kinds, ProcsAssumption, GroupsAssumption DEF registryVars, taskVars, queueVars, countVars, daemonVars
<1>1. ASSUME NEW c \in Containers, Register(c) PROVE QueueInv'
  BY <1>1 DEF Register, TypeOK, Roles, QueueInv, DrainPcs
<1>2. ASSUME NEW c \in Containers, Unregister(c) PROVE QueueInv'
  BY <1>2 DEF Unregister, Members, TypeOK, Roles, QueueInv, DrainPcs
<1>3. ASSUME NEW j \in Jobs, NEW g \in Groups, Fire(j, g) PROVE QueueInv'
  BY <1>3, SMTT(30) DEF Fire, Members, TypeOK, Roles, QueueInv, DrainPcs
<1>4. ASSUME NEW j \in Jobs, Lookup(j) PROVE QueueInv'
  BY <1>4 DEF Lookup, Members, EntryPoint, TypeOK, Roles, QueueInv, DrainPcs
<1>5. ASSUME NEW j \in Jobs, JobReturn(j) PROVE QueueInv'
  <2>1. \A p \in Procs : pc'[p] \in DrainPcs <=> pc[p] \in DrainPcs
    BY <1>5 DEF JobReturn, TypeOK, DrainPcs
  <2>2. stack' = stack /\ pending' = pending /\ qactive' = qactive
    BY <1>5 DEF JobReturn
  <2>3. QED
    BY <2>1, <2>2 DEF QueueInv
<1>6. ASSUME NEW j \in Jobs, NEW w \in Workers, Spawn(j, w) PROVE QueueInv'
  <2>1. stack' = stack /\ qactive' = qactive /\ pending' = pending
    BY <1>6 DEF Spawn
  <2>2. stack[j] = Standalone /\ stack[w] = Standalone
    BY <1>6 DEF Spawn, Roles
  <2>3. \A q \in Procs \ {j, w} : pc'[q] = pc[q]
    BY <1>6 DEF Spawn, TypeOK
  <2>4. ASSUME NEW P \in Projects, NEW q \in Procs, stack[q] = P
        PROVE  pc'[q] = pc[q]
    BY <2>2, <2>3, <2>4
  <2>5. QED
    BY <2>1, <2>4 DEF QueueInv
<1>7. ASSUME NEW k \in Calls, NEW c \in Containers, Trigger(k, c) PROVE QueueInv'
  BY <1>7 DEF Trigger, EntryPoint, TypeOK, Roles, QueueInv, DrainPcs
<1>8. ASSUME NEW k \in Calls, NEW P \in Projects, TriggerProject(k, P) PROVE QueueInv'
  BY <1>8, SMTT(30) DEF TriggerProject, InProject, TypeOK, Roles, QueueInv, DrainPcs
<1>9. ASSUME NEW p \in Procs, Enqueue(p) PROVE QueueInv'
  BY <1>9, SMTT(30) DEF Enqueue, Busy, Returned, TypeOK, Roles, QueueInv, DrainPcs
<1>10. ASSUME NEW p \in Procs, Count(p) PROVE QueueInv'
  BY <1>10 DEF Count, TypeOK, Roles, QueueInv, DrainPcs
<1>11. ASSUME NEW p \in Procs, Join(p) PROVE QueueInv'
  BY <1>11 DEF Join, TypeOK, Roles, QueueInv, DrainPcs
<1>12. ASSUME NEW p \in Procs, Acquire(p) PROVE QueueInv'
  BY <1>12 DEF Acquire, Free, TypeOK, Roles, QueueInv, DrainPcs
<1>13. ASSUME NEW p \in Procs, Drain(p) PROVE QueueInv'
  <2> DEFINE D == stack[p]
  <2>1. D \in Projects /\ p \in Procs /\ pc[p] \in DrainPcs
    BY <1>13 DEF Drain, Roles, DrainPcs
  <2>2. /\ stack' = stack
        /\ pending' = [pending EXCEPT ![D] = {}]
        /\ qactive' = [qactive EXCEPT ![D] = pending[D] # {}]
        /\ \A q \in Procs \ {p} : pc'[q] = pc[q]
        /\ pc'[p] = IF pending[D] = {} THEN "done" ELSE "batch"
    BY <1>13 DEF Drain, TypeOK
  <2>3. ASSUME NEW P \in Projects, P # D
        PROVE  /\ qactive'[P] = qactive[P] /\ pending'[P] = pending[P]
               /\ \A q \in Procs : stack[q] = P => pc'[q] = pc[q]
    BY <2>1, <2>2, <2>3 DEF TypeOK
  <2>4. \A q \in Procs : stack[q] = D /\ pc[q] \in DrainPcs => q = p
    BY <2>1 DEF QueueInv
  <2>5. pending'[D] = {} /\ (qactive'[D] <=> pending[D] # {})
    <3>1. D \in DOMAIN pending /\ D \in DOMAIN qactive
      BY <2>1 DEF TypeOK
    <3>2. pending'[D] = {} /\ qactive'[D] = (pending[D] # {})
      BY <2>2, <3>1, Zenon
    <3>3. QED
      BY <3>2
  <2>6. (pc'[p] \in DrainPcs) <=> pending[D] # {}
    BY <2>2 DEF DrainPcs
  <2>7. \A q \in Procs : stack[q] = D /\ pc'[q] \in DrainPcs => q = p
    BY <2>2, <2>4
  <2>8. ASSUME NEW P \in Projects
        PROVE  /\ qactive'[P] <=> \E q \in Procs : stack[q] = P /\ pc'[q] \in DrainPcs
               /\ \A q, r \in Procs :
                    stack[q] = P /\ pc'[q] \in DrainPcs /\ stack[r] = P /\ pc'[r] \in DrainPcs
                      => q = r
               /\ pending'[P] # {} => qactive'[P]
    <3>1. CASE P = D
      BY <2>1, <2>5, <2>6, <2>7, <3>1
    <3>2. CASE P # D
      BY <2>3, <3>2 DEF QueueInv
    <3>3. QED
      BY <3>1, <3>2
  <2>9. QED
    BY <2>2, <2>8 DEF QueueInv
<1>14. ASSUME NEW p \in Procs, FinishWork(p) PROVE QueueInv'
  BY <1>14 DEF FinishWork, AfterWork, TypeOK, Roles, QueueInv, DrainPcs
<1>15. ASSUME NEW p \in Procs, WgDone(p) PROVE QueueInv'
  BY <1>15 DEF WgDone, TypeOK, Roles, QueueInv, DrainPcs
<1>16. ASSUME NEW p \in Procs, Uncount(p) PROVE QueueInv'
  BY <1>16 DEF Uncount, TypeOK, Roles, QueueInv, DrainPcs
<1>17. ASSUME NEW p \in Procs, Release(p) PROVE QueueInv'
  BY <1>17 DEF Release, Held, LastHeld, Returned, TypeOK, Roles, QueueInv, DrainPcs
<1>18. ASSUME NEW m \in Maint, FireMaintenance(m) PROVE QueueInv'
  BY <1>18 DEF FireMaintenance, TypeOK, Roles, QueueInv, DrainPcs
<1>19. ASSUME NEW m \in Maint, AcquireNext(m) PROVE QueueInv'
  BY <1>19 DEF AcquireNext, Free, HasAll, Held, TypeOK, Roles, QueueInv, DrainPcs
<1>20. ASSUME NEW o \in Ops, Admit(o) PROVE QueueInv'
  BY <1>20 DEF Admit, TypeOK, Roles, QueueInv, DrainPcs
<1>21. ASSUME NEW o \in Ops, FinishOp(o) PROVE QueueInv'
  BY <1>21 DEF FinishOp, TypeOK, Roles, QueueInv, DrainPcs
<1>22. CASE Shutdown \/ Signal \/ ForceStop
    BY <1>22 DEF Shutdown, CloseApi, StopCron, CronDone, WgZero, Exit, Signal,
     ForceStop, Move, TypeOK, Roles, QueueInv, DrainPcs
<1>23. CASE UNCHANGED vars
  BY <1>23 DEF vars, TypeOK, Roles, QueueInv, DrainPcs
<1>24. ASSUME NEW m \in Maint, Unlock(m) PROVE QueueInv'
  BY <1>24 DEF Unlock, TypeOK, Roles, QueueInv, DrainPcs
<1>25. ASSUME NEW m \in Maint, UnlockReturns(m) PROVE QueueInv'
  BY <1>25 DEF UnlockReturns, TypeOK, Roles, QueueInv, DrainPcs
<1>26. QED
  BY <1>1, <1>2, <1>3, <1>4, <1>5, <1>6, <1>7, <1>8, <1>9, <1>10, <1>11, <1>12,
     <1>13, <1>14, <1>15, <1>16, <1>17, <1>18, <1>19, <1>20, <1>21, <1>22, <1>23,
     <1>24, <1>25
  DEF Next, Step, JobStep

\* Every step keeps the semaphore filled by those at work.
LEMMA SemStep == TypeOK /\ Roles /\ SemInv /\ [Next]_vars => SemInv'
<1> SUFFICES ASSUME TypeOK /\ Roles /\ SemInv, [Next]_vars PROVE SemInv'
  OBVIOUS
<1> USE Kinds, ProcsAssumption, GroupsAssumption DEF registryVars, taskVars, queueVars, countVars, daemonVars
<1>1. ASSUME NEW c \in Containers, Register(c) PROVE SemInv'
  BY <1>1 DEF Register, TypeOK, Roles, SemInv, DrainPcs
<1>2. ASSUME NEW c \in Containers, Unregister(c) PROVE SemInv'
  BY <1>2 DEF Unregister, Members, TypeOK, Roles, SemInv, DrainPcs
<1>3. ASSUME NEW j \in Jobs, NEW g \in Groups, Fire(j, g) PROVE SemInv'
  BY <1>3 DEF Fire, Members, TypeOK, Roles, SemInv, DrainPcs
<1>4. ASSUME NEW j \in Jobs, Lookup(j) PROVE SemInv'
  BY <1>4 DEF Lookup, Members, EntryPoint, TypeOK, Roles, SemInv, DrainPcs
<1>5. ASSUME NEW j \in Jobs, JobReturn(j) PROVE SemInv'
  BY <1>5 DEF JobReturn, TypeOK, Roles, SemInv, DrainPcs
<1>6. ASSUME NEW j \in Jobs, NEW w \in Workers, Spawn(j, w) PROVE SemInv'
  BY <1>6 DEF Spawn, Free, TypeOK, Roles, SemInv, DrainPcs
<1>7. ASSUME NEW k \in Calls, NEW c \in Containers, Trigger(k, c) PROVE SemInv'
  BY <1>7 DEF Trigger, EntryPoint, TypeOK, Roles, SemInv, DrainPcs
<1>8. ASSUME NEW k \in Calls, NEW P \in Projects, TriggerProject(k, P) PROVE SemInv'
  BY <1>8 DEF TriggerProject, InProject, TypeOK, Roles, SemInv, DrainPcs
<1>9. ASSUME NEW p \in Procs, Enqueue(p) PROVE SemInv'
  BY <1>9 DEF Enqueue, Busy, Returned, TypeOK, Roles, SemInv, DrainPcs
<1>10. ASSUME NEW p \in Procs, Count(p) PROVE SemInv'
  BY <1>10 DEF Count, TypeOK, Roles, SemInv, DrainPcs
<1>11. ASSUME NEW p \in Procs, Join(p) PROVE SemInv'
  BY <1>11 DEF Join, TypeOK, Roles, SemInv, DrainPcs
<1>12. ASSUME NEW p \in Procs, Acquire(p) PROVE SemInv'
  BY <1>12 DEF Acquire, Free, TypeOK, Roles, SemInv, DrainPcs
<1>13. ASSUME NEW p \in Procs, Drain(p) PROVE SemInv'
  BY <1>13 DEF Drain, TypeOK, Roles, SemInv, DrainPcs
<1>14. ASSUME NEW p \in Procs, FinishWork(p) PROVE SemInv'
  BY <1>14 DEF FinishWork, AfterWork, TypeOK, Roles, SemInv, DrainPcs
<1>15. ASSUME NEW p \in Procs, WgDone(p) PROVE SemInv'
  BY <1>15 DEF WgDone, TypeOK, Roles, SemInv, DrainPcs
<1>16. ASSUME NEW p \in Procs, Uncount(p) PROVE SemInv'
  BY <1>16 DEF Uncount, TypeOK, Roles, SemInv, DrainPcs
<1>17. ASSUME NEW p \in Procs, Release(p) PROVE SemInv'
  BY <1>17 DEF Release, Held, LastHeld, Returned, TypeOK, Roles, SemInv, DrainPcs
<1>18. ASSUME NEW m \in Maint, FireMaintenance(m) PROVE SemInv'
  BY <1>18 DEF FireMaintenance, TypeOK, Roles, SemInv, DrainPcs
<1>19. ASSUME NEW m \in Maint, AcquireNext(m) PROVE SemInv'
  BY <1>19 DEF AcquireNext, Free, HasAll, Held, TypeOK, Roles, SemInv, DrainPcs
<1>20. ASSUME NEW o \in Ops, Admit(o) PROVE SemInv'
  BY <1>20 DEF Admit, TypeOK, Roles, SemInv, DrainPcs
<1>21. ASSUME NEW o \in Ops, FinishOp(o) PROVE SemInv'
  BY <1>21 DEF FinishOp, TypeOK, Roles, SemInv, DrainPcs
<1>22. CASE Shutdown \/ Signal \/ ForceStop
    BY <1>22 DEF Shutdown, CloseApi, StopCron, CronDone, WgZero, Exit, Signal,
     ForceStop, Move, TypeOK, Roles, SemInv, DrainPcs
<1>23. CASE UNCHANGED vars
  BY <1>23 DEF vars, TypeOK, Roles, SemInv, DrainPcs
<1>24. ASSUME NEW m \in Maint, Unlock(m) PROVE SemInv'
  BY <1>24 DEF Unlock, TypeOK, Roles, SemInv, DrainPcs
<1>25. ASSUME NEW m \in Maint, UnlockReturns(m) PROVE SemInv'
  BY <1>25 DEF UnlockReturns, TypeOK, Roles, SemInv, DrainPcs
<1>26. QED
  BY <1>1, <1>2, <1>3, <1>4, <1>5, <1>6, <1>7, <1>8, <1>9, <1>10, <1>11, <1>12,
     <1>13, <1>14, <1>15, <1>16, <1>17, <1>18, <1>19, <1>20, <1>21, <1>22, <1>23,
     <1>24, <1>25
  DEF Next, Step, JobStep

-----------------------------------------------------------------------------
(* The theorems.                                                           *)

\* The inductive invariant holds in every reachable state.
THEOREM Invariance == Spec => []IInv
<1>1. Init => IInv
  BY InitIInv
<1>2. IInv /\ [Next]_vars => IInv'
  BY TypeStep, RolesStep, QueueStep, SemStep DEF IInv
<1>3. QED
  BY <1>1, <1>2, PTL DEF Spec

\* The variables keep their types.
THEOREM TypeCorrect == Spec => []TypeOK
<1>1. IInv => TypeOK
  BY DEF IInv
<1>2. QED
  BY <1>1, Invariance, PTL

\* At most one goroutine drains a project's queue: a compose project never has
\* two batches at once (enqueueBatch).
THEOREM OneDrainerTheorem == Spec => []OneDrainer
<1>1. IInv => OneDrainer
  BY DEF IInv, QueueInv, OneDrainer, Drainers
<1>2. QED
  BY <1>1, Invariance, PTL

\* What is appended to a project's queue has a goroutine that will take it.
THEOREM NoLostBatchTheorem == Spec => []NoLostBatch
<1>1. IInv => NoLostBatch
  BY DEF IInv, QueueInv, NoLostBatch, Drainers
<1>2. QED
  BY <1>1, Invariance, PTL

\* Nobody else works on a repository while a maintenance job does.
THEOREM MaintenanceExclusiveTheorem == Spec => []MaintenanceExclusive
<1>1. ASSUME IInv PROVE MaintenanceExclusive
  <2>1. SUFFICES ASSUME NEW m \in Maint, Working(m), NEW p \in Procs \ {m}, Working(p)
                 PROVE  FALSE
    BY DEF MaintenanceExclusive
  <2>2. pc[m] \in {"run", "unlock"} /\ \A s \in Slots : owner[s] = m
    BY <1>1, <2>1, Kinds, GroupsAssumption DEF IInv, Roles, SemInv, Working
  <2>3. \E s \in Slots : owner[s] = p
    <3>1. CASE p \in Maint
      BY <1>1, <2>1, <3>1, Kinds, SlotsAssumption, GroupsAssumption
      DEF IInv, Roles, SemInv, Working
    <3>2. CASE p \notin Maint
      BY <1>1, <2>1, <3>2 DEF IInv, Roles, SemInv, Working
    <3>3. QED
      BY <3>1, <3>2
  <2>4. QED
    BY <2>1, <2>2, <2>3
<1>2. QED
  BY <1>1, Invariance, PTL

\* No more goroutines work on repositories than the semaphore has places: each
\* of them fills a place of its own.
THEOREM ConcurrencyTheorem == Spec => []ConcurrencyBounded
<1>1. ASSUME IInv PROVE ConcurrencyBounded
  <2> DEFINE W == {p \in Procs : Working(p)}
  <2> DEFINE f == [p \in W |-> CHOOSE s \in Slots : owner[s] = p]
  <2>1. ASSUME NEW p \in W PROVE \E s \in Slots : owner[s] = p
    <3>1. CASE p \in Maint
      BY <1>1, <3>1, Kinds, SlotsAssumption, GroupsAssumption
      DEF IInv, Roles, SemInv, Working
    <3>2. CASE p \notin Maint
      BY <1>1, <3>2 DEF IInv, Roles, SemInv, Working
    <3>3. QED
      BY <3>1, <3>2
  <2>2. \A p \in W : f[p] \in Slots /\ owner[f[p]] = p
    BY <2>1
  <2>3. f \in Injection(W, Slots)
    BY <2>2 DEF Injection, IsInjective
  <2>4. Cardinality(W) <= Cardinality(Slots)
    BY <2>3, SlotsAssumption, FS_Injection
  <2>5. QED
    BY <2>4 DEF ConcurrencyBounded
<1>2. QED
  BY <1>1, Invariance, PTL

-----------------------------------------------------------------------------
(* The drain loops implement StackQueue: with pending as the requests that *)
(* wait and the drainer's batch as the one that runs, every step of the    *)
(* scheduler is a step of the queues or leaves them alone.                 *)


\* The batch of P being backed up, pointwise
LEMMA RunningBatchAt ==
  ASSUME NEW P \in Projects
  PROVE  RunningBatch[P] = UNION {work[p] : p \in {q \in Procs : stack[q] = P /\ pc[q] = "batch"}}
  BY DEF RunningBatch

\* Nothing an abstract step could see has changed.
Untouched ==
  /\ pending' = pending
  /\ \A p \in Procs : (pc'[p] = "batch" <=> pc[p] = "batch")
  /\ \A p \in Procs : pc[p] = "batch" => stack'[p] = stack[p] /\ work'[p] = work[p]

LEMMA UntouchedStutters == Untouched => UNCHANGED <<pending, RunningBatch>>
<1> SUFFICES ASSUME Untouched PROVE RunningBatch' = RunningBatch
  BY DEF Untouched
<1>1. ASSUME NEW P \in Projects
      PROVE  {q \in Procs : stack'[q] = P /\ pc'[q] = "batch"}
               = {q \in Procs : stack[q] = P /\ pc[q] = "batch"}
  BY DEF Untouched
<1>2. ASSUME NEW P \in Projects
      PROVE  {work'[p] : p \in {q \in Procs : stack[q] = P /\ pc[q] = "batch"}}
               = {work[p] : p \in {q \in Procs : stack[q] = P /\ pc[q] = "batch"}}
  BY DEF Untouched
<1>3. QED
  BY <1>1, <1>2 DEF RunningBatch

\* With at most one drainer, the running batch is the work of the one at "batch".
LEMMA BatchOfDrainer ==
  ASSUME NEW P \in Projects, NEW p \in Procs, IInv, stack[p] = P, pc[p] \in DrainPcs
  PROVE  RunningBatch[P] = IF pc[p] = "batch" THEN work[p] ELSE {}
<1>1. \A q \in Procs : stack[q] = P /\ pc[q] = "batch" => q = p
  BY DEF IInv, QueueInv, DrainPcs
<1>2. CASE pc[p] = "batch"
  <2>1. {q \in Procs : stack[q] = P /\ pc[q] = "batch"} = {p}
    BY <1>1, <1>2
  <2>2. {work[x] : x \in {p}} = {work[p]} /\ UNION {work[p]} = work[p]
    OBVIOUS
  <2>3. QED
    BY <1>2, <2>1, <2>2, RunningBatchAt
<1>3. CASE pc[p] # "batch"
  <2>1. {q \in Procs : stack[q] = P /\ pc[q] = "batch"} = {}
    BY <1>1, <1>3
  <2>2. UNION {work[x] : x \in {}} = {}
    OBVIOUS
  <2>3. QED
    BY <1>3, <2>1, <2>2, RunningBatchAt
<1>4. QED
  BY <1>2, <1>3

\* What a step of goroutine p does to the running batches, when p works for D
LEMMA BatchStep ==
  ASSUME NEW D \in Projects, NEW p \in Procs, IInv, stack[p] = D, pc[p] \in DrainPcs,
         stack' = stack,
         \A q \in Procs \ {p} : pc'[q] = pc[q] /\ work'[q] = work[q]
  PROVE  RunningBatch' = [RunningBatch EXCEPT ![D] = IF pc'[p] = "batch" THEN work'[p] ELSE {}]
<1>1. ASSUME NEW P \in Projects, P # D PROVE RunningBatch'[P] = RunningBatch[P]
  <2>1. {q \in Procs : stack[q] = P /\ pc'[q] = "batch"}
          = {q \in Procs : stack[q] = P /\ pc[q] = "batch"}
    BY <1>1
  <2>2. {work'[q] : q \in {r \in Procs : stack[r] = P /\ pc[r] = "batch"}}
          = {work[q] : q \in {r \in Procs : stack[r] = P /\ pc[r] = "batch"}}
    BY <1>1
  <2>3. QED
    BY <2>1, <2>2 DEF RunningBatch
<1>2. RunningBatch'[D] = IF pc'[p] = "batch" THEN work'[p] ELSE {}
  <2>1. \A q \in Procs : stack[q] = D /\ pc'[q] = "batch" => q = p
    BY DEF IInv, QueueInv, DrainPcs
  <2>2. RunningBatch'[D] = UNION {work'[q] : q \in {r \in Procs : stack[r] = D /\ pc'[r] = "batch"}}
    BY DEF RunningBatch
  <2>3. CASE pc'[p] = "batch"
    <3>1. {q \in Procs : stack[q] = D /\ pc'[q] = "batch"} = {p}
      BY <2>1, <2>3
    <3>2. {work'[x] : x \in {p}} = {work'[p]} /\ UNION {work'[p]} = work'[p]
      OBVIOUS
    <3>3. QED
      BY <2>2, <2>3, <3>1, <3>2
  <2>4. CASE pc'[p] # "batch"
    <3>1. {q \in Procs : stack[q] = D /\ pc'[q] = "batch"} = {}
      BY <2>1, <2>4
    <3>2. UNION {work'[x] : x \in {}} = {}
      OBVIOUS
    <3>3. QED
      BY <2>2, <2>4, <3>1, <3>2
  <2>5. QED
    BY <2>3, <2>4
<1>3. QED
  BY <1>1, <1>2 DEF RunningBatch

-----------------------------------------------------------------------------
(* The steps.                                                              *)

\* Appending a batch is a request.
LEMMA EnqueueRequests ==
  ASSUME NEW p \in Procs, IInv, Enqueue(p)
  PROVE  SQ!Next
<1> DEFINE P == stack[p]
<1>1. P \in Projects /\ work[p] # {} /\ work[p] \in SUBSET SQ!Members(P)
  BY DEF IInv, TypeOK, Roles, Enqueue, SQ!Members
<1>2. pending' = [pending EXCEPT ![P] = @ \cup work[p]]
  BY DEF Enqueue
<1>3. RunningBatch' = RunningBatch
  <2> DEFINE Batch(Q) == {q \in Procs : stack[q] = Q /\ pc[q] = "batch"}
  <2>1. /\ stack' = stack /\ pc[p] # "batch" /\ pc'[p] # "batch"
        /\ \A q \in Procs \ {p} : pc'[q] = pc[q] /\ work'[q] = work[q]
    BY DEF Enqueue, IInv, TypeOK, Returned
  <2>2. ASSUME NEW Q \in Projects
        PROVE  {q \in Procs : stack'[q] = Q /\ pc'[q] = "batch"} = Batch(Q)
    BY <2>1
  <2>3. ASSUME NEW Q \in Projects
        PROVE  {work'[q] : q \in Batch(Q)} = {work[q] : q \in Batch(Q)}
    BY <2>1
  <2>4. QED
    BY <2>2, <2>3 DEF RunningBatch
<1>4. SQ!Request(P)
  BY <1>1, <1>2, <1>3 DEF SQ!Request
<1>5. QED
  BY <1>1, <1>4 DEF SQ!Next

\* A turn of the drain loop starts a batch or finds the queue empty.
LEMMA DrainStarts ==
  ASSUME NEW p \in Procs, IInv, Drain(p)
  PROVE  SQ!Next \/ UNCHANGED <<pending, RunningBatch>>
<1> DEFINE P == stack[p]
<1>1. P \in Projects /\ pc[p] \in DrainPcs /\ pc[p] # "batch"
  BY DEF IInv, Roles, Drain, DrainPcs
<1>2. /\ stack' = stack
      /\ pending' = [pending EXCEPT ![P] = {}]
      /\ \A q \in Procs \ {p} : pc'[q] = pc[q] /\ work'[q] = work[q]
      /\ work'[p] = pending[P]
      /\ pc'[p] = IF pending[P] = {} THEN "done" ELSE "batch"
  BY DEF Drain, IInv, TypeOK
<1>3. RunningBatch[P] = {}
  BY <1>1, BatchOfDrainer
<1>4. RunningBatch' = [RunningBatch EXCEPT ![P] = pending[P]]
  <2>1. (IF pc'[p] = "batch" THEN work'[p] ELSE {}) = pending[P]
    BY <1>2
  <2>2. RunningBatch' = [RunningBatch EXCEPT ![P] = IF pc'[p] = "batch" THEN work'[p] ELSE {}]
    BY <1>1, <1>2, BatchStep
  <2>3. QED
    BY <2>1, <2>2
<1>5. CASE pending[P] = {}
  <2>1. pending' = pending
    BY <1>1, <1>2, <1>5 DEF IInv, TypeOK
  <2>2. RunningBatch' = RunningBatch
    BY <1>1, <1>3, <1>4, <1>5 DEF RunningBatch
  <2>3. QED
    BY <2>1, <2>2
<1>6. CASE pending[P] # {}
  BY <1>1, <1>2, <1>3, <1>4, <1>6 DEF SQ!Next, SQ!Start
<1>7. QED
  BY <1>5, <1>6

\* The end of a batch ends it, and the end of other work is not seen.
LEMMA FinishFinishes ==
  ASSUME NEW p \in Procs, IInv, FinishWork(p)
  PROVE  SQ!Next \/ UNCHANGED <<pending, RunningBatch>>
<1> DEFINE P == stack[p]
<1>1. /\ stack' = stack /\ pending' = pending
      /\ \A q \in Procs \ {p} : pc'[q] = pc[q] /\ work'[q] = work[q]
      /\ pc'[p] # "batch"
  BY DEF FinishWork, AfterWork, queueVars, IInv, TypeOK
<1>2. CASE pc[p] = "batch"
  <2>1. P \in Projects /\ pc[p] \in DrainPcs /\ work[p] # {}
    BY <1>2 DEF IInv, Roles, DrainPcs
  <2>2. RunningBatch[P] # {}
    BY <1>2, <2>1, BatchOfDrainer
  <2>3. RunningBatch' = [RunningBatch EXCEPT ![P] = {}]
    BY <1>1, <2>1, BatchStep
  <2>4. SQ!Finish(P)
    BY <1>1, <2>2, <2>3 DEF SQ!Finish
  <2>5. QED
    BY <2>1, <2>4 DEF SQ!Next
<1>3. CASE pc[p] # "batch"
  BY <1>1, <1>3, UntouchedStutters DEF Untouched
<1>4. QED
  BY <1>2, <1>3

\* Every step of the scheduler is a step of the queues or is not seen by them.
LEMMA StepRefines == IInv /\ [Next]_vars => SQ!Next \/ UNCHANGED <<pending, RunningBatch>>
<1> SUFFICES ASSUME IInv, [Next]_vars PROVE  SQ!Next \/ UNCHANGED <<pending, RunningBatch>>
  OBVIOUS
<1> USE Kinds DEF registryVars, taskVars, queueVars, countVars, daemonVars
<1>1. ASSUME NEW c \in Containers, Register(c) PROVE  SQ!Next \/ UNCHANGED <<pending, RunningBatch>>
  BY <1>1, UntouchedStutters DEF Register, Untouched, IInv, TypeOK, Roles
<1>2. ASSUME NEW c \in Containers, Unregister(c) PROVE  SQ!Next \/ UNCHANGED <<pending, RunningBatch>>
  BY <1>2, UntouchedStutters DEF Unregister, Members, Untouched, IInv, TypeOK, Roles
<1>3. ASSUME NEW j \in Jobs, NEW g \in Groups, Fire(j, g) PROVE  SQ!Next \/ UNCHANGED <<pending, RunningBatch>>
  BY <1>3, UntouchedStutters DEF Fire, Members, Untouched, IInv, TypeOK, Roles
<1>4. ASSUME NEW j \in Jobs, Lookup(j) PROVE  SQ!Next \/ UNCHANGED <<pending, RunningBatch>>
  BY <1>4, UntouchedStutters DEF Lookup, Members, EntryPoint, Untouched, IInv, TypeOK, Roles
<1>5. ASSUME NEW j \in Jobs, JobReturn(j) PROVE  SQ!Next \/ UNCHANGED <<pending, RunningBatch>>
  BY <1>5, UntouchedStutters DEF JobReturn, Untouched, IInv, TypeOK, Roles
<1>6. ASSUME NEW j \in Jobs, NEW w \in Workers, Spawn(j, w) PROVE  SQ!Next \/ UNCHANGED <<pending, RunningBatch>>
  BY <1>6, UntouchedStutters DEF Spawn, Free, Untouched, IInv, TypeOK, Roles
<1>7. ASSUME NEW k \in Calls, NEW c \in Containers, Trigger(k, c) PROVE  SQ!Next \/ UNCHANGED <<pending, RunningBatch>>
  BY <1>7, UntouchedStutters DEF Trigger, EntryPoint, Untouched, IInv, TypeOK, Roles
<1>8. ASSUME NEW k \in Calls, NEW P \in Projects, TriggerProject(k, P) PROVE  SQ!Next \/ UNCHANGED <<pending, RunningBatch>>
  BY <1>8, UntouchedStutters DEF TriggerProject, InProject, Untouched, IInv, TypeOK, Roles
<1>9. ASSUME NEW p \in Procs, Enqueue(p) PROVE  SQ!Next \/ UNCHANGED <<pending, RunningBatch>>
  BY <1>9, EnqueueRequests
<1>10. ASSUME NEW p \in Procs, Count(p) PROVE  SQ!Next \/ UNCHANGED <<pending, RunningBatch>>
  BY <1>10, UntouchedStutters DEF Count, Untouched, IInv, TypeOK, Roles
<1>11. ASSUME NEW p \in Procs, Join(p) PROVE  SQ!Next \/ UNCHANGED <<pending, RunningBatch>>
  BY <1>11, UntouchedStutters DEF Join, Untouched, IInv, TypeOK, Roles
<1>12. ASSUME NEW p \in Procs, Acquire(p) PROVE  SQ!Next \/ UNCHANGED <<pending, RunningBatch>>
  BY <1>12, UntouchedStutters DEF Acquire, Free, Untouched, IInv, TypeOK, Roles
<1>13. ASSUME NEW p \in Procs, Drain(p) PROVE  SQ!Next \/ UNCHANGED <<pending, RunningBatch>>
  BY <1>13, DrainStarts
<1>14. ASSUME NEW p \in Procs, FinishWork(p) PROVE  SQ!Next \/ UNCHANGED <<pending, RunningBatch>>
  BY <1>14, FinishFinishes
<1>15. ASSUME NEW p \in Procs, WgDone(p) PROVE  SQ!Next \/ UNCHANGED <<pending, RunningBatch>>
  BY <1>15, UntouchedStutters DEF WgDone, Untouched, IInv, TypeOK, Roles
<1>16. ASSUME NEW p \in Procs, Uncount(p) PROVE  SQ!Next \/ UNCHANGED <<pending, RunningBatch>>
  BY <1>16, UntouchedStutters DEF Uncount, Untouched, IInv, TypeOK, Roles
<1>17. ASSUME NEW p \in Procs, Release(p) PROVE  SQ!Next \/ UNCHANGED <<pending, RunningBatch>>
  BY <1>17, UntouchedStutters DEF Release, Held, LastHeld, Returned, Untouched, IInv, TypeOK, Roles
<1>18. ASSUME NEW m \in Maint, FireMaintenance(m) PROVE  SQ!Next \/ UNCHANGED <<pending, RunningBatch>>
  BY <1>18, UntouchedStutters DEF FireMaintenance, Untouched, IInv, TypeOK, Roles
<1>19. ASSUME NEW m \in Maint, AcquireNext(m) PROVE  SQ!Next \/ UNCHANGED <<pending, RunningBatch>>
  BY <1>19, UntouchedStutters DEF AcquireNext, Free, HasAll, Held, Untouched, IInv, TypeOK, Roles
<1>20. ASSUME NEW o \in Ops, Admit(o) PROVE  SQ!Next \/ UNCHANGED <<pending, RunningBatch>>
  BY <1>20, UntouchedStutters DEF Admit, Untouched, IInv, TypeOK, Roles
<1>21. ASSUME NEW o \in Ops, FinishOp(o) PROVE  SQ!Next \/ UNCHANGED <<pending, RunningBatch>>
  BY <1>21, UntouchedStutters DEF FinishOp, Untouched, IInv, TypeOK, Roles
<1>22. CASE Shutdown \/ Signal \/ ForceStop
    BY <1>22, UntouchedStutters DEF Shutdown, CloseApi, StopCron, CronDone, WgZero, Exit, Signal,
     ForceStop, Move, Untouched, IInv, TypeOK, Roles
<1>23. CASE UNCHANGED vars
  BY <1>23, UntouchedStutters DEF vars, Untouched, IInv, TypeOK, Roles
<1>24. ASSUME NEW m \in Maint, Unlock(m) PROVE SQ!Next \/ UNCHANGED <<pending, RunningBatch>>
  BY <1>24, UntouchedStutters DEF Unlock, Untouched, IInv, TypeOK, Roles
<1>25. ASSUME NEW m \in Maint, UnlockReturns(m) PROVE SQ!Next \/ UNCHANGED <<pending, RunningBatch>>
  BY <1>25, UntouchedStutters DEF UnlockReturns, Untouched, IInv, TypeOK, Roles
<1>26. QED
  BY <1>1, <1>2, <1>3, <1>4, <1>5, <1>6, <1>7, <1>8, <1>9, <1>10, <1>11, <1>12,
     <1>13, <1>14, <1>15, <1>16, <1>17, <1>18, <1>19, <1>20, <1>21, <1>22, <1>23,
     <1>24, <1>25
  DEF Next, Step, JobStep

-----------------------------------------------------------------------------
\* Every behaviour of the scheduler is one of the projects' queues: requests
\* wait, run together, one batch at a time, and none is dropped.
THEOREM StackQueueTheorem == Spec => ImplementsStackQueue
<1>1. Init => SQ!Init
  BY DEF Init, SQ!Init, RunningBatch
<1>2. IInv /\ [Next]_vars => [SQ!Next]_(SQ!vars)
  BY StepRefines DEF SQ!vars
<1>3. QED
  BY <1>1, <1>2, Invariance, PTL DEF Spec, SQ!Spec, ImplementsStackQueue
=============================================================================
