----------------------------- MODULE StackQueue -----------------------------
(***************************************************************************)
(* What the scheduler promises a compose project: the containers requested *)
(* for backup wait until the project's current batch is over, then run     *)
(* together as one batch.  A project never has two batches at once and a   *)
(* request is never dropped (docs/cli.md: "triggered backups serialize     *)
(* through the same project queue as scheduled backups").                  *)
(* Scheduler implements this specification with one goroutine per project  *)
(* draining stackQueue.pending.                                            *)
(***************************************************************************)
CONSTANTS Containers, Projects, ProjectOf

VARIABLES waiting,   \* waiting[P]: containers requested and not yet started
          running    \* running[P]: the batch of P being backed up now

vars == <<waiting, running>>

Members(P) == {c \in Containers : ProjectOf[c] = P}

TypeOK == /\ waiting \in [Projects -> SUBSET Containers]
          /\ running \in [Projects -> SUBSET Containers]

Init == /\ waiting = [P \in Projects |-> {}]
        /\ running = [P \in Projects |-> {}]

Request(P) == \E B \in SUBSET Members(P) :
                 /\ B # {}
                 /\ waiting' = [waiting EXCEPT ![P] = @ \cup B]
                 /\ UNCHANGED running

Start(P) == /\ running[P] = {}
            /\ waiting[P] # {}
            /\ running' = [running EXCEPT ![P] = waiting[P]]
            /\ waiting' = [waiting EXCEPT ![P] = {}]

Finish(P) == /\ running[P] # {}
             /\ running' = [running EXCEPT ![P] = {}]
             /\ UNCHANGED waiting

Next == \E P \in Projects : Request(P) \/ Start(P) \/ Finish(P)

Spec == Init /\ [][Next]_vars
=============================================================================
