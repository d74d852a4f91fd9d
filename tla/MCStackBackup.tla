--------------------------- MODULE MCStackBackup ---------------------------
(***************************************************************************)
(* An instance of StackBackup for TLC, with a start order of the kind that *)
(* topologicalSort yields.                                                 *)
(***************************************************************************)
EXTENDS StackBackup

CONSTANTS db1, db2, api,  \* containers
          sdb, sapi       \* their services

Healthy(svc) == [on |-> svc, cond |-> "healthy"]

\* Two replicas of a database, and an API that waits for them to be healthy.
ShopServiceOf == (db1 :> sdb) @@ (db2 :> sdb) @@ (api :> sapi)
ShopDepends == (db1 :> {}) @@ (db2 :> {}) @@ (api :> {Healthy(sdb)})

\* The start order of the labels of containers D
SortedOrder ==
  [D \in SUBSET Containers |-> CHOOSE s \in SetToSeqs(Named(D)) : IsStartOrder(s, D)]
=============================================================================
