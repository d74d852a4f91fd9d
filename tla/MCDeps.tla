------------------------------- MODULE MCDeps -------------------------------
(***************************************************************************)
(* Every graph over four services with labels of up to two services, one   *)
(* label that names a service twice (as two replicas of the dependent do), *)
(* and batches that stop one service or two: which ones does not matter,   *)
(* as every graph is there.                                                *)
(***************************************************************************)
EXTENDS Deps

CONSTANTS api, cache, db, web

FourNames == <<api, cache, db, web>>

ShortLabels ==
  {label \in BoundedSeq(AllNames, 2) : IsInjective(label)} \cup {<<db, db>>}

OneOrTwo == {{db}, {db, web}}
=============================================================================
