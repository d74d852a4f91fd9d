----------------------------- MODULE MCDiscovery -----------------------------
(***************************************************************************)
(* Instances of Discovery for TLC.                                         *)
(***************************************************************************)
EXTENDS Discovery, TLC

CONSTANTS db, web,  \* containers
          rdb, rweb \* repositories

\* Two containers with a repository each.
OwnRepos == (db :> {rdb}) @@ (web :> {rweb})

\* db and web are replicas of a service, or one is recreated as the other: the path
\* of a repository names project and service, not the container.
SharedRepo == (db :> {rdb}) @@ (web :> {rdb})
=============================================================================
