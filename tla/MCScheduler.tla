---------------------------- MODULE MCScheduler ----------------------------
(***************************************************************************)
(* Instances of Scheduler for TLC.                                         *)
(***************************************************************************)
EXTENDS Scheduler, TLC

CONSTANTS db, web, solo, shop, nightly, hourly, plain

\* One service of a project, scheduled and triggered alone.
OneProjectOf == db :> shop
OneGroupOf == db :> nightly

\* One service, next to a plain container.
PairProjectOf == (db :> shop) @@ (solo :> Standalone)
PairGroupOf == (db :> nightly) @@ (solo :> plain)

\* Two services of one project on different schedules.
StackProjectOf == (db :> shop) @@ (web :> shop)
StackGroupOf == (db :> nightly) @@ (web :> hourly)

\* Slots, invocations, calls and workers are interchangeable; only runs without
\* liveness properties use this.
Symmetry == Permutations(Slots) \cup Permutations(Jobs) \cup Permutations(Calls)

=============================================================================
