-------------------------- MODULE MCRepositoryJobs --------------------------
(***************************************************************************)
(* Instances of RepositoryJobs for TLC.                                    *)
(***************************************************************************)
EXTENDS RepositoryJobs

CONSTANTS nas, s3,      \* repositories
          data, cache,  \* mounts
          run1, run2    \* backups

Scenario(actors, labels, mounts, repos, known) ==
  [actors |-> actors, cold |-> labels, chosen |-> mounts, plan |-> repos,
   known |-> known, present |-> known]

ShopScenarios ==
  { \* the first backup of a container, and a later one
    Scenario({run1}, BOOLEAN, Mounts, Repos, {}),
    Scenario({run1}, {TRUE}, Mounts, Repos, Repos),
    \* a schedule and a request of the API back the same container up
    Scenario({run1, run2}, {TRUE}, {data}, {nas}, {}),
    \* a backup, a check or a prune, and a request meet in one repository
    Scenario({run1, Op}, {FALSE}, {data}, {nas}, {nas}),
    Scenario({run1, Job}, {FALSE}, {data}, {nas}, {nas}),
    Scenario({Job, Op}, {FALSE}, {data}, {s3}, {s3}),
    \* maintenance goes through the entries, or through the containers
    Scenario({Job}, {FALSE}, {data}, {nas}, Repos),
    Scenario({Job}, {FALSE}, {data}, Repos, {}) }
=============================================================================
