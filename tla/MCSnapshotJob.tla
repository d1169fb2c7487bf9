--------------------------- MODULE MCSnapshotJob ---------------------------
(***************************************************************************)
(* Portfolio for TLC, with the runs of the snapshot job told from the      *)
(* requests that write the same rows.                                      *)
(***************************************************************************)
EXTENDS Portfolio

VARIABLE jobRan   \* history: the last step was a run of the job

JobInit == PortfolioInit /\ jobRan = FALSE

JobNext ==
    \/ CreateSnapshots /\ jobRan' = TRUE
    \/ PortfolioNext /\ jobRan' = FALSE

JobSpec == JobInit /\ [][JobNext]_<<portfolioVars, jobRan>>

(***************************************************************************)
(* "Daily portfolio snapshots generated" (core/scheduler.py): a run of the *)
(* job that does not crash gives every user who has traded, and whose row  *)
(* of today is not there, a row.                                           *)
(***************************************************************************)
JobReachesEverybody ==
    [][jobRan' /\ crashes' = crashes =>
         \A u \in User :
             trades[u] # <<>> /\ DueDays(u) # {} =>
                 snapshots'[u] # snapshots[u]]_<<portfolioVars, jobRan>>
=============================================================================
