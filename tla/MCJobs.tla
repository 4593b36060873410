------------------------------- MODULE MCJobs -------------------------------
(***************************************************************************)
(* The one-off jobs: a migration run, an export, a legacy migration, and    *)
(* the page of a run.  They share no rows and have queues of their own, and *)
(* the page takes its run's phases as they come, so a behaviour looks at    *)
(* one of them.                                                             *)
(***************************************************************************)
EXTENDS MigrationRun, Export, LegacyMigration, RunPage

CONSTANTS v1, v2

VARIABLE focus

MCNamespace == {v1, v2}
MCRows == [n \in {v1, v2} |-> IF n = v1 THEN 2 ELSE 1]

MCInit ==
  /\ focus \in {"migration", "export", "legacy", "page"}
  /\ MigrationInit /\ ExportInit /\ LegacyInit /\ PageInit
  /\ focus # "migration" => mopt = [drop |-> FALSE, skips |-> FALSE, parallel |-> 1, dry |-> FALSE]
  /\ focus # "legacy" => lopt = [drop |-> FALSE, dropAll |-> FALSE, scope |-> Db, all |-> TRUE, same |-> FALSE]

\* No step of a run asks for the flag CancelRun sets, so it is set in small runs only.
MCNext ==
  \/ focus = "migration" /\ MigrationNext /\ (mrow'.cancel => mopt.dry)
     /\ UNCHANGED <<focus, exportVars, legacyVars, pageVars>>
  \/ focus = "export" /\ ExportNext /\ UNCHANGED <<focus, migrationVars, legacyVars, pageVars>>
  \/ focus = "legacy" /\ LegacyNext /\ UNCHANGED <<focus, migrationVars, exportVars, pageVars>>
  \/ focus = "page" /\ PageNext /\ UNCHANGED <<focus, migrationVars, exportVars, legacyVars>>

MCSpec ==
  /\ MCInit /\ [][MCNext]_<<focus, migrationVars, exportVars, legacyVars, pageVars>>
  /\ MigrationFairness /\ ExportFairness /\ LegacyFairness /\ PageFairness

MCTypeOK == MigrationTypeOK /\ ExportTypeOK /\ LegacyTypeOK /\ RunPageTypeOK

(* A job that is in its queue ends, and its row says how. *)
JobsEnd == RunEnds /\ ExportEnds /\ LegacyTerminates
=============================================================================
