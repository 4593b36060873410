-------------------------- MODULE LegacyMigration ---------------------------
(***************************************************************************)
(* The mongodump/mongorestore migration of services/migration.service.ts:  *)
(* one job, the databases at both ends, the temporary directory, and the   *)
(* log lines that are written to the run while a command goes on.          *)
(***************************************************************************)
EXTENDS Integers, FiniteSets

CONSTANTS Db,               \* the non-system databases
          MaxLegacyDeaths   \* bound: processes that die in mid-migration

ASSUME LegacyAssumption == MaxLegacyDeaths \in Nat

VARIABLES
  lopt,     \* scope and options of the job; same: source and destination are one server
  lrow,     \* the MigrationJob row, and its newest run
  ljob,     \* the BullMQ job
  lpc,      \* the worker
  todo,     \* the databases the current step has still to do
  source, dest,  \* what each database holds
  dump,     \* the databases in the temporary directory
  dirs,     \* [now |-> the attempt's directory exists, left |-> others do]
  line,     \* a log line still being written after its command ended, "none" or its phase
  ldeaths

legacyVars == <<lopt, lrow, ljob, lpc, todo, source, dest, dump, dirs, line, ldeaths>>

Phases == {"none", "dump", "restore", "cleanup", "done"}
LegacySteps == {"idle", "dir", "mark", "run", "drop", "dump", "restore", "cleanup", "rundone", "jobdone",
                "catch", "runfailed", "jobfailed"}

LegacyTypeOK ==
  /\ lopt \in [drop : BOOLEAN, dropAll : BOOLEAN, scope : SUBSET Db, all : BOOLEAN, same : BOOLEAN]
  /\ lrow \in [status : {"pending", "running", "done", "failed", "deleted"}, dir : BOOLEAN,
               run : {"none", "running", "done", "failed"}, phase : Phases]
  /\ ljob \in {"none", "waiting", "active", "stalled", "completed", "failed"}
  /\ lpc \in LegacySteps /\ todo \in SUBSET Db
  /\ source \in [Db -> {"data", "none"}] /\ dest \in [Db -> {"old", "none", "copied", "added"}]
  /\ dump \in SUBSET Db /\ dirs \in [now : BOOLEAN, left : BOOLEAN]
  /\ line \in {"none", "dump", "restore"} /\ ldeaths \in 0..MaxLegacyDeaths

\* POST /: the row.  Nothing asks for two different connections here.
LegacyInit ==
  /\ lopt \in [drop : BOOLEAN, dropAll : BOOLEAN, scope : SUBSET Db, all : BOOLEAN, same : BOOLEAN]
  /\ lopt.all => lopt.scope = Db
  /\ lrow = [status |-> "pending", dir |-> FALSE, run |-> "none", phase |-> "none"]
  /\ ljob = "none" /\ lpc = "idle" /\ todo = {}
  /\ source = [d \in Db |-> "data"] /\ dest = [d \in Db |-> "old"]
  /\ dump = {} /\ dirs = [now |-> FALSE, left |-> FALSE] /\ line = "none" /\ ldeaths = 0

LegacyExists == lrow.status # "deleted"
data == <<source, dest, dump>>

EnqueueLegacy ==
  /\ ljob = "none" /\ ljob' = "waiting"
  /\ UNCHANGED <<lopt, lrow, lpc, todo, data, dirs, line, ldeaths>>

\* A connection of the job is deleted, and the job with it.
DeleteLegacy ==
  /\ LegacyExists /\ lrow' = [status |-> "deleted", dir |-> FALSE, run |-> "none", phase |-> "none"]
  /\ UNCHANGED <<lopt, ljob, lpc, todo, data, dirs, line, ldeaths>>

-----------------------------------------------------------------------------
(* runMigration. *)

constant == <<lopt, ldeaths>>
LegacyEnds(outcome) == ljob' = outcome /\ lpc' = "idle"

\* An update that throws when its row is gone: into the catch, or out of the function.
UpdateLegacy(row, next, inside) ==
  IF LegacyExists THEN lrow' = row /\ lpc' = next /\ UNCHANGED ljob
  ELSE /\ UNCHANGED lrow
       /\ IF inside THEN lpc' = "catch" /\ UNCHANGED ljob ELSE LegacyEnds("failed")

LegacyPickUp ==
  /\ ljob = "waiting"
  /\ IF LegacyExists THEN ljob' = "active" /\ lpc' = "dir" ELSE ljob' = "failed" /\ UNCHANGED lpc
  /\ UNCHANGED <<lrow, todo, data, dirs, line, constant>>

\* mkdtemp; the directory of an attempt that died stays.
MakeDirectory ==
  /\ lpc = "dir" /\ lpc' = "mark"
  /\ dirs' = [now |-> TRUE, left |-> dirs.left \/ dirs.now] /\ dump' = {}
  /\ UNCHANGED <<lrow, ljob, todo, source, dest, line, constant>>

LegacyMark ==
  /\ lpc = "mark" /\ UpdateLegacy([lrow EXCEPT !.status = "running", !.dir = TRUE], "run", FALSE)
  /\ UNCHANGED <<todo, data, dirs, line, constant>>

ToDrop == IF lopt.dropAll \/ (lopt.drop /\ lopt.all) THEN Db
          ELSE IF lopt.drop THEN lopt.scope ELSE {}

\* Neither "all" nor a list of databases: mongodump without --db, and nothing dropped by name.
Dumped == IF lopt.all \/ lopt.scope = {} THEN Db ELSE lopt.scope

LegacyRun ==
  /\ lpc = "run" /\ UpdateLegacy([lrow EXCEPT !.run = "running", !.phase = "dump"], "drop", FALSE)
  /\ todo' = ToDrop
  /\ UNCHANGED <<data, dirs, line, constant>>

\* dropDatabase, and addLog.
DropDatabase(d) ==
  /\ lpc = "drop" /\ d \in todo /\ todo' = todo \ {d}
  /\ dest' = [dest EXCEPT ![d] = "none"]
  /\ source' = IF lopt.same THEN [source EXCEPT ![d] = "none"] ELSE source
  /\ UpdateLegacy([lrow EXCEPT !.phase = "dump"], "drop", TRUE)
  /\ UNCHANGED <<dump, dirs, line, constant>>

StartDump ==
  /\ lpc = "drop" /\ todo = {} /\ todo' = Dumped
  /\ UpdateLegacy([lrow EXCEPT !.phase = "dump"], "dump", TRUE)
  /\ UNCHANGED <<data, dirs, line, constant>>

\* mongodump ends with code 0, its last lines perhaps still to be written.
DumpDatabase(d) ==
  /\ lpc = "dump" /\ d \in todo /\ todo' = todo \ {d}
  /\ dump' = IF source[d] = "data" THEN dump \cup {d} ELSE dump
  /\ line' \in {line, "dump"}
  /\ UpdateLegacy([lrow EXCEPT !.phase = "dump"], "dump", TRUE)
  /\ UNCHANGED <<source, dest, dirs, constant>>

StartRestore ==
  /\ lpc = "dump" /\ todo = {} /\ todo' = dump
  /\ UpdateLegacy([lrow EXCEPT !.phase = "restore"], "restore", TRUE)
  /\ UNCHANGED <<data, dirs, line, constant>>

\* What mongorestore has put back of one database so far; duplicates are skipped.
RestoreDatabase(d) ==
  /\ lpc = "restore" /\ d \in todo /\ todo' = todo \ {d}
  /\ dest' = [dest EXCEPT ![d] = IF @ \in {"none", "copied"} THEN "copied" ELSE "added"]
  /\ source' = IF lopt.same THEN [source EXCEPT ![d] = "data"] ELSE source
  /\ UNCHANGED <<lrow, ljob, lpc, dump, dirs, line, constant>>

RestoreEnds ==
  /\ lpc = "restore" /\ todo = {}
  /\ line' \in {line, "restore"}
  /\ UpdateLegacy([lrow EXCEPT !.phase = "cleanup"], "cleanup", TRUE)
  /\ UNCHANGED <<todo, data, dirs, constant>>

Cleanup ==
  /\ lpc = "cleanup" /\ UpdateLegacy([lrow EXCEPT !.phase = "cleanup"], "rundone", TRUE)
  /\ dirs' = [dirs EXCEPT !.now = FALSE]
  /\ UNCHANGED <<todo, data, line, constant>>

RunDone ==
  /\ lpc = "rundone" /\ UpdateLegacy([lrow EXCEPT !.run = "done", !.phase = "done"], "jobdone", TRUE)
  /\ UNCHANGED <<todo, data, dirs, line, constant>>

JobDone ==
  /\ lpc = "jobdone"
  /\ IF LegacyExists THEN lrow' = [lrow EXCEPT !.status = "done", !.dir = FALSE] /\ LegacyEnds("completed")
                     ELSE lpc' = "catch" /\ UNCHANGED <<lrow, ljob>>
  /\ UNCHANGED <<todo, data, dirs, line, constant>>

\* Mutant of CommandFails: a command's exit code is not looked at.
CommandFailsUnseen ==
  /\ lpc \in {"dump", "restore"} /\ todo # {} /\ todo' = {}
  /\ UNCHANGED <<lrow, ljob, lpc, data, dirs, line, constant>>

\* A command exits with another code or cannot be started.
CommandFails ==
  /\ lpc \in {"dump", "restore"} /\ todo # {} /\ todo' = {}
  /\ lpc' = "catch"
  /\ UNCHANGED <<lrow, ljob, data, dirs, line, constant>>

\* The driver throws while it drops.
DropFails ==
  /\ lpc = "drop" /\ lpc' = "catch" /\ todo' = {}
  /\ UNCHANGED <<lrow, ljob, data, dirs, line, constant>>

CatchLegacy ==
  /\ lpc = "catch" /\ lpc' = "runfailed"
  /\ dirs' = [dirs EXCEPT !.now = FALSE]
  /\ todo' = {}
  /\ UNCHANGED <<lrow, ljob, data, line, constant>>

RunFailed ==
  /\ lpc = "runfailed" /\ UpdateLegacy([lrow EXCEPT !.run = "failed"], "jobfailed", FALSE)
  /\ UNCHANGED <<todo, data, dirs, line, constant>>

JobFailed ==
  /\ lpc = "jobfailed"
  /\ lrow' = IF LegacyExists THEN [lrow EXCEPT !.status = "failed", !.dir = FALSE] ELSE lrow
  /\ LegacyEnds("failed")
  /\ UNCHANGED <<todo, data, dirs, line, constant>>

Died == ljob' = "stalled" /\ lpc' = "idle" /\ todo' = {} /\ line' = "none"

\* handleData goes on after the command has ended: its line takes the run's phase back.
\* When the run is gone nobody handles the rejection, and the process ends.
LateLine ==
  /\ line # "none"
  /\ IF LegacyExists
     THEN lrow' = [lrow EXCEPT !.phase = line] /\ line' = "none" /\ UNCHANGED <<ljob, lpc, todo, ldeaths>>
     ELSE /\ UNCHANGED lrow
          /\ IF ljob = "active" /\ ldeaths < MaxLegacyDeaths THEN Died /\ ldeaths' = ldeaths + 1
             ELSE line' = "none" /\ UNCHANGED <<ljob, lpc, todo, ldeaths>>
  /\ UNCHANGED <<lopt, data, dirs>>

LegacyProcessDies ==
  /\ ljob = "active" /\ ldeaths < MaxLegacyDeaths /\ ldeaths' = ldeaths + 1
  /\ Died
  /\ UNCHANGED <<lopt, lrow, data, dirs>>

LegacyStalled ==
  /\ ljob = "stalled" /\ ljob' = IF ldeaths = 1 THEN "waiting" ELSE "failed"
  /\ UNCHANGED <<lrow, lpc, todo, data, dirs, line, constant>>

LegacyWorker ==
  \/ LegacyPickUp \/ MakeDirectory \/ LegacyMark \/ LegacyRun \/ StartDump \/ StartRestore
  \/ \E d \in Db : DropDatabase(d) \/ DumpDatabase(d) \/ RestoreDatabase(d)
  \/ RestoreEnds \/ Cleanup \/ RunDone \/ JobDone \/ CommandFails \/ DropFails
  \/ CatchLegacy \/ RunFailed \/ JobFailed \/ LegacyStalled

LegacyNext == EnqueueLegacy \/ DeleteLegacy \/ LegacyWorker \/ LateLine \/ LegacyProcessDies

\* A worker whose calls return goes on; BullMQ delivers jobs and checks for stalled ones.
LegacyFairness == WF_legacyVars(LegacyWorker)

LegacySpec == LegacyInit /\ [][LegacyNext]_legacyVars

-----------------------------------------------------------------------------
(* A migration that says done has put every database it dumps at the
   destination, as a copy when dropping was asked for; whatever happens, what it
   was not asked to drop is still there, and a source that is not the
   destination is untouched. *)
LegacyTruthful ==
  /\ lrow.status = "done" /\ ~lopt.same =>
       \A d \in Dumped : dest[d] \in IF d \in ToDrop THEN {"copied"} ELSE {"added"}
  /\ \A d \in Db \ ToDrop : dest[d] \in {"old", "added"}
  /\ ~lopt.same => \A d \in Db : source[d] = "data"

(* A migration whose job is in the queue ends, also when its process dies once. *)
LegacyTerminates ==
  ljob = "waiting" /\ ldeaths <= 1 ~>
    lrow.status \in {"done", "failed"} \/ ~LegacyExists \/ ldeaths > 1
=============================================================================
