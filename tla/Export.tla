------------------------------- MODULE Export -------------------------------
(***************************************************************************)
(* One export: its row, its BullMQ job, the JobRun row of every attempt,    *)
(* the file the attempts write to, and a download.                          *)
(***************************************************************************)
EXTENDS Integers

CONSTANT MaxExportDeaths   \* bound: processes that die in mid-export

ASSUME ExportAssumption == MaxExportDeaths \in Nat

VARIABLES
  erow,      \* the ExportJob row
  eruns,     \* the JobRun of each attempt
  ejob,      \* the BullMQ job
  epc,       \* the worker
  efile,     \* the file at fileKey, whose name depends on the job only
  download,  \* a GET /:jobId/download that has read the row
  served,    \* history: what downloads were given
  edeaths

exportVars == <<erow, eruns, ejob, epc, efile, download, served, edeaths>>

Attempt == 1..(MaxExportDeaths + 1)
attempt == edeaths + 1

ExportTypeOK ==
  /\ erow \in [status : {"none", "pending", "running", "done", "failed", "deleted"}, key : BOOLEAN]
  /\ eruns \in [Attempt -> {"none", "running", "success", "failed"}]
  /\ ejob \in {"none", "waiting", "active", "stalled", "completed", "failed"}
  /\ epc \in {"idle", "mark", "run", "write", "save", "success", "catch", "error"}
  /\ efile \in {"none", "partial", "complete"}
  /\ download \in BOOLEAN /\ served \in {"none", "partial", "complete"}
  /\ edeaths \in 0..MaxExportDeaths

ExportInit ==
  /\ erow = [status |-> "none", key |-> FALSE] /\ eruns = [a \in Attempt |-> "none"]
  /\ ejob = "none" /\ epc = "idle" /\ efile = "none"
  /\ download = FALSE /\ served = "none" /\ edeaths = 0

ExportExists == erow.status \notin {"none", "deleted"}

-----------------------------------------------------------------------------
(* The routes. *)

\* POST /: the row, and then the job.
CreateExport ==
  /\ erow.status = "none" /\ erow' = [erow EXCEPT !.status = "pending"]
  /\ UNCHANGED <<eruns, ejob, epc, efile, download, served, edeaths>>

EnqueueExport ==
  /\ erow.status # "none" /\ ejob = "none" /\ ejob' = "waiting"
  /\ UNCHANGED <<erow, eruns, epc, efile, download, served, edeaths>>

\* GET /:jobId/download: 400 unless it is done ...
DownloadRead ==
  /\ ~download /\ erow.status = "done" /\ erow.key
  /\ download' = TRUE
  /\ UNCHANGED <<erow, eruns, ejob, epc, efile, served, edeaths>>

\* ... and what the file holds when it is opened.
DownloadFile ==
  /\ download /\ download' = FALSE
  /\ served' = IF efile = "complete" /\ served # "partial" THEN "complete" ELSE "partial"
  /\ UNCHANGED <<erow, eruns, ejob, epc, efile, edeaths>>

\* DELETE /:jobId, or the deletion of the connection; the file stays.
DeleteExport ==
  /\ ExportExists
  /\ erow' = [status |-> "deleted", key |-> FALSE]
  /\ UNCHANGED <<eruns, ejob, epc, efile, download, served, edeaths>>

-----------------------------------------------------------------------------
(* startExportWorker. *)

requestVars == <<download, served, edeaths>>

ExportJobEnds(outcome) == ejob' = outcome /\ epc' = "idle"
\* exportJob.update throws when the row is gone: into the catch, or out of it.
UpdateExport(row, next, thrown) ==
  IF ExportExists THEN erow' = row /\ epc' = next /\ UNCHANGED ejob
  ELSE /\ UNCHANGED erow
       /\ IF thrown = "out" THEN ExportJobEnds("failed") ELSE epc' = thrown /\ UNCHANGED ejob

\* findUniqueOrThrow.
PickUpExport ==
  /\ ejob = "waiting"
  /\ IF ExportExists THEN ejob' = "active" /\ epc' = "mark" ELSE ejob' = "failed" /\ UNCHANGED epc
  /\ UNCHANGED <<erow, eruns, efile, requestVars>>

\* Mutant of MarkExporting: an export that is done already keeps its status.
MarkExportingOnce ==
  /\ epc = "mark"
  /\ UpdateExport(IF erow.status = "done" THEN erow ELSE [erow EXCEPT !.status = "running"], "run", "out")
  /\ UNCHANGED <<eruns, efile, requestVars>>

MarkExporting ==
  /\ epc = "mark"
  /\ UpdateExport([erow EXCEPT !.status = "running"], "run", "out")
  /\ UNCHANGED <<eruns, efile, requestVars>>

\* jobRun.create fails on its foreign key when the row is gone; outside of the try.
CreateJobRun ==
  /\ epc = "run"
  /\ IF ExportExists
     THEN eruns' = [eruns EXCEPT ![attempt] = "running"] /\ epc' = "write" /\ UNCHANGED ejob
     ELSE ExportJobEnds("failed") /\ UNCHANGED eruns
  /\ UNCHANGED <<erow, efile, requestVars>>

\* The reads of the job and its connection, the client, the first query: any of them throws.
ExportThrows ==
  /\ epc = "write" /\ epc' = "catch"
  /\ UNCHANGED <<erow, eruns, ejob, efile, requestVars>>

\* createWriteStream and the rows, or tar.create from the staging directory.
WriteFile ==
  /\ epc = "write" /\ efile # "partial" /\ efile' = "partial"
  /\ UNCHANGED <<erow, eruns, ejob, epc, requestVars>>

FileWritten ==
  /\ epc = "write" /\ efile = "partial"
  /\ efile' = "complete" /\ epc' = "save"
  /\ UNCHANGED <<erow, eruns, ejob, requestVars>>

\* Mutant of SaveFileKey: the word of the JobRun goes into the export's row.
SaveFileKeyAsSuccess ==
  /\ epc = "save"
  /\ UpdateExport([status |-> "success", key |-> TRUE], "success", "catch")
  /\ UNCHANGED <<eruns, efile, requestVars>>

SaveFileKey ==
  /\ epc = "save"
  /\ UpdateExport([status |-> "done", key |-> TRUE], "success", "catch")
  /\ UNCHANGED <<eruns, efile, requestVars>>

\* The JobRun outlives the export: ON DELETE SET NULL, so its update finds it.
JobRunSucceeds ==
  /\ epc = "success"
  /\ eruns' = [eruns EXCEPT ![attempt] = "success"]
  /\ ExportJobEnds("completed")
  /\ UNCHANGED <<erow, efile, requestVars>>

CatchExport ==
  /\ epc = "catch"
  /\ UpdateExport([erow EXCEPT !.status = "failed"], "error", "out")
  /\ UNCHANGED <<eruns, efile, requestVars>>

JobRunFails ==
  /\ epc = "error"
  /\ eruns' = [eruns EXCEPT ![attempt] = "failed"]
  /\ ExportJobEnds("failed")
  /\ UNCHANGED <<erow, efile, requestVars>>

ExportProcessDies ==
  /\ edeaths < MaxExportDeaths /\ edeaths' = edeaths + 1
  /\ ejob = "active" /\ ejob' = "stalled" /\ epc' = "idle" /\ download' = FALSE
  /\ UNCHANGED <<erow, eruns, efile, served>>

\* BullMQ puts a stalled job back once, and then fails it.
ExportStalled ==
  /\ ejob = "stalled" /\ ejob' = IF edeaths = 1 THEN "waiting" ELSE "failed"
  /\ UNCHANGED <<erow, eruns, epc, efile, requestVars>>

ExportWorker ==
  \/ PickUpExport \/ MarkExporting \/ CreateJobRun \/ ExportThrows \/ WriteFile \/ FileWritten
  \/ SaveFileKey \/ JobRunSucceeds \/ CatchExport \/ JobRunFails \/ ExportStalled

ExportNext ==
  \/ CreateExport \/ EnqueueExport \/ DownloadRead \/ DownloadFile \/ DeleteExport
  \/ ExportWorker \/ ExportProcessDies

\* A worker whose calls return goes on; BullMQ delivers jobs and checks for stalled ones.
ExportFairness == WF_exportVars(ExportWorker)

ExportSpec == ExportInit /\ [][ExportNext]_exportVars

-----------------------------------------------------------------------------
(* A row that says done has a complete file, also while a stalled job runs again
   over the same file, and no download gets an incomplete one unless that
   happened between its look at the row and its opening of the file. *)
ExportReady ==
  /\ erow.status = "done" => efile = "complete"
  /\ edeaths = 0 => served # "partial"

(* An export whose job is in the queue ends, also when its process dies once. *)
ExportEnds ==
  ejob = "waiting" /\ edeaths <= 1 ~>
    erow.status \in {"done", "failed"} \/ ~ExportExists \/ edeaths > 1
=============================================================================
