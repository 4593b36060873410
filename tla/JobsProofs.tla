----------------------------- MODULE JobsProofs -----------------------------
(***************************************************************************)
(* The one-off jobs: what is called ready, done or succeeded is, for any     *)
(* number of rows, databases, namespaces and processes that die.             *)
(***************************************************************************)
EXTENDS MCJobs, FiniteSetTheorems, TLAPS

-----------------------------------------------------------------------------
(* Exports. *)

\* What the worker has done to the row and the file before each of its steps.
ExportWorkerInv ==
  /\ epc # "idle" <=> ejob = "active"
  /\ ejob # "none" => erow.status # "none"
  /\ epc \in {"run", "write", "save", "catch"} => erow.status \in {"running", "deleted"}
  /\ epc = "save" => efile = "complete"
  /\ epc = "error" => erow.status \in {"failed", "deleted"}

\* Before any process dies the file is not touched once it was offered.
OfferedInv ==
  edeaths = 0 /\ (erow.status = "done" \/ download) =>
    efile = "complete" /\ (epc = "success" \/ ejob = "completed")

ExportInv == ExportTypeOK /\ ExportWorkerInv /\ OfferedInv /\ ExportReady

LEMMA ExportTypeStep == ExportTypeOK /\ ExportWorkerInv /\ [ExportNext]_exportVars => ExportTypeOK'
<1> USE DEF ExportTypeOK, Attempt, attempt, ExportExists, requestVars, UpdateExport, ExportJobEnds
<1> SUFFICES ASSUME ExportTypeOK, ExportWorkerInv, [ExportNext]_exportVars PROVE ExportTypeOK'
  OBVIOUS
<1>1. CASE CreateExport \/ DeleteExport
  <2>1. CASE CreateExport
    BY <2>1 DEF CreateExport
  <2>2. CASE DeleteExport
    BY <2>2 DEF DeleteExport
  <2> QED BY <1>1, <2>1, <2>2
<1>2. CASE EnqueueExport \/ DownloadRead \/ DownloadFile
  <2>1. CASE EnqueueExport
    BY <2>1 DEF EnqueueExport
  <2>2. CASE DownloadRead
    BY <2>2 DEF DownloadRead
  <2>3. CASE DownloadFile
    BY <2>3 DEF DownloadFile
  <2> QED BY <1>2, <2>1, <2>2, <2>3
<1>3. CASE PickUpExport \/ ExportStalled
  <2>1. CASE PickUpExport
    BY <2>1 DEF PickUpExport
  <2>2. CASE ExportStalled
    BY <2>2 DEF ExportStalled
  <2> QED BY <1>3, <2>1, <2>2
<1>4. CASE MarkExporting
  BY <1>4 DEF MarkExporting
<1>5. CASE CreateJobRun
  BY <1>5 DEF CreateJobRun
<1>6. CASE ExportThrows \/ WriteFile \/ FileWritten
  <2>1. CASE ExportThrows
    BY <2>1 DEF ExportThrows
  <2>2. CASE WriteFile
    BY <2>2 DEF WriteFile
  <2>3. CASE FileWritten
    BY <2>3 DEF FileWritten
  <2> QED BY <1>6, <2>1, <2>2, <2>3
<1>7. CASE SaveFileKey
  <2>1. erow' = erow \/ erow' = [status |-> "done", key |-> TRUE]
    BY <1>7 DEF SaveFileKey
  <2>2. ejob' = ejob /\ epc' \in {"success", "catch"}
    BY <1>7 DEF SaveFileKey
  <2>3. \A b \in BOOLEAN : [status |-> "done", key |-> b] \in
            [status : {"none", "pending", "running", "done", "failed", "deleted"}, key : BOOLEAN]
    OBVIOUS
  <2>4. TRUE \in BOOLEAN
    OBVIOUS
  <2> QED BY <1>7, <2>1, <2>2, <2>3, <2>4 DEF SaveFileKey
<1>8. CASE JobRunSucceeds \/ JobRunFails
  <2>1. CASE JobRunSucceeds
    BY <2>1 DEF JobRunSucceeds
  <2>2. CASE JobRunFails
    BY <2>2 DEF JobRunFails
  <2> QED BY <1>8, <2>1, <2>2
<1>9. CASE CatchExport
  BY <1>9 DEF CatchExport
<1>10. CASE ExportProcessDies
  <2>1. download' \in BOOLEAN
    BY <1>10 DEF ExportProcessDies
  <2>2. edeaths' \in 0 .. MaxExportDeaths
    BY <1>10, ExportAssumption DEF ExportProcessDies
  <2> QED BY <1>10, <2>1, <2>2 DEF ExportProcessDies
<1>11. CASE UNCHANGED exportVars
  BY <1>11 DEF exportVars
<1> QED
  BY <1>1, <1>2, <1>3, <1>4, <1>5, <1>6, <1>7, <1>8, <1>9, <1>10, <1>11 DEF ExportNext, ExportWorker

\* What a row becomes, by its status.
LEMMA ExportStatus ==
  ASSUME ExportTypeOK, NEW s
  PROVE  [erow EXCEPT !.status = s].status = s
  BY DEF ExportTypeOK

LEMMA ExportStep == ExportInv /\ [ExportNext]_exportVars => ExportInv'
<1> USE DEF ExportWorkerInv, OfferedInv, ExportReady, ExportExists, requestVars, UpdateExport, ExportJobEnds
<1> SUFFICES ASSUME ExportInv, [ExportNext]_exportVars PROVE ExportInv'
  OBVIOUS
<1>0. ExportTypeOK /\ ExportTypeOK' /\ ExportWorkerInv /\ OfferedInv /\ ExportReady
  BY ExportTypeStep DEF ExportInv
<1>a. edeaths \in Nat /\ \A s : [erow EXCEPT !.status = s].status = s
  BY <1>0, ExportStatus, ExportAssumption DEF ExportTypeOK
<1>b. ASSUME ExportWorkerInv', OfferedInv', ExportReady' PROVE ExportInv'
  BY <1>0, <1>b DEF ExportInv
<1>1. CASE CreateExport
  BY <1>0, <1>a, <1>1, <1>b DEF CreateExport
<1>2. CASE DeleteExport
  BY <1>0, <1>2, <1>b DEF DeleteExport
<1>3. CASE EnqueueExport
  BY <1>0, <1>3, <1>b DEF EnqueueExport
<1>4. CASE DownloadRead \/ DownloadFile
  <2>1. CASE DownloadRead
    BY <1>0, <2>1, <1>b DEF DownloadRead
  <2>2. CASE DownloadFile
    BY <1>0, <2>2, <1>b DEF DownloadFile
  <2> QED BY <1>4, <2>1, <2>2
<1>5. CASE PickUpExport
  BY <1>0, <1>5, <1>b DEF PickUpExport
<1>6. CASE ExportStalled
  BY <1>0, <1>6, <1>b DEF ExportStalled
<1>7. CASE MarkExporting
  BY <1>0, <1>a, <1>7, <1>b DEF MarkExporting
<1>8. CASE CreateJobRun
  BY <1>0, <1>8, <1>b DEF CreateJobRun
<1>9. CASE ExportThrows \/ WriteFile \/ FileWritten
  <2>1. CASE ExportThrows
    BY <1>0, <2>1, <1>b DEF ExportThrows
  <2>2. CASE WriteFile
    BY <1>0, <2>2, <1>b DEF WriteFile
  <2>3. CASE FileWritten
    BY <1>0, <2>3, <1>b DEF FileWritten
  <2> QED BY <1>9, <2>1, <2>2, <2>3
<1>10. CASE SaveFileKey
  BY <1>0, <1>10, <1>b DEF SaveFileKey
<1>11. CASE JobRunSucceeds \/ JobRunFails
  <2>1. CASE JobRunSucceeds
    BY <1>0, <2>1, <1>b DEF JobRunSucceeds
  <2>2. CASE JobRunFails
    BY <1>0, <2>2, <1>b DEF JobRunFails
  <2> QED BY <1>11, <2>1, <2>2
<1>12. CASE CatchExport
  BY <1>0, <1>a, <1>12, <1>b DEF CatchExport
<1>13. CASE ExportProcessDies
  BY <1>0, <1>a, <1>13, <1>b DEF ExportProcessDies
<1>14. CASE UNCHANGED exportVars
  BY <1>0, <1>14, <1>b DEF exportVars
<1> QED
  BY <1>1, <1>2, <1>3, <1>4, <1>5, <1>6, <1>7, <1>8, <1>9, <1>10, <1>11, <1>12, <1>13, <1>14
  DEF ExportNext, ExportWorker

LEMMA ExportStart == ExportInit => ExportInv
<1> SUFFICES ASSUME ExportInit PROVE ExportInv
  OBVIOUS
<1>1. ExportTypeOK
  <2>1. erow \in [status : {"none", "pending", "running", "done", "failed", "deleted"}, key : BOOLEAN]
    BY DEF ExportInit
  <2>2. download \in BOOLEAN
    BY DEF ExportInit
  <2>3. edeaths \in 0 .. MaxExportDeaths
    BY ExportAssumption DEF ExportInit
  <2> QED BY <2>1, <2>2, <2>3 DEF ExportInit, ExportTypeOK
<1>2. ExportWorkerInv /\ OfferedInv /\ ExportReady
  BY DEF ExportInit, ExportWorkerInv, OfferedInv, ExportReady
<1> QED BY <1>1, <1>2 DEF ExportInv

(* The rows, the job, the file and the history of an export keep their types. *)
THEOREM ExportTypeCorrect == ExportSpec => []ExportTypeOK
<1>1. ExportInv => ExportTypeOK
  BY DEF ExportInv
<1> QED BY <1>1, ExportStart, ExportStep, PTL DEF ExportSpec

(* An export that says done has a complete file, and as long as no process died *)
(* no download got an incomplete one, wherever deletes and downloads come in.  *)
THEOREM ExportReadyHolds == ExportSpec => []ExportReady
<1>1. ExportInv => ExportReady
  BY DEF ExportInv
<1> QED BY <1>1, ExportStart, ExportStep, PTL DEF ExportSpec

-----------------------------------------------------------------------------
(* Legacy migrations. *)

LRow == [status : {"pending", "running", "done", "failed", "deleted"}, dir : BOOLEAN,
         run : {"none", "running", "done", "failed"}, phase : Phases]

\* The worker runs exactly while the job is active, and a done migration has ended.
LegacyWorkerInv ==
  /\ lpc # "idle" <=> ljob = "active"
  /\ lrow.status = "done" => ljob = "completed"

\* A database has been put at the destination the way it was asked for.
Moved(d) == dest[d] \in IF d \in ToDrop THEN {"copied"} ELSE {"added"}

\* What each step has to rely on: dropped, dumped, restored, by the databases still to do.
LegacyDataInv ==
  /\ lpc \in {"mark", "run", "drop"} => dump = {}
  /\ lpc = "drop" => todo \subseteq ToDrop /\ \A d \in ToDrop \ todo : dest[d] = "none"
  /\ lpc = "dump" => todo \subseteq Dumped /\ \A d \in ToDrop : dest[d] = "none"
  /\ lpc \in {"dump", "restore"} => dump \subseteq Dumped
  /\ lpc = "dump" /\ ~lopt.same => Dumped \ todo \subseteq dump
  /\ lpc = "restore" =>
       /\ todo \subseteq dump /\ (~lopt.same => Dumped \subseteq dump)
       /\ \A d \in ToDrop \cap todo : dest[d] = "none"
       /\ \A d \in dump \ todo : Moved(d)
  /\ lpc \in {"cleanup", "rundone", "jobdone"} /\ ~lopt.same => \A d \in Dumped : Moved(d)

LegacyInv == LegacyTypeOK /\ LegacyWorkerInv /\ LegacyDataInv /\ LegacyTruthful

\* The types of the row's updates.
LEMMA LRowPhase ==
  ASSUME NEW r \in LRow, NEW ph \in {"dump", "restore", "cleanup"}
  PROVE  [r EXCEPT !.phase = ph] \in LRow /\ [r EXCEPT !.phase = ph].status = r.status
BY DEF LRow, Phases

LEMMA LRowStatus ==
  ASSUME NEW r \in LRow, NEW st \in {"running", "done", "failed"}, NEW b \in BOOLEAN
  PROVE  [r EXCEPT !.status = st, !.dir = b] \in LRow /\ [r EXCEPT !.status = st, !.dir = b].status = st
BY DEF LRow

LEMMA LRowRun ==
  ASSUME NEW r \in LRow, NEW run \in {"running", "done"}, NEW ph \in {"dump", "done"}
  PROVE  [r EXCEPT !.run = run, !.phase = ph] \in LRow /\ [r EXCEPT !.run = run, !.phase = ph].status = r.status
BY DEF LRow, Phases

LEMMA LRowFailed ==
  ASSUME NEW r \in LRow
  PROVE  [r EXCEPT !.run = "failed"] \in LRow /\ [r EXCEPT !.run = "failed"].status = r.status
BY DEF LRow

\* A step of the worker that updates the row: it goes on, or into the catch, or the job ends.
LEMMA LegacyUpdated ==
  ASSUME LegacyTypeOK, LegacyWorkerInv, lpc # "idle", NEW row \in LRow, row.status # "done",
         NEW next \in LegacySteps \ {"idle"}, NEW inside \in BOOLEAN, UpdateLegacy(row, next, inside)
  PROVE  /\ lrow' \in LRow /\ lpc' \in LegacySteps
         /\ ljob' \in {"none", "waiting", "active", "stalled", "completed", "failed"}
         /\ LegacyWorkerInv' /\ lrow'.status # "done" /\ lpc' \in {next, "catch", "idle"}
<1>1. lrow \in LRow /\ ljob = "active" /\ lrow.status # "done" /\ "catch" \in LegacySteps
      /\ "idle" \in LegacySteps
  BY DEF LegacyTypeOK, LegacyWorkerInv, LRow, LegacySteps
<1>2. CASE LegacyExists
  BY <1>1, <1>2 DEF UpdateLegacy, LegacyWorkerInv
<1>3. CASE ~LegacyExists
  BY <1>1, <1>3 DEF UpdateLegacy, LegacyEnds, LegacyWorkerInv
<1> QED BY <1>2, <1>3

\* What is left to show of such a step.
LEMMA LegacyAfter ==
  ASSUME LegacyInv, lrow' \in LRow, lpc' \in LegacySteps, lopt' = lopt,
         ljob' \in {"none", "waiting", "active", "stalled", "completed", "failed"},
         LegacyWorkerInv', lrow'.status # "done",
         todo' \in SUBSET Db, source' \in [Db -> {"data", "none"}],
         dest' \in [Db -> {"old", "none", "copied", "added"}], dump' \in SUBSET Db,
         dirs' \in [now : BOOLEAN, left : BOOLEAN], line' \in {"none", "dump", "restore"},
         ldeaths' \in 0 .. MaxLegacyDeaths, LegacyDataInv',
         \A d \in Db \ ToDrop : dest'[d] \in {"old", "added"},
         ~lopt.same => \A d \in Db : source'[d] = "data"
  PROVE  LegacyInv'
<1>1. LegacyTypeOK'
  BY DEF LegacyInv, LegacyTypeOK, LRow
<1>2. LegacyTruthful'
  BY DEF LegacyTruthful, ToDrop, Dumped
<1> QED BY <1>1, <1>2 DEF LegacyInv

LEMMA BothBooleans == TRUE \in BOOLEAN /\ FALSE \in BOOLEAN
OBVIOUS

LEMMA LegacyWorkerStep == LegacyInv /\ LegacyWorker => LegacyInv'
<1> SUFFICES ASSUME LegacyInv, LegacyWorker PROVE LegacyInv'
  OBVIOUS
<1>t. /\ lrow \in LRow /\ lpc \in LegacySteps
      /\ ljob \in {"none", "waiting", "active", "stalled", "completed", "failed"}
      /\ todo \in SUBSET Db /\ source \in [Db -> {"data", "none"}]
      /\ dest \in [Db -> {"old", "none", "copied", "added"}] /\ dump \in SUBSET Db
      /\ dirs \in [now : BOOLEAN, left : BOOLEAN] /\ line \in {"none", "dump", "restore"}
      /\ ldeaths \in 0 .. MaxLegacyDeaths /\ Dumped \subseteq Db /\ ToDrop \subseteq Db
  BY DEF LegacyInv, LegacyTypeOK, LRow, ToDrop, Dumped
<1>i. /\ LegacyTypeOK /\ LegacyWorkerInv /\ LegacyDataInv
      /\ \A d \in Db \ ToDrop : dest[d] \in {"old", "added"}
      /\ ~lopt.same => \A d \in Db : source[d] = "data"
  BY DEF LegacyInv, LegacyTruthful
<1>u. \A ph \in {"dump", "restore", "cleanup"} :
        [lrow EXCEPT !.phase = ph] \in LRow /\ [lrow EXCEPT !.phase = ph].status = lrow.status
  BY <1>t, LRowPhase
<1>f. \A st \in {"running", "done", "failed"} : \A b \in BOOLEAN :
        [lrow EXCEPT !.status = st, !.dir = b] \in LRow /\ [lrow EXCEPT !.status = st, !.dir = b].status = st
  BY <1>t, LRowStatus
<1>r. \A run \in {"running", "done"} : \A ph \in {"dump", "done"} :
        /\ [lrow EXCEPT !.run = run, !.phase = ph] \in LRow
        /\ [lrow EXCEPT !.run = run, !.phase = ph].status = lrow.status
  BY <1>t, LRowRun
<1>b. TRUE \in BOOLEAN /\ FALSE \in BOOLEAN
  BY BothBooleans
<1>o. lopt.same \in BOOLEAN
  BY <1>i DEF LegacyTypeOK
<1>n. lpc # "idle" => lrow.status # "done"
  BY <1>i DEF LegacyWorkerInv
<1>m. \A row \in LRow : \A next \in LegacySteps \ {"idle"} : \A inside \in BOOLEAN :
        lpc # "idle" /\ row.status # "done" /\ UpdateLegacy(row, next, inside) =>
          /\ lrow' \in LRow /\ lpc' \in LegacySteps
          /\ ljob' \in {"none", "waiting", "active", "stalled", "completed", "failed"}
          /\ LegacyWorkerInv' /\ lrow'.status # "done" /\ lpc' \in {next, "catch", "idle"}
  BY <1>i, LegacyUpdated
<1>1. CASE LegacyPickUp \/ LegacyStalled
  <2>1. LegacyWorkerInv' /\ lpc' \in LegacySteps /\ lrow' = lrow /\ UNCHANGED <<todo, data, dirs, line, constant>>
        /\ lpc' \in {"idle", "dir"} /\ lrow.status # "done"
        /\ ljob' \in {"none", "waiting", "active", "stalled", "completed", "failed"}
    BY <1>t, <1>i, <1>1 DEF LegacyPickUp, LegacyStalled, LegacyWorkerInv, LegacySteps
  <2>2. LegacyDataInv'
    BY <2>1 DEF LegacyDataInv
  <2> QED BY <1>t, <1>i, <2>1, <2>2, LegacyAfter DEF data, constant
<1>2. CASE MakeDirectory
  <2>1. LegacyWorkerInv' /\ lpc' = "mark" /\ dump' = {} /\ lrow.status # "done"
    BY <1>t, <1>i, <1>2 DEF MakeDirectory, LegacyWorkerInv
  <2>2. dirs' \in [now : BOOLEAN, left : BOOLEAN]
    BY <1>t, <1>2, <1>b DEF MakeDirectory
  <2>3. LegacyDataInv'
    BY <2>1 DEF LegacyDataInv
  <2> QED BY <1>t, <1>i, <1>2, <2>1, <2>2, <2>3, LegacyAfter DEF MakeDirectory, constant, LegacySteps
<1>3. CASE LegacyMark \/ LegacyRun
  <2>1. PICK row \in LRow, next \in {"run", "drop"} :
          UpdateLegacy(row, next, FALSE) /\ row.status # "done" /\ (next = "run" => todo' = todo)
          /\ (next = "drop" => todo' = ToDrop)
    <3>1. lrow.status # "done"
      BY <1>i, <1>3 DEF LegacyMark, LegacyRun, LegacyWorkerInv
    <3> QED BY <1>t, <1>b, <1>f, <1>r, <1>3, <3>1 DEF LegacyMark, LegacyRun
  <2>2. /\ lrow' \in LRow /\ lpc' \in LegacySteps
        /\ ljob' \in {"none", "waiting", "active", "stalled", "completed", "failed"}
        /\ LegacyWorkerInv' /\ lrow'.status # "done" /\ lpc' \in {next, "catch", "idle"}
    BY <1>i, <1>3, <2>1, LegacyUpdated, <1>b DEF LegacySteps, LegacyMark, LegacyRun
  <2>3. UNCHANGED <<data, dirs, line, constant>> /\ dump = {} /\ todo' \in SUBSET Db
    BY <1>t, <1>i, <1>3 DEF LegacyMark, LegacyRun, LegacyDataInv
  <2>4. LegacyDataInv'
    BY <2>1, <2>2, <2>3 DEF LegacyDataInv, data, constant, ToDrop, Dumped
  <2> QED BY <1>t, <1>i, <2>2, <2>3, <2>4, LegacyAfter DEF data, constant
<1>4. ASSUME NEW d \in Db, DropDatabase(d) PROVE LegacyInv'
  <2>1. /\ lrow' \in LRow /\ lpc' \in LegacySteps
        /\ ljob' \in {"none", "waiting", "active", "stalled", "completed", "failed"}
        /\ LegacyWorkerInv' /\ lrow'.status # "done" /\ lpc' \in {"drop", "catch", "idle"}
    BY <1>4, <1>u, <1>b, <1>m, <1>n DEF LegacySteps, DropDatabase
  <2>2. /\ dest' = [dest EXCEPT ![d] = "none"] /\ d \in todo /\ todo' = todo \ {d}
        /\ source' = (IF lopt.same THEN [source EXCEPT ![d] = "none"] ELSE source)
        /\ UNCHANGED <<dump, dirs, line, constant>>
    BY <1>4 DEF DropDatabase
  <2>3. d \in ToDrop /\ dest'[d] = "none" /\ \A e \in Db \ {d} : dest'[e] = dest[e]
    BY <1>t, <1>i, <1>4, <2>2 DEF LegacyDataInv, DropDatabase
  <2>4. /\ dest' \in [Db -> {"old", "none", "copied", "added"}] /\ source' \in [Db -> {"data", "none"}]
        /\ todo' \in SUBSET Db /\ (~lopt.same => source' = source)
    BY <1>t, <2>2
  <2>5. LegacyDataInv'
    BY <1>t, <1>i, <1>4, <2>1, <2>2, <2>3 DEF LegacyDataInv, DropDatabase, constant, ToDrop, Dumped
  <2>6. \A e \in Db \ ToDrop : dest'[e] \in {"old", "added"}
    BY <1>i, <2>3
  <2>7. ~lopt.same => \A e \in Db : source'[e] = "data"
    BY <1>i, <2>4
  <2> QED BY <1>t, <1>i, <2>1, <2>2, <2>4, <2>5, <2>6, <2>7, LegacyAfter DEF constant
<1>5. CASE StartDump
  <2>1. /\ lrow' \in LRow /\ lpc' \in LegacySteps
        /\ ljob' \in {"none", "waiting", "active", "stalled", "completed", "failed"}
        /\ LegacyWorkerInv' /\ lrow'.status # "done" /\ lpc' \in {"dump", "catch", "idle"}
    BY <1>5, <1>u, <1>b, <1>m, <1>n DEF LegacySteps, StartDump
  <2>2. /\ UNCHANGED <<data, dirs, line, constant>> /\ todo = {} /\ todo' = Dumped /\ lpc = "drop"
    BY <1>5 DEF StartDump
  <2>3. LegacyDataInv'
    BY <1>t, <1>i, <2>1, <2>2 DEF LegacyDataInv, data, constant, ToDrop, Dumped
  <2> QED BY <1>t, <1>i, <2>1, <2>2, <2>3, LegacyAfter DEF data, constant
<1>6. ASSUME NEW d \in Db, DumpDatabase(d) PROVE LegacyInv'
  <2>1. /\ lrow' \in LRow /\ lpc' \in LegacySteps
        /\ ljob' \in {"none", "waiting", "active", "stalled", "completed", "failed"}
        /\ LegacyWorkerInv' /\ lrow'.status # "done" /\ lpc' \in {"dump", "catch", "idle"}
    BY <1>6, <1>u, <1>b, <1>m, <1>n DEF LegacySteps, DumpDatabase
  <2>2. /\ UNCHANGED <<source, dest, dirs, constant>> /\ d \in todo /\ todo' = todo \ {d} /\ lpc = "dump"
        /\ dump' = (IF source[d] = "data" THEN dump \cup {d} ELSE dump)
        /\ line' \in {"none", "dump", "restore"}
    BY <1>t, <1>6 DEF DumpDatabase
  <2>3. d \in Dumped /\ (~lopt.same => source[d] = "data")
    BY <1>i, <2>2 DEF LegacyDataInv
  <2>4. LegacyDataInv'
    <3>1. CASE lpc' # "dump"
      BY <2>1, <3>1 DEF LegacyDataInv
    <3>2. CASE lpc' = "dump"
      <4>1. dump' \subseteq Dumped /\ todo' \subseteq Dumped /\ (\A e \in ToDrop : dest[e] = "none")
        BY <1>i, <2>2, <2>3 DEF LegacyDataInv
      <4>2. ~lopt.same => Dumped \ todo' \subseteq dump'
        BY <1>i, <2>2, <2>3 DEF LegacyDataInv
      <4> QED BY <2>2, <3>2, <4>1, <4>2 DEF LegacyDataInv, constant, ToDrop, Dumped
    <3> QED BY <3>1, <3>2
  <2> QED BY <1>t, <1>i, <2>1, <2>2, <2>3, <2>4, LegacyAfter DEF constant
<1>7. CASE StartRestore
  <2>1. /\ lrow' \in LRow /\ lpc' \in LegacySteps
        /\ ljob' \in {"none", "waiting", "active", "stalled", "completed", "failed"}
        /\ LegacyWorkerInv' /\ lrow'.status # "done" /\ lpc' \in {"restore", "catch", "idle"}
    BY <1>7, <1>u, <1>b, <1>m, <1>n DEF LegacySteps, StartRestore
  <2>2. /\ UNCHANGED <<data, dirs, line, constant>> /\ todo = {} /\ todo' = dump /\ lpc = "dump"
    BY <1>7 DEF StartRestore
  <2>3. LegacyDataInv'
    BY <1>t, <1>i, <2>1, <2>2 DEF LegacyDataInv, data, constant, ToDrop, Dumped, Moved
  <2> QED BY <1>t, <1>i, <2>1, <2>2, <2>3, LegacyAfter DEF data, constant
<1>8. ASSUME NEW d \in Db, RestoreDatabase(d) PROVE LegacyInv'
  <2>1. UNCHANGED <<lrow, ljob, lpc, dump, dirs, line, constant>> /\ lpc = "restore" /\ d \in todo
        /\ todo' = todo \ {d}
    BY <1>8 DEF RestoreDatabase
  <2>2. /\ dest' \in [Db -> {"old", "none", "copied", "added"}]
        /\ dest'[d] = (IF dest[d] \in {"none", "copied"} THEN "copied" ELSE "added")
        /\ \A e \in Db \ {d} : dest'[e] = dest[e]
    BY <1>t, <1>8 DEF RestoreDatabase
  <2>3. /\ source' \in [Db -> {"data", "none"}] /\ (~lopt.same => source' = source)
    BY <1>t, <1>8 DEF RestoreDatabase
  <2>4. d \in ToDrop => dest[d] = "none"
    BY <1>i, <2>1 DEF LegacyDataInv
  <2>5. d \notin ToDrop => dest[d] \in {"old", "added"}
    BY <1>i
  <2>6. LegacyDataInv'
    BY <1>t, <1>i, <2>1, <2>2, <2>4, <2>5 DEF LegacyDataInv, constant, ToDrop, Dumped, Moved
  <2>7. \A e \in Db \ ToDrop : dest'[e] \in {"old", "added"}
    BY <1>i, <2>2, <2>5
  <2>8. LegacyWorkerInv' /\ lrow'.status # "done" /\ todo' \in SUBSET Db
    BY <1>t, <1>i, <1>n, <2>1 DEF LegacyWorkerInv
  <2> QED BY <1>t, <1>i, <2>1, <2>2, <2>3, <2>6, <2>7, <2>8, LegacyAfter DEF constant
<1>9. CASE RestoreEnds
  <2>1. /\ lrow' \in LRow /\ lpc' \in LegacySteps
        /\ ljob' \in {"none", "waiting", "active", "stalled", "completed", "failed"}
        /\ LegacyWorkerInv' /\ lrow'.status # "done" /\ lpc' \in {"cleanup", "catch", "idle"}
    BY <1>9, <1>u, <1>b, <1>m, <1>n DEF LegacySteps, RestoreEnds
  <2>2. /\ UNCHANGED <<todo, data, dirs, constant>> /\ todo = {} /\ line' \in {"none", "dump", "restore"}
        /\ lpc = "restore"
    BY <1>t, <1>9 DEF RestoreEnds
  <2>3. LegacyDataInv'
    BY <1>t, <1>i, <2>1, <2>2 DEF LegacyDataInv, data, constant, ToDrop, Dumped, Moved
  <2> QED BY <1>t, <1>i, <2>1, <2>2, <2>3, LegacyAfter DEF data, constant
<1>10. CASE Cleanup \/ RunDone
  <2>1. /\ lrow' \in LRow /\ lpc' \in LegacySteps
        /\ ljob' \in {"none", "waiting", "active", "stalled", "completed", "failed"}
        /\ LegacyWorkerInv' /\ lrow'.status # "done" /\ lpc' \in {"rundone", "jobdone", "catch", "idle"}
    <3>1. CASE Cleanup
      BY <3>1, <1>u, <1>b, <1>m, <1>n DEF LegacySteps, Cleanup
    <3>2. CASE RunDone
      BY <1>t, <3>2, <1>b, <1>m, <1>n, <1>r DEF LegacySteps, RunDone
    <3> QED BY <1>10, <3>1, <3>2
  <2>2. /\ UNCHANGED <<todo, data, line, constant>> /\ lpc \in {"cleanup", "rundone"}
    BY <1>10 DEF Cleanup, RunDone
  <2>3. dirs' \in [now : BOOLEAN, left : BOOLEAN]
    <3>1. CASE Cleanup
      BY <1>t, <1>b, <3>1 DEF Cleanup
    <3>2. CASE RunDone
      BY <1>t, <3>2 DEF RunDone
    <3> QED BY <1>10, <3>1, <3>2
  <2>4. LegacyDataInv'
    BY <1>t, <1>i, <2>1, <2>2 DEF LegacyDataInv, data, constant, ToDrop, Dumped, Moved
  <2> QED BY <1>t, <1>i, <2>1, <2>2, <2>3, <2>4, LegacyAfter DEF data, constant
<1>11. CASE JobDone
  <2>1. UNCHANGED <<todo, data, dirs, line, constant>> /\ lpc = "jobdone" /\ lpc' \in {"idle", "catch"}
    BY <1>11 DEF JobDone, LegacyEnds
  <2>2. /\ lrow' \in LRow /\ LegacyWorkerInv' /\ lpc' \in LegacySteps
        /\ ljob' \in {"none", "waiting", "active", "stalled", "completed", "failed"}
    <3>1. CASE LegacyExists
      BY <1>b, <1>f, <1>11, <3>1 DEF JobDone, LegacyEnds, LegacyWorkerInv, LegacySteps
    <3>2. CASE ~LegacyExists
      BY <1>t, <1>i, <1>11, <3>2 DEF JobDone, LegacyWorkerInv, LegacySteps, LegacyExists
    <3> QED BY <3>1, <3>2
  <2>3. LegacyTypeOK'
    BY <1>i, <2>1, <2>2 DEF LegacyTypeOK, LRow, data, constant
  <2>4. LegacyDataInv'
    BY <2>1 DEF LegacyDataInv
  <2>5. LegacyTruthful'
    BY <1>i, <2>1 DEF LegacyTruthful, LegacyDataInv, Moved, ToDrop, Dumped, data, constant
  <2> QED BY <2>2, <2>3, <2>4, <2>5 DEF LegacyInv
<1>12. CASE CommandFails \/ DropFails
  <2>1. /\ UNCHANGED <<lrow, ljob, data, dirs, line, constant>> /\ todo' = {} /\ lpc' = "catch" /\ lpc # "idle"
    BY <1>12 DEF CommandFails, DropFails
  <2>2. LegacyWorkerInv' /\ lrow'.status # "done" /\ LegacyDataInv' /\ lpc' \in LegacySteps
    BY <1>i, <1>n, <2>1 DEF LegacyWorkerInv, LegacyDataInv, LegacySteps
  <2> QED BY <1>t, <1>i, <2>1, <2>2, LegacyAfter DEF data, constant
<1>13. CASE CatchLegacy
  <2>1. /\ UNCHANGED <<lrow, ljob, data, line, constant>> /\ todo' = {} /\ lpc' = "runfailed" /\ lpc # "idle"
    BY <1>13 DEF CatchLegacy
  <2>2. LegacyWorkerInv' /\ lrow'.status # "done" /\ LegacyDataInv' /\ lpc' \in LegacySteps
    BY <1>i, <1>n, <2>1 DEF LegacyWorkerInv, LegacyDataInv, LegacySteps
  <2>3. dirs' \in [now : BOOLEAN, left : BOOLEAN]
    BY <1>t, <1>b, <1>13 DEF CatchLegacy
  <2> QED BY <1>t, <1>i, <2>1, <2>2, <2>3, LegacyAfter DEF data, constant
<1>14. CASE RunFailed
  <2>1. /\ lrow' \in LRow /\ lpc' \in LegacySteps
        /\ ljob' \in {"none", "waiting", "active", "stalled", "completed", "failed"}
        /\ LegacyWorkerInv' /\ lrow'.status # "done" /\ lpc' \in {"jobfailed", "catch", "idle"}
    BY <1>t, <1>14, <1>b, <1>m, <1>n, LRowFailed DEF LegacySteps, RunFailed
  <2>2. UNCHANGED <<todo, data, dirs, line, constant>>
    BY <1>14 DEF RunFailed
  <2>3. LegacyDataInv'
    BY <2>1 DEF LegacyDataInv
  <2> QED BY <1>t, <1>i, <2>1, <2>2, <2>3, LegacyAfter DEF data, constant
<1>15. CASE JobFailed
  <2>1. /\ UNCHANGED <<todo, data, dirs, line, constant>> /\ lpc' = "idle" /\ ljob' = "failed" /\ lpc # "idle"
    BY <1>15 DEF JobFailed, LegacyEnds
  <2>2. lrow' \in LRow /\ lrow'.status # "done"
    BY <1>t, <1>n, <1>b, <1>f, <1>15 DEF JobFailed
  <2>3. LegacyWorkerInv' /\ LegacyDataInv' /\ lpc' \in LegacySteps
    BY <2>1, <2>2 DEF LegacyWorkerInv, LegacyDataInv, LegacySteps
  <2> QED BY <1>t, <1>i, <2>1, <2>2, <2>3, LegacyAfter DEF data, constant
<1> QED
  BY <1>1, <1>2, <1>3, <1>4, <1>5, <1>6, <1>7, <1>8, <1>9, <1>10, <1>11, <1>12, <1>13, <1>14, <1>15
  DEF LegacyWorker

LEMMA LegacyStep == LegacyInv /\ [LegacyNext]_legacyVars => LegacyInv'
<1> SUFFICES ASSUME LegacyInv, [LegacyNext]_legacyVars PROVE LegacyInv'
  OBVIOUS
<1>t. /\ lrow \in LRow /\ lpc \in LegacySteps /\ todo \in SUBSET Db /\ LegacyTypeOK
      /\ ljob \in {"none", "waiting", "active", "stalled", "completed", "failed"}
      /\ ldeaths \in 0 .. MaxLegacyDeaths /\ line \in {"none", "dump", "restore"}
      /\ LegacyWorkerInv /\ LegacyDataInv /\ LegacyTruthful
  BY DEF LegacyInv, LegacyTypeOK, LRow
<1>1. CASE EnqueueLegacy
  <2>1. LegacyTypeOK'
    BY <1>t, <1>1 DEF EnqueueLegacy, LegacyTypeOK, data
  <2>2. LegacyWorkerInv' /\ LegacyDataInv' /\ LegacyTruthful'
    BY <1>t, <1>1 DEF EnqueueLegacy, LegacyWorkerInv, LegacyDataInv, LegacyTruthful, Moved, ToDrop, Dumped, data
  <2> QED BY <2>1, <2>2 DEF LegacyInv
<1>2. CASE DeleteLegacy
  <2>1. lrow' \in LRow /\ lrow'.status # "done"
    <3>1. FALSE \in BOOLEAN
      BY BothBooleans
    <3>2. \A b \in BOOLEAN : [status |-> "deleted", dir |-> b, run |-> "none", phase |-> "none"] \in LRow
      BY DEF LRow, Phases
    <3> QED BY <1>2, <3>1, <3>2 DEF DeleteLegacy
  <2>2. UNCHANGED <<lopt, ljob, lpc, todo, data, dirs, line, ldeaths>>
    BY <1>2 DEF DeleteLegacy
  <2>3. LegacyTypeOK'
    BY <1>t, <2>1, <2>2 DEF LegacyTypeOK, LRow, data
  <2>4. LegacyWorkerInv' /\ LegacyDataInv' /\ LegacyTruthful'
    BY <1>t, <2>1, <2>2 DEF LegacyWorkerInv, LegacyDataInv, LegacyTruthful, Moved, ToDrop, Dumped, data
  <2> QED BY <2>3, <2>4 DEF LegacyInv
<1>3. CASE LegacyWorker
  BY <1>3, LegacyWorkerStep
<1>4. CASE LateLine \/ LegacyProcessDies
  <2>1. /\ lrow' \in LRow /\ (lrow'.status = "done" <=> lrow.status = "done")
        /\ UNCHANGED <<lopt, data, dirs>> /\ todo' \in SUBSET Db /\ line' \in {"none", "dump", "restore"}
    <3>1. CASE LateLine
      <4>1. lrow' = lrow \/ (lrow' = [lrow EXCEPT !.phase = line] /\ line \in {"dump", "restore", "cleanup"})
        BY <1>t, <3>1 DEF LateLine
      <4>2. lrow' \in LRow /\ lrow'.status = lrow.status
        BY <1>t, <4>1, LRowPhase
      <4> QED BY <1>t, <3>1, <4>2 DEF LateLine, Died
    <3>2. CASE LegacyProcessDies
      BY <1>t, <3>2 DEF LegacyProcessDies, Died
    <3> QED BY <1>4, <3>1, <3>2
  <2>2. ldeaths' \in 0 .. MaxLegacyDeaths
    BY <1>t, <1>4, LegacyAssumption DEF LateLine, LegacyProcessDies, Died
  <2>3. \/ ljob' = "stalled" /\ lpc' = "idle" /\ lrow.status # "done"
        \/ UNCHANGED <<ljob, lpc, todo>>
    BY <1>t, <1>4 DEF LateLine, LegacyProcessDies, Died, LegacyWorkerInv
  <2>4. LegacyTypeOK'
    BY <1>t, <2>1, <2>2, <2>3 DEF LegacyTypeOK, LRow, data, LegacySteps
  <2>5. LegacyWorkerInv' /\ LegacyDataInv' /\ LegacyTruthful'
    BY <1>t, <2>1, <2>3 DEF LegacyWorkerInv, LegacyDataInv, LegacyTruthful, Moved, ToDrop, Dumped, data
  <2> QED BY <2>4, <2>5 DEF LegacyInv
<1>5. CASE UNCHANGED legacyVars
  <2>1. LegacyTypeOK'
    BY <1>t, <1>5 DEF legacyVars, LegacyTypeOK
  <2>2. LegacyWorkerInv' /\ LegacyDataInv' /\ LegacyTruthful'
    BY <1>t, <1>5 DEF legacyVars, LegacyWorkerInv, LegacyDataInv, LegacyTruthful, Moved, ToDrop, Dumped
  <2> QED BY <2>1, <2>2 DEF LegacyInv
<1> QED
  BY <1>1, <1>2, <1>3, <1>4, <1>5 DEF LegacyNext

LEMMA LegacyStart == LegacyInit => LegacyInv
<1> SUFFICES ASSUME LegacyInit PROVE LegacyInv
  OBVIOUS
<1>1. lrow \in LRow /\ dirs \in [now : BOOLEAN, left : BOOLEAN]
  <2>1. \A b \in BOOLEAN : /\ [status |-> "pending", dir |-> b, run |-> "none", phase |-> "none"] \in LRow
                           /\ [now |-> b, left |-> b] \in [now : BOOLEAN, left : BOOLEAN]
    BY DEF LRow, Phases
  <2> QED BY <2>1, BothBooleans DEF LegacyInit
<1>2. lopt \in [drop : BOOLEAN, dropAll : BOOLEAN, scope : SUBSET Db, all : BOOLEAN, same : BOOLEAN]
  BY DEF LegacyInit
<1>3. LegacyTypeOK
  BY <1>1, <1>2, LegacyAssumption DEF LegacyInit, LegacyTypeOK, LegacySteps, LRow
<1>4. LegacyWorkerInv /\ LegacyDataInv /\ LegacyTruthful
  BY DEF LegacyInit, LegacyWorkerInv, LegacyDataInv, LegacyTruthful
<1> QED BY <1>3, <1>4 DEF LegacyInv

(* The rows, the job, the databases and the directories of a legacy migration keep their types. *)
THEOREM LegacyTypeCorrect == LegacySpec => []LegacyTypeOK
<1>1. LegacyInv => LegacyTypeOK
  BY DEF LegacyInv
<1> QED BY <1>1, LegacyStart, LegacyStep, PTL DEF LegacySpec

(* A migration that says done has put every database it dumps where it was      *)
(* asked to, and nothing that was not to be dropped is ever lost, for any       *)
(* databases, options and number of processes that die.                         *)
THEOREM LegacyTruthfulHolds == LegacySpec => []LegacyTruthful
<1>1. LegacyInv => LegacyTruthful
  BY DEF LegacyInv
<1> QED BY <1>1, LegacyStart, LegacyStep, PTL DEF LegacySpec
-----------------------------------------------------------------------------
(* Migration runs. *)

\* Where the worker stands, and what the row and the namespaces are by then.
RunWorkerInv ==
  /\ mpc # "idle" <=> mjob = "active"
  /\ mpc \in {"plan", "run", "flush", "finalise"} => mrow.phase \in {"running", "deleted"}
  /\ mpc = "plan" => \A n \in Namespace : space[n].at = "queued"
  /\ mpc \in {"flush", "finalise"} => \A n \in Namespace : space[n].at \in {"done", "threw"}
  /\ progress = {n \in Namespace : space[n].at \in {"done", "threw"}}
  /\ mpc = "finalise" /\ ~overtaken /\ Exists => mrow.shown = Namespace

\* The rows of a namespace that are at the destination, by how far its reader is.
RowsInv(n) ==
  /\ table[n] \subseteq Row(n)
  /\ space[n].at = "queued" => space[n] = NoSpace
  /\ space[n].at \in {"infer", "init"} => space[n].next = 1 /\ space[n].lost = 0
  /\ space[n].at = "stream" =>
       space[n].next \in Row(n) /\ (space[n].lost = 0 => 1 .. (space[n].next - 1) \subseteq table[n])
  /\ space[n].at = "finalise" /\ space[n].lost = 0 => Row(n) \subseteq table[n]
  /\ space[n].at = "done" /\ space[n].lost = 0 /\ ~mopt.dry => Row(n) \subseteq table[n]
  /\ space[n].at = "done" => space[n].lost <= summary.lost
  /\ space[n].at = "threw" => n \in summary.errors /\ summary.bad > 0

\* One worker: what the totals grew by is the namespace's own.
OneWorkerInv ==
  mopt.parallel = 1 =>
    /\ \A m, n \in Busy : m = n
    /\ \A n \in Busy : space[n].lostBefore = summary.lost
    /\ summary.errors = {n \in Namespace : \/ space[n].at = "threw"
                                           \/ space[n].at = "done" /\ space[n].lost > 0}

RunInv ==
  /\ MigrationTypeOK /\ RunWorkerInv /\ OneWorkerInv /\ RunTruthful
  /\ \A n \in Namespace : RowsInv(n)

MRow == [phase : {"none", "queued", "running", "deleted"} \cup Terminal, cancel : BOOLEAN,
         errors : SUBSET Namespace, shown : Progress]
RunJobs == {"none", "waiting", "active", "stalled", "completed", "failed"}
RunSteps == {"idle", "mark", "plan", "run", "flush", "finalise", "end"}

\* The row's updates.
LEMMA MRowPhase ==
  ASSUME NEW r \in MRow, NEW ph \in {"none", "queued", "running", "deleted"} \cup Terminal
  PROVE  /\ [r EXCEPT !.phase = ph] \in MRow /\ [r EXCEPT !.phase = ph].phase = ph
         /\ [r EXCEPT !.phase = ph].shown = r.shown
BY DEF MRow

LEMMA MRowEnd ==
  ASSUME NEW r \in MRow, NEW ph \in Terminal, NEW e \in SUBSET Namespace
  PROVE  /\ [r EXCEPT !.phase = ph, !.errors = e] \in MRow /\ [r EXCEPT !.phase = ph, !.errors = e].phase = ph
         /\ [r EXCEPT !.phase = ph, !.errors = e].errors = e
         /\ [r EXCEPT !.phase = ph, !.errors = e].shown = r.shown
BY DEF MRow

LEMMA MRowShown ==
  ASSUME NEW r \in MRow, NEW p \in Progress
  PROVE  /\ [r EXCEPT !.shown = p] \in MRow /\ [r EXCEPT !.shown = p].phase = r.phase
         /\ [r EXCEPT !.shown = p].errors = r.errors /\ [r EXCEPT !.shown = p].shown = p
BY DEF MRow

LEMMA MRowCancel ==
  ASSUME NEW r \in MRow
  PROVE  /\ [r EXCEPT !.cancel = TRUE] \in MRow /\ [r EXCEPT !.cancel = TRUE].phase = r.phase
         /\ [r EXCEPT !.cancel = TRUE].errors = r.errors /\ [r EXCEPT !.cancel = TRUE].shown = r.shown
<1>1. \A b \in BOOLEAN : [r EXCEPT !.cancel = b] \in MRow
  BY DEF MRow
<1>2. [r EXCEPT !.cancel = TRUE] \in MRow
  BY <1>1, BothBooleans
<1> QED BY <1>2 DEF MRow

LEMMA MRowNoRun == NoRun \in MRow /\ [NoRun EXCEPT !.phase = "deleted"] \in MRow
<1>1. \A b \in BOOLEAN : [phase |-> "none", cancel |-> b, errors |-> {}, shown |-> {}] \in MRow
  BY DEF MRow, Progress
<1>2. NoRun \in MRow
  BY <1>1, BothBooleans DEF NoRun
<1> QED BY <1>2, MRowPhase

\* What is typed and known before any step.
LEMMA RunTyped ==
  ASSUME RunInv
  PROVE  /\ mopt \in Options /\ mrow \in MRow /\ mjob \in RunJobs /\ mpc \in RunSteps
         /\ space \in [Namespace -> Space] /\ summary \in Summary
         /\ table \in [Namespace -> SUBSET Nat] /\ progress \in Progress
         /\ pending \in SUBSET Progress /\ deaths \in 0 .. MaxDeaths /\ overtaken \in BOOLEAN
BY DEF RunInv, MigrationTypeOK, MRow, RunJobs, RunSteps

\* The rows of a namespace nothing happens to.
LEMMA RowsKeptInv ==
  ASSUME NEW n \in Namespace, RowsInv(n), space'[n] = space[n], table'[n] = table[n], mopt' = mopt,
         space \in [Namespace -> Space], summary \in Summary, summary' \in Summary,
         summary.errors \subseteq summary'.errors, summary.bad <= summary'.bad,
         summary.lost <= summary'.lost
  PROVE  RowsInv(n)'
<1>1. space[n].lost \in Nat /\ summary.lost \in Nat /\ summary'.lost \in Nat
      /\ summary.bad \in Nat /\ summary'.bad \in Nat
  BY DEF Space, Summary
<1> QED BY <1>1 DEF RowsInv, Row

\* A step that leaves the namespaces, the summary and the destination alone.
LEMMA RunOutside ==
  ASSUME RunInv, UNCHANGED <<mopt, local>>, mrow' \in MRow, mjob' \in RunJobs, mpc' \in RunSteps,
         pending' \in SUBSET Progress, deaths' \in 0 .. MaxDeaths, overtaken' \in BOOLEAN,
         RunWorkerInv', RunTruthful'
  PROVE  RunInv'
<1>1. UNCHANGED <<mopt, space, summary, table, progress>>
  BY DEF local
<1>2. MigrationTypeOK'
  BY <1>1, RunTyped DEF MigrationTypeOK, MRow, RunJobs, RunSteps
<1>3. OneWorkerInv'
  BY <1>1 DEF RunInv, OneWorkerInv, Busy
<1>4. \A n \in Namespace : RowsInv(n)'
  BY <1>1 DEF RunInv, RowsInv, Row
<1> QED BY <1>2, <1>3, <1>4 DEF RunInv

\* The row tells the truth as long as it and what it tells of stay.
LEMMA TruthKept ==
  ASSUME RunTruthful, UNCHANGED <<mopt, local>>,
         \/ mrow'.phase \notin Terminal
         \/ /\ mrow'.phase = mrow.phase /\ mrow'.errors = mrow.errors
            /\ \/ mrow'.shown = mrow.shown /\ overtaken' = overtaken
               \/ overtaken'
  PROVE  RunTruthful'
<1>1. UNCHANGED <<mopt, space, summary, table, progress>>
  BY DEF local
<1>2. "succeeded" \in Terminal
  BY DEF Terminal
<1> QED BY <1>1, <1>2 DEF RunTruthful, Losers, Row

\* What one step of the pipeline leaves to show: its own namespace.
LEMMA PipelineStep ==
  ASSUME RunInv, mpc = "run", UNCHANGED rowVars, NEW n \in Namespace, NEW x \in Space,
         space' = [space EXCEPT ![n] = x], space[n].at \notin {"done", "threw"},
         summary' \in Summary, summary.errors \subseteq summary'.errors,
         summary.bad <= summary'.bad, summary.lost <= summary'.lost,
         table' \in [Namespace -> SUBSET Nat], \A m \in Namespace \ {n} : table'[m] = table[m],
         progress' = progress \cup (IF x.at \in {"done", "threw"} THEN {n} ELSE {}),
         pending' \in SUBSET Progress, RowsInv(n)', OneWorkerInv'
  PROVE  RunInv'
<1>1. UNCHANGED <<mopt, mrow, mjob, mpc, deaths, overtaken>>
  BY DEF rowVars
<1>2. space'[n] = x /\ space' \in [Namespace -> Space] /\ \A m \in Namespace \ {n} : space'[m] = space[m]
  BY RunTyped
<1>3. MigrationTypeOK'
  <2>1. progress' \in Progress
    BY RunTyped DEF Progress
  <2> QED BY <1>1, <1>2, <2>1, RunTyped DEF MigrationTypeOK, MRow, RunJobs, RunSteps
<1>4. RunWorkerInv'
  <2>1. RunWorkerInv
    BY DEF RunInv
  <2>2. progress' = {m \in Namespace : space'[m].at \in {"done", "threw"}}
    BY <1>2, <2>1 DEF RunWorkerInv
  <2> QED BY <1>1, <2>1, <2>2 DEF RunWorkerInv
<1>5. RunTruthful'
  BY <1>1 DEF RunInv, RunTruthful, RunWorkerInv, Terminal
<1>6. ASSUME NEW m \in Namespace PROVE RowsInv(m)'
  <2>1. CASE m = n
    BY <2>1
  <2>2. CASE m # n
    <3>1. RowsInv(m) /\ space'[m] = space[m] /\ table'[m] = table[m]
      BY <1>2, <2>2 DEF RunInv
    <3> QED BY <1>1, <3>1, RunTyped, RowsKeptInv
  <2> QED BY <2>1, <2>2
<1> QED BY <1>3, <1>4, <1>5, <1>6 DEF RunInv

\* A busy namespace goes on, or settles.
LEMMA OneKept ==
  ASSUME RunInv, mopt' = mopt, NEW n \in Busy, NEW x \in Space, space' = [space EXCEPT ![n] = x],
         \/ /\ x.at \in {"infer", "init", "stream", "finalise"} /\ x.lostBefore = space[n].lostBefore
            /\ summary'.lost = summary.lost /\ summary'.errors = summary.errors
         \/ /\ x.at \in {"done", "threw"}
            /\ mopt.parallel = 1 =>
                 summary'.errors = summary.errors \cup (IF x.at = "threw" \/ x.lost > 0 THEN {n} ELSE {})
  PROVE  OneWorkerInv'
<1> SUFFICES ASSUME mopt.parallel = 1 PROVE OneWorkerInv'
  BY DEF OneWorkerInv
<1>1. n \in Namespace /\ space[n].at \in {"infer", "init", "stream", "finalise"}
  BY DEF Busy
<1>2. space'[n] = x /\ \A m \in Namespace \ {n} : space'[m] = space[m]
  BY <1>1, RunTyped
<1>3. /\ \A k, m \in Busy : k = m
      /\ \A k \in Busy : space[k].lostBefore = summary.lost
      /\ summary.errors = {k \in Namespace : \/ space[k].at = "threw"
                                             \/ space[k].at = "done" /\ space[k].lost > 0}
  BY DEF RunInv, OneWorkerInv
<1>4. Busy' = (IF x.at \in {"done", "threw"} THEN {} ELSE {n})
  <2>1. \A m \in Namespace \ {n} : space[m].at \notin {"infer", "init", "stream", "finalise"}
    BY <1>3 DEF Busy
  <2> QED BY <1>1, <1>2, <2>1 DEF Busy
<1>5. summary'.errors = {k \in Namespace : \/ space'[k].at = "threw"
                                           \/ space'[k].at = "done" /\ space'[k].lost > 0}
  BY <1>1, <1>2, <1>3
<1>6. \A k \in Busy' : space'[k].lostBefore = summary'.lost
  BY <1>2, <1>3, <1>4
<1>7. \A k, m \in Busy' : k = m
  BY <1>4
<1> QED BY <1>5, <1>6, <1>7 DEF OneWorkerInv

\* With one worker a namespace is taken when none is busy.
LEMMA NoneBusy ==
  ASSUME RunInv, mopt.parallel = 1, Cardinality(Busy) < mopt.parallel
  PROVE  Busy = {}
<1>1. IsFiniteSet(Busy)
  BY MigrationRunAssumption, FS_Subset DEF Busy
<1>2. Cardinality(Busy) \in Nat
  BY <1>1, FS_CardinalityType
<1>3. Cardinality(Busy) = 0
  BY <1>2
<1> QED BY <1>1, <1>3, FS_EmptySet

\* Updates of the progress are of the progress there was.
LEMMA PendingTyped ==
  ASSUME RunInv, NEW over \in SUBSET Namespace, OnProgress(over)
  PROVE  pending' \in SUBSET Progress /\ progress' = progress \cup over
BY RunTyped DEF OnProgress, Progress

\* The types of what a step makes of a namespace.
LEMMA SpaceTyped ==
  ASSUME NEW s \in Space
  PROVE  /\ s.next \in Nat /\ s.wrote \in Nat /\ s.lost \in Nat /\ s.wroteBefore \in Nat /\ s.lostBefore \in Nat
         /\ \A at \in {"queued", "infer", "init", "stream", "finalise", "done", "threw"} :
              [s EXCEPT !.at = at] \in Space
         /\ \A at \in {"queued", "infer", "init", "stream", "finalise", "done", "threw"}, lost \in Nat :
              [s EXCEPT !.at = at, !.lost = lost] \in Space
BY DEF Space

LEMMA NoSpaceTyped == NoSpace \in Space
BY DEF NoSpace, Space

LEMMA TakeStep == ASSUME RunInv, NEW n \in Namespace, TakeNamespace(n) PROVE RunInv'
<1> DEFINE x == [space[n] EXCEPT !.at = "infer", !.wroteBefore = summary.wrote, !.lostBefore = summary.lost]
<1>1. /\ mpc = "run" /\ space[n].at = "queued" /\ Cardinality(Busy) < mopt.parallel
      /\ space' = [space EXCEPT ![n] = x] /\ OnProgress({}) /\ UNCHANGED <<summary, table, rowVars>>
  BY DEF TakeNamespace
<1>2. summary.wrote \in Nat /\ summary.lost \in Nat /\ summary.bad \in Nat /\ space[n] \in Space
      /\ summary \in Summary
  BY RunTyped DEF Summary
<1>3. x \in Space /\ x.at = "infer" /\ x.next = space[n].next /\ x.lost = space[n].lost
      /\ x.lostBefore = summary.lost
  BY <1>2 DEF Space
<1>4. space[n] = NoSpace /\ table[n] \subseteq Row(n)
  BY <1>1 DEF RunInv, RowsInv
<1>5. space'[n] = x /\ \A m \in Namespace \ {n} : space'[m] = space[m]
  BY <1>1, RunTyped
<1>6. RowsInv(n)'
  BY <1>1, <1>3, <1>4, <1>5 DEF RowsInv, Row, NoSpace
<1>7. OneWorkerInv'
  <2>1. mopt' = mopt
    BY <1>1 DEF rowVars
  <2> SUFFICES ASSUME mopt.parallel = 1 PROVE OneWorkerInv'
    BY <2>1 DEF OneWorkerInv
  <2>2. Busy = {}
    BY <1>1, NoneBusy
  <2>3. Busy' = {n}
    BY <1>3, <1>5, <2>2 DEF Busy
  <2>4. summary'.errors = {k \in Namespace : \/ space'[k].at = "threw"
                                             \/ space'[k].at = "done" /\ space'[k].lost > 0}
    BY <1>1, <1>3, <1>5 DEF RunInv, OneWorkerInv
  <2> QED BY <1>1, <1>3, <1>5, <2>3, <2>4 DEF OneWorkerInv
<1> HIDE DEF x
<1>8. progress' = progress \cup (IF x.at \in {"done", "threw"} THEN {n} ELSE {})
      /\ pending' \in SUBSET Progress
  BY <1>1, <1>3, PendingTyped
<1>9. /\ space[n].at \notin {"done", "threw"} /\ table' \in [Namespace -> SUBSET Nat]
      /\ table' = table /\ summary' = summary /\ summary.bad <= summary.bad /\ summary.lost <= summary.lost
  BY <1>1, <1>2, RunTyped
<1> QED BY <1>1, <1>2, <1>3, <1>6, <1>7, <1>8, <1>9, PipelineStep

LEMMA InferStep == ASSUME RunInv, NEW n \in Namespace, Infer(n) PROVE RunInv'
<1> DEFINE x == [space[n] EXCEPT !.at = IF mopt.dry THEN "done" ELSE "init"]
<1>1. /\ mpc = "run" /\ space[n].at = "infer" /\ space' = [space EXCEPT ![n] = x]
      /\ OnProgress(IF mopt.dry THEN {n} ELSE {}) /\ UNCHANGED <<table, rowVars>>
      /\ summary' = IF mopt.dry THEN [summary EXCEPT !.ok = @ + 1] ELSE summary
  BY DEF Infer, Go
<1>2. /\ summary' \in Summary /\ summary'.errors = summary.errors /\ summary'.bad = summary.bad
      /\ summary'.lost = summary.lost /\ summary.bad \in Nat /\ summary.lost \in Nat /\ space[n] \in Space
  <2>1. summary \in Summary /\ [summary EXCEPT !.ok = @ + 1] \in Summary
    BY RunTyped DEF Summary
  <2> QED BY <1>1, <2>1, RunTyped DEF Summary
<1>3. x \in Space /\ x.at = (IF mopt.dry THEN "done" ELSE "init") /\ x.next = space[n].next
      /\ x.lost = space[n].lost /\ x.lostBefore = space[n].lostBefore
  BY <1>2 DEF Space
<1>4. space[n].next = 1 /\ space[n].lost = 0 /\ table[n] \subseteq Row(n) /\ n \in Busy
  BY <1>1 DEF RunInv, RowsInv, Busy
<1>5. space'[n] = x /\ mopt' = mopt
  BY <1>1, RunTyped DEF rowVars
<1>6. RowsInv(n)'
  BY <1>1, <1>2, <1>3, <1>4, <1>5 DEF RowsInv, Row
<1> HIDE DEF x
<1>7. OneWorkerInv'
  <2>1. CASE mopt.dry
    <3>1. /\ x.at \in {"done", "threw"}
          /\ summary'.errors = summary.errors \cup (IF x.at = "threw" \/ x.lost > 0 THEN {n} ELSE {})
      BY <1>2, <1>3, <1>4, <2>1
    <3> QED BY <1>1, <1>3, <1>4, <1>5, <3>1, OneKept
  <2>2. CASE ~mopt.dry
    <3>1. x.at \in {"infer", "init", "stream", "finalise"}
      BY <1>3, <2>2
    <3> QED BY <1>1, <1>2, <1>3, <1>4, <1>5, <3>1, OneKept
  <2> QED BY <2>1, <2>2
<1>8. progress' = progress \cup (IF x.at \in {"done", "threw"} THEN {n} ELSE {}) /\ pending' \in SUBSET Progress
  BY <1>1, <1>3, PendingTyped
<1>9. /\ space[n].at \notin {"done", "threw"} /\ table' \in [Namespace -> SUBSET Nat] /\ table' = table
      /\ summary.errors \subseteq summary'.errors /\ summary.bad <= summary'.bad
      /\ summary.lost <= summary'.lost
  BY <1>1, <1>2, RunTyped
<1> QED BY <1>1, <1>2, <1>3, <1>6, <1>7, <1>8, <1>9, PipelineStep

LEMMA InitDestinationStep == ASSUME RunInv, NEW n \in Namespace, InitDestination(n) PROVE RunInv'
<1> DEFINE next == IF Rows[n] = 0 THEN "finalise" ELSE "stream"
<1> DEFINE x == [space[n] EXCEPT !.at = next]
<1>1. /\ mpc = "run" /\ space[n].at = "init" /\ space' = [space EXCEPT ![n] = x]
      /\ UNCHANGED <<summary, progress, pending, rowVars>>
      /\ table' = IF mopt.drop THEN [table EXCEPT ![n] = {}] ELSE table
  BY DEF InitDestination, Go
<1>2. space[n] \in Space /\ summary \in Summary /\ summary.bad \in Nat /\ summary.lost \in Nat
  BY RunTyped DEF Summary
<1>3. x \in Space /\ x.at = next /\ x.at \in {"finalise", "stream"} /\ x.next = space[n].next
      /\ x.lost = space[n].lost /\ x.lostBefore = space[n].lostBefore
  BY <1>2 DEF Space
<1>4. space[n].next = 1 /\ table[n] \subseteq Row(n) /\ n \in Busy
  BY <1>1 DEF RunInv, RowsInv, Busy
<1>5. space'[n] = x /\ mopt' = mopt
  BY <1>1, RunTyped DEF rowVars
<1>6. /\ table' \in [Namespace -> SUBSET Nat] /\ table'[n] \subseteq Row(n)
      /\ \A m \in Namespace \ {n} : table'[m] = table[m]
  BY <1>1, <1>4, RunTyped
<1>7. Rows[n] \in Nat /\ (Rows[n] = 0 => Row(n) = {}) /\ (Rows[n] # 0 => 1 \in Row(n))
  BY MigrationRunAssumption DEF Row
<1>8. x.at = "stream" => x.next \in Row(n) /\ 1 .. (x.next - 1) \subseteq table'[n]
  BY <1>3, <1>4, <1>7
<1>9. x.at = "finalise" => Row(n) \subseteq table'[n]
  BY <1>3, <1>7
<1> HIDE DEF x, next
<1>10. RowsInv(n)'
  BY <1>3, <1>5, <1>6, <1>8, <1>9 DEF RowsInv, Row
<1>11. OneWorkerInv'
  BY <1>1, <1>3, <1>4, <1>5, OneKept
<1>12. /\ progress' = progress \cup (IF x.at \in {"done", "threw"} THEN {n} ELSE {})
       /\ pending' \in SUBSET Progress /\ space[n].at \notin {"done", "threw"}
       /\ summary' = summary /\ summary.bad <= summary.bad /\ summary.lost <= summary.lost
  BY <1>1, <1>2, <1>3, RunTyped
<1> QED BY <1>1, <1>2, <1>3, <1>6, <1>10, <1>11, <1>12, PipelineStep

LEMMA WriteStep == ASSUME RunInv, NEW n \in Namespace, WriteBatch(n) PROVE RunInv'
<1> DEFINE r == space[n].next
           after == [space[n] EXCEPT !.next = r + 1, !.at = IF r = Rows[n] THEN "finalise" ELSE "stream"]
<1>1. /\ mpc = "run" /\ space[n].at = "stream" /\ OnProgress({}) /\ UNCHANGED <<summary, rowVars>>
  BY DEF WriteBatch
<1>2. space[n] \in Space /\ summary \in Summary /\ summary.bad \in Nat /\ summary.lost \in Nat
  BY RunTyped DEF Summary
<1>3. r \in Row(n) /\ table[n] \subseteq Row(n) /\ n \in Busy /\ Rows[n] \in Nat
      /\ (space[n].lost = 0 => 1 .. (r - 1) \subseteq table[n])
  BY <1>1, MigrationRunAssumption DEF RunInv, RowsInv, Busy
<1>4. r \in Nat /\ r <= Rows[n] /\ r + 1 \in Nat /\ (r # Rows[n] => r + 1 \in Row(n))
  BY <1>3 DEF Row
<1>5. PICK x \in Space :
        /\ space' = [space EXCEPT ![n] = x] /\ x.at = (IF r = Rows[n] THEN "finalise" ELSE "stream")
        /\ x.next = r + 1 /\ x.lostBefore = space[n].lostBefore
        /\ \/ x.lost = space[n].lost /\ r \in table'[n]
           \/ x.lost = space[n].lost + 1
  <2>1. /\ after \in Space /\ after.at = (IF r = Rows[n] THEN "finalise" ELSE "stream")
        /\ after.next = r + 1 /\ after.lostBefore = space[n].lostBefore /\ after.lost = space[n].lost
    BY <1>2, <1>4 DEF Space
  <2> HIDE DEF after
  <2>2. /\ [after EXCEPT !.wrote = @ + 1] \in Space /\ [after EXCEPT !.wrote = @ + 1].at = after.at
        /\ [after EXCEPT !.wrote = @ + 1].next = after.next /\ [after EXCEPT !.wrote = @ + 1].lost = after.lost
        /\ [after EXCEPT !.wrote = @ + 1].lostBefore = after.lostBefore
    BY <2>1 DEF Space
  <2>3. /\ [after EXCEPT !.lost = @ + 1] \in Space /\ [after EXCEPT !.lost = @ + 1].at = after.at
        /\ [after EXCEPT !.lost = @ + 1].next = after.next
        /\ [after EXCEPT !.lost = @ + 1].lost = after.lost + 1
        /\ [after EXCEPT !.lost = @ + 1].lostBefore = after.lostBefore
    BY <2>1 DEF Space
  <2>4. \/ /\ space' = [space EXCEPT ![n] = [after EXCEPT !.wrote = @ + 1]] /\ r \in table'[n]
        \/ /\ space' = [space EXCEPT ![n] = after] /\ r \in table'[n]
        \/ space' = [space EXCEPT ![n] = [after EXCEPT !.lost = @ + 1]]
    BY RunTyped DEF WriteBatch, after
  <2> QED BY <2>1, <2>2, <2>3, <2>4
<1>6. /\ table' \in [Namespace -> SUBSET Nat] /\ table[n] \subseteq table'[n] /\ table'[n] \subseteq Row(n)
      /\ \A m \in Namespace \ {n} : table'[m] = table[m]
  <2>1. table' = table \/ table' = [table EXCEPT ![n] = @ \cup {r}]
    BY DEF WriteBatch
  <2> QED BY <1>3, <1>4, <2>1, RunTyped
<1>7. space'[n] = x /\ mopt' = mopt /\ space[n].lost \in Nat
  BY <1>1, <1>2, <1>5, RunTyped DEF rowVars, Space
<1>8. x.lost = 0 => 1 .. r \subseteq table'[n]
  <2> SUFFICES ASSUME x.lost = 0, NEW i \in 1 .. r PROVE i \in table'[n]
    OBVIOUS
  <2>1. space[n].lost = 0 /\ r \in table'[n]
    BY <1>5, <1>7
  <2>2. i = r \/ i \in 1 .. (r - 1)
    BY <1>4
  <2> QED BY <1>3, <1>6, <2>1, <2>2
<1>9. RowsInv(n)'
  <2>1. table'[n] \subseteq Row(n)
    BY <1>6
  <2>2. x.at = "stream" => x.next \in Row(n) /\ (x.lost = 0 => 1 .. (x.next - 1) \subseteq table'[n])
    BY <1>4, <1>5, <1>8
  <2>3. x.at = "finalise" /\ x.lost = 0 => Row(n) \subseteq table'[n]
    BY <1>5, <1>8 DEF Row
  <2> QED BY <1>5, <1>7, <2>1, <2>2, <2>3 DEF RowsInv, Row
<1>10. x.at \in {"stream", "finalise"}
  BY <1>5
<1> HIDE DEF r, after
<1>11. OneWorkerInv'
  BY <1>1, <1>3, <1>5, <1>7, <1>10, OneKept
<1>12. /\ progress' = progress \cup (IF x.at \in {"done", "threw"} THEN {n} ELSE {})
       /\ pending' \in SUBSET Progress /\ space[n].at \notin {"done", "threw"}
       /\ summary' = summary /\ summary.bad <= summary.bad /\ summary.lost <= summary.lost
  BY <1>1, <1>2, <1>10, PendingTyped
<1> QED BY <1>1, <1>2, <1>5, <1>6, <1>9, <1>10, <1>11, <1>12, PipelineStep

\* What a namespace adds to the summary when it settles.
LEMMA SettledSummary ==
  ASSUME NEW s \in Summary, NEW n \in Namespace, NEW wrote \in Int, NEW lost \in Int
  PROVE  /\ Settled(s, n, wrote, lost) \in Summary /\ s.bad \in Nat
         /\ Settled(s, n, wrote, lost).errors = s.errors \cup (IF lost = 0 THEN {} ELSE {n})
         /\ s.bad <= Settled(s, n, wrote, lost).bad /\ Settled(s, n, wrote, lost).lost = s.lost
<1>1. s.ok \in Nat /\ s.bad \in Nat /\ s.errors \in SUBSET Namespace /\ s.errors \cup {n} \in SUBSET Namespace
  BY DEF Summary
<1>2. CASE lost = 0
  <2>1. PICK k \in Nat : k = s.ok + 1
    BY <1>1
  <2>2. Settled(s, n, wrote, lost) = [s EXCEPT !.ok = k]
    BY <1>2, <2>1 DEF Settled
  <2>3. s.errors \cup {} = s.errors /\ s.bad <= s.bad
    BY <1>1
  <2> QED BY <1>1, <1>2, <2>2, <2>3 DEF Summary
<1>3. CASE lost # 0 /\ wrote = 0
  <2>1. Settled(s, n, wrote, lost) = [s EXCEPT !.bad = s.bad + 1, !.errors = s.errors \cup {n}]
    BY <1>3 DEF Settled
  <2>2. s.bad + 1 \in Nat /\ s.bad <= s.bad + 1
    BY <1>1
  <2> QED BY <1>1, <1>3, <2>1, <2>2 DEF Summary
<1>4. CASE lost # 0 /\ wrote # 0
  <2>1. Settled(s, n, wrote, lost) = [s EXCEPT !.ok = s.ok + 1, !.errors = s.errors \cup {n}]
    BY <1>4 DEF Settled
  <2>2. s.ok + 1 \in Nat /\ s.bad <= s.bad + 1
    BY <1>1
  <2> DEFINE t == [s EXCEPT !.ok = s.ok + 1, !.errors = s.errors \cup {n}]
  <2>3. t \in Summary
    BY <1>1, <2>2 DEF Summary
  <2>4. t.errors = s.errors \cup {n} /\ t.bad = s.bad /\ t.lost = s.lost
    BY DEF Summary
  <2> HIDE DEF t
  <2>5. Settled(s, n, wrote, lost) = t
    BY <2>1 DEF t
  <2>6. s.bad <= s.bad
    BY <1>1
  <2> QED BY <1>1, <1>4, <2>3, <2>4, <2>5, <2>6
<1> QED BY <1>2, <1>3, <1>4

LEMMA FinishStep == ASSUME RunInv, NEW n \in Namespace, FinishNamespace(n) PROVE RunInv'
<1> DEFINE x == [NoSpace EXCEPT !.at = "done", !.lost = space[n].lost]
           w == Totals(n).wrote - space[n].wroteBefore
           l == Totals(n).lost - space[n].lostBefore
<1>1. /\ mpc = "run" /\ space[n].at = "finalise" /\ summary' = Settled(Totals(n), n, w, l)
      /\ space' = [space EXCEPT ![n] = x] /\ OnProgress({n}) /\ UNCHANGED <<table, rowVars>>
  BY DEF FinishNamespace, EndOf
<1>2. space[n] \in Space /\ summary \in Summary
  BY RunTyped
<1>3. /\ space[n].wrote \in Nat /\ space[n].lost \in Nat /\ space[n].wroteBefore \in Nat
      /\ space[n].lostBefore \in Nat /\ summary.bad \in Nat /\ summary.lost \in Nat
  BY <1>2 DEF Space, Summary
<1>4. /\ Totals(n) \in Summary /\ Totals(n).errors = summary.errors /\ Totals(n).bad = summary.bad
      /\ Totals(n).lost = summary.lost + space[n].lost /\ Totals(n).wrote \in Nat
  <2>1. summary.wrote \in Nat /\ summary.wrote + space[n].wrote \in Nat /\ summary.lost + space[n].lost \in Nat
    BY <1>2, <1>3 DEF Summary
  <2>2. PICK k \in Nat, l1 \in Nat : k = summary.wrote + space[n].wrote /\ l1 = summary.lost + space[n].lost
    BY <2>1
  <2>3. Totals(n) = [summary EXCEPT !.wrote = k, !.lost = l1]
    BY <2>2 DEF Totals
  <2> QED BY <1>2, <1>3, <2>2, <2>3 DEF Summary
<1>5. w \in Int /\ l \in Int /\ l = summary.lost + space[n].lost - space[n].lostBefore
  BY <1>3, <1>4
<1>6. x \in Space /\ x.at = "done" /\ x.lost = space[n].lost
  BY <1>3 DEF NoSpace, Space
<1> HIDE DEF x, w, l
<1>7. /\ summary' \in Summary /\ summary'.errors = summary.errors \cup (IF l = 0 THEN {} ELSE {n})
      /\ summary.bad <= summary'.bad /\ summary'.lost = summary.lost + space[n].lost
  BY <1>1, <1>3, <1>4, <1>5, SettledSummary
<1>8. space'[n] = x /\ mopt' = mopt /\ n \in Busy /\ summary.lost <= summary'.lost
      /\ space[n].lost <= summary'.lost
  BY <1>1, <1>3, <1>7, RunTyped DEF rowVars, Busy
<1>9. RowsInv(n)'
  <2>1. table'[n] \subseteq Row(n) /\ (x.lost = 0 => Row(n) \subseteq table'[n])
    BY <1>1, <1>6 DEF RunInv, RowsInv
  <2> QED BY <1>6, <1>8, <2>1 DEF RowsInv, Row
<1>10. OneWorkerInv'
  <2>1. mopt.parallel = 1 => space[n].lostBefore = summary.lost
    BY <1>8 DEF RunInv, OneWorkerInv
  <2>2. mopt.parallel = 1 => (l = 0 <=> ~(x.lost > 0))
    BY <1>3, <1>5, <1>6, <2>1
  <2> QED BY <1>1, <1>6, <1>7, <1>8, <2>2, OneKept
<1>11. /\ progress' = progress \cup {n} /\ pending' \in SUBSET Progress /\ space[n].at \notin {"done", "threw"}
       /\ table' \in [Namespace -> SUBSET Nat] /\ table' = table
  BY <1>1, PendingTyped, RunTyped
<1>12. summary.errors \subseteq summary'.errors
  BY <1>7
<1> QED BY <1>1, <1>6, <1>7, <1>8, <1>9, <1>10, <1>11, <1>12, PipelineStep

LEMMA ThrowStep == ASSUME RunInv, NEW n \in Namespace, NamespaceThrows(n) PROVE RunInv'
<1> DEFINE x == [NoSpace EXCEPT !.at = "threw"]
<1>1. /\ mpc = "run" /\ n \in Busy /\ summary' = [summary EXCEPT !.bad = @ + 1, !.errors = @ \cup {n}]
      /\ space' = [space EXCEPT ![n] = x] /\ OnProgress({n}) /\ UNCHANGED <<table, rowVars>>
  BY DEF NamespaceThrows
<1>2. x \in Space /\ x.at = "threw"
  BY DEF NoSpace, Space
<1> HIDE DEF x
<1>3. /\ summary' \in Summary /\ summary'.errors = summary.errors \cup {n} /\ summary'.bad = summary.bad + 1
      /\ summary'.lost = summary.lost /\ summary.bad \in Nat /\ summary.lost \in Nat
  <2>1. summary \in Summary /\ summary.bad \in Nat /\ summary.bad + 1 \in Nat /\ summary.lost \in Nat
        /\ summary.errors \cup {n} \in SUBSET Namespace
    BY RunTyped DEF Summary
  <2>2. PICK k \in Nat, e \in SUBSET Namespace : k = summary.bad + 1 /\ e = summary.errors \cup {n}
    BY <2>1
  <2>3. summary' = [summary EXCEPT !.bad = k, !.errors = e]
    BY <1>1, <2>2
  <2> QED BY <2>1, <2>2, <2>3 DEF Summary
<1>4. space'[n] = x /\ mopt' = mopt
  BY <1>1, RunTyped DEF rowVars
<1>5. RowsInv(n)'
  <2>1. table'[n] \subseteq Row(n)
    BY <1>1 DEF RunInv, RowsInv
  <2> QED BY <1>2, <1>3, <1>4, <2>1 DEF RowsInv, Row
<1>6. OneWorkerInv'
  BY <1>1, <1>2, <1>3, <1>4, OneKept
<1>7. /\ progress' = progress \cup {n} /\ pending' \in SUBSET Progress /\ space[n].at \notin {"done", "threw"}
      /\ table' \in [Namespace -> SUBSET Nat] /\ table' = table
  BY <1>1, PendingTyped, RunTyped DEF Busy
<1>8. summary.errors \subseteq summary'.errors /\ summary.bad <= summary'.bad /\ summary.lost <= summary'.lost
  BY <1>3
<1> QED BY <1>1, <1>2, <1>3, <1>5, <1>6, <1>7, <1>8, PipelineStep

\* An update of the row by the worker: it goes on, or the row is gone and the job fails.
LEMMA RunUpdated ==
  ASSUME RunInv, mpc # "idle", NEW row \in MRow, NEW step \in RunSteps \ {"idle"}, UpdateRun(row, step)
  PROVE  /\ mrow' \in MRow /\ mjob' \in RunJobs /\ mpc' \in RunSteps /\ (mpc' # "idle" <=> mjob' = "active")
         /\ \/ Exists /\ mrow' = row /\ mpc' = step
            \/ ~Exists /\ mrow' = mrow /\ mpc' = "idle"
<1>1. mrow \in MRow /\ mjob = "active" /\ "idle" \in RunSteps /\ "failed" \in RunJobs /\ "active" \in RunJobs
  BY RunTyped DEF RunInv, RunWorkerInv, RunSteps, RunJobs
<1>2. CASE Exists
  BY <1>1, <1>2 DEF UpdateRun
<1>3. CASE ~Exists
  BY <1>1, <1>3 DEF UpdateRun, JobEnds
<1> QED BY <1>2, <1>3

\* The namespaces before any was taken.
LEMMA QueuedLoseNothing ==
  ASSUME RunInv, \A n \in Namespace : space[n].at = "queued"
  PROVE  Losers = {}
BY DEF RunInv, RowsInv, NoSpace, Losers

\* A run that fails before its first namespace.
LEMMA FailsAtOnce ==
  ASSUME RunInv, mpc \in {"plan", "run"}, \A n \in Namespace : space[n].at = "queued",
         UpdateRun([mrow EXCEPT !.phase = "failed", !.errors = {}], "end"),
         UNCHANGED <<mopt, local, pending, deaths, overtaken>>
  PROVE  RunInv'
<1> DEFINE row == [mrow EXCEPT !.phase = "failed", !.errors = {}]
<1>1. row \in MRow /\ row.phase = "failed" /\ row.errors = {}
  BY RunTyped DEF MRow, Terminal
<1> HIDE DEF row
<1>2. "end" \in RunSteps \ {"idle"} /\ "failed" \in Terminal /\ UpdateRun(row, "end")
  BY DEF RunSteps, Terminal, row
<1>3. /\ mrow' \in MRow /\ mjob' \in RunJobs /\ mpc' \in RunSteps /\ (mpc' # "idle" <=> mjob' = "active")
      /\ \/ Exists /\ mrow' = row /\ mpc' = "end"
         \/ ~Exists /\ mrow' = mrow /\ mpc' = "idle"
  BY <1>1, <1>2, RunUpdated
<1>4. RunWorkerInv' /\ RunWorkerInv
  BY <1>3 DEF RunInv, RunWorkerInv, local
<1>5. RunTruthful'
  <2>1. CASE mrow' = row
    <3>1. Losers' = {}
      BY QueuedLoseNothing DEF local, Losers
    <3> QED BY <1>1, <2>1, <3>1 DEF RunTruthful
  <2>2. CASE mrow' = mrow
    <3>1. mrow'.phase \notin Terminal
      BY <1>4, <2>2 DEF RunWorkerInv, Terminal
    <3> QED BY <3>1, TruthKept DEF RunInv
  <2> QED BY <1>3, <2>1, <2>2
<1> QED BY <1>3, <1>4, <1>5, RunTyped, RunOutside

LEMMA MarkStep == ASSUME RunInv, MarkRunning PROVE RunInv'
<1> DEFINE row == [mrow EXCEPT !.phase = "running"]
<1>1. row \in MRow /\ row.phase = "running"
  BY RunTyped DEF MRow
<1> HIDE DEF row
<1>2. /\ mpc = "mark" /\ UpdateRun(row, "plan") /\ progress' = {} /\ summary' = NoSummary
      /\ space' = [n \in Namespace |-> NoSpace] /\ UNCHANGED <<mopt, table, pending, deaths, overtaken>>
  BY DEF MarkRunning, row
<1>3. /\ mrow' \in MRow /\ mjob' \in RunJobs /\ mpc' \in RunSteps /\ (mpc' # "idle" <=> mjob' = "active")
      /\ \/ Exists /\ mrow' = row /\ mpc' = "plan"
         \/ ~Exists /\ mrow' = mrow /\ mpc' = "idle"
  BY <1>1, <1>2, RunUpdated DEF RunSteps
<1>4. \A n \in Namespace : space'[n] = NoSpace /\ space'[n].at = "queued"
  BY <1>2 DEF NoSpace
<1>5. MigrationTypeOK'
  <2>1. space' \in [Namespace -> Space]
    BY <1>2, NoSpaceTyped
  <2>2. summary' \in Summary
    BY <1>2 DEF NoSummary, Summary
  <2>3. progress' \in Progress
    BY <1>2 DEF Progress
  <2> QED BY <1>2, <1>3, <2>1, <2>2, <2>3, RunTyped DEF MigrationTypeOK, MRow, RunJobs, RunSteps
<1>6. RunWorkerInv'
  <2>1. progress' = {n \in Namespace : space'[n].at \in {"done", "threw"}}
    BY <1>2, <1>4
  <2> QED BY <1>1, <1>3, <1>4, <2>1 DEF RunWorkerInv
<1>7. mrow'.phase \notin Terminal
  BY <1>1, <1>3 DEF Exists, Terminal
<1>8. RunTruthful'
  BY <1>7 DEF RunTruthful, Terminal
<1>9. OneWorkerInv'
  <2>1. Busy' = {}
    BY <1>4 DEF Busy
  <2>2. summary'.errors = {n \in Namespace : \/ space'[n].at = "threw"
                                             \/ space'[n].at = "done" /\ space'[n].lost > 0}
    BY <1>2, <1>4 DEF NoSummary
  <2> QED BY <2>1, <2>2 DEF OneWorkerInv
<1>10. ASSUME NEW n \in Namespace PROVE RowsInv(n)'
  <2>1. table'[n] \subseteq Row(n)
    BY <1>2 DEF RunInv, RowsInv
  <2> QED BY <1>4, <2>1 DEF RowsInv, Row
<1> QED BY <1>5, <1>6, <1>8, <1>9, <1>10 DEF RunInv

LEMMA FinaliseStep == ASSUME RunInv, Finalise PROVE RunInv'
<1>p. Phase \in Terminal /\ summary.errors \in SUBSET Namespace
  BY RunTyped DEF Phase, Terminal, Summary
<1> DEFINE row == [mrow EXCEPT !.phase = Phase, !.errors = summary.errors]
<1>1. row \in MRow /\ row.phase = Phase /\ row.errors = summary.errors /\ row.shown = mrow.shown
  BY <1>p, RunTyped DEF MRow
<1> HIDE DEF row
<1>2. mpc = "finalise" /\ UpdateRun(row, "end") /\ UNCHANGED <<mopt, local, pending, deaths, overtaken>>
  BY DEF Finalise, row
<1>3. /\ mrow' \in MRow /\ mjob' \in RunJobs /\ mpc' \in RunSteps /\ (mpc' # "idle" <=> mjob' = "active")
      /\ \/ Exists /\ mrow' = row /\ mpc' = "end"
         \/ ~Exists /\ mrow' = mrow /\ mpc' = "idle"
  BY <1>1, <1>2, RunUpdated DEF RunSteps
<1>4. RunWorkerInv' /\ RunWorkerInv
  BY <1>2, <1>3 DEF RunInv, RunWorkerInv, local
<1>5. RunTruthful'
  <2>1. CASE mrow' = row /\ Exists
    <3>1. UNCHANGED <<mopt, space, summary, table, progress, overtaken>>
      BY <1>2 DEF local
    <3>2. \A n \in Namespace : space[n].at \in {"done", "threw"}
      BY <1>2, <1>4 DEF RunWorkerInv
    <3>3. ASSUME Phase = "succeeded", ~mopt.dry, NEW n \in Namespace PROVE table[n] = Row(n)
      <4>1. /\ ~(summary.bad > 0) /\ summary.errors = {} /\ ~(summary.lost > 0) /\ summary.lost \in Nat
            /\ space[n].lost \in Nat
        BY <3>3, RunTyped DEF Phase, Summary, Space
      <4>2. RowsInv(n)
        BY DEF RunInv
      <4>3. space[n].at = "done"
        BY <3>2, <4>1, <4>2 DEF RowsInv
      <4>4. space[n].lost = 0
        BY <4>1, <4>2, <4>3 DEF RowsInv
      <4> QED BY <3>3, <4>2, <4>3, <4>4 DEF RowsInv
    <3>4. mopt.parallel = 1 => summary.errors = Losers
      <4> SUFFICES ASSUME mopt.parallel = 1 PROVE summary.errors = Losers
        OBVIOUS
      <4>1. summary.errors = {n \in Namespace : \/ space[n].at = "threw"
                                                \/ space[n].at = "done" /\ space[n].lost > 0}
        BY DEF RunInv, OneWorkerInv
      <4> QED BY <3>2, <4>1 DEF Losers
    <3>5. Losers' = Losers
      BY <3>1 DEF Losers
    <3>6. ~overtaken => mrow.shown = Namespace
      BY <1>2, <1>4, <2>1 DEF RunWorkerInv
    <3> QED BY <1>1, <2>1, <3>1, <3>3, <3>4, <3>5, <3>6 DEF RunTruthful, Row
  <2>2. CASE mrow' = mrow /\ ~Exists
    <3>1. mrow'.phase \notin Terminal
      BY <2>2 DEF Exists, Terminal
    <3> QED BY <1>2, <3>1, TruthKept DEF RunInv
  <2> QED BY <1>3, <2>1, <2>2
<1> QED BY <1>2, <1>3, <1>4, <1>5, RunTyped, RunOutside

LEMMA PersistStep == ASSUME RunInv, NEW p \in pending, PersistLands(p) PROVE RunInv'
<1>1. /\ UNCHANGED <<mopt, mjob, mpc, local, deaths>> /\ Show(p) /\ pending' = pending \ {p}
      /\ overtaken' = (overtaken \/ mpc \notin {"run", "flush"})
  BY DEF PersistLands
<1>2. p \in Progress
  BY RunTyped
<1>3. /\ mrow' \in MRow /\ mrow'.phase = mrow.phase /\ mrow'.errors = mrow.errors
  BY <1>1, <1>2, MRowShown, RunTyped DEF Show
<1>4. overtaken' \in BOOLEAN /\ pending' \in SUBSET Progress
  BY <1>1, RunTyped
<1>5. RunWorkerInv /\ RunTruthful
  BY DEF RunInv
<1>6. mpc \notin {"run", "flush"} => overtaken'
  BY <1>1
<1>7. RunWorkerInv'
  BY <1>1, <1>3, <1>5, <1>6 DEF RunWorkerInv, Exists, local
<1>8. RunTruthful'
  <2>1. CASE mpc \in {"run", "flush"}
    <3>1. mrow'.phase \notin Terminal
      BY <1>3, <1>5, <2>1 DEF RunWorkerInv, Terminal
    <3> QED BY <1>1, <1>5, <3>1, TruthKept
  <2>2. CASE mpc \notin {"run", "flush"}
    BY <1>1, <1>3, <1>5, <1>6, <2>2, TruthKept
  <2> QED BY <2>1, <2>2
<1> QED BY <1>1, <1>3, <1>4, <1>7, <1>8, RunTyped, RunOutside

LEMMA FlushStep == ASSUME RunInv, FinalFlush PROVE RunInv'
<1>1. /\ mpc = "flush" /\ Show(progress) /\ mpc' = "finalise"
      /\ UNCHANGED <<mopt, mjob, local, pending, deaths, overtaken>>
  BY DEF FinalFlush
<1>2. /\ mrow' \in MRow /\ mrow'.phase = mrow.phase /\ mrow'.errors = mrow.errors
      /\ (Exists => mrow'.shown = progress)
  BY <1>1, MRowShown, RunTyped DEF Show
<1>3. RunWorkerInv /\ RunTruthful
  BY DEF RunInv
<1>4. progress = Namespace
  BY <1>1, <1>3 DEF RunWorkerInv
<1>5. RunWorkerInv'
  BY <1>1, <1>2, <1>3, <1>4 DEF RunWorkerInv, Exists, local
<1>6. mrow'.phase \notin Terminal
  BY <1>1, <1>2, <1>3 DEF RunWorkerInv, Terminal
<1>7. RunTruthful'
  BY <1>1, <1>3, <1>6, TruthKept
<1>8. "finalise" \in RunSteps
  BY DEF RunSteps
<1> QED BY <1>1, <1>2, <1>5, <1>7, <1>8, RunTyped, RunOutside

LEMMA RunStep == RunInv /\ [MigrationNext]_migrationVars => RunInv'
<1> SUFFICES ASSUME RunInv, [MigrationNext]_migrationVars PROVE RunInv'
  OBVIOUS
<1>0. RunWorkerInv /\ RunTruthful
  BY DEF RunInv
<1>1. CASE CreateMigrationRun \/ CancelRun \/ DeleteMigrationJob
  <2>1. /\ mrow' \in MRow /\ UNCHANGED <<mjob, pipeVars>>
        /\ \/ mrow'.phase \in {"queued", "deleted"} /\ mrow.phase # "running"
           \/ mrow'.phase = "deleted"
           \/ mrow'.phase = mrow.phase /\ mrow'.errors = mrow.errors /\ mrow'.shown = mrow.shown
    <3>1. CASE CreateMigrationRun
      BY <3>1, RunTyped, MRowPhase DEF CreateMigrationRun
    <3>2. CASE CancelRun
      BY <3>2, RunTyped, MRowCancel DEF CancelRun
    <3>3. CASE DeleteMigrationJob
      BY <3>3, MRowNoRun, MRowPhase DEF DeleteMigrationJob
    <3> QED BY <1>1, <3>1, <3>2, <3>3
  <2>2. UNCHANGED <<mopt, mpc, space, summary, table, progress, pending, deaths, overtaken>> /\ mjob' = mjob
    BY <2>1 DEF pipeVars
  <2>3. mrow'.phase = "queued" => mrow.phase # "deleted"
    BY <1>1, RunTyped, MRowCancel, MRowNoRun, MRowPhase DEF CreateMigrationRun, CancelRun, DeleteMigrationJob
  <2>4. RunWorkerInv'
    BY <1>0, <2>1, <2>2, <2>3 DEF RunWorkerInv, Exists
  <2>5. RunTruthful'
    <3>1. "queued" \notin Terminal /\ "deleted" \notin Terminal
      BY DEF Terminal
    <3> QED BY <1>0, <2>1, <2>2, <3>1, TruthKept DEF local
  <2> QED BY <2>1, <2>2, <2>4, <2>5, RunTyped, RunOutside DEF local
<1>2. CASE EnqueueMigration \/ PickUpRun \/ StartPipeline \/ PipelineReturns
  <2>1. /\ UNCHANGED <<mopt, mrow, space, summary, table, progress, pending, deaths, overtaken>>
        /\ mjob' \in RunJobs /\ mpc' \in RunSteps /\ RunWorkerInv'
    <3>1. CASE EnqueueMigration
      BY <1>0, <3>1, RunTyped DEF EnqueueMigration, pipeVars, RunWorkerInv, RunJobs, Exists
    <3>2. CASE PickUpRun
      BY <1>0, <3>2, RunTyped DEF PickUpRun, RunWorkerInv, RunJobs, RunSteps, Exists
    <3>3. CASE StartPipeline
      BY <1>0, <3>3, RunTyped DEF StartPipeline, local, RunWorkerInv, RunSteps
    <3>4. CASE PipelineReturns
      BY <1>0, <3>4, RunTyped DEF PipelineReturns, local, RunWorkerInv, RunSteps
    <3> QED BY <1>2, <3>1, <3>2, <3>3, <3>4
  <2>2. RunTruthful'
    BY <1>0, <2>1, TruthKept DEF local
  <2> QED BY <2>1, <2>2, RunTyped, RunOutside DEF local
<1>3. CASE MarkRunning
  BY <1>3, MarkStep
<1>4. CASE PlanFails \/ PipelineThrows
  <2>1. /\ mpc \in {"plan", "run"} /\ \A n \in Namespace : space[n].at = "queued"
        /\ UpdateRun([mrow EXCEPT !.phase = "failed", !.errors = {}], "end")
        /\ UNCHANGED <<mopt, local, pending, deaths, overtaken>>
    BY <1>0, <1>4 DEF PlanFails, PipelineThrows, RunWorkerInv
  <2> QED BY <2>1, FailsAtOnce
<1>5. ASSUME NEW n \in Namespace, \/ TakeNamespace(n) \/ Infer(n) \/ InitDestination(n) \/ WriteBatch(n)
                                  \/ FinishNamespace(n) \/ NamespaceThrows(n)
      PROVE  RunInv'
  BY <1>5, TakeStep, InferStep, InitDestinationStep, WriteStep, FinishStep, ThrowStep
<1>6. CASE FinalFlush
  BY <1>6, FlushStep
<1>7. CASE Finalise
  BY <1>7, FinaliseStep
<1>8. CASE RunJobCompletes \/ RunStalled \/ MigrationProcessDies \/ UNCHANGED migrationVars
  <2>1. /\ UNCHANGED <<mopt, mrow, space, summary, table, progress, overtaken>>
        /\ mjob' \in RunJobs /\ mpc' \in RunSteps /\ RunWorkerInv' /\ pending' \in SUBSET Progress
        /\ deaths' \in 0 .. MaxDeaths
    <3>1. CASE RunJobCompletes
      BY <1>0, <3>1, RunTyped DEF RunJobCompletes, JobEnds, local, RunWorkerInv, RunJobs, RunSteps
    <3>2. CASE RunStalled
      BY <1>0, <3>2, RunTyped DEF RunStalled, pipeVars, RunWorkerInv, RunJobs, Exists
    <3>3. CASE MigrationProcessDies
      BY <1>0, <3>3, RunTyped, MigrationRunAssumption
      DEF MigrationProcessDies, local, RunWorkerInv, RunJobs, RunSteps
    <3>4. CASE UNCHANGED migrationVars
      BY <1>0, <3>4, RunTyped DEF migrationVars, RunWorkerInv, Exists
    <3> QED BY <1>8, <3>1, <3>2, <3>3, <3>4
  <2>2. RunTruthful'
    BY <1>0, <2>1, TruthKept DEF local
  <2> QED BY <2>1, <2>2, RunTyped, RunOutside DEF local
<1>9. ASSUME NEW p \in pending, PersistLands(p) PROVE RunInv'
  BY <1>9, PersistStep
<1> QED
  BY <1>1, <1>2, <1>3, <1>4, <1>5, <1>6, <1>7, <1>8, <1>9 DEF MigrationNext, Worker

LEMMA RunStart == MigrationInit => RunInv
<1> SUFFICES ASSUME MigrationInit PROVE RunInv
  OBVIOUS
<1>1. /\ mopt \in Options /\ mrow = NoRun /\ mjob = "none" /\ mpc = "idle"
      /\ space = [n \in Namespace |-> NoSpace] /\ summary = NoSummary /\ table = [n \in Namespace |-> {}]
      /\ progress = {} /\ pending = {} /\ deaths = 0 /\ overtaken = FALSE
  BY DEF MigrationInit
<1>2. \A n \in Namespace : space[n] = NoSpace /\ table[n] = {} /\ space[n].at = "queued"
  BY <1>1 DEF NoSpace
<1>3. MigrationTypeOK
  <2>1. mrow \in MRow
    BY <1>1, MRowNoRun
  <2>2. summary \in Summary
    BY <1>1 DEF Summary, NoSummary
  <2>3. overtaken \in BOOLEAN
    BY <1>1, BothBooleans
  <2>4. space \in [Namespace -> Space]
    BY <1>1, NoSpaceTyped
  <2>5. deaths \in 0 .. MaxDeaths
    BY <1>1, MigrationRunAssumption
  <2> QED BY <1>1, <2>1, <2>2, <2>3, <2>4, <2>5 DEF MigrationTypeOK, MRow, Progress
<1>4. RunWorkerInv
  <2>1. progress = {n \in Namespace : space[n].at \in {"done", "threw"}}
    BY <1>1, <1>2
  <2> QED BY <1>1, <2>1 DEF RunWorkerInv
<1>5. OneWorkerInv
  <2>1. Busy = {}
    BY <1>2 DEF Busy
  <2>2. summary.errors = {n \in Namespace : \/ space[n].at = "threw"
                                            \/ space[n].at = "done" /\ space[n].lost > 0}
    BY <1>1, <1>2 DEF NoSummary
  <2> QED BY <2>1, <2>2 DEF OneWorkerInv
<1>6. RunTruthful
  BY <1>1 DEF RunTruthful, NoRun, Terminal
<1>7. \A n \in Namespace : RowsInv(n)
  BY <1>2 DEF RowsInv
<1> QED BY <1>3, <1>4, <1>5, <1>6, <1>7 DEF RunInv

(* The rows, the queue, the namespaces, the summary and the destination of a run keep their types. *)
THEOREM MigrationTypeCorrect == MigrationSpec => []MigrationTypeOK
<1>1. RunInv => MigrationTypeOK
  BY DEF RunInv
<1> QED BY <1>1, RunStart, RunStep, PTL DEF MigrationSpec

(* A run that says succeeded has put every row of every namespace at the         *)
(* destination and its progress says so, whichever attempts and how many workers *)
(* wrote them; with one worker its errors are those of the namespaces that lost  *)
(* rows.  For any namespaces, rows, updates in flight and processes that die.    *)
THEOREM RunTruthfulHolds == MigrationSpec => []RunTruthful
<1>1. RunInv => RunTruthful
  BY DEF RunInv
<1> QED BY <1>1, RunStart, RunStep, PTL DEF MigrationSpec
-----------------------------------------------------------------------------
(* The page of a run. *)

\* What the page holds, and what is on its way to it.
Heard == {live, polled, poll} \cup {wire[i] : i \in DOMAIN wire}

\* Until it is cut off, the page hears of an end only what the row says, and the row has
\* its end when the worker has written it.
HeardInv ==
  ~cut =>
    /\ phase \in Ends <=> stage \in {"ended", "over"}
    /\ \A x \in Heard : x \in Ends => x = phase

\* There is a row once the run is started, and a page only of one that is.
Started == stage # "none" \/ poll # "closed" => phase # NoPhase

PageInv == RunPageTypeOK /\ Started /\ HeardInv

LEMMA StartedStep == RunPageTypeOK /\ Started /\ [PageNext]_pageVars => Started'
<1> USE DEF RunPageTypeOK, Started, clientVars, workerVars, pollVars, NoPhase
<1> SUFFICES ASSUME RunPageTypeOK, Started, [PageNext]_pageVars PROVE Started'
  OBVIOUS
<1>1. CASE StartRun \/ Mark \/ EmitRunning \/ EmitEnd
  BY <1>1 DEF StartRun, Mark, EmitRunning, EmitEnd
<1>2. CASE \E end \in Ends : RowEnds(end)
  BY <1>2 DEF RowEnds, Ends
<1>3. CASE OpenPage \/ Connect \/ Join \/ Deliver \/ Drop \/ GiveUp
  BY <1>3 DEF OpenPage, Connect, Join, Deliver, Drop, GiveUp
<1>4. CASE Ask \/ Refocus \/ Read \/ Fetched
  <2>1. CASE Ask \/ Refocus \/ Read
    BY <2>1 DEF Ask, Refocus, Read
  <2>2. CASE Fetched
    <3>1. poll # "closed" /\ UNCHANGED <<phase, stage>>
      BY <2>2 DEF Fetched, PagePhase, Ends
    <3> QED BY <3>1
  <2> QED BY <1>4, <2>1, <2>2
<1>5. CASE Die
  BY <1>5 DEF Die
<1>6. CASE UNCHANGED pageVars
  BY <1>6 DEF pageVars
<1> QED BY <1>1, <1>2, <1>3, <1>4, <1>5, <1>6 DEF PageNext

LEMMA PageTypeStep == RunPageTypeOK /\ Started /\ [PageNext]_pageVars => RunPageTypeOK'
<1> USE DEF RunPageTypeOK, clientVars, workerVars, pollVars, PagePhase, Ends, NoPhase
<1> SUFFICES ASSUME RunPageTypeOK, Started, [PageNext]_pageVars PROVE RunPageTypeOK'
  OBVIOUS
<1>1. ASSUME NEW p \in PagePhase, Emit(p) PROVE wire' \in Seq(PagePhase)
  BY <1>1 DEF Emit
<1>2. wire # <<>> => Head(wire) \in PagePhase /\ Tail(wire) \in Seq(PagePhase)
  OBVIOUS
<1>3. <<>> \in Seq(PagePhase)
  OBVIOUS
<1>4. CASE StartRun \/ Mark \/ \E end \in Ends : RowEnds(end)
  BY <1>4 DEF StartRun, Mark, RowEnds
<1>5. CASE EmitRunning \/ EmitEnd
  <2>1. wire' \in Seq(PagePhase)
    <3>1. CASE EmitRunning
      BY <1>1, <3>1 DEF EmitRunning
    <3>2. CASE EmitEnd
      <4>1. phase \in PagePhase
        BY <3>2 DEF EmitEnd, Started
      <4> QED BY <1>1, <3>2, <4>1 DEF EmitEnd
    <3> QED BY <1>5, <3>1, <3>2
  <2> QED BY <1>5, <2>1 DEF EmitRunning, EmitEnd
<1>6. CASE OpenPage \/ Connect \/ Join \/ GiveUp
  BY <1>6 DEF OpenPage, Connect, Join, GiveUp
<1>7. CASE Deliver
  BY <1>2, <1>7 DEF Deliver
<1>8. CASE Ask \/ Refocus \/ Read \/ Fetched
  <2>1. CASE Ask \/ Refocus
    BY <2>1 DEF Ask, Refocus
  <2>2. CASE Read
    BY <2>2 DEF Read, Started
  <2>3. CASE Fetched
    BY <2>3 DEF Fetched
  <2> QED BY <1>8, <2>1, <2>2, <2>3
<1>9. CASE Drop
  <2>1. drops' \in 0 .. MaxDrops
    BY <1>9, RunPageAssumption DEF Drop
  <2>2. cut' \in BOOLEAN
    BY <1>9 DEF Drop
  <2> QED BY <1>3, <1>9, <2>1, <2>2 DEF Drop
<1>10. CASE Die
  <2>1. pageDeaths' \in 0 .. MaxPageDeaths
    BY <1>10, RunPageAssumption DEF Die
  <2>2. cut' \in BOOLEAN
    BY <1>10 DEF Die
  <2> QED BY <1>3, <1>10, <2>1, <2>2 DEF Die
<1>11. CASE UNCHANGED pageVars
  BY <1>11 DEF pageVars
<1> QED BY <1>4, <1>5, <1>6, <1>7, <1>8, <1>9, <1>10, <1>11 DEF PageNext

\* A step that says nothing new to the page, or lets it hear what the row says.
LEMMA HeardStep ==
  ASSUME HeardInv, phase' = phase, stage' = stage, cut' = FALSE => cut = FALSE, cut \in BOOLEAN,
         \A x \in Heard' : x \in Ends => x \in Heard \/ x = phase
  PROVE  HeardInv'
BY DEF HeardInv

LEMMA PageStep == PageInv /\ [PageNext]_pageVars => PageInv'
<1> USE DEF clientVars, workerVars, pollVars
<1> SUFFICES ASSUME PageInv, [PageNext]_pageVars PROVE PageInv'
  OBVIOUS
<1>1. RunPageTypeOK /\ RunPageTypeOK' /\ Started /\ Started' /\ HeardInv
  BY PageTypeStep, StartedStep DEF PageInv
<1>2. wire \in Seq(PagePhase) /\ cut \in BOOLEAN
  BY <1>1 DEF RunPageTypeOK
<1>3. SUFFICES HeardInv'
  BY <1>1 DEF PageInv
<1>4. CASE StartRun \/ Mark \/ \E end \in Ends : RowEnds(end)
  <2>1. UNCHANGED <<wire, live, polled, poll, cut>>
    BY <1>4 DEF StartRun, Mark, RowEnds
  <2>2. Heard' = Heard
    BY <2>1 DEF Heard
  <2>3. stage \notin {"ended", "over"}
    BY <1>4 DEF StartRun, Mark, RowEnds
  <2>4. ~cut => \A x \in Heard : x \notin Ends
    BY <1>1, <2>3 DEF HeardInv
  <2>5. phase' \in Ends <=> stage' \in {"ended", "over"}
    BY <1>4 DEF StartRun, Mark, RowEnds, Ends
  <2> QED BY <2>1, <2>2, <2>4, <2>5 DEF HeardInv
<1>5. CASE EmitRunning \/ EmitEnd
  <2>1. UNCHANGED <<phase, live, polled, poll, cut>>
    BY <1>5 DEF EmitRunning, EmitEnd
  <2>2. stage' \in {"ended", "over"} <=> stage \in {"ended", "over"}
    BY <1>5 DEF EmitRunning, EmitEnd
  <2>3. \A i \in DOMAIN wire' : wire'[i] \in Ends => wire'[i] = phase \/ \E k \in DOMAIN wire : wire'[i] = wire[k]
    <3>1. ASSUME NEW p \in PagePhase \cup {NoPhase}, p \in Ends => p = phase, Emit(p),
                 NEW i \in DOMAIN wire', wire'[i] \in Ends
          PROVE  wire'[i] = phase \/ \E k \in DOMAIN wire : wire'[i] = wire[k]
      <4>1. CASE wire' = Append(wire, p)
        <5>1. i \in 1 .. Len(wire) + 1 /\ DOMAIN wire = 1 .. Len(wire) /\ Len(wire) \in Nat
          BY <1>2, <4>1
        <5>2. CASE i = Len(wire) + 1
          <6>1. wire'[i] = p
            BY <1>2, <4>1, <5>2
          <6> QED BY <3>1, <6>1
        <5>3. CASE i \in 1 .. Len(wire)
          BY <1>2, <4>1, <5>1, <5>3
        <5> QED BY <5>1, <5>2, <5>3
      <4>2. CASE wire' = wire
        BY <3>1, <4>2
      <4> QED BY <3>1, <4>1, <4>2 DEF Emit
    <3>2. CASE EmitRunning
      BY <3>1, <3>2 DEF EmitRunning, PagePhase, Ends
    <3>3. CASE EmitEnd
      BY <1>1, <3>1, <3>3 DEF EmitEnd, RunPageTypeOK
    <3> QED BY <1>5, <3>2, <3>3
  <2>4. \A x \in Heard' : x \in Ends => x \in Heard \/ x = phase
    BY <2>1, <2>3 DEF Heard
  <2> QED BY <1>1, <2>1, <2>2, <2>4 DEF HeardInv
<1>6. CASE OpenPage \/ Connect \/ Join \/ GiveUp \/ Ask \/ Refocus
  <2>1. poll' \notin Ends \/ poll' = poll
    BY <1>6 DEF OpenPage, Connect, Join, GiveUp, Ask, Refocus, Ends
  <2>2. UNCHANGED <<phase, stage, wire, live, polled, cut>>
    BY <1>6 DEF OpenPage, Connect, Join, GiveUp, Ask, Refocus
  <2>3. \A x \in Heard' : x \in Ends => x \in Heard \/ x = phase
    BY <2>1, <2>2 DEF Heard, pageVars
  <2> QED BY <1>1, <1>2, <2>2, <2>3, HeardStep
<1>7. CASE Deliver
  <2>1. UNCHANGED <<phase, stage, polled, poll, cut>> /\ wire # <<>>
    BY <1>7 DEF Deliver
  <2>2. live' = wire[1] /\ 1 \in DOMAIN wire
    BY <1>2, <1>7 DEF Deliver
  <2>3. \A i \in DOMAIN wire' : i + 1 \in DOMAIN wire /\ wire'[i] = wire[i + 1]
    BY <1>2, <1>7 DEF Deliver
  <2>4. \A x \in Heard' : x \in Ends => x \in Heard \/ x = phase
    BY <2>1, <2>2, <2>3 DEF Heard
  <2> QED BY <1>1, <1>2, <2>1, <2>4, HeardStep
<1>8. CASE Read \/ Fetched
  <2>1. UNCHANGED <<phase, stage, wire, live, cut>>
    BY <1>8 DEF Read, Fetched
  <2>2. poll' = phase \/ poll' = "idle"
    BY <1>8 DEF Read, Fetched
  <2>3. polled' = polled \/ polled' = poll
    BY <1>8 DEF Read, Fetched
  <2>4. "idle" \notin Ends
    BY DEF Ends
  <2>5. \A x \in Heard' : x \in Ends => x \in Heard \/ x = phase
    BY <2>1, <2>2, <2>3, <2>4 DEF Heard
  <2> QED BY <1>1, <1>2, <2>1, <2>5, HeardStep
<1>9. CASE Drop
  <2>1. UNCHANGED <<phase, stage, live, polled, poll>> /\ wire' = <<>>
    BY <1>9 DEF Drop
  <2>2. cut' = FALSE => cut = FALSE
    BY <1>9, <1>2 DEF Drop
  <2>3. \A x \in Heard' : x \in Ends => x \in Heard \/ x = phase
    BY <2>1 DEF Heard
  <2> QED BY <1>1, <1>2, <2>1, <2>2, <2>3, HeardStep
<1>10. CASE Die
  <2>1. UNCHANGED <<phase, live, polled>> /\ wire' = <<>> /\ poll' \in {"closed", "idle"}
    BY <1>10 DEF Die
  <2>2. stage' = "waiting" /\ (~cut' => ~cut /\ stage \notin {"ended", "over"})
    BY <1>10, <1>2 DEF Die
  <2>3. {"closed", "idle"} \cap Ends = {}
    BY DEF Ends
  <2>4. \A x \in Heard' : x \in Ends => x \in Heard
    BY <2>1, <2>3 DEF Heard
  <2> QED BY <1>1, <2>1, <2>2, <2>4 DEF HeardInv
<1>11. CASE UNCHANGED pageVars
  BY <1>1, <1>11 DEF pageVars, HeardInv, Heard
<1> QED BY <1>4, <1>5, <1>6, <1>7, <1>8, <1>9, <1>10, <1>11 DEF PageNext

LEMMA PageStart == PageInit => PageInv
<1> SUFFICES ASSUME PageInit PROVE PageInv
  OBVIOUS
<1>1. RunPageTypeOK
  <2>1. 0 \in 0 .. MaxDrops /\ 0 \in 0 .. MaxPageDeaths /\ <<>> \in Seq(PagePhase)
    BY RunPageAssumption
  <2> QED BY <2>1 DEF PageInit, RunPageTypeOK
<1>2. Heard = {NoPhase, "closed"}
  BY DEF PageInit, Heard
<1> QED BY <1>1, <1>2 DEF PageInv, PageInit, Started, HeardInv, Ends, NoPhase

(* The row, the worker, the socket, the poll and what the page holds keep their types. *)
THEOREM PageTypeCorrect == PageSpec => []RunPageTypeOK
<1>1. PageInv => RunPageTypeOK
  BY DEF PageInv
<1> QED BY <1>1, PageStart, PageStep, PTL DEF PageSpec

(* An end the page of a run shows is the end in the run's row, however late, often and   *)
(* in whichever order the socket and the poll bring what they heard, for any number of   *)
(* connections, until one goes down that had told it something or the process dies with  *)
(* the row at an end.                                                                    *)
THEOREM EndIsRowsHolds == PageSpec => []EndIsRows
<1>1. PageInv => EndIsRows
  <2> SUFFICES ASSUME PageInv, Shown \in Ends, ~cut PROVE Shown = phase
    BY DEF EndIsRows
  <2>1. Shown \in {live, polled, "queued"}
    BY DEF Shown
  <2>2. Shown \in Heard
    BY <2>1 DEF Heard, Ends
  <2> QED BY <2>2 DEF PageInv, HeardInv
<1> QED BY <1>1, PageStart, PageStep, PTL DEF PageSpec

-----------------------------------------------------------------------------
(* The jobs together. *)

\* The step of one kind of job leaves the rows, queues and workers of the others alone,
\* so what the jobs do together is what each of them may do by itself.
THEOREM JobsImplementEach == MCSpec => MigrationSpec /\ ExportSpec /\ LegacySpec /\ PageSpec
<1> DEFINE vars == <<focus, migrationVars, exportVars, legacyVars, pageVars>>
<1>1. MCInit => MigrationInit /\ ExportInit /\ LegacyInit /\ PageInit
  BY DEF MCInit
<1>2. [MCNext]_vars => [MigrationNext]_migrationVars
  BY DEF MCNext
<1>3. [MCNext]_vars => [ExportNext]_exportVars
  BY DEF MCNext
<1>4. [MCNext]_vars => [LegacyNext]_legacyVars
  BY DEF MCNext
<1>5. [MCNext]_vars => [PageNext]_pageVars
  BY DEF MCNext
<1> QED BY <1>1, <1>2, <1>3, <1>4, <1>5, PTL DEF MCSpec, MigrationSpec, ExportSpec, LegacySpec, PageSpec

\* All jobs keep their types, whatever runs beside them.
THEOREM JobsTypeCorrect == MCSpec => []MCTypeOK
<1>1. MigrationTypeOK /\ ExportTypeOK /\ LegacyTypeOK /\ RunPageTypeOK => MCTypeOK
  BY DEF MCTypeOK
<1> QED BY <1>1, JobsImplementEach, MigrationTypeCorrect, ExportTypeCorrect, LegacyTypeCorrect,
           PageTypeCorrect, PTL
=============================================================================
