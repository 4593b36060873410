------------------------------- MODULE Backup -------------------------------
(***************************************************************************)
(* One BackupJob: its row, its repeatable BullMQ job, the runs with their  *)
(* archives, the retention of the newest Keep, and the restores from them. *)
(*                                                                         *)
(* The backup worker and the restore worker take one job at a time each;   *)
(* their database calls and file operations interleave with those of the   *)
(* routes and of each other, and the API process may die between any two.  *)
(***************************************************************************)
EXTENDS Integers, FiniteSets

CONSTANTS Client,       \* who can have a request in flight at the same time
          Ops,          \* the requests they issue, a subset of AllOps
          Pattern,      \* cron expressions that cron.validate accepts
          BadPattern,   \* and one that it refuses
          Keep,         \* successful runs kept by the retention (3 in the code)
          MaxStalls,    \* BullMQ's maxStalledCount (its default is 1)
          MaxRuns, MaxRestores,             \* bounds: rows ever created
          MaxFires, MaxRequests, MaxCrashes \* bounds: cron ticks, requests, crashes

AllOps == {"patch", "run", "restore", "delete", "deleteConnection"}

ASSUME BackupAssumption ==
  /\ IsFiniteSet(Client) /\ Client # {} /\ Ops \subseteq AllOps
  /\ BadPattern \notin Pattern
  /\ Keep \in Nat \ {0} /\ MaxStalls \in Nat
  /\ MaxRuns \in Nat /\ MaxRestores \in Nat
  /\ MaxFires \in Nat /\ MaxRequests \in Nat /\ MaxCrashes \in Nat

VARIABLES
  jobRow,    \* the BackupJob row
  repeat,    \* the patterns of its repeatable jobs in Redis
  queue,     \* waiting backup jobs, by how often they were found stalled
  stalled,   \* backup jobs whose process died, likewise
  run,       \* status of the BackupRun rows, in the order of startedAt
  archive,   \* the archive of each run, on disk
  pc, cur, stalls, old,  \* the backup attempt: next step, run, its job, runs to delete
  restore,   \* the RestoreRun rows and their BullMQ jobs
  rpc, rcur, \* the restore attempt: next step, RestoreRun
  req,       \* the request each client has in flight
  boot,      \* the scheduler's step after a restart, "up" when it is done
  fires, requests, crashes,
  doomed     \* runs whose archive a DELETE has set out to remove

backup == <<pc, cur, stalls, old>>
restorer == <<rpc, rcur>>
queues == <<queue, stalled>>
bounds == <<fires, requests, crashes>>
vars == <<jobRow, repeat, queue, stalled, run, archive, pc, cur, stalls, old, restore,
          rpc, rcur, req, boot, fires, requests, crashes, doomed>>

Run == 1..MaxRuns
RestoreRun == 1..MaxRestores
Schedule == Pattern \cup {BadPattern}

JobRow == [exists : BOOLEAN, active : BOOLEAN, schedule : Schedule,
           last : {"none", "running", "success", "failed"}]
RunStatus == {"none", "running", "success", "failed", "gone"}
InFlight == {"queued", "running"}
Restore == [of : {0} \cup Run, status : RunStatus \cup {"queued"},
            job : {"none", "waiting", "active", "ended"}, stalls : 0..MaxStalls]
NoRestore == [of |-> 0, status |-> "none", job |-> "none", stalls |-> 0]

BackupPC == {"idle", "read", "create", "mark", "dump", "open", "write", "succeed",
             "markSuccess", "list", "prune", "drop", "catch", "catchJob", "end"}
RestorePC == {"idle", "read", "mark", "extract", "load", "succeed", "catch", "end"}

Step == {"none", "update", "list", "remove", "add", "files", "rm", "drop", "enqueueRun",
         "access", "guard", "create", "enqueueRestore"}
Request == [op : {"none", "create"} \cup AllOps, step : Step, active : BOOLEAN,
            schedule : Schedule, keys : SUBSET Schedule, files : SUBSET Run,
            run : {0} \cup Run, restore : {0} \cup RestoreRun]
NoRequest == [op |-> "none", step |-> "none", active |-> TRUE, schedule |-> BadPattern,
              keys |-> {}, files |-> {}, run |-> 0, restore |-> 0]

TypeOK ==
  /\ jobRow \in JobRow /\ repeat \subseteq Schedule
  /\ queue \in [0..MaxStalls -> Nat] /\ stalled \in [0..MaxStalls -> Nat]
  /\ run \in [Run -> RunStatus] /\ archive \in [Run -> {"absent", "partial", "complete"}]
  /\ pc \in BackupPC /\ cur \in {0} \cup Run /\ stalls \in 0..MaxStalls /\ old \subseteq Run
  /\ restore \in [RestoreRun -> Restore]
  /\ rpc \in RestorePC /\ rcur \in {0} \cup RestoreRun
  /\ req \in [Client -> Request] /\ boot \in {"up", "clear", "add"}
  /\ fires \in Nat /\ requests \in Nat /\ crashes \in Nat
  /\ doomed \subseteq Run

\* POST /jobs has created the row and is about to schedule it.
Init ==
  \E c \in Client, s \in Schedule :
    /\ jobRow = [exists |-> TRUE, active |-> TRUE, schedule |-> s, last |-> "none"]
    /\ req = [d \in Client |-> IF d = c THEN [NoRequest EXCEPT !.op = "create", !.step = "list",
                                                              !.schedule = s]
                                        ELSE NoRequest]
    /\ repeat = {} /\ queue = [s0 \in 0..MaxStalls |-> 0] /\ stalled = queue
    /\ run = [n \in Run |-> "none"] /\ archive = [n \in Run |-> "absent"]
    /\ pc = "idle" /\ cur = 0 /\ stalls = 0 /\ old = {}
    /\ restore = [m \in RestoreRun |-> NoRestore] /\ rpc = "idle" /\ rcur = 0
    /\ boot = "up" /\ fires = 0 /\ requests = 0 /\ crashes = 0 /\ doomed = {}

-----------------------------------------------------------------------------
(* BullMQ, as the code uses it: no job of these queues is retried when it    *)
(* fails, one whose process died is put back at most MaxStalls times.        *)

Fire ==
  /\ repeat # {} /\ fires < MaxFires
  /\ fires' = fires + 1
  /\ queue' = [queue EXCEPT ![0] = @ + 1]
  /\ UNCHANGED <<jobRow, repeat, stalled, run, archive, backup, restore, restorer, req, boot,
                 requests, crashes, doomed>>

CheckStalled ==
  \E s \in 0..MaxStalls :
    /\ stalled[s] > 0
    /\ stalled' = [stalled EXCEPT ![s] = @ - 1]
    /\ queue' = IF s < MaxStalls THEN [queue EXCEPT ![s + 1] = @ + 1] ELSE queue
    /\ UNCHANGED <<jobRow, repeat, run, archive, backup, restore, restorer, req, boot,
                   bounds, doomed>>

Recovered(r) == IF r.stalls < MaxStalls
                THEN [r EXCEPT !.job = "waiting", !.stalls = r.stalls + 1]
                ELSE [r EXCEPT !.job = "ended"]

CheckStalledRestore ==
  \E m \in RestoreRun :
    /\ restore[m].job = "active" /\ rcur # m
    /\ restore' = [restore EXCEPT ![m] = Recovered(restore[m])]
    /\ UNCHANGED <<jobRow, repeat, queues, run, archive, backup, restorer, req, boot,
                   bounds, doomed>>

-----------------------------------------------------------------------------
(* The backup worker (startBackupWorker). *)

Rest == <<repeat, stalled, restorer, req, boot, bounds, doomed>>

PickUp ==
  /\ pc = "idle"
  /\ \E s \in 0..MaxStalls :
       /\ queue[s] > 0
       /\ queue' = [queue EXCEPT ![s] = @ - 1]
       /\ stalls' = s
  /\ pc' = "read"
  /\ UNCHANGED <<jobRow, run, archive, cur, old, restore, Rest>>

ReadJob ==
  /\ pc = "read"
  /\ pc' = IF jobRow.exists THEN "create" ELSE "end"
  /\ UNCHANGED <<jobRow, queue, run, archive, cur, stalls, old, restore, Rest>>

\* The next row in the order of startedAt.
Fresh(n) == run[n] = "none" /\ \A k \in Run : k < n => run[k] # "none"

\* create() throws when the job row is gone (foreign key).
CreateRun ==
  /\ pc = "create"
  /\ IF jobRow.exists
     THEN \E n \in Run : /\ Fresh(n) /\ cur' = n
                         /\ run' = [run EXCEPT ![n] = "running"] /\ pc' = "mark"
     ELSE pc' = "end" /\ UNCHANGED <<run, cur>>
  /\ UNCHANGED <<jobRow, queue, archive, stalls, old, restore, Rest>>

\* lastRunStatus: the update throws when the row is gone.
Mark(last, next, thrown) ==
  /\ IF jobRow.exists THEN jobRow' = [jobRow EXCEPT !.last = last] /\ pc' = next
                      ELSE pc' = thrown /\ UNCHANGED jobRow
  /\ UNCHANGED <<queue, run, archive, cur, stalls, old, restore, Rest>>

MarkRunning == pc = "mark" /\ Mark("running", "dump", "end")

\* mkdir, decrypt, the dump tool and tar: each may throw.
Dump ==
  /\ pc = "dump"
  /\ pc' \in {"open", "catch"}
  /\ UNCHANGED <<jobRow, queue, run, archive, cur, stalls, old, restore, Rest>>

OpenArchive ==
  /\ pc = "open"
  /\ archive' = [archive EXCEPT ![cur] = "partial"]
  /\ pc' = "write"
  /\ UNCHANGED <<jobRow, queue, run, cur, stalls, old, restore, Rest>>

\* The pipeline fails and leaves what it has written, or closes the archive.
WriteArchive ==
  /\ pc = "write"
  /\ \/ pc' = "catch" /\ UNCHANGED archive
     \/ archive' = [archive EXCEPT ![cur] = "complete"] /\ pc' = "succeed"
  /\ UNCHANGED <<jobRow, queue, run, cur, stalls, old, restore, Rest>>

\* The update of a run throws when it has been deleted with its job.
Succeed ==
  /\ pc = "succeed"
  /\ IF run[cur] # "gone"
     THEN run' = [run EXCEPT ![cur] = "success"] /\ pc' = "markSuccess"
     ELSE pc' = "catch" /\ UNCHANGED run
  /\ UNCHANGED <<jobRow, queue, archive, cur, stalls, old, restore, Rest>>

MarkSuccess == pc = "markSuccess" /\ Mark("success", "list", "catch")

Successes == {n \in Run : run[n] = "success"}
Newer(n) == {k \in Successes : k > n}
Beyond(k) == {n \in Successes : Cardinality(Newer(n)) >= k}

\* Mutant of ListOld: startedAt in ascending order.
ListOldAscending ==
  /\ pc = "list"
  /\ old' = {n \in Successes : Cardinality({k \in Successes : k < n}) >= Keep}
  /\ pc' = "prune"
  /\ UNCHANGED <<jobRow, queue, run, archive, cur, stalls, restore, Rest>>

\* Mutant of ListOld: the run that has just ended is kept besides Keep others.
ListOldBesides ==
  /\ pc = "list"
  /\ old' = Beyond(Keep + 1)
  /\ pc' = "prune"
  /\ UNCHANGED <<jobRow, queue, run, archive, cur, stalls, restore, Rest>>

\* All successful runs, newest first, without the first Keep.
ListOld ==
  /\ pc = "list"
  /\ old' = Beyond(Keep)
  /\ pc' = "prune"
  /\ UNCHANGED <<jobRow, queue, run, archive, cur, stalls, restore, Rest>>

Newest(S, n) == n \in S /\ \A k \in S : k <= n

\* Mutant of Prune: the file is left behind.
PruneLeavesFile ==
  /\ pc = "prune"
  /\ pc' = IF old = {} THEN "end" ELSE "drop"
  /\ UNCHANGED <<jobRow, queue, run, archive, cur, stalls, old, restore, Rest>>

\* The file goes first, then the row.  (An error of rm is swallowed; here rm
\* removes the file.)
Prune ==
  /\ pc = "prune"
  /\ IF old = {} THEN pc' = "end" /\ UNCHANGED archive
     ELSE \E n \in old : /\ Newest(old, n)
                         /\ archive' = [archive EXCEPT ![n] = "absent"]
                         /\ pc' = "drop"
  /\ UNCHANGED <<jobRow, queue, run, cur, stalls, old, restore, Rest>>

\* A BackupRun row goes with its RestoreRun rows (onDelete: Cascade).
WithoutRestoresOf(S) ==
  [m \in RestoreRun |-> IF restore[m].of \in S THEN [restore[m] EXCEPT !.status = "gone"]
                                               ELSE restore[m]]

DropOld ==
  /\ pc = "drop"
  /\ \E n \in old : /\ Newest(old, n)
                    /\ run' = [run EXCEPT ![n] = "gone"]
                    /\ restore' = WithoutRestoresOf({n})
                    /\ old' = old \ {n}
  /\ pc' = "prune"
  /\ UNCHANGED <<jobRow, queue, archive, cur, stalls, Rest>>

CatchRun ==
  /\ pc = "catch"
  /\ IF run[cur] # "gone"
     THEN run' = [run EXCEPT ![cur] = "failed"] /\ pc' = "catchJob"
     ELSE pc' = "end" /\ UNCHANGED run
  /\ UNCHANGED <<jobRow, queue, archive, cur, stalls, old, restore, Rest>>

CatchJob == pc = "catchJob" /\ Mark("failed", "end", "end")

\* The processor has returned or thrown: BullMQ ends the job.
End ==
  /\ pc = "end"
  /\ pc' = "idle" /\ cur' = 0 /\ stalls' = 0 /\ old' = {}
  /\ UNCHANGED <<jobRow, queue, run, archive, restore, Rest>>

Attempt ==
  \/ PickUp \/ ReadJob \/ CreateRun \/ MarkRunning \/ Dump \/ OpenArchive \/ WriteArchive
  \/ Succeed \/ MarkSuccess \/ ListOld \/ Prune \/ DropOld \/ CatchRun \/ CatchJob \/ End

-----------------------------------------------------------------------------
(* The restore worker (startRestoreWorker). *)

Others == <<jobRow, repeat, queues, run, archive, backup, req, boot, bounds, doomed>>

RestorePickUp ==
  /\ rpc = "idle"
  /\ \E m \in RestoreRun :
       /\ restore[m].job = "waiting"
       /\ restore' = [restore EXCEPT ![m].job = "active"]
       /\ rcur' = m
  /\ rpc' = "read"
  /\ UNCHANGED Others

RestoreRead ==
  /\ rpc = "read"
  /\ rpc' = IF restore[rcur].status = "gone" THEN "end" ELSE "mark"
  /\ UNCHANGED <<Others, restore, rcur>>

\* restoreRun.update throws when the row is gone.
SetStatus(status, next, thrown) ==
  /\ IF restore[rcur].status # "gone"
     THEN restore' = [restore EXCEPT ![rcur].status = status] /\ rpc' = next
     ELSE rpc' = thrown /\ UNCHANGED restore
  /\ UNCHANGED <<Others, rcur>>

RestoreMark == rpc = "mark" /\ SetStatus("running", "extract", "end")

\* Reading the archive and extracting it, which may fail, and does when the
\* file is not there; the archive once opened can be read to its end.
Extract ==
  /\ rpc = "extract"
  /\ rpc' \in IF archive[restore[rcur].of] = "complete" THEN {"load", "catch"} ELSE {"catch"}
  /\ UNCHANGED <<Others, restore, rcur>>

\* runEngineRestore.
Load ==
  /\ rpc = "load"
  /\ rpc' \in {"succeed", "catch"}
  /\ UNCHANGED <<Others, restore, rcur>>

\* Mutant of RestoreSucceed: the status is called what BullMQ calls it.
RestoreSucceedCompleted == rpc = "succeed" /\ SetStatus("completed", "end", "catch")

RestoreSucceed == rpc = "succeed" /\ SetStatus("success", "end", "catch")

\* Mutant of RestoreCatch: the failure is not written.
RestoreCatchSilent ==
  /\ rpc = "catch"
  /\ rpc' = "end"
  /\ UNCHANGED <<Others, restore, rcur>>

RestoreCatch == rpc = "catch" /\ SetStatus("failed", "end", "end")

RestoreEnd ==
  /\ rpc = "end"
  /\ restore' = [restore EXCEPT ![rcur].job = "ended"]
  /\ rpc' = "idle" /\ rcur' = 0
  /\ UNCHANGED Others

RestoreAttempt ==
  \/ RestorePickUp \/ RestoreRead \/ RestoreMark \/ Extract \/ Load
  \/ RestoreSucceed \/ RestoreCatch \/ RestoreEnd

-----------------------------------------------------------------------------
(* The routes.  All are issued against an existing row (404 otherwise), while *)
(* the process listens: after startScheduler.                                 *)

Workers == <<queues, backup, restorer, boot>>

At(c, op, step) == req[c].op = op /\ req[c].step = step
GoTo(c, step) == req' = [req EXCEPT ![c].step = step]
Respond(c) == req' = [req EXCEPT ![c] = NoRequest]

Issue(c, r) ==
  /\ req[c] = NoRequest /\ requests < MaxRequests /\ jobRow.exists /\ boot = "up"
  /\ r.op \in Ops
  /\ req' = [req EXCEPT ![c] = r]
  /\ requests' = requests + 1
  /\ UNCHANGED <<jobRow, repeat, run, archive, restore, Workers, fires, crashes, doomed>>

IssueRun(c) == Issue(c, [NoRequest EXCEPT !.op = "run", !.step = "enqueueRun"])

IssueDelete(c) == Issue(c, [NoRequest EXCEPT !.op = "delete", !.step = "files"])

IssuePatch(c) ==
  \E on \in BOOLEAN, s \in Schedule :
    Issue(c, [NoRequest EXCEPT !.op = "patch", !.step = "update", !.active = on, !.schedule = s])

\* 400 unless the run is a success.
IssueRestore(c) ==
  \E n \in Successes : Issue(c, [NoRequest EXCEPT !.op = "restore", !.step = "access", !.run = n])

\* POST /jobs/:id/run.
EnqueueRun(c) ==
  /\ At(c, "run", "enqueueRun")
  /\ queue' = [queue EXCEPT ![0] = @ + 1]
  /\ Respond(c)
  /\ UNCHANGED <<jobRow, repeat, stalled, run, archive, backup, restore, restorer, boot,
                 bounds, doomed>>

\* PATCH /jobs/:id: the update throws when the row is gone, and what it returns
\* is what gets scheduled.
PatchUpdate(c) ==
  /\ At(c, "patch", "update")
  /\ IF jobRow.exists
     THEN /\ jobRow' = [jobRow EXCEPT !.active = req[c].active, !.schedule = req[c].schedule]
          /\ GoTo(c, "list")
     ELSE Respond(c) /\ UNCHANGED jobRow
  /\ UNCHANGED <<repeat, run, archive, restore, Workers, bounds, doomed>>

\* unscheduleBackupJob: the repeatable jobs are listed ...
ListRepeats(c) ==
  /\ req[c].step = "list"
  /\ req' = [req EXCEPT ![c] = [@ EXCEPT !.step = "remove", !.keys = repeat]]
  /\ UNCHANGED <<jobRow, repeat, run, archive, restore, Workers, bounds, doomed>>

Schedules(c) == req[c].op # "delete" /\ req[c].active /\ req[c].schedule # BadPattern

\* Mutant of RemoveRepeats: the new schedule is added without removing the old.
RemoveRepeatsNone(c) ==
  /\ req[c].step = "remove"
  /\ IF Schedules(c) THEN GoTo(c, "add")
     ELSE IF req[c].op = "delete" THEN GoTo(c, "drop") ELSE Respond(c)
  /\ UNCHANGED <<jobRow, repeat, run, archive, restore, Workers, bounds, doomed>>

\* ... and removed by their keys; what follows depends on the request.
RemoveRepeats(c) ==
  /\ req[c].step = "remove"
  /\ repeat' = repeat \ req[c].keys
  /\ IF Schedules(c) THEN GoTo(c, "add")
     ELSE IF req[c].op = "delete" THEN GoTo(c, "drop") ELSE Respond(c)
  /\ UNCHANGED <<jobRow, run, archive, restore, Workers, bounds, doomed>>

AddRepeat(c) ==
  /\ req[c].step = "add"
  /\ repeat' = repeat \cup {req[c].schedule}
  /\ Respond(c)
  /\ UNCHANGED <<jobRow, run, archive, restore, Workers, bounds, doomed>>

\* DELETE /jobs/:id: the archives of the runs that have a filePath ...
DeleteList(c) ==
  /\ At(c, "delete", "files")
  /\ req' = [req EXCEPT ![c] = [@ EXCEPT !.step = "rm", !.files = Successes]]
  /\ doomed' = doomed \cup Successes
  /\ UNCHANGED <<jobRow, repeat, run, archive, restore, Workers, bounds>>

DeleteFile(c) ==
  /\ At(c, "delete", "rm")
  /\ IF req[c].files = {} THEN GoTo(c, "list") /\ UNCHANGED archive
     ELSE \E n \in req[c].files : /\ archive' = [archive EXCEPT ![n] = "absent"]
                                  /\ req' = [req EXCEPT ![c].files = @ \ {n}]
  /\ UNCHANGED <<jobRow, repeat, run, restore, Workers, bounds, doomed>>

Created == {n \in Run : run[n] # "none"}
DropJob ==
  /\ jobRow' = [jobRow EXCEPT !.exists = FALSE]
  /\ run' = [n \in Run |-> IF n \in Created THEN "gone" ELSE "none"]
  /\ restore' = WithoutRestoresOf(Created)

\* ... and the row, with its runs and their restores; it throws when it is gone.
DeleteRow(c) ==
  /\ At(c, "delete", "drop")
  /\ IF jobRow.exists THEN DropJob ELSE UNCHANGED <<jobRow, run, restore>>
  /\ Respond(c)
  /\ UNCHANGED <<repeat, archive, Workers, bounds, doomed>>

\* deleteConnection: one transaction; the rows go with the connection.
DeleteConnection ==
  /\ "deleteConnection" \in Ops /\ requests < MaxRequests /\ jobRow.exists /\ boot = "up"
  /\ requests' = requests + 1
  /\ DropJob
  /\ UNCHANGED <<repeat, archive, req, Workers, fires, crashes, doomed>>

\* POST /runs/:runId/restore: access() of the archive ...
RestoreAccess(c) ==
  /\ At(c, "restore", "access")
  /\ IF archive[req[c].run] # "absent" THEN GoTo(c, "guard") ELSE Respond(c)
  /\ UNCHANGED <<jobRow, repeat, run, archive, restore, Workers, bounds, doomed>>

RestoresInFlight(n) ==
  {m \in RestoreRun : restore[m].of = n /\ restore[m].status \in InFlight}

\* ... the concurrent-restore guard (409) ...
RestoreGuard(c) ==
  /\ At(c, "restore", "guard")
  /\ IF RestoresInFlight(req[c].run) # {} THEN Respond(c) ELSE GoTo(c, "create")
  /\ UNCHANGED <<jobRow, repeat, run, archive, restore, Workers, bounds, doomed>>

\* ... the RestoreRun, whose creation throws when the run is gone ...
RestoreCreate(c) ==
  /\ At(c, "restore", "create")
  /\ IF run[req[c].run] = "gone" THEN Respond(c) /\ UNCHANGED restore
     ELSE \E m \in RestoreRun :
            /\ restore[m] = NoRestore /\ \A k \in RestoreRun : k < m => restore[k] # NoRestore
            /\ restore' = [restore EXCEPT ![m] = [@ EXCEPT !.of = req[c].run, !.status = "queued"]]
            /\ req' = [req EXCEPT ![c] = [@ EXCEPT !.step = "enqueueRestore", !.restore = m]]
  /\ UNCHANGED <<jobRow, repeat, run, archive, Workers, bounds, doomed>>

\* ... and its job.
RestoreEnqueue(c) ==
  /\ At(c, "restore", "enqueueRestore")
  /\ restore' = [restore EXCEPT ![req[c].restore].job = "waiting"]
  /\ Respond(c)
  /\ UNCHANGED <<jobRow, repeat, run, archive, Workers, bounds, doomed>>

Handle(c) ==
  \/ EnqueueRun(c) \/ PatchUpdate(c) \/ ListRepeats(c) \/ RemoveRepeats(c) \/ AddRepeat(c)
  \/ DeleteList(c) \/ DeleteFile(c) \/ DeleteRow(c)
  \/ RestoreAccess(c) \/ RestoreGuard(c) \/ RestoreCreate(c) \/ RestoreEnqueue(c)

-----------------------------------------------------------------------------
(* The process: it dies, and startScheduler runs before it listens again.    *)

Crash ==
  /\ crashes < MaxCrashes
  /\ crashes' = crashes + 1
  /\ stalled' = IF pc = "idle" THEN stalled ELSE [stalled EXCEPT ![stalls] = @ + 1]
  /\ pc' = "idle" /\ cur' = 0 /\ stalls' = 0 /\ old' = {}
  /\ rpc' = "idle" /\ rcur' = 0
  /\ req' = [c \in Client |-> NoRequest]
  /\ boot' = "clear"
  /\ UNCHANGED <<jobRow, repeat, queue, run, archive, restore, fires, requests, doomed>>

Scheduled == jobRow.exists /\ jobRow.active /\ jobRow.schedule # BadPattern

\* Repeatable jobs are pruned when the row is not active, and removed by
\* scheduleBackupJob when it is.
BootClear ==
  /\ boot = "clear"
  /\ repeat' = {}
  /\ boot' = IF Scheduled THEN "add" ELSE "up"
  /\ UNCHANGED <<jobRow, queues, run, archive, backup, restore, restorer, req, bounds, doomed>>

BootAdd ==
  /\ boot = "add"
  /\ repeat' = repeat \cup {jobRow.schedule}
  /\ boot' = "up"
  /\ UNCHANGED <<jobRow, queues, run, archive, backup, restore, restorer, req, bounds, doomed>>

Boot == BootClear \/ BootAdd

Next ==
  \/ Attempt \/ RestoreAttempt
  \/ Fire \/ CheckStalled \/ CheckStalledRestore
  \/ \E c \in Client : IssueRun(c) \/ IssueDelete(c) \/ IssuePatch(c) \/ IssueRestore(c)
  \/ \E c \in Client : Handle(c)
  \/ DeleteConnection
  \/ Crash \/ Boot

Spec == Init /\ [][Next]_vars

-----------------------------------------------------------------------------
(* The newest Keep successful runs can be restored: their archives are
   complete, whatever the retention of later, failed or crashed attempts does,
   unless a DELETE has set out to remove them. *)
NewestRestorable ==
  \A n \in Successes \ (Beyond(Keep) \cup doomed) : archive[n] = "complete"

(* A pruned run leaves no archive behind, even when the process dies in the
   middle of the retention. *)
PrunedHasNoArchive == jobRow.exists => \A n \in Run : run[n] = "gone" => archive[n] = "absent"

(* An attempt that gets to the end of the retention leaves at most Keep
   successful runs, those of attempts that died before theirs included. *)
RetentionEnforced ==
  [][pc = "prune" /\ pc' = "end" => Cardinality(Successes') <= Keep]_vars

(* A restore in flight is carried: by its BullMQ job, by the attempt, or by the
   request that is about to enqueue it.  Otherwise it would be in flight for
   ever, and the guard would refuse every other restore of its backup.  A
   process that dies between the two calls, or MaxStalls + 1 times during the
   restore, leaves one that is not. *)
RestoreCarried ==
  crashes = 0 =>
    \A m \in RestoreRun : restore[m].status \in InFlight =>
      \/ restore[m].job = "waiting"
      \/ rcur = m
      \/ \E c \in Client : At(c, "restore", "enqueueRestore") /\ req[c].restore = m

\* No request is in flight and the scheduler has started.
Settled == boot = "up" /\ \A c \in Client : req[c] = NoRequest

Expected == IF Scheduled THEN {jobRow.schedule} ELSE {}

(* Redis follows the row: an active job has exactly its schedule, a paused one
   (or one whose schedule is refused) none. *)
ScheduleMatchesRow ==
  Settled /\ jobRow.exists => repeat = Expected
=============================================================================
