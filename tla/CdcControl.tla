----------------------------- MODULE CdcControl -----------------------------
(***************************************************************************)
(* The control path of one CdcSyncJob: its metadata row, the BullMQ job    *)
(* `cdc-<id>' that carries it, the worker attempt that runs it, and the    *)
(* requests (start, pause, patch, delete) that race with the attempt.      *)
(*                                                                         *)
(* Between any two awaits of a handler or of the worker the others run, so *)
(* every database or queue call is a step of its own.  What the attempt    *)
(* copies is in module CdcReplica; here an event either is handed to the   *)
(* writer or is not.                                                       *)
(***************************************************************************)
EXTENDS Integers, FiniteSets

CONSTANTS Client,       \* who can have a request in flight at the same time
          MaxAttempts,  \* opts.attempts of the BullMQ job (1000 in the code)
          MaxStalls,    \* BullMQ's maxStalledCount (its default is 1)
          MaxRequests,  \* bound: requests issued after the job was created
          MaxCrashes    \* bound: times the API process dies

ASSUME ControlAssumption ==
  /\ Client # {} /\ IsFiniteSet(Client)
  /\ MaxAttempts \in Nat \ {0} /\ MaxStalls \in Nat
  /\ MaxRequests \in Nat /\ MaxCrashes \in Nat

VARIABLES
  row,       \* the CdcSyncJob row
  job,       \* the BullMQ job
  pc,        \* the running attempt's next step, "idle" when there is none
  errs,      \* the attempt's errors > 0
  verdict,   \* the attempt's finalStatus
  hooks,     \* worker.on('failed') handlers not yet run, by what they will say
  req,       \* the request each client has in flight
  requests, crashes,
  want,      \* what the last committed request asked for: "run", "stop", or "open" (a PATCH
             \* enabled the sync again, which starts nothing, or a start was still under way)
  extra      \* events handed to the writer since it was "stop" (2: or more)

worker == <<pc, errs, verdict>>
bounds == <<requests, crashes>>
intent == <<want, extra>>
vars == <<row, job, pc, errs, verdict, hooks, req, requests, crashes, want, extra>>

Status == {"queued", "bootstrapping", "tailing", "paused", "failed"}
Row == [exists : BOOLEAN, enabled : BOOLEAN, pauseRequested : BOOLEAN,
        status : Status, snapshotDone : BOOLEAN]
NewRow == [exists |-> TRUE, enabled |-> TRUE, pauseRequested |-> FALSE,
           status |-> "queued", snapshotDone |-> FALSE]
Gone == [exists |-> FALSE, enabled |-> FALSE, pauseRequested |-> TRUE,
         status |-> "queued", snapshotDone |-> FALSE]

QueueState == {"none", "waiting", "delayed", "active", "completed", "failed"}
Job == [state : QueueState, attemptsMade : Nat, stalls : Nat]
NoJob == [state |-> "none", attemptsMade |-> 0, stalls |-> 0]
Live == {"waiting", "delayed", "active"}

Working == {"bootstrap", "stream", "apply"}
PC == {"idle", "read", "topPause", "mark", "stop", "final", "done", "throw"} \cup Working

Request == [op : {"create"}, step : {"add"}]
           \cup [op : {"start"}, step : {"update", "look", "remove", "add"}]
           \cup [op : {"pause"}, step : {"update", "look", "remove"}]
           \cup [op : {"delete"}, step : {"look", "remove", "disable", "drop"}]
NoRequest == [op |-> "none", step |-> "none"]

TypeOK ==
  /\ row \in Row /\ job \in Job
  /\ pc \in PC /\ errs \in BOOLEAN /\ verdict \in Status
  /\ hooks \in SUBSET {"retry", "final"}
  /\ req \in [Client -> Request \cup {NoRequest}]
  /\ requests \in Nat /\ crashes \in Nat
  /\ want \in {"run", "stop", "open"} /\ extra \in 0..2

\* POST / has created the row and is about to enqueue.
Init ==
  /\ row = NewRow /\ job = NoJob
  /\ pc = "idle" /\ errs = FALSE /\ verdict = "queued"
  /\ hooks = {}
  /\ \E c \in Client :
       req = [d \in Client |-> IF d = c THEN [op |-> "create", step |-> "add"]
                                        ELSE NoRequest]
  /\ requests = 0 /\ crashes = 0
  /\ want = "run" /\ extra = 0

-----------------------------------------------------------------------------
(* BullMQ, as the code uses it. *)

\* add() with an explicit jobId does nothing while a job of that id exists.
Added == IF job.state = "none" THEN [NoJob EXCEPT !.state = "waiting"] ELSE job

\* What worker.on('failed') finds: willRetry or not.
Outcome(made) == IF made < MaxAttempts THEN "retry" ELSE "final"

\* The delay of a failed attempt is over.
Promote ==
  /\ job.state = "delayed"
  /\ job' = [job EXCEPT !.state = "waiting"]
  /\ UNCHANGED <<row, worker, hooks, req, bounds, intent>>

\* A job whose lock was lost is put back, at most MaxStalls times.
CheckStalled ==
  /\ job.state = "active" /\ pc = "idle"
  /\ IF job.stalls < MaxStalls
     THEN /\ job' = [job EXCEPT !.state = "waiting", !.stalls = @ + 1]
          /\ UNCHANGED hooks
     ELSE /\ job' = [job EXCEPT !.state = "failed"]
          /\ hooks' = hooks \cup {Outcome(job.attemptsMade)}
  /\ UNCHANGED <<row, worker, req, bounds, intent>>

-----------------------------------------------------------------------------
(* The worker (startCdcWorker). *)

PickUp ==
  /\ job.state = "waiting" /\ pc = "idle"
  /\ job' = [job EXCEPT !.state = "active"]
  /\ pc' = "read" /\ errs' = FALSE
  /\ UNCHANGED <<row, verdict, hooks, req, bounds, intent>>

Stopped == ~row.exists \/ ~row.enabled

\* findUnique: discard, honour a pause, or start.
ReadRow ==
  /\ pc = "read"
  /\ pc' = IF Stopped THEN "done" ELSE IF row.pauseRequested THEN "topPause" ELSE "mark"
  /\ UNCHANGED <<row, job, errs, verdict, hooks, req, bounds, intent>>

\* prisma.cdcSyncJob.update throws when the row has been deleted.
Update(newRow, next) ==
  IF row.exists THEN row' = newRow /\ pc' = next ELSE pc' = "throw" /\ UNCHANGED row

TopPause ==
  /\ pc = "topPause"
  /\ Update([row EXCEPT !.status = "paused", !.pauseRequested = FALSE], "done")
  /\ UNCHANGED <<job, errs, verdict, hooks, req, bounds, intent>>

MarkRunning ==
  /\ pc = "mark"
  /\ Update([row EXCEPT !.status = IF row.snapshotDone THEN "tailing" ELSE "bootstrapping"],
            IF row.snapshotDone THEN "stream" ELSE "bootstrap")
  /\ UNCHANGED <<job, errs, verdict, hooks, req, bounds, intent>>

BootstrapDone ==
  /\ pc = "bootstrap"
  /\ Update([row EXCEPT !.snapshotDone = TRUE, !.status = "tailing"], "stream")
  /\ UNCHANGED <<job, errs, verdict, hooks, req, bounds, intent>>

\* failRun, then rethrow.
BootstrapFails ==
  /\ pc = "bootstrap"
  /\ Update([row EXCEPT !.status = "failed"], "throw")
  /\ UNCHANGED <<job, errs, verdict, hooks, req, bounds, intent>>

\* Mutant of EventArrives: the row is not read again.
EventArrivesUnchecked ==
  /\ pc = "stream"
  /\ pc' = "apply"
  /\ UNCHANGED <<row, job, errs, verdict, hooks, req, bounds, intent>>

\* Mutant of EventArrives: only pauseRequested is looked at.
EventArrivesIgnoresDisabled ==
  /\ pc = "stream"
  /\ pc' = IF row.exists /\ row.pauseRequested THEN "stop" ELSE "apply"
  /\ UNCHANGED <<row, job, errs, verdict, hooks, req, bounds, intent>>

\* An event is yielded: the row is read again before it is applied.
EventArrives ==
  /\ pc = "stream"
  /\ pc' = IF Stopped \/ row.pauseRequested THEN "stop" ELSE "apply"
  /\ UNCHANGED <<row, job, errs, verdict, hooks, req, bounds, intent>>

\* applyChange and the cursor update, or its failure and the lastError update.
ApplyEvent ==
  /\ pc = "apply"
  /\ errs' \in {errs, TRUE}
  /\ Update(row, "stream")
  /\ extra' = IF want = "stop" /\ extra < 2 THEN extra + 1 ELSE extra
  /\ UNCHANGED <<job, verdict, hooks, req, bounds, want>>

\* The connection drops: the iterator throws.
StreamFails ==
  /\ pc = "stream"
  /\ pc' = "throw"
  /\ UNCHANGED <<row, job, errs, verdict, hooks, req, bounds, intent>>

\* The iterator ends (a Mongo stream is invalidated).
StreamEnds ==
  /\ pc = "stream"
  /\ pc' = "stop"
  /\ UNCHANGED <<row, job, errs, verdict, hooks, req, bounds, intent>>

\* Mutant of DecideStatus: a clean end has the status of a run.
DecideStatusOfRun ==
  /\ pc = "stop"
  /\ verdict' = IF Stopped \/ row.pauseRequested THEN "paused"
                ELSE IF errs THEN "failed" ELSE "completed"
  /\ pc' = "final"
  /\ UNCHANGED <<row, job, errs, hooks, req, bounds, intent>>

\* The final status is decided on one read of the row ...
DecideStatus ==
  /\ pc = "stop"
  /\ verdict' = IF Stopped \/ row.pauseRequested THEN "paused"
                ELSE IF errs THEN "failed" ELSE "tailing"
  /\ pc' = "final"
  /\ UNCHANGED <<row, job, errs, hooks, req, bounds, intent>>

\* Mutant of WriteFinal: the row is upserted.
WriteFinalUpserts ==
  /\ pc = "final"
  /\ row' = [(IF row.exists THEN row ELSE NewRow) EXCEPT !.status = verdict,
                                                        !.pauseRequested = FALSE]
  /\ pc' = "done"
  /\ UNCHANGED <<job, errs, verdict, hooks, req, bounds, intent>>

\* ... and written by a later update, which also clears pauseRequested.
WriteFinal ==
  /\ pc = "final"
  /\ Update([row EXCEPT !.status = verdict, !.pauseRequested = FALSE], "done")
  /\ UNCHANGED <<job, errs, verdict, hooks, req, bounds, intent>>

\* The processor returned: BullMQ moves the job to completed.
Complete ==
  /\ pc = "done"
  /\ pc' = "idle" /\ errs' = FALSE /\ verdict' = "queued"
  /\ job' = [job EXCEPT !.state = "completed"]
  /\ UNCHANGED <<row, hooks, req, bounds, intent>>

\* The processor threw: BullMQ schedules a retry, or gives up.
Fail ==
  /\ pc = "throw"
  /\ pc' = "idle" /\ errs' = FALSE /\ verdict' = "queued"
  /\ LET made == job.attemptsMade + 1 IN
       /\ job' = [job EXCEPT !.attemptsMade = made,
                             !.state = IF made < MaxAttempts THEN "delayed" ELSE "failed"]
       /\ hooks' = hooks \cup {Outcome(made)}
  /\ UNCHANGED <<row, req, bounds, intent>>

\* worker.on('failed'): the status is written some time after the failure.
FailedHook ==
  \E outcome \in hooks :
    /\ hooks' = hooks \ {outcome}
    /\ row' = IF row.exists
              THEN [row EXCEPT !.status = IF outcome = "retry" THEN "tailing" ELSE "failed"]
              ELSE row
    /\ UNCHANGED <<job, worker, req, bounds, intent>>

-----------------------------------------------------------------------------
(* The routes.  A request is issued against an existing row (404 otherwise). *)

FirstStep(op) == IF op = "delete" THEN "look" ELSE "update"

Issue(c, op) ==
  /\ req[c] = NoRequest /\ requests < MaxRequests /\ row.exists
  /\ requests' = requests + 1
  /\ req' = [req EXCEPT ![c] = [op |-> op, step |-> FirstStep(op)]]
  /\ UNCHANGED <<row, job, worker, hooks, crashes, intent>>

At(c, op, step) == req[c] = [op |-> op, step |-> step]
GoTo(c, step) == req' = [req EXCEPT ![c].step = step]
Respond(c) == req' = [req EXCEPT ![c] = NoRequest]

\* A start or the creation has taken effect and has not added its job yet.
Starting(c) == req[c].op \in {"start", "create"} /\ req[c].step # "update"

\* A stop that overtakes a start does not say which of them counts.
AskedToStop == want' = IF \E c \in Client : Starting(c) THEN "open" ELSE "stop"

\* start: the row is reset first; the update throws when the row is gone.
StartUpdate(c) ==
  /\ At(c, "start", "update")
  /\ IF row.exists
     THEN /\ row' = [row EXCEPT !.enabled = TRUE, !.pauseRequested = FALSE,
                                !.status = "queued"]
          /\ want' = "run" /\ extra' = 0
          /\ GoTo(c, "look")
     ELSE Respond(c) /\ UNCHANGED <<row, intent>>
  /\ UNCHANGED <<job, worker, hooks, bounds>>

\* Mutant of PauseUpdate: the route shows the sync as paused at once.
PauseUpdateAtOnce(c) ==
  /\ At(c, "pause", "update")
  /\ IF row.exists
     THEN /\ row' = [row EXCEPT !.pauseRequested = TRUE, !.status = "paused"]
          /\ AskedToStop /\ extra' = 0
          /\ GoTo(c, "look")
     ELSE Respond(c) /\ UNCHANGED <<row, intent>>
  /\ UNCHANGED <<job, worker, hooks, bounds>>

PauseUpdate(c) ==
  /\ At(c, "pause", "update")
  /\ IF row.exists
     THEN /\ row' = [row EXCEPT !.pauseRequested = TRUE]
          /\ AskedToStop /\ extra' = 0
          /\ GoTo(c, "look")
     ELSE Respond(c) /\ UNCHANGED <<row, intent>>
  /\ UNCHANGED <<job, worker, hooks, bounds>>

\* What follows the removal: add(), the response, or the row's deletion.
Proceed(c) ==
  IF req[c].op = "pause" THEN Respond(c)
  ELSE GoTo(c, IF req[c].op = "start" THEN "add" ELSE "disable")

\* getJob and getState: which jobs the request goes on to remove.
Look(c) ==
  /\ req[c].step = "look"
  /\ LET removes == IF req[c].op = "start" THEN {"completed", "failed"}
                    ELSE {"waiting", "delayed"}
     IN IF job.state \in removes THEN GoTo(c, "remove") ELSE Proceed(c)
  /\ UNCHANGED <<row, job, worker, hooks, bounds, intent>>

\* remove(): whatever state the job is in by now; it throws for a locked one.
Remove(c) ==
  /\ req[c].step = "remove"
  /\ \/ /\ job.state # "active" \/ pc = "idle"
        /\ job' = NoJob
        /\ Proceed(c)
     \/ /\ job.state = "active"
        /\ IF req[c].op = "start" THEN GoTo(c, "add") ELSE Respond(c)
        /\ UNCHANGED job
  /\ UNCHANGED <<row, worker, hooks, bounds, intent>>

\* enqueueCdcSync, for create and start.
Enqueue(c) ==
  /\ req[c].step = "add"
  /\ job' = Added
  /\ Respond(c)
  /\ UNCHANGED <<row, worker, hooks, bounds, intent>>

DeleteDisable(c) ==
  /\ At(c, "delete", "disable")
  /\ IF row.exists
     THEN /\ row' = [row EXCEPT !.enabled = FALSE, !.pauseRequested = TRUE]
          /\ AskedToStop /\ extra' = 0
          /\ GoTo(c, "drop")
     ELSE Respond(c) /\ UNCHANGED <<row, intent>>
  /\ UNCHANGED <<job, worker, hooks, bounds>>

DeleteRow(c) ==
  /\ At(c, "delete", "drop")
  /\ row' = Gone
  /\ Respond(c)
  /\ UNCHANGED <<job, worker, hooks, bounds, intent>>

\* PATCH { enabled }: the row only.
Patch(on) ==
  /\ requests < MaxRequests /\ row.exists /\ row.enabled # on
  /\ requests' = requests + 1
  /\ row' = [row EXCEPT !.enabled = on]
  /\ IF on THEN want' = "open" ELSE AskedToStop
  /\ extra' = 0
  /\ UNCHANGED <<job, worker, hooks, req, crashes>>

\* deleteConnection: one transaction disables the syncs of the connection and
\* deletes it, and the sync's row with it (onDelete: Cascade).
DeleteConnection ==
  /\ requests < MaxRequests /\ row.exists
  /\ requests' = requests + 1
  /\ row' = Gone
  /\ AskedToStop /\ extra' = 0
  /\ UNCHANGED <<job, worker, hooks, req, crashes>>

\* The API process dies: the attempt, the handlers and the hooks run in it.
Crash ==
  /\ crashes < MaxCrashes
  /\ crashes' = crashes + 1
  /\ pc' = "idle" /\ errs' = FALSE /\ verdict' = "queued"
  /\ hooks' = {} /\ req' = [c \in Client |-> NoRequest]
  /\ UNCHANGED <<row, job, requests, intent>>

-----------------------------------------------------------------------------
\* What an attempt does by itself ...
Attempt ==
  \/ PickUp \/ ReadRow \/ TopPause \/ MarkRunning \/ BootstrapDone \/ BootstrapFails
  \/ ApplyEvent \/ DecideStatus \/ WriteFinal \/ Complete \/ Fail

\* ... and what it waits for in `for await'.
Stream == EventArrives \/ StreamFails \/ StreamEnds

Handle(c) ==
  \/ StartUpdate(c) \/ PauseUpdate(c) \/ Look(c) \/ Remove(c) \/ Enqueue(c)
  \/ DeleteDisable(c) \/ DeleteRow(c)

Next ==
  \/ Attempt \/ Stream \/ FailedHook \/ Promote \/ CheckStalled
  \/ \E c \in Client, op \in {"start", "pause", "delete"} : Issue(c, op)
  \/ \E c \in Client : Handle(c)
  \/ \E on \in BOOLEAN : Patch(on)
  \/ DeleteConnection
  \/ Crash

Spec == Init /\ [][Next]_vars

(* The process keeps running what it has started, and BullMQ promotes delayed jobs
   and recovers stalled ones.  Nobody has to issue a request or crash, and a stream
   may stay silent for ever: nothing wakes the attempt that reads it. *)
Fairness ==
  /\ WF_vars(Attempt) /\ WF_vars(FailedHook) /\ WF_vars(Promote) /\ WF_vars(CheckStalled)
  /\ \A c \in Client : WF_vars(Handle(c))

FairSpec == Spec /\ Fairness

-----------------------------------------------------------------------------
(* A sync shown as paused is not copying or tailing: no attempt that is past
   its first update runs while the row says paused. *)
PausedMeansStopped == row.exists /\ row.status = "paused" => pc \notin Working

(* After a pause, a disable or a delete has been committed, at most the one event already
   checked reaches the writer, until a start or an enable, whatever other requests are under
   way.  Not so for a stop that overtook a start, which adds its job afterwards, nor after a
   crash, which can come between the update that consumes the stop and the job's end. *)
AtMostOneAfterStop == want = "stop" /\ crashes = 0 => extra <= 1

\* Nothing runs this sync and nothing is scheduled to.
Drained == pc = "idle" /\ job.state \notin Live

\* The attempt waits for an event that never comes.
Silent == <>[](pc = "stream")

(* A pause, a disable or a delete that nobody takes back takes effect, under the same
   conditions: in the end no attempt runs and no retry is left, unless an attempt is left in
   a stream that stays silent, where the loop reads the row again only when an event comes. *)
StopDrains == <>[](want = "stop" /\ crashes = 0) => <>[]Drained \/ Silent

(* Once the row is deleted, whatever raced with the deletion ends and stays ended, with
   the same exception. *)
DeleteDrains == <>(~row.exists) => <>[]Drained \/ Silent

\* No request, hook or attempt is in flight.
Quiet == pc = "idle" /\ hooks = {} /\ \A c \in Client : req[c] = NoRequest

(* A committed start leaves work behind: when everything in flight is over, a
   sync last asked to run is not left queued or paused without a job. *)
ResumeTakesEffect ==
  Quiet /\ row.exists /\ want = "run" /\ row.status \in {"queued", "paused"}
    => job.state \in Live
=============================================================================
