-------------------------- MODULE CdcControlProofs --------------------------
(***************************************************************************)
(* Proofs about CdcControl for any number of attempts, stalls, requests    *)
(* and clients: type correctness, and that a sync shown as paused is not   *)
(* working.  As long as the process does not die, that a stop lets at most *)
(* one more event through: a committed stop is either still visible in the *)
(* row, or has been consumed by an attempt after which nothing can start   *)
(* another one.  (A crash can break it: between the update that consumes   *)
(* the stop and the completion of the job.)                                *)
(***************************************************************************)
EXTENDS CdcControl, TLAPS

\* Going to a step that its operation has keeps the requests well formed.
LEMMA GoToRequest ==
  ASSUME TypeOK, NEW c \in Client, NEW o, NEW s, NEW t, At(c, o, t), GoTo(c, s),
         [op |-> o, step |-> s] \in Request
  PROVE  req' \in [Client -> Request \cup {NoRequest}]
<1>1. [req[c] EXCEPT !.step = s] = [op |-> o, step |-> s]
  BY DEF At
<1>2. req' = [req EXCEPT ![c] = [op |-> o, step |-> s]]
  BY <1>1 DEF GoTo
<1> QED
  BY <1>2 DEF TypeOK

\* A handler's step leaves its client with a request of the right shape.
LEMMA RequestStep ==
  ASSUME TypeOK, NEW c \in Client, Handle(c)
  PROVE  req' \in [Client -> Request \cup {NoRequest}]
<1>a. Respond(c) => req' \in [Client -> Request \cup {NoRequest}]
  BY DEF Respond, TypeOK
<1>b. /\ [op |-> "start", step |-> "look"] \in Request
      /\ [op |-> "start", step |-> "remove"] \in Request
      /\ [op |-> "start", step |-> "add"] \in Request
      /\ [op |-> "pause", step |-> "look"] \in Request
      /\ [op |-> "pause", step |-> "remove"] \in Request
      /\ [op |-> "delete", step |-> "remove"] \in Request
      /\ [op |-> "delete", step |-> "disable"] \in Request
      /\ [op |-> "delete", step |-> "drop"] \in Request
  BY DEF Request
<1>1. CASE StartUpdate(c)
  BY <1>1, <1>a, <1>b, GoToRequest DEF StartUpdate
<1>2. CASE PauseUpdate(c)
  BY <1>2, <1>a, <1>b, GoToRequest DEF PauseUpdate
<1>3. CASE DeleteDisable(c)
  BY <1>3, <1>a, <1>b, GoToRequest DEF DeleteDisable
<1>4. CASE Look(c) \/ Remove(c)
  <2>1. req[c] \in Request \/ req[c] = NoRequest
    BY DEF TypeOK
  <2>2. req[c].step \in {"look", "remove"}
    BY <1>4 DEF Look, Remove
  <2>3. \/ At(c, "start", req[c].step)
        \/ At(c, "pause", req[c].step)
        \/ At(c, "delete", req[c].step)
    BY <2>1, <2>2 DEF Request, NoRequest, At
  <2>4. Proceed(c) \/ Respond(c) \/ GoTo(c, "remove") \/ (req[c].op = "start" /\ GoTo(c, "add"))
    BY <1>4 DEF Look, Remove
  <2>5. CASE At(c, "start", req[c].step)
    <3>1. GoTo(c, "remove") \/ GoTo(c, "add") \/ Respond(c)
      BY <2>4, <2>5 DEF At, Proceed
    <3> QED
      BY <2>5, <3>1, <1>a, <1>b, GoToRequest
  <2>6. CASE At(c, "pause", req[c].step)
    <3>1. GoTo(c, "remove") \/ Respond(c)
      BY <2>4, <2>6 DEF At, Proceed
    <3> QED
      BY <2>6, <3>1, <1>a, <1>b, GoToRequest
  <2>7. CASE At(c, "delete", req[c].step)
    <3>1. GoTo(c, "remove") \/ GoTo(c, "disable") \/ Respond(c)
      BY <2>4, <2>7 DEF At, Proceed
    <3> QED
      BY <2>7, <3>1, <1>a, <1>b, GoToRequest
  <2> QED
    BY <2>3, <2>5, <2>6, <2>7
<1>5. CASE Enqueue(c) \/ DeleteRow(c)
  BY <1>5, <1>a DEF Enqueue, DeleteRow
<1> QED
  BY <1>1, <1>2, <1>3, <1>4, <1>5 DEF Handle

\* Any step keeps the types.
LEMMA TypeStep == TypeOK /\ [Next]_vars => TypeOK'
<1> USE ControlAssumption DEF worker, bounds, intent
<1> SUFFICES ASSUME TypeOK, [Next]_vars PROVE TypeOK'
  OBVIOUS
<1>a. /\ row \in Row /\ job \in Job /\ Gone \in Row /\ NoJob \in Job
      /\ job.attemptsMade \in Nat /\ job.stalls \in Nat
      /\ req \in [Client -> Request \cup {NoRequest}]
  BY DEF TypeOK, Gone, NoJob, Row, Job, Status, QueueState
<1>b. ASSUME NEW s \in Status, NEW b \in BOOLEAN
      PROVE  /\ [row EXCEPT !.status = s] \in Row
             /\ [row EXCEPT !.status = s, !.pauseRequested = b] \in Row
             /\ [row EXCEPT !.snapshotDone = b, !.status = s] \in Row
  BY <1>a DEF Row
<1>c. ASSUME NEW q \in QueueState, NEW n \in Nat
      PROVE  /\ [job EXCEPT !.state = q] \in Job
             /\ [job EXCEPT !.state = q, !.stalls = n] \in Job
             /\ [job EXCEPT !.attemptsMade = n, !.state = q] \in Job
             /\ [NoJob EXCEPT !.state = q] \in Job
  BY <1>a DEF Job
<1>1. CASE Attempt \/ Stream
  <2> USE <1>a, <1>b, <1>c DEF PC, Working, Update, TypeOK, Status, QueueState
  <2>1. CASE PickUp \/ ReadRow
    BY <2>1 DEF PickUp, ReadRow
  <2>2. CASE TopPause \/ MarkRunning
    BY <2>2 DEF TopPause, MarkRunning
  <2>3. CASE BootstrapDone \/ BootstrapFails
    BY <2>3 DEF BootstrapDone, BootstrapFails
  <2>4. CASE EventArrives
    BY <2>4 DEF EventArrives
  <2>5. CASE ApplyEvent
    <3>1. errs' \in BOOLEAN
      <4>1. errs' \in {errs, TRUE} /\ errs \in BOOLEAN
        BY <2>5 DEF ApplyEvent
      <4> QED
        BY ONLY <4>1
    <3>3. extra' \in 0..2
      <4>1. (extra' = extra \/ (extra < 2 /\ extra' = extra + 1)) /\ extra \in 0..2
        BY <2>5 DEF ApplyEvent
      <4> QED
        BY ONLY <4>1
    <3>2. row' = row /\ pc' \in {"stream", "throw"}
      BY <2>5 DEF ApplyEvent
    <3> QED
      BY <2>5, <3>1, <3>2, <3>3 DEF ApplyEvent
  <2>6. CASE StreamFails \/ StreamEnds
    BY <2>6 DEF StreamFails, StreamEnds
  <2>7. CASE DecideStatus
    BY <2>7 DEF DecideStatus
  <2>8. CASE WriteFinal
    BY <2>8 DEF WriteFinal
  <2>9. CASE Complete
    BY <2>9 DEF Complete
  <2>10. CASE Fail
    <3> DEFINE made == job.attemptsMade + 1
               next == IF made < MaxAttempts THEN "delayed" ELSE "failed"
    <3>1. made \in Nat /\ next \in QueueState
      <4>1. job.attemptsMade \in Nat
        BY <1>a
      <4> QED
        BY ONLY <4>1 DEF QueueState
    <3> HIDE DEF made, next
    <3>2. [job EXCEPT !.attemptsMade = made, !.state = next] \in Job
      BY <3>1
    <3>3. job' = [job EXCEPT !.attemptsMade = made, !.state = next]
      BY <2>10 DEF Fail, made, next
    <3>4. hooks' \in SUBSET {"retry", "final"}
      BY <2>10 DEF Fail, Outcome
    <3> QED
      BY <2>10, <3>2, <3>3, <3>4 DEF Fail
  <2> QED
    BY <1>1, <2>1, <2>2, <2>3, <2>4, <2>5, <2>6, <2>7, <2>8, <2>9, <2>10 DEF Attempt, Stream
<1>2. CASE FailedHook
  <2>1. row' \in Row
    BY <1>a, <1>2, <1>b DEF FailedHook, Status
  <2>2. hooks' \in SUBSET {"retry", "final"}
    BY <1>2 DEF FailedHook, TypeOK
  <2> QED
    BY <1>2, <2>1, <2>2 DEF FailedHook, TypeOK
<1>3. CASE Promote \/ CheckStalled
  <2>3. hooks' \in SUBSET {"retry", "final"}
    BY <1>3 DEF Promote, CheckStalled, Outcome, TypeOK
  <2>4. job' \in Job
    <3>1. \/ job' = [job EXCEPT !.state = "waiting"]
          \/ job' = [job EXCEPT !.state = "waiting", !.stalls = job.stalls + 1]
          \/ job' = [job EXCEPT !.state = "failed"]
      BY <1>3 DEF Promote, CheckStalled
    <3>2. job.stalls + 1 \in Nat /\ "waiting" \in QueueState /\ "failed" \in QueueState
      BY <1>a DEF QueueState
    <3> QED
      BY <3>1, <3>2, <1>c
  <2> QED
    BY <1>3, <2>3, <2>4 DEF Promote, CheckStalled, TypeOK
<1>4. ASSUME NEW c \in Client, NEW op \in {"start", "pause", "delete"}, Issue(c, op)
      PROVE  TypeOK'
  BY <1>a, <1>4 DEF Issue, FirstStep, Request, TypeOK
<1>5. ASSUME NEW c \in Client, Handle(c) PROVE TypeOK'
  <2>1. req' \in [Client -> Request \cup {NoRequest}]
    BY <1>5, RequestStep
  <2>2. CASE StartUpdate(c) \/ PauseUpdate(c) \/ DeleteDisable(c)
    <3>1. row' \in Row
      BY <1>a, <2>2 DEF StartUpdate, PauseUpdate, DeleteDisable, Row, Status
    <3> QED
      BY <2>1, <2>2, <3>1 DEF StartUpdate, PauseUpdate, DeleteDisable, AskedToStop, TypeOK
  <2>3. CASE Look(c) \/ Remove(c)
    BY <1>a, <2>1, <2>3 DEF Look, Remove, TypeOK
  <2>4. CASE Enqueue(c)
    <3>1. job' \in Job
      BY <1>a, <1>c, <2>4 DEF Enqueue, Added, QueueState
    <3> QED
      BY <2>1, <2>4, <3>1 DEF Enqueue, TypeOK
  <2>5. CASE DeleteRow(c)
    BY <1>a, <2>1, <2>5 DEF DeleteRow, TypeOK
  <2> QED
    BY <1>5, <2>2, <2>3, <2>4, <2>5 DEF Handle
<1>6. ASSUME NEW on \in BOOLEAN, Patch(on) PROVE TypeOK'
  BY <1>6 DEF Patch, AskedToStop, TypeOK, Row
<1>7. CASE DeleteConnection
  BY <1>7, <1>a DEF DeleteConnection, AskedToStop, TypeOK
<1>8. CASE Crash
  <2>1. req' \in [Client -> Request \cup {NoRequest}]
    BY <1>8 DEF Crash
  <2>2. pc' \in PC /\ errs' \in BOOLEAN /\ verdict' \in Status
    BY <1>8 DEF Crash, PC, Status
  <2>3. hooks' \in SUBSET {"retry", "final"} /\ crashes' \in Nat
    BY <1>8 DEF Crash, TypeOK
  <2>4. UNCHANGED <<row, job, requests, want, extra>>
    BY <1>8 DEF Crash
  <2> QED
    BY <2>1, <2>2, <2>3, <2>4 DEF TypeOK
<1>9. CASE UNCHANGED vars
  BY <1>9 DEF vars, TypeOK
<1> QED
  BY <1>1, <1>2, <1>3, <1>4, <1>5, <1>6, <1>7, <1>8, <1>9 DEF Next

\* The initial state has them.
LEMMA TypeInit == Init => TypeOK
<1> SUFFICES ASSUME Init PROVE TypeOK
  OBVIOUS
<1>1. row \in Row /\ job \in Job /\ pc \in PC /\ verdict \in Status
  BY DEF Init, NewRow, NoJob, Row, Job, Status, QueueState, PC
<1>2. req \in [Client -> Request \cup {NoRequest}]
  <2>1. [op |-> "create", step |-> "add"] \in Request
    BY DEF Request
  <2> QED
    BY <2>1 DEF Init
<1>3. errs \in BOOLEAN
  BY DEF Init
<1>4. hooks \in SUBSET {"retry", "final"} /\ want \in {"run", "stop", "open"}
  BY DEF Init
<1>5. requests \in Nat /\ crashes \in Nat /\ extra \in 0..2
  BY DEF Init
<1> QED
  BY <1>1, <1>2, <1>3, <1>4, <1>5 DEF TypeOK

(* The row, the queue, the attempt and the requests keep their types. *)
THEOREM TypeCorrect == Spec => []TypeOK
  BY TypeInit, TypeStep, PTL DEF Spec

-----------------------------------------------------------------------------
\* Of all updates of the status only those that end an attempt write "paused".
LEMMA PausedStep == TypeOK /\ PausedMeansStopped /\ [Next]_vars => PausedMeansStopped'
<1> USE DEF PausedMeansStopped, Working, worker, bounds, intent
<1> SUFFICES ASSUME TypeOK, PausedMeansStopped, [Next]_vars PROVE PausedMeansStopped'
  OBVIOUS
<1>0. row \in Row
  BY DEF TypeOK
<1>1. CASE Attempt \/ Stream
  <2>1. CASE PickUp \/ ReadRow \/ StreamFails \/ StreamEnds \/ DecideStatus \/ Complete \/ Fail
    BY <2>1 DEF PickUp, ReadRow, StreamFails, StreamEnds, DecideStatus, Complete, Fail
  <2>2. CASE EventArrives \/ ApplyEvent
    BY <2>2 DEF EventArrives, ApplyEvent, Update
  <2>3. CASE TopPause \/ WriteFinal
    BY <2>3 DEF TopPause, WriteFinal, Update
  <2>4. CASE MarkRunning \/ BootstrapDone \/ BootstrapFails
    BY <1>0, <2>4 DEF MarkRunning, BootstrapDone, BootstrapFails, Update, Row
  <2> QED
    BY <1>1, <2>1, <2>2, <2>3, <2>4 DEF Attempt, Stream
<1>2. CASE FailedHook
  BY <1>0, <1>2 DEF FailedHook, Row
<1>3. ASSUME NEW c \in Client, Handle(c) PROVE PausedMeansStopped'
  <2>1. CASE StartUpdate(c) \/ PauseUpdate(c) \/ DeleteDisable(c)
    BY <1>0, <2>1 DEF StartUpdate, PauseUpdate, DeleteDisable, Row
  <2>2. CASE Look(c) \/ Remove(c) \/ Enqueue(c)
    BY <2>2 DEF Look, Remove, Enqueue
  <2>3. CASE DeleteRow(c)
    BY <2>3 DEF DeleteRow, Gone
  <2> QED
    BY <1>3, <2>1, <2>2, <2>3 DEF Handle
<1>4. ASSUME NEW on \in BOOLEAN, Patch(on) PROVE PausedMeansStopped'
  BY <1>0, <1>4 DEF Patch, Row
<1>5. CASE DeleteConnection \/ Crash
  BY <1>5 DEF DeleteConnection, Gone, Crash
<1>6. CASE Promote \/ CheckStalled \/ UNCHANGED vars
  BY <1>6 DEF Promote, CheckStalled, vars
<1>7. ASSUME NEW c \in Client, NEW op \in {"start", "pause", "delete"}, Issue(c, op)
      PROVE  PausedMeansStopped'
  BY <1>7 DEF Issue
<1> QED
  BY <1>1, <1>2, <1>3, <1>4, <1>5, <1>6, <1>7 DEF Next

(* A sync shown as paused is not copying or tailing, whatever requests, retries,
   stalls and crashes happened. *)
THEOREM PausedMeansStoppedHolds == Spec => []PausedMeansStopped
<1>1. Init => PausedMeansStopped
  BY DEF Init, NewRow, PausedMeansStopped
<1> QED
  BY <1>1, TypeInit, TypeStep, PausedStep, PTL DEF Spec

-----------------------------------------------------------------------------
\* Without crashes a job is active exactly while an attempt runs it.
ActiveIsRunning == pc = "idle" <=> job.state # "active"

\* A stop is visible in the row, or has been consumed and nothing is left to
\* start an attempt: no live job, and no start or create about to add one.
StopHeld ==
  want = "stop" /\ row.exists /\ row.enabled =>
    row.pauseRequested \/ pc = "done" \/ job.state \notin Live

\* A stop counts from a moment when no start was under way.
NoneStarting == want = "stop" => \A c \in Client : ~Starting(c)

\* At most the event already checked goes through.
OneMore == want = "stop" => extra <= 1 /\ (pc = "apply" => extra = 0)

StopInv == TypeOK /\ ActiveIsRunning /\ StopHeld /\ NoneStarting /\ OneMore

\* A worker step keeps it.
LEMMA AttemptKeepsStop == StopInv /\ TypeOK' /\ (Attempt \/ Stream) => StopInv'
<1> SUFFICES ASSUME StopInv, TypeOK', Attempt \/ Stream PROVE StopInv'
  OBVIOUS
<1>0. row \in Row /\ job \in Job /\ extra \in 0..2
  BY DEF StopInv, TypeOK
<1> USE DEF StopInv, ActiveIsRunning, StopHeld, NoneStarting, Starting, OneMore, Live, worker, bounds, intent
<1>1. CASE PickUp \/ ReadRow
  BY <1>0, <1>1 DEF PickUp, ReadRow, Job
<1>2. CASE TopPause \/ WriteFinal
  BY <1>0, <1>2 DEF TopPause, WriteFinal, Update, Row
<1>3. CASE MarkRunning \/ BootstrapDone \/ BootstrapFails
  BY <1>0, <1>3 DEF MarkRunning, BootstrapDone, BootstrapFails, Update, Row
<1>4. CASE EventArrives
  BY <1>0, <1>4 DEF EventArrives, Stopped
<1>5. CASE ApplyEvent
  BY <1>0, <1>5 DEF ApplyEvent, Update
<1>6. CASE StreamFails \/ StreamEnds \/ DecideStatus
  BY <1>0, <1>6 DEF StreamFails, StreamEnds, DecideStatus
<1>7. CASE Complete
  BY <1>0, <1>7 DEF Complete, Job
<1>8. CASE Fail
  <2>1. pc = "throw" /\ pc' = "idle" /\ job'.state \in {"delayed", "failed"}
    BY <1>0, <1>8 DEF Fail, Job
  <2>2. UNCHANGED <<row, req, want, extra>>
    BY <1>8 DEF Fail
  <2> QED
    BY <2>1, <2>2
<1> QED
  BY <1>1, <1>2, <1>3, <1>4, <1>5, <1>6, <1>7, <1>8 DEF Attempt, Stream

\* A step of a client's request keeps it, whatever the others have in flight.
LEMMA HandleKeepsStop ==
  ASSUME StopInv, TypeOK', NEW c \in Client, Handle(c)
  PROVE  StopInv'
<1>0. /\ row \in Row /\ job \in Job /\ extra \in 0..2
      /\ req \in [Client -> Request \cup {NoRequest}]
  BY DEF StopInv, TypeOK
<1> USE DEF StopInv, ActiveIsRunning, StopHeld, OneMore, Live, worker, bounds, intent
<1>o. ASSUME ~Starting(c)', want' = want, \A d \in Client : d # c => req'[d] = req[d]
      PROVE  NoneStarting'
  BY <1>o DEF NoneStarting, Starting
<1>r. Respond(c) => /\ ~Starting(c)'
                    /\ \A d \in Client : d # c => req'[d] = req[d]
  BY <1>0 DEF Respond, Starting, NoRequest
<1>g. ASSUME NEW s, GoTo(c, s)
      PROVE  /\ req'[c].op = req[c].op
             /\ \A d \in Client : d # c => req'[d] = req[d]
  BY <1>0, <1>g DEF GoTo, Request, NoRequest
<1>1. CASE StartUpdate(c)
  <2>1. CASE row.exists
    <3>1. want' = "run"
      BY <1>1, <2>1 DEF StartUpdate
    <3>2. UNCHANGED <<job, pc>>
      BY <1>1 DEF StartUpdate
    <3> QED BY <3>1, <3>2 DEF NoneStarting
  <2>2. CASE ~row.exists
    <3>1. Respond(c) /\ UNCHANGED <<row, job, pc, want, extra>>
      BY <1>1, <2>2 DEF StartUpdate
    <3> QED BY <3>1, <1>r, <1>o
  <2> QED
    BY <2>1, <2>2
<1>2. CASE PauseUpdate(c)
  <2>1. CASE row.exists
    <3>1. row'.pauseRequested /\ extra' = 0 /\ UNCHANGED <<job, pc>>
      BY <1>0, <1>2, <2>1 DEF PauseUpdate, Row
    <3>2. want' = "stop" => \A d \in Client : ~Starting(d)
      BY <1>2, <2>1 DEF PauseUpdate, AskedToStop
    <3>3. ~Starting(c)' /\ \A d \in Client : d # c => req'[d] = req[d]
      BY <1>2, <2>1, <1>g DEF PauseUpdate, At, Starting
    <3>4. NoneStarting'
      BY <3>2, <3>3 DEF NoneStarting, Starting
    <3> QED
      BY <3>1, <3>4
  <2>2. CASE ~row.exists
    <3>1. Respond(c) /\ UNCHANGED <<row, job, pc, want, extra>>
      BY <1>2, <2>2 DEF PauseUpdate
    <3> QED BY <3>1, <1>r, <1>o
  <2> QED
    BY <2>1, <2>2
<1>3. CASE DeleteDisable(c)
  <2>1. CASE row.exists
    <3>1. ~row'.enabled /\ extra' = 0 /\ UNCHANGED <<job, pc>>
      BY <1>0, <1>3, <2>1 DEF DeleteDisable, Row
    <3>2. want' = "stop" => \A d \in Client : ~Starting(d)
      BY <1>3, <2>1 DEF DeleteDisable, AskedToStop
    <3>3. ~Starting(c)' /\ \A d \in Client : d # c => req'[d] = req[d]
      BY <1>3, <2>1, <1>g DEF DeleteDisable, At, Starting
    <3>4. NoneStarting'
      BY <3>2, <3>3 DEF NoneStarting, Starting
    <3> QED
      BY <3>1, <3>4
  <2>2. CASE ~row.exists
    <3>1. Respond(c) /\ UNCHANGED <<row, job, pc, want, extra>>
      BY <1>3, <2>2 DEF DeleteDisable
    <3> QED BY <3>1, <1>r, <1>o
  <2> QED
    BY <2>1, <2>2
<1>4. CASE Look(c) \/ Remove(c)
  <2>1. UNCHANGED <<row, pc, want, extra>> /\ req[c].step \in {"look", "remove"}
    BY <1>4 DEF Look, Remove
  <2>2. job' = job \/ (job' = NoJob /\ (job.state # "active" \/ pc = "idle"))
    BY <1>4 DEF Look, Remove
  <2>3. Respond(c) \/ GoTo(c, "remove") \/ GoTo(c, "add") \/ GoTo(c, "disable")
    BY <1>4 DEF Look, Remove, Proceed
  <2>4. \A d \in Client : d # c => req'[d] = req[d]
    BY <2>3, <1>r, <1>g
  <2>5. CASE want = "stop"
    <3>1. req[c].op \notin {"start", "create"}
      BY <2>1, <2>5 DEF NoneStarting, Starting
    <3>2. ~Starting(c)'
      BY <3>1, <2>3, <1>r, <1>g DEF Starting
    <3>3. NoneStarting'
      BY <2>1, <2>4, <3>2, <1>o
    <3> QED
      BY <2>1, <2>2, <3>3 DEF NoJob
  <2>6. CASE want # "stop"
    BY <2>1, <2>2, <2>6 DEF NoJob, NoneStarting
  <2> QED
    BY <2>5, <2>6
<1>5. CASE Enqueue(c)
  <2>1. req[c].op \in {"start", "create"} /\ req[c].step = "add"
    BY <1>0, <1>5 DEF Enqueue, Request, NoRequest
  <2>2. want # "stop"
    BY <2>1 DEF NoneStarting, Starting
  <2>3. job' = job \/ (job.state = "none" /\ job'.state = "waiting")
    BY <1>5 DEF Enqueue, Added, NoJob
  <2> QED
    BY <1>5, <2>2, <2>3 DEF Enqueue, NoneStarting
<1>6. CASE DeleteRow(c)
  <2>1. Respond(c) /\ ~row'.exists /\ UNCHANGED <<job, pc, want, extra>>
    BY <1>6 DEF DeleteRow, Gone
  <2> QED BY <2>1, <1>r, <1>o
<1> QED
  BY <1>1, <1>2, <1>3, <1>4, <1>5, <1>6 DEF Handle

\* No step takes a crash back.
LEMMA CrashesGrow ==
  ASSUME TypeOK, [Next]_vars
  PROVE  crashes' = crashes \/ crashes' = crashes + 1
<1> USE DEF worker, bounds, intent
<1>1. CASE Attempt \/ Stream
  BY <1>1 DEF Attempt, Stream, PickUp, ReadRow, TopPause, MarkRunning, BootstrapDone,
     BootstrapFails, ApplyEvent, DecideStatus, WriteFinal, Complete, Fail, EventArrives,
     StreamFails, StreamEnds
<1>2. CASE FailedHook \/ Promote \/ CheckStalled \/ DeleteConnection \/ Crash
  BY <1>2 DEF FailedHook, Promote, CheckStalled, DeleteConnection, Crash
<1>3. CASE \E c \in Client : Handle(c)
  BY <1>3 DEF Handle, StartUpdate, PauseUpdate, Look, Remove, Enqueue, DeleteDisable, DeleteRow
<1>4. CASE (\E on \in BOOLEAN : Patch(on))
           \/ \E c \in Client, op \in {"start", "pause", "delete"} : Issue(c, op)
  BY <1>4 DEF Patch, Issue
<1>5. CASE UNCHANGED vars
  BY <1>5 DEF vars
<1> QED
  BY <1>1, <1>2, <1>3, <1>4, <1>5 DEF Next

\* The invariant is kept by every step but a crash and what follows one.
LEMMA StopInvStep ==
  ASSUME crashes' = 0, crashes = 0, StopInv, [Next]_vars
  PROVE  StopInv'
<1>0. TypeOK /\ TypeOK'
  BY TypeStep DEF StopInv
<1>1. row \in Row /\ job \in Job
  BY <1>0 DEF TypeOK
<1>2. CASE Attempt \/ Stream
  BY <1>0, <1>2, AttemptKeepsStop
<1>3. ASSUME NEW c \in Client, Handle(c) PROVE StopInv'
  BY <1>0, <1>3, HandleKeepsStop
<1> USE DEF StopInv, ActiveIsRunning, StopHeld, OneMore, Live, worker, bounds, intent
<1>4. CASE FailedHook
  BY <1>0, <1>1, <1>4 DEF FailedHook, Row, NoneStarting, Starting
<1>5. CASE Promote
  BY <1>0, <1>1, <1>5 DEF Promote, Job, NoneStarting, Starting
<1>6. ~CheckStalled /\ ~Crash
  BY DEF CheckStalled, Crash
<1>7. ASSUME NEW c \in Client, NEW op \in {"start", "pause", "delete"}, Issue(c, op)
      PROVE  StopInv'
  <2>1. UNCHANGED <<row, job, pc, want, extra>>
    BY <1>7 DEF Issue
  <2>2. \A d \in Client : Starting(d)' => Starting(d)
    BY <1>0, <1>7 DEF Issue, FirstStep, TypeOK, Starting
  <2>3. NoneStarting'
    BY <2>1, <2>2 DEF NoneStarting
  <2> QED
    BY <1>0, <2>1, <2>3
<1>8. ASSUME NEW on \in BOOLEAN, Patch(on) PROVE StopInv'
  <2>1. UNCHANGED <<job, pc, req>> /\ extra' = 0
    BY <1>8 DEF Patch
  <2>2. want' = "stop" => row'.enabled = FALSE /\ \A d \in Client : ~Starting(d)
    BY <1>1, <1>8 DEF Patch, AskedToStop, Row
  <2>3. NoneStarting'
    BY <2>1, <2>2 DEF NoneStarting, Starting
  <2> QED
    BY <1>0, <2>1, <2>2, <2>3
<1>9. CASE DeleteConnection
  <2>1. UNCHANGED <<job, pc, req>> /\ extra' = 0 /\ ~row'.exists
    BY <1>9 DEF DeleteConnection, Gone
  <2>2. NoneStarting'
    BY <1>9 DEF DeleteConnection, AskedToStop, NoneStarting, Starting
  <2> QED
    BY <1>0, <2>1, <2>2
<1>10. CASE UNCHANGED vars
  BY <1>0, <1>10 DEF vars, NoneStarting, Starting
<1> QED
  BY <1>2, <1>3, <1>4, <1>5, <1>6, <1>7, <1>8, <1>9, <1>10 DEF Next

(* After a pause, a disable or a delete at most the one event already checked is handed to
   the writer, for any number of clients and requests under way, as long as the process
   does not die. *)
THEOREM AtMostOneAfterStopHolds == Spec => []AtMostOneAfterStop
<1> DEFINE Inv == crashes \in Nat /\ (crashes = 0 => StopInv)
<1>1. Init => TypeOK /\ Inv
  <2> SUFFICES ASSUME Init PROVE TypeOK /\ Inv
    OBVIOUS
  <2>1. TypeOK /\ crashes \in Nat
    BY TypeInit DEF TypeOK
  <2>2. StopInv
    BY <2>1 DEF Init, StopInv, ActiveIsRunning, StopHeld, NoneStarting, OneMore, NoJob
  <2> QED BY <2>1, <2>2
<1>2. TypeOK /\ Inv /\ [Next]_vars => Inv'
  <2> SUFFICES ASSUME TypeOK, Inv, [Next]_vars, crashes' = 0 PROVE StopInv'
    BY TypeStep DEF TypeOK
  <2>1. crashes = 0
    BY CrashesGrow DEF TypeOK
  <2> QED BY <2>1, StopInvStep
<1>3. Inv => AtMostOneAfterStop
  BY DEF StopInv, OneMore, AtMostOneAfterStop
<1> QED
  BY <1>1, <1>2, <1>3, TypeStep, PTL DEF Spec
=============================================================================
