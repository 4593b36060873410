---------------------------- MODULE BackupProofs ----------------------------
(***************************************************************************)
(* Proofs about Backup for any number of clients, runs, restores, crashes  *)
(* and any Keep: type correctness, that the newest Keep backups can be     *)
(* restored, that a pruned run leaves no archive, that the retention       *)
(* leaves Keep successes, that a restore in flight is carried; and, for    *)
(* one client at a time, that Redis has the schedule of the row.           *)
(***************************************************************************)
EXTENDS Backup, FiniteSetTheorems, WellFoundedInduction, TLAPS

\* The attempt has a run and has not settled it.
Open == {"mark", "dump", "open", "write", "succeed", "catch"}

\* The attempt's own run: unsettled, or deleted with its job; written when it
\* is about to become a success.
AttemptInv ==
  /\ pc \in Open => /\ cur \in Run
                    /\ run[cur] = "running" \/ (run[cur] = "gone" /\ ~jobRow.exists)
  /\ pc = "succeed" /\ run[cur] = "running" => archive[cur] = "complete"
  /\ pc = "markSuccess" => cur \in Run /\ run[cur] \in {"success", "gone"}

\* The runs go with the job.
CascadeInv == ~jobRow.exists => \A n \in Run : run[n] \in {"none", "gone"}

\* A DELETE removes the archives of runs that were successes.
DeleteInv ==
  /\ \A n \in doomed : run[n] \in {"success", "gone"}
  /\ \A c \in Client : req[c].files \subseteq doomed

\* The retention removes runs that stay beyond Keep newer ones, one at a time,
\* each after its archive.
PruneInv ==
  /\ pc \in {"prune", "drop"} =>
       \A n \in old : n \in Beyond(Keep) \/ (run[n] = "gone" /\ ~jobRow.exists)
  /\ pc = "drop" => \A n \in old : Newest(old, n) => archive[n] = "absent"

IInv ==
  /\ TypeOK /\ AttemptInv /\ CascadeInv /\ DeleteInv /\ PruneInv
  /\ NewestRestorable /\ PrunedHasNoArchive

\* For one client at a time: where Redis and the row stand at each step of a
\* request that schedules, and during the start of the scheduler.
ScheduleInv ==
  /\ boot # "up" => \A c \in Client : req[c] = NoRequest
  /\ boot = "add" => Scheduled /\ repeat = {}
  /\ boot = "up" => \A c \in Client :
       /\ req[c].step \notin {"list", "remove", "add"} /\ req[c].step # "drop" /\ jobRow.exists
            => repeat = Expected
       /\ req[c].step \in {"list", "remove", "add"} /\ req[c].op # "delete" /\ jobRow.exists
            => req[c].active = jobRow.active /\ req[c].schedule = jobRow.schedule
       /\ req[c].step = "remove" => req[c].keys = repeat
       /\ req[c].step = "add" => repeat = {} /\ Schedules(c)

-----------------------------------------------------------------------------
USE DEF backup, restorer, queues, bounds, Rest, Others, Workers

\* A request stays one when some of its fields change.
LEMMA RequestFields ==
  ASSUME NEW r \in Request
  PROVE  /\ \A s \in Step : [r EXCEPT !.step = s] \in Request
         /\ \A s \in Step, k \in SUBSET Schedule : [r EXCEPT !.step = s, !.keys = k] \in Request
         /\ \A s \in Step, f \in SUBSET Run : [r EXCEPT !.step = s, !.files = f] \in Request
         /\ \A f \in SUBSET Run : [r EXCEPT !.files = f] \in Request
         /\ \A s \in Step, m \in RestoreRun : [r EXCEPT !.step = s, !.restore = m] \in Request
BY DEF Request

\* So does a restore.
LEMMA RestoreFields ==
  ASSUME NEW r \in Restore
  PROVE  /\ \A s \in RunStatus \cup {"queued"} : [r EXCEPT !.status = s] \in Restore
         /\ \A n \in {0} \cup Run, s \in RunStatus \cup {"queued"} :
              [r EXCEPT !.of = n, !.status = s] \in Restore
         /\ \A j \in {"none", "waiting", "active", "ended"} : [r EXCEPT !.job = j] \in Restore
         /\ \A j \in {"none", "waiting", "active", "ended"}, k \in 0..MaxStalls :
              [r EXCEPT !.job = j, !.stalls = k] \in Restore
BY DEF Restore

LEMMA NoRequestTyped == NoRequest \in Request
BY DEF NoRequest, Request, Step, Schedule

LEMMA NoRestoreTyped == NoRestore \in Restore
BY BackupAssumption DEF NoRestore, Restore, RunStatus

LEMMA WithoutTyped ==
  ASSUME TypeOK, NEW S
  PROVE  WithoutRestoresOf(S) \in [RestoreRun -> Restore]
BY RestoreFields DEF TypeOK, WithoutRestoresOf, RunStatus

\* The backup worker keeps the types.
LEMMA AttemptTyped == TypeOK /\ Attempt => TypeOK'
<1> SUFFICES ASSUME TypeOK, Attempt PROVE TypeOK'
  OBVIOUS
<1> USE BackupAssumption DEF TypeOK, BackupPC, RunStatus
<1>1. CASE PickUp
  BY <1>1 DEF PickUp
<1>2. CASE ReadJob \/ CreateRun
  BY <1>2 DEF ReadJob, CreateRun
<1>3. CASE MarkRunning \/ MarkSuccess \/ CatchJob
  BY <1>3 DEF MarkRunning, MarkSuccess, CatchJob, Mark, JobRow
<1>4. CASE Dump \/ OpenArchive \/ WriteArchive
  BY <1>4 DEF Dump, OpenArchive, WriteArchive
<1>5. CASE Succeed \/ CatchRun
  BY <1>5 DEF Succeed, CatchRun
<1>6. CASE ListOld
  BY <1>6 DEF ListOld, Beyond, Successes
<1>7. CASE Prune
  BY <1>7 DEF Prune
<1>8. CASE DropOld
  BY <1>8, WithoutTyped DEF DropOld
<1>9. CASE End
  BY <1>9 DEF End
<1> QED
  BY <1>1, <1>2, <1>3, <1>4, <1>5, <1>6, <1>7, <1>8, <1>9 DEF Attempt

\* The restore worker keeps the types.
LEMMA RestoreAttemptTyped == TypeOK /\ RestoreAttempt => TypeOK'
<1> SUFFICES ASSUME TypeOK, RestoreAttempt PROVE TypeOK'
  OBVIOUS
<1>a. restore \in [RestoreRun -> Restore]
  BY DEF TypeOK
<1>b. ASSUME NEW m, NEW s \in RunStatus \cup {"queued"}
      PROVE  [restore EXCEPT ![m].status = s] \in [RestoreRun -> Restore]
  BY <1>a, RestoreFields
<1>c. ASSUME NEW m, NEW j \in {"none", "waiting", "active", "ended"}
      PROVE  [restore EXCEPT ![m].job = j] \in [RestoreRun -> Restore]
  BY <1>a, RestoreFields
<1> USE DEF TypeOK, RestorePC
<1>1. CASE RestorePickUp
  <2>1. PICK m \in RestoreRun : restore' = [restore EXCEPT ![m].job = "active"] /\ rcur' = m
    BY <1>1 DEF RestorePickUp
  <2>2. restore' \in [RestoreRun -> Restore]
    BY <2>1, <1>c
  <2> QED
    BY <1>1, <2>1, <2>2 DEF RestorePickUp
<1>2. CASE RestoreRead \/ Extract \/ Load
  BY <1>2 DEF RestoreRead, Extract, Load
<1>3. ASSUME NEW s \in RunStatus \cup {"queued"}, NEW next \in RestorePC,
             NEW thrown \in RestorePC, SetStatus(s, next, thrown)
      PROVE  TypeOK'
  BY <1>3, <1>b DEF SetStatus
<1>4. CASE RestoreMark \/ RestoreSucceed \/ RestoreCatch
  BY <1>4, <1>3 DEF RestoreMark, RestoreSucceed, RestoreCatch, RunStatus
<1>5. CASE RestoreEnd
  BY <1>5, <1>c DEF RestoreEnd
<1> QED
  BY <1>1, <1>2, <1>4, <1>5 DEF RestoreAttempt

\* A request, as it is issued, has the types.
LEMMA IssueTyped ==
  ASSUME TypeOK, NEW c \in Client, IssueRun(c) \/ IssueDelete(c) \/ IssuePatch(c) \/ IssueRestore(c)
  PROVE  TypeOK'
<1>1. ASSUME NEW r \in Request, Issue(c, r) PROVE TypeOK'
  BY <1>1 DEF TypeOK, Issue
<1> USE DEF NoRequest, Request, Step, Schedule, AllOps
<1>2. CASE IssueRun(c)
  <2>1. [NoRequest EXCEPT !.op = "run", !.step = "enqueueRun"] \in Request
    OBVIOUS
  <2> QED
    BY <1>1, <1>2, <2>1 DEF IssueRun
<1>3. CASE IssueDelete(c)
  <2>1. [NoRequest EXCEPT !.op = "delete", !.step = "files"] \in Request
    OBVIOUS
  <2> QED
    BY <1>1, <1>3, <2>1 DEF IssueDelete
<1>4. CASE IssuePatch(c)
  <2>1. PICK on \in BOOLEAN, s \in Schedule :
          Issue(c, [NoRequest EXCEPT !.op = "patch", !.step = "update", !.active = on,
                                     !.schedule = s])
    BY <1>4 DEF IssuePatch
  <2>2. [NoRequest EXCEPT !.op = "patch", !.step = "update", !.active = on, !.schedule = s]
          \in Request
    OBVIOUS
  <2> QED
    BY <1>1, <2>1, <2>2
<1>5. CASE IssueRestore(c)
  <2>1. \A n \in Run : [NoRequest EXCEPT !.op = "restore", !.step = "access", !.run = n] \in Request
    OBVIOUS
  <2> QED
    BY <1>1, <1>5, <2>1 DEF IssueRestore, Successes
<1> QED
  BY <1>2, <1>3, <1>4, <1>5

\* The handlers keep the types.
LEMMA HandleTyped ==
  ASSUME TypeOK, NEW c \in Client, Handle(c)
  PROVE  TypeOK'
<1>a. req[c] \in Request
  BY DEF TypeOK
<1>b. ASSUME NEW r \in Request PROVE [req EXCEPT ![c] = r] \in [Client -> Request]
  BY DEF TypeOK
<1>c. Respond(c) => req' \in [Client -> Request]
  BY <1>b, NoRequestTyped DEF Respond
<1>d. \A s \in Step : GoTo(c, s) => req' \in [Client -> Request]
  BY <1>a, <1>b, RequestFields DEF GoTo
<1>e. /\ req[c].run \in {0} \cup Run /\ req[c].restore \in {0} \cup RestoreRun
      /\ req[c].active \in BOOLEAN /\ req[c].schedule \in Schedule
      /\ req[c].files \subseteq Run
  BY <1>a DEF Request
<1> USE DEF TypeOK, Step
<1>1. CASE EnqueueRun(c)
  BY <1>1, <1>c, BackupAssumption DEF EnqueueRun
<1>2. CASE PatchUpdate(c)
  <2>1. [jobRow EXCEPT !.active = req[c].active, !.schedule = req[c].schedule] \in JobRow
    BY <1>e DEF JobRow
  <2> QED
    BY <1>2, <1>c, <1>d, <2>1 DEF PatchUpdate
<1>3. CASE ListRepeats(c)
  BY <1>3, <1>a, <1>b, RequestFields DEF ListRepeats
<1>4. CASE RemoveRepeats(c)
  BY <1>4, <1>c, <1>d DEF RemoveRepeats
<1>5. CASE AddRepeat(c)
  BY <1>5, <1>c, <1>e DEF AddRepeat, Schedule
<1>6. CASE DeleteList(c)
  BY <1>6, <1>a, <1>b, RequestFields DEF DeleteList, Successes
<1>7. CASE DeleteFile(c)
  <2>1. CASE req[c].files = {}
    BY <1>7, <1>d, <2>1 DEF DeleteFile
  <2>2. CASE req[c].files # {}
    <3>1. PICK n \in req[c].files : /\ archive' = [archive EXCEPT ![n] = "absent"]
                                    /\ req' = [req EXCEPT ![c].files = @ \ {n}]
      BY <1>7, <2>2 DEF DeleteFile
    <3>2. req' \in [Client -> Request]
      BY <3>1, <1>a, <1>b, <1>e, RequestFields
    <3> QED
      BY <1>7, <3>1, <3>2 DEF DeleteFile
  <2> QED
    BY <2>1, <2>2
<1>8. CASE DeleteRow(c)
  <2>1. [jobRow EXCEPT !.exists = FALSE] \in JobRow
    BY DEF JobRow
  <2> QED
    BY <1>8, <1>c, <2>1, WithoutTyped DEF DeleteRow, DropJob, RunStatus
<1>9. CASE RestoreAccess(c) \/ RestoreGuard(c)
  BY <1>9, <1>c, <1>d DEF RestoreAccess, RestoreGuard
<1>10. CASE RestoreCreate(c)
  <2>1. CASE run[req[c].run] = "gone"
    BY <1>10, <1>c, <2>1 DEF RestoreCreate
  <2>2. CASE run[req[c].run] # "gone"
    <3>1. PICK m \in RestoreRun :
            /\ restore' = [restore EXCEPT ![m] = [@ EXCEPT !.of = req[c].run, !.status = "queued"]]
            /\ req' = [req EXCEPT ![c] = [@ EXCEPT !.step = "enqueueRestore", !.restore = m]]
      BY <1>10, <2>2 DEF RestoreCreate
    <3>2. req' \in [Client -> Request]
      BY <3>1, <1>a, <1>b, RequestFields
    <3>3. restore' \in [RestoreRun -> Restore]
      BY <3>1, <1>e, RestoreFields
    <3> QED
      BY <1>10, <3>2, <3>3 DEF RestoreCreate
  <2> QED
    BY <2>1, <2>2
<1>11. CASE RestoreEnqueue(c)
  <2>1. restore' \in [RestoreRun -> Restore]
    BY <1>11, RestoreFields DEF RestoreEnqueue
  <2> QED
    BY <1>11, <1>c, <2>1 DEF RestoreEnqueue
<1> QED
  BY <1>1, <1>2, <1>3, <1>4, <1>5, <1>6, <1>7, <1>8, <1>9, <1>10, <1>11 DEF Handle

\* Any step keeps the types.
LEMMA TypeStep == TypeOK /\ [Next]_vars => TypeOK'
<1> SUFFICES ASSUME TypeOK, [Next]_vars PROVE TypeOK'
  OBVIOUS
<1>1. CASE Attempt \/ RestoreAttempt
  BY <1>1, AttemptTyped, RestoreAttemptTyped
<1>a. ASSUME NEW q \in [0..MaxStalls -> Nat], NEW s \in 0..MaxStalls
      PROVE  /\ [q EXCEPT ![s] = @ + 1] \in [0..MaxStalls -> Nat]
             /\ q[s] > 0 => [q EXCEPT ![s] = @ - 1] \in [0..MaxStalls -> Nat]
  OBVIOUS
<1>b. 0 \in 0..MaxStalls /\ \A s \in 0..MaxStalls : s < MaxStalls => s + 1 \in 0..MaxStalls
  BY BackupAssumption
<1>2. CASE Fire \/ CheckStalled
  <2>1. CASE Fire
    BY <1>a, <1>b, <2>1 DEF TypeOK, Fire
  <2>2. CASE CheckStalled
    <3>1. PICK s \in 0..MaxStalls :
            /\ stalled[s] > 0
            /\ stalled' = [stalled EXCEPT ![s] = @ - 1]
            /\ queue' = IF s < MaxStalls THEN [queue EXCEPT ![s + 1] = @ + 1] ELSE queue
      BY <2>2 DEF CheckStalled
    <3>2. queue \in [0..MaxStalls -> Nat] /\ stalled \in [0..MaxStalls -> Nat]
      BY DEF TypeOK
    <3>3. queue' \in [0..MaxStalls -> Nat] /\ stalled' \in [0..MaxStalls -> Nat]
      BY <1>a, <1>b, <3>1, <3>2
    <3> QED
      BY <2>2, <3>3 DEF TypeOK, CheckStalled
  <2> QED
    BY <1>2, <2>1, <2>2
<1>3. CASE CheckStalledRestore
  <2>1. PICK m \in RestoreRun : restore' = [restore EXCEPT ![m] = Recovered(restore[m])]
    BY <1>3 DEF CheckStalledRestore
  <2>2. restore[m] \in Restore /\ restore[m].stalls \in 0..MaxStalls
    BY DEF TypeOK, Restore
  <2>3. restore[m].stalls < MaxStalls => restore[m].stalls + 1 \in 0..MaxStalls
    BY <2>2, BackupAssumption
  <2>4. Recovered(restore[m]) \in Restore
    BY <2>2, <2>3, RestoreFields DEF Recovered
  <2>5. restore' \in [RestoreRun -> Restore]
    BY <2>1, <2>4 DEF TypeOK
  <2> QED
    BY <1>3, <2>5 DEF CheckStalledRestore, TypeOK
<1>4. CASE \E c \in Client : IssueRun(c) \/ IssueDelete(c) \/ IssuePatch(c) \/ IssueRestore(c)
  BY <1>4, IssueTyped
<1>5. CASE \E c \in Client : Handle(c)
  BY <1>5, HandleTyped
<1>6. CASE DeleteConnection
  <2>1. [jobRow EXCEPT !.exists = FALSE] \in JobRow
    BY DEF TypeOK, JobRow
  <2> QED
    BY <1>6, <2>1, WithoutTyped DEF DeleteConnection, DropJob, RunStatus, TypeOK
<1>7. CASE Crash
  BY <1>7, NoRequestTyped, BackupAssumption DEF Crash, TypeOK, BackupPC, RestorePC
<1>8. CASE Boot
  BY <1>8 DEF Boot, BootClear, BootAdd, TypeOK, Scheduled, JobRow, Schedule
<1>9. CASE UNCHANGED vars
  BY <1>9 DEF vars, TypeOK
<1> QED
  BY <1>1, <1>2, <1>3, <1>4, <1>5, <1>6, <1>7, <1>8, <1>9 DEF Next

LEMMA InitTyped == Init => TypeOK
<1> SUFFICES ASSUME Init PROVE TypeOK
  OBVIOUS
<1>1. PICK c \in Client, s \in Schedule :
        /\ jobRow = [exists |-> TRUE, active |-> TRUE, schedule |-> s, last |-> "none"]
        /\ req = [d \in Client |-> IF d = c THEN [NoRequest EXCEPT !.op = "create", !.step = "list",
                                                                  !.schedule = s]
                                            ELSE NoRequest]
  BY DEF Init
<1>2. jobRow \in JobRow
  BY <1>1 DEF JobRow
<1>3. [NoRequest EXCEPT !.op = "create", !.step = "list", !.schedule = s] \in Request
  BY DEF NoRequest, Request, Step, Schedule
<1>4. req \in [Client -> Request]
  BY <1>1, <1>3, NoRequestTyped
<1> QED
  BY <1>2, <1>4, NoRestoreTyped, BackupAssumption DEF Init, TypeOK, RunStatus, BackupPC, RestorePC

(* The model keeps its types, for any constants. *)
THEOREM TypeCorrect == Spec => []TypeOK
BY InitTyped, TypeStep, PTL DEF Spec

-----------------------------------------------------------------------------
(* Which runs are beyond the newest Keep. *)

LEMMA RunsFinite == ASSUME NEW S \in SUBSET Run PROVE IsFiniteSet(S) /\ Cardinality(S) \in Nat
<1>1. MaxRuns \in Int
  BY BackupAssumption
<1>2. IsFiniteSet(Run)
  BY <1>1, FS_Interval DEF Run
<1>3. IsFiniteSet(S)
  BY <1>2, FS_Subset
<1> QED
  BY <1>3, FS_CardinalityType

\* A run with more newer successes than before stays beyond.
LEMMA BeyondGrows ==
  ASSUME NEW n \in Beyond(Keep), n \in Successes', \A k \in Newer(n) : k \in Successes'
  PROVE  n \in Beyond(Keep)'
<1>1. Newer(n) \subseteq Newer(n)' /\ Newer(n)' \subseteq Run /\ Newer(n) \subseteq Run
  BY DEF Newer, Successes
<1>2. IsFiniteSet(Newer(n)') /\ Cardinality(Newer(n)) \in Nat /\ Cardinality(Newer(n)') \in Nat
  BY <1>1, RunsFinite
<1>3. Cardinality(Newer(n)) <= Cardinality(Newer(n)')
  BY <1>1, <1>2, FS_Subset
<1>4. Cardinality(Newer(n)) >= Keep /\ Keep \in Nat
  BY BackupAssumption DEF Beyond
<1>5. Cardinality(Newer(n)') >= Keep
  BY <1>2, <1>3, <1>4
<1> QED
  BY <1>5 DEF Beyond

\* Removing one that is beyond leaves the others beyond: those newer than it are
\* enough of them.
LEMMA BeyondWithout ==
  ASSUME NEW n \in Beyond(Keep), NEW k \in Beyond(Keep), n # k,
         Successes' = Successes \ {k}
  PROVE  n \in Beyond(Keep)'
<1>a. n \in Run /\ k \in Run /\ n \in Nat /\ k \in Nat /\ n \in Successes'
  BY BackupAssumption DEF Beyond, Successes, Run
<1>1. CASE n > k
  <2>1. \A j \in Newer(n) : j \in Successes'
    BY <1>1, <1>a DEF Newer
  <2> QED
    BY <2>1, <1>a, BeyondGrows
<1>2. CASE n < k
  <2>1. Newer(k) \subseteq Newer(n)' /\ Newer(n)' \subseteq Run /\ Newer(k) \subseteq Run
    <3>1. ASSUME NEW j \in Newer(k) PROVE j \in Newer(n)'
      <4>1. j \in Successes /\ j > k /\ j \in Nat
        BY BackupAssumption DEF Newer, Successes, Run
      <4>2. j # k /\ j > n
        BY <4>1, <1>2, <1>a
      <4> QED
        BY <4>1, <4>2 DEF Newer
    <3>2. Successes \subseteq Run
      BY DEF Successes
    <3> QED
      BY <3>1, <3>2 DEF Newer
  <2>2. IsFiniteSet(Newer(n)') /\ Cardinality(Newer(k)) \in Nat /\ Cardinality(Newer(n)') \in Nat
    BY <2>1, RunsFinite
  <2>3. Cardinality(Newer(k)) <= Cardinality(Newer(n)')
    BY <2>1, <2>2, FS_Subset
  <2>4. Cardinality(Newer(k)) >= Keep /\ Keep \in Nat
    BY BackupAssumption DEF Beyond
  <2>5. Cardinality(Newer(n)') >= Keep
    BY <2>2, <2>3, <2>4
  <2> QED
    BY <1>a, <2>5 DEF Beyond
<1> QED
  BY <1>1, <1>2, <1>a

\* As long as no success is lost, no run beyond the newest Keep comes back.
LEMMA BeyondKept ==
  ASSUME Successes \subseteq Successes'
  PROVE  Beyond(Keep) \subseteq Beyond(Keep)'
<1> SUFFICES ASSUME NEW n \in Beyond(Keep) PROVE n \in Beyond(Keep)'
  OBVIOUS
<1>1. n \in Successes' /\ \A k \in Newer(n) : k \in Successes'
  BY DEF Beyond, Newer
<1> QED
  BY <1>1, BeyondGrows

-----------------------------------------------------------------------------
(* The inductive invariant. *)

Files == \A c \in Client : req'[c].files \subseteq doomed'

\* What a step that leaves the runs and their archives alone keeps.
LEMMA RunsLeftAlone ==
  ASSUME IInv, UNCHANGED <<run, archive, doomed>>, jobRow'.exists = jobRow.exists, Files
  PROVE  /\ CascadeInv' /\ DeleteInv' /\ NewestRestorable' /\ PrunedHasNoArchive'
         /\ Beyond(Keep)' = Beyond(Keep)
<1>1. Successes' = Successes
  BY DEF Successes
<1>2. Beyond(Keep)' = Beyond(Keep)
  BY <1>1 DEF Beyond, Newer
<1> QED
  BY <1>1, <1>2 DEF IInv, CascadeInv, DeleteInv, NewestRestorable, PrunedHasNoArchive, Files

\* So does one that leaves the attempt alone, too.
LEMMA AttemptLeftAlone ==
  ASSUME IInv, TypeOK', UNCHANGED <<run, archive, doomed, pc, cur, old>>,
         jobRow'.exists = jobRow.exists, Files
  PROVE  IInv'
<1>1. CascadeInv' /\ DeleteInv' /\ NewestRestorable' /\ PrunedHasNoArchive'
      /\ Beyond(Keep)' = Beyond(Keep)
  BY RunsLeftAlone
<1>2. AttemptInv' /\ PruneInv'
  BY <1>1 DEF IInv, AttemptInv, PruneInv, Newest
<1> QED
  BY <1>1, <1>2 DEF IInv

\* The files that a request of the attempt's step removes are unchanged.
LEMMA SameFiles == ASSUME IInv, UNCHANGED <<req, doomed>> PROVE Files
BY DEF IInv, DeleteInv, Files

\* A step that empties or deletes archives only.
LEMMA ArchivesRemoved ==
  ASSUME IInv, NEW n \in Run, n \in Beyond(Keep) \/ n \in doomed \/ run[n] = "gone",
         archive' = [archive EXCEPT ![n] = "absent"], UNCHANGED <<run, doomed>>,
         jobRow'.exists = jobRow.exists, Files
  PROVE  /\ CascadeInv' /\ DeleteInv' /\ NewestRestorable' /\ PrunedHasNoArchive'
         /\ Beyond(Keep)' = Beyond(Keep)
<1>1. Successes' = Successes
  BY DEF Successes
<1>2. Beyond(Keep)' = Beyond(Keep)
  BY <1>1 DEF Beyond, Newer
<1>3. CascadeInv' /\ DeleteInv'
  BY DEF IInv, CascadeInv, DeleteInv, Files
<1>4. archive \in [Run -> {"absent", "partial", "complete"}]
  BY DEF IInv, TypeOK
<1>5. NewestRestorable'
  BY <1>1, <1>2, <1>4 DEF IInv, NewestRestorable, Successes
<1>6. PrunedHasNoArchive'
  BY <1>4 DEF IInv, PrunedHasNoArchive
<1> QED
  BY <1>2, <1>3, <1>5, <1>6

\* The attempt's steps that leave runs and archives alone.
LEMMA AttemptBookkeeping ==
  ASSUME IInv, TypeOK',
         PickUp \/ ReadJob \/ MarkRunning \/ Dump \/ MarkSuccess \/ ListOld \/ CatchJob \/ End
  PROVE  IInv'
<1>1. UNCHANGED <<run, archive, doomed, req>>
  BY DEF PickUp, ReadJob, MarkRunning, MarkSuccess, CatchJob, Mark, Dump, ListOld, End
<1>2. jobRow'.exists = jobRow.exists
  <2>1. CASE MarkRunning \/ MarkSuccess \/ CatchJob
    <3>1. jobRow' = jobRow \/ \E l \in {"running", "success", "failed"} :
                                jobRow' = [jobRow EXCEPT !.last = l]
      BY <2>1 DEF MarkRunning, MarkSuccess, CatchJob, Mark
    <3> QED
      BY <3>1 DEF IInv, TypeOK, JobRow
  <2> QED
    BY <2>1 DEF PickUp, ReadJob, Dump, ListOld, End
<1>3. CascadeInv' /\ DeleteInv' /\ NewestRestorable' /\ PrunedHasNoArchive'
      /\ Beyond(Keep)' = Beyond(Keep)
  BY <1>1, <1>2, SameFiles, RunsLeftAlone
<1>4. AttemptInv' /\ PruneInv'
  <2> USE <1>1, <1>2, <1>3 DEF IInv, AttemptInv, PruneInv, Open
  <2>1. CASE PickUp \/ ReadJob \/ Dump \/ End
    BY <2>1 DEF PickUp, ReadJob, Dump, End
  <2>2. CASE MarkRunning \/ CatchJob
    BY <2>2 DEF MarkRunning, CatchJob, Mark
  <2>3. CASE MarkSuccess
    <3>1. ~jobRow.exists => run[cur] = "gone"
      BY <2>3 DEF MarkSuccess, CascadeInv
    <3> QED
      BY <2>3, <3>1 DEF MarkSuccess, Mark
  <2>4. CASE ListOld
    BY <2>4 DEF ListOld
  <2> QED
    BY <2>1, <2>2, <2>3, <2>4
<1> QED
  BY <1>3, <1>4 DEF IInv

\* A new run is neither a success nor the archive of one.
LEMMA CreateRunStep == ASSUME IInv, TypeOK', CreateRun PROVE IInv'
<1>1. CASE ~jobRow.exists
  <2>1. /\ CascadeInv' /\ DeleteInv' /\ NewestRestorable' /\ PrunedHasNoArchive'
        /\ Beyond(Keep)' = Beyond(Keep)
    BY <1>1, SameFiles, RunsLeftAlone DEF CreateRun
  <2> QED
    BY <1>1, <2>1 DEF CreateRun, IInv, AttemptInv, PruneInv, Open
<1>2. CASE jobRow.exists
  <2>1. PICK n \in Run : /\ Fresh(n) /\ cur' = n
                         /\ run' = [run EXCEPT ![n] = "running"] /\ pc' = "mark"
    BY <1>2 DEF CreateRun
  <2>2. UNCHANGED <<jobRow, archive, doomed, req>> /\ run \in [Run -> RunStatus] /\ run[n] = "none"
    BY <2>1 DEF CreateRun, Fresh, IInv, TypeOK
  <2>3. run'[n] = "running" /\ \A k \in Run \ {n} : run'[k] = run[k]
    BY <2>1, <2>2
  <2>4. Successes' = Successes
    BY <2>2, <2>3 DEF Successes
  <2>5. Beyond(Keep)' = Beyond(Keep)
    BY <2>4 DEF Beyond, Newer
  <2>6. doomed \subseteq Run
    BY DEF IInv, TypeOK
  <2>7. AttemptInv' /\ PruneInv'
    BY <2>1, <2>2, <2>3 DEF AttemptInv, PruneInv, Open
  <2>8. CascadeInv' /\ DeleteInv'
    BY <1>2, <2>2, <2>3, <2>6 DEF IInv, CascadeInv, DeleteInv
  <2>9. NewestRestorable' /\ PrunedHasNoArchive'
    BY <2>2, <2>3, <2>4, <2>5 DEF IInv, NewestRestorable, PrunedHasNoArchive
  <2> QED
    BY <2>7, <2>8, <2>9 DEF IInv
<1> QED
  BY <1>1, <1>2

\* The archive written is that of a run that is no success yet.
LEMMA WriteStep == ASSUME IInv, TypeOK', OpenArchive \/ WriteArchive PROVE IInv'
<1>1. /\ cur \in Run /\ (run[cur] = "running" \/ (run[cur] = "gone" /\ ~jobRow.exists))
      /\ UNCHANGED <<run, doomed, req, jobRow, cur, old>>
  BY DEF OpenArchive, WriteArchive, IInv, AttemptInv, Open
<1>2. archive \in [Run -> {"absent", "partial", "complete"}]
  BY DEF IInv, TypeOK
<1>3. \A k \in Run \ {cur} : archive'[k] = archive[k]
  BY <1>1, <1>2 DEF OpenArchive, WriteArchive
<1>4. Successes' = Successes /\ cur \notin Successes
  BY <1>1 DEF Successes
<1>5. Beyond(Keep)' = Beyond(Keep)
  BY <1>4 DEF Beyond, Newer
<1>6. AttemptInv' /\ PruneInv'
  <2>1. pc' \in {"write", "catch", "succeed"} /\ (pc' = "succeed" => archive'[cur] = "complete")
    BY <1>1, <1>2 DEF OpenArchive, WriteArchive
  <2> QED
    BY <1>1, <2>1 DEF AttemptInv, PruneInv, Open
<1>7. CascadeInv' /\ DeleteInv'
  BY <1>1 DEF IInv, CascadeInv, DeleteInv
<1>8. NewestRestorable'
  <2> SUFFICES ASSUME NEW n \in Successes' \ (Beyond(Keep)' \cup doomed')
               PROVE  archive'[n] = "complete"
    BY DEF NewestRestorable
  <2>1. n \in Successes \ (Beyond(Keep) \cup doomed) /\ n # cur /\ n \in Run
    BY <1>1, <1>4, <1>5 DEF Successes
  <2> QED
    BY <1>3, <2>1 DEF IInv, NewestRestorable
<1>9. PrunedHasNoArchive'
  BY <1>1, <1>3 DEF IInv, PrunedHasNoArchive
<1> QED
  BY <1>6, <1>7, <1>8, <1>9 DEF IInv

\* A run becomes a success when its archive is complete, or fails.
LEMMA SettleStep == ASSUME IInv, TypeOK', Succeed \/ CatchRun PROVE IInv'
<1>1. /\ cur \in Run /\ (run[cur] = "running" \/ (run[cur] = "gone" /\ ~jobRow.exists))
      /\ UNCHANGED <<archive, doomed, req, jobRow, cur, old>>
  BY DEF Succeed, CatchRun, IInv, AttemptInv, Open
<1>2. CASE run[cur] = "gone"
  <2>1. run' = run
    BY <1>2 DEF Succeed, CatchRun
  <2>2. CascadeInv' /\ DeleteInv' /\ NewestRestorable' /\ PrunedHasNoArchive'
    BY <1>1, <2>1, SameFiles, RunsLeftAlone
  <2>3. AttemptInv' /\ PruneInv'
    BY <1>1, <1>2, <2>1 DEF Succeed, CatchRun, AttemptInv, PruneInv, Open
  <2> QED
    BY <2>2, <2>3 DEF IInv
<1>3. CASE run[cur] = "running"
  <2>1. /\ run \in [Run -> RunStatus] /\ jobRow.exists /\ cur \notin doomed
    BY <1>1, <1>3 DEF IInv, TypeOK, CascadeInv, DeleteInv
  <2>2. /\ run'[cur] \in {"success", "failed"} /\ \A k \in Run \ {cur} : run'[k] = run[k]
        /\ run'[cur] = "success" => archive[cur] = "complete" /\ pc' = "markSuccess"
        /\ pc' \in {"markSuccess", "catchJob"}
        /\ pc' = "markSuccess" => run'[cur] = "success"
    BY <1>1, <1>3, <2>1 DEF Succeed, CatchRun, IInv, AttemptInv
  <2>3. Successes \subseteq Successes' /\ Successes' \subseteq Successes \cup {cur}
    BY <1>3, <2>2 DEF Successes
  <2>4. Beyond(Keep) \subseteq Beyond(Keep)'
    BY <2>3, BeyondKept
  <2>5. AttemptInv' /\ PruneInv'
    BY <1>1, <2>2 DEF AttemptInv, PruneInv, Open
  <2>6. CascadeInv'
    BY <1>1, <2>1 DEF CascadeInv
  <2>7. DeleteInv'
    <3>1. doomed \subseteq Run
      BY DEF IInv, TypeOK
    <3> QED
      BY <1>1, <2>1, <2>2, <3>1 DEF IInv, DeleteInv
  <2>8. NewestRestorable'
    <3> SUFFICES ASSUME NEW n \in Successes' \ (Beyond(Keep)' \cup doomed')
                 PROVE  archive'[n] = "complete"
      BY DEF NewestRestorable
    <3>1. CASE n = cur
      BY <1>1, <2>2, <3>1 DEF Successes
    <3>2. CASE n # cur
      BY <1>1, <2>3, <2>4, <3>2 DEF IInv, NewestRestorable
    <3> QED
      BY <3>1, <3>2
  <2>9. PrunedHasNoArchive'
    BY <1>1, <2>2 DEF IInv, PrunedHasNoArchive
  <2> QED
    BY <2>5, <2>6, <2>7, <2>8, <2>9 DEF IInv
<1> QED
  BY <1>1, <1>2, <1>3

\* The retention removes an archive that is beyond the newest Keep.
LEMMA PruneStep == ASSUME IInv, TypeOK', Prune PROVE IInv'
<1>1. UNCHANGED <<run, doomed, req, jobRow, cur, old>> /\ old \subseteq Run /\ pc = "prune"
  BY DEF Prune, IInv, TypeOK
<1>2. CASE old = {}
  <2>1. UNCHANGED archive /\ pc' = "end"
    BY <1>2 DEF Prune
  <2>2. CascadeInv' /\ DeleteInv' /\ NewestRestorable' /\ PrunedHasNoArchive'
    BY <1>1, <2>1, SameFiles, RunsLeftAlone
  <2> QED
    BY <2>1, <2>2 DEF IInv, AttemptInv, PruneInv, Open
<1>3. CASE old # {}
  <2>1. PICK n \in old : /\ Newest(old, n) /\ archive' = [archive EXCEPT ![n] = "absent"]
                         /\ pc' = "drop"
    BY <1>3 DEF Prune
  <2>2. n \in Beyond(Keep) \/ run[n] = "gone"
    BY <1>1, <2>1 DEF IInv, PruneInv
  <2>3. /\ CascadeInv' /\ DeleteInv' /\ NewestRestorable' /\ PrunedHasNoArchive'
        /\ Beyond(Keep)' = Beyond(Keep)
    BY <1>1, <2>1, <2>2, SameFiles, ArchivesRemoved
  <2>4. archive'[n] = "absent"
    BY <1>1, <2>1 DEF IInv, TypeOK
  <2>5. \A k \in old : Newest(old, k) => k = n
    BY <1>1, <2>1, BackupAssumption DEF Newest, Run
  <2>6. AttemptInv' /\ PruneInv'
    BY <1>1, <2>1, <2>3, <2>4, <2>5 DEF IInv, AttemptInv, PruneInv, Open, Newest
  <2> QED
    BY <2>3, <2>6 DEF IInv
<1> QED
  BY <1>2, <1>3

\* Its row follows, and leaves the others that are to go beyond the newest Keep.
LEMMA DropOldStep == ASSUME IInv, TypeOK', DropOld PROVE IInv'
<1>1. PICK n \in old : /\ Newest(old, n) /\ run' = [run EXCEPT ![n] = "gone"] /\ old' = old \ {n}
  BY DEF DropOld
<1>2. /\ UNCHANGED <<archive, doomed, req, jobRow, cur>> /\ pc = "drop" /\ pc' = "prune"
      /\ old \subseteq Run /\ run \in [Run -> RunStatus] /\ doomed \subseteq Run
  BY DEF DropOld, IInv, TypeOK
<1>3. /\ archive[n] = "absent" /\ (n \in Beyond(Keep) \/ (run[n] = "gone" /\ ~jobRow.exists))
      /\ run'[n] = "gone" /\ \A k \in Run \ {n} : run'[k] = run[k]
  BY <1>1, <1>2 DEF IInv, PruneInv
<1>4. Successes' = Successes \ {n}
  BY <1>2, <1>3 DEF Successes
<1>5. \A k \in Beyond(Keep) \ {n} : k \in Beyond(Keep)'
  <2>1. CASE n \in Beyond(Keep)
    BY <1>4, <2>1, BeyondWithout
  <2>2. CASE n \notin Beyond(Keep)
    <3>1. Successes' = Successes
      BY <1>3, <1>4, <2>2 DEF Successes
    <3> QED
      BY <3>1, BeyondKept
  <2> QED
    BY <2>1, <2>2
<1>6. AttemptInv' /\ PruneInv'
  <2>1. AttemptInv'
    BY <1>2 DEF AttemptInv, Open
  <2>2. ASSUME NEW k \in old' PROVE k \in Beyond(Keep)' \/ (run'[k] = "gone" /\ ~jobRow'.exists)
    BY <1>1, <1>2, <1>3, <1>5 DEF IInv, PruneInv
  <2> QED
    BY <1>2, <2>1, <2>2 DEF PruneInv
<1>7. CascadeInv' /\ DeleteInv'
  BY <1>2, <1>3 DEF IInv, CascadeInv, DeleteInv
<1>8. NewestRestorable'
  BY <1>2, <1>4, <1>5 DEF IInv, NewestRestorable
<1>9. PrunedHasNoArchive'
  BY <1>2, <1>3 DEF IInv, PrunedHasNoArchive
<1> QED
  BY <1>6, <1>7, <1>8, <1>9 DEF IInv

\* The runs and the job go together.
LEMMA DropJobStep ==
  ASSUME IInv, TypeOK', DropJob, UNCHANGED <<archive, doomed, pc, cur, old>>, Files
  PROVE  IInv'
<1>1. jobRow'.exists = FALSE
  BY DEF DropJob, IInv, TypeOK, JobRow
<1>2. \A n \in Run : run'[n] = IF run[n] # "none" THEN "gone" ELSE "none"
  BY DEF DropJob, Created
<1>3. Successes' = {}
  BY <1>2 DEF Successes
<1>4. CascadeInv' /\ NewestRestorable' /\ PrunedHasNoArchive'
  BY <1>1, <1>2, <1>3 DEF CascadeInv, NewestRestorable, PrunedHasNoArchive
<1>5. DeleteInv'
  <2>1. doomed \subseteq Run
    BY DEF IInv, TypeOK
  <2> QED
    BY <1>2, <2>1 DEF IInv, DeleteInv, Files
<1>6. AttemptInv' /\ PruneInv'
  <2>1. \A n \in Run : run[n] # "none" => run'[n] = "gone"
    BY <1>2
  <2>2. pc \in {"prune", "drop"} => \A n \in old : n \in Run /\ run[n] # "none"
    BY DEF IInv, PruneInv, TypeOK, Beyond, Successes
  <2>3. pc \in Open \cup {"markSuccess"} => cur \in Run /\ run[cur] # "none"
    BY DEF IInv, AttemptInv, Open
  <2>4. AttemptInv'
    BY <1>1, <2>1, <2>3 DEF IInv, AttemptInv, Open
  <2>5. PruneInv'
    BY <1>1, <2>1, <2>2 DEF IInv, PruneInv, Newest
  <2> QED
    BY <2>4, <2>5
<1> QED
  BY <1>4, <1>5, <1>6 DEF IInv

\* The attempt's step, whatever it is.
LEMMA AttemptStep == ASSUME IInv, TypeOK', Attempt PROVE IInv'
BY AttemptBookkeeping, CreateRunStep, WriteStep, SettleStep, PruneStep, DropOldStep DEF Attempt

\* The files a request is to remove, when its other fields change.
LEMMA FilesKept ==
  ASSUME IInv, NEW c \in Client, UNCHANGED doomed,
         Respond(c) \/ (\E s \in Step : GoTo(c, s))
           \/ (\E r \in Request : r.files = req[c].files /\ req' = [req EXCEPT ![c] = r])
  PROVE  Files
<1>1. req \in [Client -> Request] /\ \A d \in Client : req[d].files \subseteq doomed
  BY DEF IInv, TypeOK, DeleteInv
<1>2. NoRequest.files = {}
  BY DEF NoRequest
<1>3. req[c] \in Request
  BY <1>1
<1>4. \A s \in Step : [req[c] EXCEPT !.step = s].files = req[c].files
  BY <1>3 DEF Request
<1>5. \A d \in Client : req'[d].files = req[d].files \/ req'[d].files = {}
  <2>1. CASE Respond(c)
    BY <1>1, <1>2, <2>1 DEF Respond
  <2>2. CASE \E s \in Step : GoTo(c, s)
    BY <1>1, <1>4, <2>2 DEF GoTo
  <2>3. CASE \E r \in Request : r.files = req[c].files /\ req' = [req EXCEPT ![c] = r]
    BY <1>1, <2>3
  <2> QED
    BY <2>1, <2>2, <2>3
<1> QED
  BY <1>1, <1>5 DEF Files

\* The handlers that leave runs and archives alone.
LEMMA HandleBookkeeping ==
  ASSUME IInv, TypeOK', NEW c \in Client,
         \/ EnqueueRun(c) \/ PatchUpdate(c) \/ ListRepeats(c) \/ RemoveRepeats(c) \/ AddRepeat(c)
         \/ RestoreAccess(c) \/ RestoreGuard(c) \/ RestoreCreate(c) \/ RestoreEnqueue(c)
  PROVE  IInv'
<1>1. UNCHANGED <<run, archive, doomed, pc, cur, old>>
  BY DEF EnqueueRun, PatchUpdate, ListRepeats, RemoveRepeats, AddRepeat,
         RestoreAccess, RestoreGuard, RestoreCreate, RestoreEnqueue
<1>2. jobRow'.exists = jobRow.exists
  BY DEF EnqueueRun, PatchUpdate, ListRepeats, RemoveRepeats, AddRepeat,
         RestoreAccess, RestoreGuard, RestoreCreate, RestoreEnqueue, IInv, TypeOK, JobRow
<1>a. req[c] \in Request /\ "remove" \in Step /\ "list" \in Step /\ "add" \in Step
      /\ "drop" \in Step /\ "guard" \in Step /\ "create" \in Step /\ "enqueueRestore" \in Step
  BY DEF IInv, TypeOK, Step
<1>b. repeat \in SUBSET Schedule
  BY DEF IInv, TypeOK
<1>3. \/ Respond(c) \/ (\E s \in Step : GoTo(c, s))
      \/ \E r \in Request : r.files = req[c].files /\ req' = [req EXCEPT ![c] = r]
  <2>1. CASE EnqueueRun(c) \/ AddRepeat(c) \/ RestoreEnqueue(c)
    BY <2>1 DEF EnqueueRun, AddRepeat, RestoreEnqueue
  <2>2. CASE PatchUpdate(c) \/ RemoveRepeats(c) \/ RestoreAccess(c) \/ RestoreGuard(c)
    BY <2>2, <1>a DEF PatchUpdate, RemoveRepeats, RestoreAccess, RestoreGuard
  <2>3. CASE ListRepeats(c)
    <3> DEFINE r == [req[c] EXCEPT !.step = "remove", !.keys = repeat]
    <3>1. r \in Request
      BY <1>a, <1>b, RequestFields
    <3>2. r.files = req[c].files
      BY <1>a DEF Request
    <3>3. req' = [req EXCEPT ![c] = r]
      BY <2>3 DEF ListRepeats, IInv, TypeOK
    <3> QED
      BY <3>1, <3>2, <3>3
  <2>4. CASE RestoreCreate(c)
    <3>1. CASE run[req[c].run] = "gone"
      BY <2>4, <3>1 DEF RestoreCreate
    <3>2. CASE run[req[c].run] # "gone"
      <4>1. PICK m \in RestoreRun :
              req' = [req EXCEPT ![c] = [@ EXCEPT !.step = "enqueueRestore", !.restore = m]]
        BY <2>4, <3>2 DEF RestoreCreate
      <4> DEFINE r == [req[c] EXCEPT !.step = "enqueueRestore", !.restore = m]
      <4>2. r \in Request
        BY <1>a, RequestFields
      <4>3. r.files = req[c].files
        BY <1>a DEF Request
      <4>4. req' = [req EXCEPT ![c] = r]
        BY <4>1 DEF IInv, TypeOK
      <4> QED
        BY <4>2, <4>3, <4>4
    <3> QED
      BY <3>1, <3>2
  <2> QED
    BY <2>1, <2>2, <2>3, <2>4
<1> QED
  BY <1>1, <1>2, <1>3, FilesKept, AttemptLeftAlone

\* A DELETE sets out to remove archives, removes them, and the job.
LEMMA DeleteStep ==
  ASSUME IInv, TypeOK', NEW c \in Client, DeleteList(c) \/ DeleteFile(c) \/ DeleteRow(c)
  PROVE  IInv'
<1>a. /\ req \in [Client -> Request] /\ req[c] \in Request
      /\ \A d \in Client : req[d].files \subseteq doomed
  BY DEF IInv, TypeOK, DeleteInv
<1>b. UNCHANGED <<pc, cur, old>>
  BY DEF DeleteList, DeleteFile, DeleteRow
<1>1. CASE DeleteList(c)
  <2>1. /\ UNCHANGED <<run, archive, jobRow>> /\ doomed' = doomed \cup Successes
        /\ req' = [req EXCEPT ![c] = [@ EXCEPT !.step = "rm", !.files = Successes]]
    BY <1>1 DEF DeleteList
  <2>2. Successes' = Successes
    BY <2>1 DEF Successes
  <2>3. Beyond(Keep)' = Beyond(Keep)
    BY <2>2 DEF Beyond, Newer
  <2>4. \A d \in Client : req'[d].files \subseteq doomed'
    BY <1>a, <2>1 DEF Request
  <2>5. DeleteInv'
    BY <2>1, <2>4 DEF IInv, DeleteInv, Successes
  <2> QED
    BY <1>b, <2>1, <2>2, <2>3, <2>5
    DEF IInv, AttemptInv, CascadeInv, PruneInv, Newest, NewestRestorable, PrunedHasNoArchive
<1>2. CASE DeleteFile(c) /\ req[c].files = {}
  <2>1. Files
    BY <1>2, FilesKept DEF DeleteFile, Step
  <2> QED
    BY <1>2, <1>b, <2>1, AttemptLeftAlone DEF DeleteFile
<1>3. CASE DeleteFile(c) /\ req[c].files # {}
  <2>1. PICK n \in req[c].files : /\ archive' = [archive EXCEPT ![n] = "absent"]
                                  /\ req' = [req EXCEPT ![c].files = @ \ {n}]
    BY <1>3 DEF DeleteFile
  <2>2. UNCHANGED <<run, doomed, jobRow>> /\ n \in doomed /\ n \in Run
    BY <1>3, <1>a DEF DeleteFile, IInv, TypeOK
  <2>3. Files
    BY <1>a, <2>1, <2>2 DEF Files, Request
  <2>4. /\ CascadeInv' /\ DeleteInv' /\ NewestRestorable' /\ PrunedHasNoArchive'
        /\ Beyond(Keep)' = Beyond(Keep)
    BY <2>1, <2>2, <2>3, ArchivesRemoved
  <2>5. \A k \in Run : archive'[k] = IF k = n THEN "absent" ELSE archive[k]
    BY <2>1 DEF IInv, TypeOK
  <2>6. AttemptInv'
    <3>1. pc = "succeed" /\ run[cur] = "running" => cur # n /\ cur \in Run
      BY <2>2 DEF IInv, AttemptInv, DeleteInv, Open
    <3> QED
      BY <1>b, <2>2, <2>5, <3>1 DEF IInv, AttemptInv
  <2>7. PruneInv'
    BY <1>b, <2>2, <2>4, <2>5 DEF IInv, PruneInv, Newest, TypeOK
  <2> QED
    BY <2>4, <2>6, <2>7 DEF IInv
<1>4. CASE DeleteRow(c)
  <2>1. Files
    BY <1>4, FilesKept DEF DeleteRow
  <2>2. UNCHANGED <<archive, doomed>>
    BY <1>4 DEF DeleteRow
  <2>3. CASE jobRow.exists
    BY <1>4, <1>b, <2>1, <2>2, <2>3, DropJobStep DEF DeleteRow
  <2>4. CASE ~jobRow.exists
    BY <1>4, <1>b, <2>1, <2>2, <2>4, AttemptLeftAlone DEF DeleteRow
  <2> QED
    BY <2>3, <2>4
<1> QED
  BY <1>1, <1>2, <1>3, <1>4

LEMMA HandleStep == ASSUME IInv, TypeOK', NEW c \in Client, Handle(c) PROVE IInv'
BY HandleBookkeeping, DeleteStep DEF Handle

\* A new request has no files to remove.
LEMMA IssueStep ==
  ASSUME IInv, TypeOK', NEW c \in Client,
         IssueRun(c) \/ IssueDelete(c) \/ IssuePatch(c) \/ IssueRestore(c)
  PROVE  IInv'
<1>1. ASSUME NEW r, Issue(c, r), r.files = {} PROVE IInv'
  <2>1. \A d \in Client : req'[d].files = req[d].files \/ req'[d].files = {}
    BY <1>1 DEF Issue, IInv, TypeOK
  <2>2. Files
    BY <1>1, <2>1 DEF Issue, Files, IInv, DeleteInv
  <2> QED
    BY <1>1, <2>2, AttemptLeftAlone DEF Issue
<1>2. CASE IssueRun(c)
  <2>1. [NoRequest EXCEPT !.op = "run", !.step = "enqueueRun"].files = {}
    BY DEF NoRequest
  <2> QED
    BY <1>1, <1>2, <2>1 DEF IssueRun
<1>3. CASE IssueDelete(c)
  <2>1. [NoRequest EXCEPT !.op = "delete", !.step = "files"].files = {}
    BY DEF NoRequest
  <2> QED
    BY <1>1, <1>3, <2>1 DEF IssueDelete
<1>4. CASE IssuePatch(c)
  <2>1. PICK on \in BOOLEAN, s \in Schedule :
          Issue(c, [NoRequest EXCEPT !.op = "patch", !.step = "update", !.active = on,
                                     !.schedule = s])
    BY <1>4 DEF IssuePatch
  <2>2. [NoRequest EXCEPT !.op = "patch", !.step = "update", !.active = on,
                          !.schedule = s].files = {}
    BY DEF NoRequest
  <2> QED
    BY <1>1, <2>1, <2>2
<1>5. CASE IssueRestore(c)
  <2>1. PICK n \in Successes :
          Issue(c, [NoRequest EXCEPT !.op = "restore", !.step = "access", !.run = n])
    BY <1>5 DEF IssueRestore
  <2>2. [NoRequest EXCEPT !.op = "restore", !.step = "access", !.run = n].files = {}
    BY DEF NoRequest
  <2> QED
    BY <1>1, <2>1, <2>2
<1> QED
  BY <1>2, <1>3, <1>4, <1>5

\* The restore worker, BullMQ and the scheduler leave runs and archives alone.
LEMMA OtherStep ==
  ASSUME IInv, TypeOK',
         RestoreAttempt \/ Fire \/ CheckStalled \/ CheckStalledRestore \/ Boot \/ UNCHANGED vars
  PROVE  IInv'
<1>1. UNCHANGED <<run, archive, doomed, pc, cur, old, jobRow, req>>
  BY DEF RestoreAttempt, RestorePickUp, RestoreRead, RestoreMark, Extract, Load, RestoreSucceed,
         RestoreCatch, RestoreEnd, SetStatus, Fire, CheckStalled, CheckStalledRestore,
         Boot, BootClear, BootAdd, vars
<1> QED
  BY <1>1, SameFiles, AttemptLeftAlone

\* The attempt and the requests are lost, runs and archives are not.
LEMMA CrashStep == ASSUME IInv, TypeOK', Crash PROVE IInv'
<1>1. \A c \in Client : req'[c].files = {}
  BY DEF Crash, NoRequest
<1>2. Files
  BY <1>1 DEF Files
<1>3. CascadeInv' /\ DeleteInv' /\ NewestRestorable' /\ PrunedHasNoArchive'
  BY <1>2, RunsLeftAlone DEF Crash
<1>4. AttemptInv' /\ PruneInv'
  BY DEF Crash, AttemptInv, PruneInv, Open
<1> QED
  BY <1>3, <1>4 DEF IInv

LEMMA DeleteConnectionStep == ASSUME IInv, TypeOK', DeleteConnection PROVE IInv'
<1>1. Files
  BY SameFiles DEF DeleteConnection
<1> QED
  BY <1>1, DropJobStep DEF DeleteConnection

LEMMA Inductive == IInv /\ [Next]_vars => IInv'
<1> SUFFICES ASSUME IInv, [Next]_vars PROVE IInv'
  OBVIOUS
<1>1. TypeOK'
  BY TypeStep DEF IInv
<1>2. CASE Attempt
  BY <1>1, <1>2, AttemptStep
<1>3. CASE RestoreAttempt \/ Fire \/ CheckStalled \/ CheckStalledRestore \/ Boot \/ UNCHANGED vars
  BY <1>1, <1>3, OtherStep
<1>4. CASE \E c \in Client : IssueRun(c) \/ IssueDelete(c) \/ IssuePatch(c) \/ IssueRestore(c)
  BY <1>1, <1>4, IssueStep
<1>5. CASE \E c \in Client : Handle(c)
  BY <1>1, <1>5, HandleStep
<1>6. CASE DeleteConnection
  BY <1>1, <1>6, DeleteConnectionStep
<1>7. CASE Crash
  BY <1>1, <1>7, CrashStep
<1> QED
  BY <1>2, <1>3, <1>4, <1>5, <1>6, <1>7 DEF Next

LEMMA Initially == Init => IInv
<1> SUFFICES ASSUME Init PROVE IInv
  OBVIOUS
<1>1. TypeOK
  BY InitTyped
<1>2. /\ pc = "idle" /\ doomed = {} /\ jobRow.exists = TRUE
      /\ \A n \in Run : run[n] = "none"
      /\ \A c \in Client : req[c].files = {}
  BY DEF Init, NoRequest
<1>3. AttemptInv /\ CascadeInv /\ DeleteInv /\ PruneInv
  BY <1>2 DEF AttemptInv, Open, CascadeInv, DeleteInv, PruneInv
<1>4. NewestRestorable /\ PrunedHasNoArchive
  BY <1>2 DEF NewestRestorable, PrunedHasNoArchive, Successes
<1> QED
  BY <1>1, <1>3, <1>4 DEF IInv

(* Whatever the retention of successful, failed and crashed attempts does, and
   however many runs, clients and crashes there are, the newest Keep successful
   runs have their archives. *)
THEOREM NewestRestorableHolds == Spec => []NewestRestorable
<1>1. IInv => NewestRestorable
  BY DEF IInv
<1> QED
  BY <1>1, Initially, Inductive, PTL DEF Spec

(* As long as the job exists, a run the retention has pruned has no archive. *)
THEOREM PrunedHasNoArchiveHolds == Spec => []PrunedHasNoArchive
<1>1. IInv => PrunedHasNoArchive
  BY DEF IInv
<1> QED
  BY <1>1, Initially, Inductive, PTL DEF Spec

-----------------------------------------------------------------------------
(* The schedule, for one client at a time. *)

OneClient == \A c, d \in Client : c = d

\* A step that leaves the schedule alone.
LEMMA ScheduleLeftAlone ==
  ASSUME ScheduleInv, UNCHANGED <<repeat, req, boot>>, jobRow'.exists = jobRow.exists,
         jobRow'.active = jobRow.active, jobRow'.schedule = jobRow.schedule
  PROVE  ScheduleInv'
BY DEF ScheduleInv, Scheduled, Expected, Schedules

\* A request that is no DELETE of the job and does not reschedule it.
LEMMA ScheduleRequest ==
  ASSUME ScheduleInv, OneClient, NEW c \in Client, UNCHANGED <<jobRow, repeat, boot>>, boot = "up",
         req[c].step \notin {"list", "remove", "add", "drop"},
         req'[c].step \notin {"list", "remove", "add"}
  PROVE  ScheduleInv'
<1>1. \A d \in Client : d = c
  BY DEF OneClient
<1>2. jobRow.exists => repeat = Expected
  BY DEF ScheduleInv
<1> QED
  BY <1>1, <1>2 DEF ScheduleInv, Scheduled, Expected

\* A request that reschedules the job, step by step.
LEMMA RescheduleStep ==
  ASSUME ScheduleInv, OneClient, TypeOK, NEW c \in Client, boot = "up",
         PatchUpdate(c) \/ ListRepeats(c) \/ RemoveRepeats(c) \/ AddRepeat(c)
  PROVE  ScheduleInv'
<1>a. /\ \A d \in Client : d = c
      /\ req \in [Client -> Request] /\ req[c] \in Request /\ jobRow \in JobRow
      /\ NoRequest.step = "none"
  BY DEF OneClient, TypeOK, NoRequest
<1>b. \A s : GoTo(c, s) => /\ req'[c].step = s /\ req'[c].op = req[c].op
                           /\ req'[c].active = req[c].active /\ req'[c].schedule = req[c].schedule
  BY <1>a DEF GoTo, Request
<1>c. Respond(c) => req'[c].step = "none"
  BY <1>a DEF Respond
<1>1. CASE PatchUpdate(c)
  <2>1. CASE jobRow.exists
    <3>1. jobRow'.active = req[c].active /\ jobRow'.schedule = req[c].schedule
      BY <1>1, <1>a, <2>1 DEF PatchUpdate, JobRow
    <3>2. req'[c].step = "list" /\ UNCHANGED <<repeat, boot>>
      BY <1>1, <1>b, <2>1 DEF PatchUpdate
    <3>3. req'[c].active = jobRow'.active /\ req'[c].schedule = jobRow'.schedule
      BY <1>1, <1>b, <2>1, <3>1 DEF PatchUpdate
    <3> QED
      BY <1>a, <3>2, <3>3 DEF ScheduleInv
  <2>2. CASE ~jobRow.exists
    BY <1>1, <1>c, <2>2, ScheduleRequest DEF PatchUpdate, At
  <2> QED
    BY <2>1, <2>2
<1>2. CASE ListRepeats(c)
  <2>1. /\ req'[c].step = "remove" /\ req'[c].keys = repeat /\ req'[c].op = req[c].op
        /\ req'[c].active = req[c].active /\ req'[c].schedule = req[c].schedule
    BY <1>2, <1>a DEF ListRepeats, Request
  <2> QED
    BY <1>2, <1>a, <2>1 DEF ListRepeats, ScheduleInv
<1>3. CASE RemoveRepeats(c)
  <2>1. repeat' = {} /\ UNCHANGED <<jobRow, boot>> /\ req[c].step = "remove"
    BY <1>3 DEF RemoveRepeats, ScheduleInv
  <2>2. CASE Schedules(c)
    <3>1. GoTo(c, "add")
      BY <1>3, <2>2 DEF RemoveRepeats
    <3>2. Schedules(c)'
      BY <1>b, <2>2, <3>1 DEF Schedules
    <3> QED
      BY <1>a, <1>b, <2>1, <3>1, <3>2 DEF ScheduleInv
  <2>3. CASE ~Schedules(c) /\ req[c].op = "delete"
    <3>1. req'[c].step = "drop"
      BY <1>3, <1>b, <2>3 DEF RemoveRepeats
    <3> QED
      BY <1>a, <2>1, <3>1 DEF ScheduleInv
  <2>4. CASE ~Schedules(c) /\ req[c].op # "delete"
    <3>1. req'[c].step = "none"
      BY <1>3, <1>c, <2>4 DEF RemoveRepeats
    <3>2. jobRow.exists => ~Scheduled
      BY <2>1, <2>4 DEF ScheduleInv, Schedules, Scheduled
    <3>3. jobRow'.exists => repeat' = Expected'
      BY <2>1, <3>2 DEF Expected, Scheduled
    <3> QED
      BY <1>a, <2>1, <3>1, <3>3 DEF ScheduleInv
  <2> QED
    BY <2>2, <2>3, <2>4
<1>4. CASE AddRepeat(c)
  <2>1. /\ repeat' = {req[c].schedule} /\ req'[c].step = "none" /\ UNCHANGED <<jobRow, boot>>
        /\ Schedules(c) /\ req[c].step = "add"
    BY <1>4, <1>c DEF AddRepeat, ScheduleInv
  <2>2. jobRow.exists => Scheduled /\ repeat' = {jobRow.schedule}
    BY <2>1 DEF ScheduleInv, Schedules, Scheduled
  <2>3. jobRow'.exists => repeat' = Expected'
    BY <2>1, <2>2 DEF Expected, Scheduled
  <2> QED
    BY <1>a, <2>1, <2>3 DEF ScheduleInv
<1> QED
  BY <1>1, <1>2, <1>3, <1>4

\* The other handlers; the last of a DELETE ends the matter.
LEMMA ScheduleHandle ==
  ASSUME ScheduleInv, OneClient, TypeOK, NEW c \in Client, Handle(c)
  PROVE  ScheduleInv'
<1>a. /\ req \in [Client -> Request] /\ req[c] \in Request /\ jobRow \in JobRow
      /\ \A d \in Client : d = c
  BY DEF OneClient, TypeOK
<1>b. boot = "up"
  <2>1. NoRequest.step = "none"
    BY DEF NoRequest
  <2>2. req[c].step # "none"
    BY DEF Handle, EnqueueRun, PatchUpdate, ListRepeats, RemoveRepeats, AddRepeat, DeleteList,
           DeleteFile, DeleteRow, RestoreAccess, RestoreGuard, RestoreCreate, RestoreEnqueue, At
  <2> QED
    BY <2>1, <2>2 DEF ScheduleInv
<1>c. Respond(c) => req'[c].step = "none"
  BY <1>a DEF Respond, NoRequest
<1>d. \A s : GoTo(c, s) => req'[c].step = s /\ req'[c].op = req[c].op
  BY <1>a DEF GoTo, Request
<1>1. CASE PatchUpdate(c) \/ ListRepeats(c) \/ RemoveRepeats(c) \/ AddRepeat(c)
  BY <1>1, <1>b, RescheduleStep
<1>2. CASE EnqueueRun(c) \/ RestoreEnqueue(c)
  BY <1>2, <1>b, <1>c, ScheduleRequest DEF EnqueueRun, RestoreEnqueue, At
<1>3. CASE RestoreAccess(c) \/ RestoreGuard(c)
  <2>1. Respond(c) \/ GoTo(c, "guard") \/ GoTo(c, "create")
    BY <1>3 DEF RestoreAccess, RestoreGuard
  <2>2. req'[c].step \in {"none", "guard", "create"}
    BY <2>1, <1>c, <1>d
  <2>3. req[c].step \in {"access", "guard"} /\ UNCHANGED <<jobRow, repeat, boot>>
    BY <1>3 DEF RestoreAccess, RestoreGuard, At
  <2> QED
    BY <1>b, <2>2, <2>3, ScheduleRequest
<1>4. CASE RestoreCreate(c)
  <2>1. Respond(c) \/ \E m : req' = [req EXCEPT ![c] = [@ EXCEPT !.step = "enqueueRestore",
                                                              !.restore = m]]
    BY <1>4 DEF RestoreCreate
  <2>2. req'[c].step \in {"none", "enqueueRestore"}
    BY <2>1, <1>a, <1>c DEF Request
  <2> QED
    BY <1>4, <1>b, <2>2, ScheduleRequest DEF RestoreCreate, At
<1>5. CASE DeleteList(c)
  <2>1. req'[c].step = "rm"
    BY <1>5, <1>a DEF DeleteList, Request
  <2> QED
    BY <1>5, <1>b, <2>1, ScheduleRequest DEF DeleteList, At
<1>6. CASE DeleteFile(c) /\ req[c].files # {}
  <2>1. req'[c].step = "rm"
    BY <1>6, <1>a DEF DeleteFile, At, Request
  <2> QED
    BY <1>6, <1>b, <2>1, ScheduleRequest DEF DeleteFile, At
<1>7. CASE DeleteFile(c) /\ req[c].files = {}
  <2>1. req'[c].step = "list" /\ req'[c].op = "delete" /\ UNCHANGED <<jobRow, repeat, boot>>
    BY <1>7, <1>d DEF DeleteFile, At
  <2> QED
    BY <1>a, <1>b, <2>1 DEF ScheduleInv
<1>8. CASE DeleteRow(c)
  <2>1. req'[c].step = "none" /\ UNCHANGED <<repeat, boot>>
    BY <1>8, <1>c DEF DeleteRow
  <2>2. jobRow'.exists = FALSE
    BY <1>8, <1>a DEF DeleteRow, DropJob, JobRow
  <2> QED
    BY <1>a, <1>b, <2>1, <2>2 DEF ScheduleInv
<1> QED
  BY <1>1, <1>2, <1>3, <1>4, <1>5, <1>6, <1>7, <1>8 DEF Handle

\* A request, as it is issued, reschedules nothing yet.
LEMMA ScheduleIssue ==
  ASSUME ScheduleInv, OneClient, TypeOK, NEW c \in Client,
         IssueRun(c) \/ IssueDelete(c) \/ IssuePatch(c) \/ IssueRestore(c)
  PROVE  ScheduleInv'
<1>1. ASSUME NEW r, Issue(c, r), r.step \notin {"list", "remove", "add"} PROVE ScheduleInv'
  <2>1. req'[c].step = r.step /\ req[c].step = "none"
    BY <1>1 DEF Issue, TypeOK, NoRequest
  <2> QED
    BY <1>1, <2>1, ScheduleRequest DEF Issue
<1> USE DEF NoRequest
<1>2. CASE IssueRun(c)
  BY <1>1, <1>2 DEF IssueRun
<1>3. CASE IssueDelete(c)
  BY <1>1, <1>3 DEF IssueDelete
<1>4. CASE IssuePatch(c)
  BY <1>1, <1>4 DEF IssuePatch
<1>5. CASE IssueRestore(c)
  BY <1>1, <1>5 DEF IssueRestore
<1> QED
  BY <1>2, <1>3, <1>4, <1>5

\* Any step keeps Redis and the row where they should be.
LEMMA ScheduleStep ==
  ASSUME ScheduleInv, OneClient, TypeOK, [Next]_vars
  PROVE  ScheduleInv'
<1>a. jobRow \in JobRow
  BY DEF TypeOK
<1>1. CASE Attempt
  <2>1. UNCHANGED <<repeat, req, boot>>
    BY <1>1 DEF Attempt, PickUp, ReadJob, CreateRun, MarkRunning, Dump, OpenArchive, WriteArchive,
         Succeed, MarkSuccess, ListOld, Prune, DropOld, CatchRun, CatchJob, End, Mark
  <2>2. UNCHANGED jobRow \/ \E l : jobRow' = [jobRow EXCEPT !.last = l]
    BY <1>1 DEF Attempt, PickUp, ReadJob, CreateRun, MarkRunning, Dump, OpenArchive, WriteArchive,
         Succeed, MarkSuccess, ListOld, Prune, DropOld, CatchRun, CatchJob, End, Mark
  <2>3. /\ jobRow'.exists = jobRow.exists /\ jobRow'.active = jobRow.active
        /\ jobRow'.schedule = jobRow.schedule
    BY <1>a, <2>2 DEF JobRow
  <2> QED
    BY <2>1, <2>3, ScheduleLeftAlone
<1>2. CASE RestoreAttempt \/ Fire \/ CheckStalled \/ CheckStalledRestore \/ UNCHANGED vars
  <2>1. UNCHANGED <<jobRow, repeat, req, boot>>
    BY <1>2 DEF RestoreAttempt, RestorePickUp, RestoreRead, RestoreMark, Extract, Load,
         RestoreSucceed, RestoreCatch, RestoreEnd, SetStatus, Fire, CheckStalled,
         CheckStalledRestore, vars
  <2> QED
    BY <2>1, ScheduleLeftAlone
<1>3. CASE \E c \in Client : IssueRun(c) \/ IssueDelete(c) \/ IssuePatch(c) \/ IssueRestore(c)
  BY <1>3, ScheduleIssue
<1>4. CASE \E c \in Client : Handle(c)
  BY <1>4, ScheduleHandle
<1>5. CASE DeleteConnection
  <2>1. boot = "up" /\ UNCHANGED <<repeat, req, boot>> /\ jobRow'.exists = FALSE
    BY <1>5, <1>a DEF DeleteConnection, DropJob, JobRow
  <2> QED
    BY <2>1 DEF ScheduleInv, Schedules
<1>6. CASE Crash
  BY <1>6 DEF Crash, ScheduleInv
<1>7. CASE BootClear
  <2>1. UNCHANGED <<jobRow, req>> /\ repeat' = {} /\ \A c \in Client : req[c] = NoRequest
    BY <1>7 DEF BootClear, ScheduleInv
  <2>2. NoRequest.step = "none"
    BY DEF NoRequest
  <2>3. CASE Scheduled
    BY <1>7, <2>1, <2>3 DEF BootClear, ScheduleInv, Scheduled
  <2>4. CASE ~Scheduled
    BY <1>7, <2>1, <2>2, <2>4 DEF BootClear, ScheduleInv, Scheduled, Expected
  <2> QED
    BY <2>3, <2>4
<1>8. CASE BootAdd
  <2>1. /\ UNCHANGED <<jobRow, req>> /\ repeat' = {jobRow.schedule} /\ boot' = "up" /\ Scheduled
        /\ \A c \in Client : req[c] = NoRequest
    BY <1>8 DEF BootAdd, ScheduleInv
  <2>2. repeat' = Expected' /\ NoRequest.step = "none"
    BY <2>1 DEF Expected, Scheduled, NoRequest
  <2> QED
    BY <2>1, <2>2 DEF ScheduleInv
<1> QED
  BY <1>1, <1>2, <1>3, <1>4, <1>5, <1>6, <1>7, <1>8 DEF Next, Boot

LEMMA ScheduleInitially == ASSUME OneClient, Init PROVE ScheduleInv
<1>1. PICK c \in Client, s \in Schedule :
        /\ jobRow = [exists |-> TRUE, active |-> TRUE, schedule |-> s, last |-> "none"]
        /\ req = [d \in Client |-> IF d = c THEN [NoRequest EXCEPT !.op = "create", !.step = "list",
                                                                  !.schedule = s]
                                            ELSE NoRequest]
  BY DEF Init
<1>2. \A d \in Client : /\ req[d].step = "list" /\ req[d].active = jobRow.active
                        /\ req[d].schedule = jobRow.schedule
  BY <1>1 DEF OneClient, NoRequest
<1>3. boot = "up"
  BY DEF Init
<1> QED
  BY <1>2, <1>3 DEF ScheduleInv

(* When one request at a time is served, Redis follows the row: after every
   request, restart and crash an active job has exactly the repeatable job of
   its schedule, any other none. *)
THEOREM ScheduleMatchesRowHolds == ASSUME OneClient PROVE Spec => []ScheduleMatchesRow
<1>1. Init => TypeOK /\ ScheduleInv
  BY InitTyped, ScheduleInitially
<1>2. TypeOK /\ ScheduleInv /\ [Next]_vars => (TypeOK /\ ScheduleInv)'
  BY TypeStep, ScheduleStep
<1>3. ScheduleInv => ScheduleMatchesRow
  <2>1. NoRequest.step = "none"
    BY DEF NoRequest
  <2>2. \E c \in Client : TRUE
    BY BackupAssumption
  <2> QED
    BY <2>1, <2>2 DEF ScheduleInv, ScheduleMatchesRow, Settled
<1> QED
  BY <1>1, <1>2, <1>3, PTL DEF Spec

-----------------------------------------------------------------------------
(* The retention. *)

\* What is left to delete has every run beyond the newest Keep in it.
RetentionInv == pc \in {"prune", "drop"} => Beyond(Keep) \subseteq old

\* A set of runs has an oldest.
LEMMA OldestRun ==
  ASSUME NEW S \in SUBSET Run, S # {}
  PROVE  \E n \in S : \A m \in S : n <= m
<1> DEFINE older(n) == {k \in S : k < n}
           T == {older(n) : n \in S}
<1>1. T # {} /\ \A n \in S : n \in Int
  <2>1. \A n \in S : n \in Int
    BY DEF Run
  <2>2. PICK n \in S : TRUE
    OBVIOUS
  <2>3. older(n) \in T
    BY <2>2
  <2> QED BY <2>1, <2>3
<1>2. T \subseteq FiniteSubsetsOf(Run)
  <2>1. \A n \in S : older(n) \in SUBSET Run
    OBVIOUS
  <2>2. \A n \in S : IsFiniteSet(older(n))
    BY <2>1, RunsFinite
  <2> QED BY <2>1, <2>2 DEF FiniteSubsetsOf
<1>3. PICK x \in T : \A y \in T : <<y, x>> \notin StrictSubsetOrdering(Run)
  <2> HIDE DEF T
  <2> QED BY <1>1, <1>2, FS_StrictSubsetOrderingWellFounded, WFMin
<1>4. PICK n \in S : x = older(n)
  BY <1>3
<1>5. ASSUME NEW m \in S, m < n PROVE FALSE
  <2>1. older(m) \subseteq older(n) /\ m \in older(n) /\ m \notin older(m)
    BY <1>1, <1>5
  <2>2. older(m) \in SUBSET Run /\ older(n) \in SUBSET Run /\ older(m) \in T
    OBVIOUS
  <2>3. <<older(m), older(n)>> \in StrictSubsetOrdering(Run)
    <3> HIDE DEF older
    <3> QED BY <2>1, <2>2 DEF StrictSubsetOrdering
  <2> QED BY <1>3, <1>4, <2>2, <2>3
<1> QED BY <1>1, <1>5

\* A set of runs none of which is beyond Keep newer ones has at most Keep.
LEMMA NoneBeyond ==
  ASSUME Beyond(Keep) = {}
  PROVE  Cardinality(Successes) <= Keep
<1>1. Successes \in SUBSET Run /\ Successes \in SUBSET Nat /\ Keep \in Nat /\ Keep > 0
  BY BackupAssumption DEF Successes, Run
<1>2. IsFiniteSet(Successes) /\ Cardinality(Successes) \in Nat
  BY <1>1, RunsFinite
<1>3. CASE Successes = {}
  BY <1>1, <1>3, FS_EmptySet
<1>4. CASE Successes # {}
  <2>1. PICK n \in Successes : \A m \in Successes : n <= m
    BY <1>1, <1>4, OldestRun
  <2>2. Newer(n) = Successes \ {n}
    <3>1. \A k \in Successes : n <= k /\ k \in Int /\ n \in Int
      BY <1>1, <2>1
    <3>2. \A k \in Successes : k > n <=> k # n
      BY <3>1
    <3> QED BY <3>2 DEF Newer
  <2>3. Cardinality(Newer(n)) = Cardinality(Successes) - 1
    BY <1>2, <2>1, <2>2, FS_RemoveElement
  <2>4. ~(Cardinality(Newer(n)) >= Keep)
    BY <2>1 DEF Beyond
  <2> QED BY <1>1, <1>2, <2>3, <2>4
<1> QED BY <1>3, <1>4

LEMMA BeyondShrinks ==
  ASSUME Successes' \subseteq Successes
  PROVE  Beyond(Keep)' \subseteq Beyond(Keep)
<1> SUFFICES ASSUME NEW n \in Beyond(Keep)' PROVE n \in Beyond(Keep)
  OBVIOUS
<1>1. n \in Successes' /\ n \in Successes /\ Cardinality(Newer(n)') >= Keep
  BY DEF Beyond
<1>2. Newer(n)' \in SUBSET Newer(n) /\ Newer(n)' \in SUBSET Run /\ Newer(n) \in SUBSET Run
  BY DEF Newer, Successes
<1>3. /\ IsFiniteSet(Newer(n)) /\ Cardinality(Newer(n)) \in Nat /\ Cardinality(Newer(n)') \in Nat
      /\ Keep \in Nat
  BY <1>2, RunsFinite, BackupAssumption
<1>4. Cardinality(Newer(n)') <= Cardinality(Newer(n))
  BY <1>2, <1>3, FS_Subset
<1>5. Cardinality(Newer(n)) >= Keep
  BY <1>1, <1>3, <1>4
<1> QED BY <1>1, <1>5 DEF Beyond

\* A job that goes, and a run that is dropped, take successes away.
LEMMA DropsSuccesses ==
  ASSUME TypeOK, DropJob \/ UNCHANGED run
  PROVE  Successes' \subseteq Successes
BY DEF DropJob, Successes, Created, TypeOK

\* Only the attempt adds a success, or changes what it is about to delete.
LEMMA RetentionLeftAlone ==
  ASSUME TypeOK, [Next]_vars, ~Attempt, ~Crash
  PROVE  UNCHANGED <<pc, old>> /\ Successes' \subseteq Successes
<1>1. CASE RestoreAttempt \/ Fire \/ CheckStalled \/ CheckStalledRestore \/ Boot \/ UNCHANGED vars
  <2>1. UNCHANGED <<pc, old, run>>
    BY <1>1 DEF RestoreAttempt, RestorePickUp, RestoreRead, RestoreMark, Extract, Load,
         RestoreSucceed, RestoreCatch, RestoreEnd, SetStatus, Fire, CheckStalled,
         CheckStalledRestore, Boot, BootClear, BootAdd, vars
  <2> QED BY <2>1, DropsSuccesses
<1>2. CASE \E c \in Client : IssueRun(c) \/ IssueDelete(c) \/ IssuePatch(c) \/ IssueRestore(c)
  <2>1. UNCHANGED <<pc, old, run>>
    BY <1>2 DEF IssueRun, IssueDelete, IssuePatch, IssueRestore, Issue
  <2> QED BY <2>1, DropsSuccesses
<1>3. CASE \E c \in Client : Handle(c)
  <2>1. UNCHANGED <<pc, old>> /\ (DropJob \/ UNCHANGED run)
    BY <1>3 DEF Handle, EnqueueRun, PatchUpdate, ListRepeats, RemoveRepeats, AddRepeat, DeleteList,
         DeleteFile, DeleteRow, RestoreAccess, RestoreGuard, RestoreCreate, RestoreEnqueue
  <2> QED BY <2>1, DropsSuccesses
<1>4. CASE DeleteConnection
  <2>1. UNCHANGED <<pc, old>> /\ DropJob
    BY <1>4 DEF DeleteConnection
  <2> QED BY <2>1, DropsSuccesses
<1> QED BY <1>1, <1>2, <1>3, <1>4 DEF Next

LEMMA RetentionStep ==
  ASSUME TypeOK, RetentionInv, [Next]_vars
  PROVE  RetentionInv'
<1>1. CASE ~Attempt /\ ~Crash
  <2>1. UNCHANGED <<pc, old>> /\ Beyond(Keep)' \subseteq Beyond(Keep)
    BY <1>1, RetentionLeftAlone, BeyondShrinks
  <2> QED BY <2>1 DEF RetentionInv
<1>2. CASE Crash
  BY <1>2 DEF Crash, RetentionInv
<1>3. CASE PickUp \/ ReadJob \/ CreateRun \/ MarkRunning \/ Dump \/ OpenArchive \/ WriteArchive
           \/ Succeed \/ MarkSuccess \/ CatchRun \/ CatchJob \/ End
  <2>1. pc' \notin {"prune", "drop"}
    BY <1>3 DEF PickUp, ReadJob, CreateRun, MarkRunning, Dump, OpenArchive, WriteArchive, Succeed,
         MarkSuccess, CatchRun, CatchJob, End, Mark
  <2> QED BY <2>1 DEF RetentionInv
<1>4. CASE ListOld
  <2>1. old' = Beyond(Keep) /\ UNCHANGED run
    BY <1>4 DEF ListOld
  <2>2. Beyond(Keep)' \subseteq Beyond(Keep)
    BY <2>1, DropsSuccesses, BeyondShrinks
  <2> QED BY <2>1, <2>2 DEF RetentionInv
<1>5. CASE Prune
  <2>1. pc = "prune" /\ UNCHANGED <<old, run>>
    BY <1>5 DEF Prune
  <2>2. Beyond(Keep)' \subseteq Beyond(Keep)
    BY <2>1, DropsSuccesses, BeyondShrinks
  <2> QED BY <2>1, <2>2 DEF RetentionInv
<1>6. CASE DropOld
  <2>1. PICK n \in old : run' = [run EXCEPT ![n] = "gone"] /\ old' = old \ {n}
    BY <1>6 DEF DropOld
  <2>2. Successes' \subseteq Successes /\ n \notin Successes'
    BY <2>1 DEF Successes, TypeOK
  <2>3. Beyond(Keep)' \subseteq Beyond(Keep) /\ n \notin Beyond(Keep)'
    BY <2>2, BeyondShrinks DEF Beyond
  <2>4. pc = "drop"
    BY <1>6 DEF DropOld
  <2> QED BY <2>1, <2>3, <2>4 DEF RetentionInv
<1> QED BY <1>1, <1>2, <1>3, <1>4, <1>5, <1>6 DEF Attempt

(* An attempt that gets to the end of the retention leaves at most Keep
   successful runs, for any Keep and whatever attempts before it died. *)
THEOREM RetentionEnforcedHolds == Spec => RetentionEnforced
<1>1. Init => TypeOK /\ RetentionInv
  BY InitTyped DEF Init, RetentionInv
<1>2. TypeOK /\ RetentionInv /\ [Next]_vars => (TypeOK /\ RetentionInv)'
  BY TypeStep, RetentionStep
<1>3. TypeOK /\ RetentionInv /\ [Next]_vars =>
        [pc = "prune" /\ pc' = "end" => Cardinality(Successes') <= Keep]_vars
  <2> SUFFICES ASSUME TypeOK, RetentionInv, [Next]_vars, pc = "prune", pc' = "end"
               PROVE  Cardinality(Successes') <= Keep
    OBVIOUS
  <2>1. Attempt
    BY RetentionLeftAlone DEF Crash
  <2>2. Prune
    BY <2>1 DEF Attempt, PickUp, ReadJob, CreateRun, MarkRunning, Dump, OpenArchive, WriteArchive,
         Succeed, MarkSuccess, ListOld, DropOld, CatchRun, CatchJob, End, Mark
  <2>3. old = {} /\ UNCHANGED run
    BY <2>2 DEF Prune
  <2>4. Beyond(Keep) = {}
    BY <2>3 DEF RetentionInv
  <2>5. Successes' = Successes
    BY <2>3 DEF Successes
  <2> QED BY <2>4, <2>5, NoneBeyond
<1> QED
  BY <1>1, <1>2, <1>3, PTL DEF Spec, RetentionEnforced

-----------------------------------------------------------------------------
(* The restores in flight. *)

Enqueuing(c) == At(c, "restore", "enqueueRestore")

\* The restore worker holds an active job, and has settled its restore when it is at its end.
RestorerInv ==
  /\ rpc # "idle" => rcur # 0
  /\ rpc = "idle" => rcur = 0
  /\ rcur # 0 => restore[rcur].job = "active"
  /\ rpc = "end" => restore[rcur].status \notin InFlight

\* A request that is about to enqueue a restore has made it, alone, and it has no job yet.
EnqueueInv ==
  /\ \A c \in Client : Enqueuing(c) =>
       /\ req[c].restore \in RestoreRun
       /\ restore[req[c].restore].status # "none" /\ restore[req[c].restore].job = "none"
  /\ \A c, d \in Client : Enqueuing(c) /\ Enqueuing(d) /\ req[c].restore = req[d].restore => c = d

CarriedInv == RestorerInv /\ EnqueueInv /\ RestoreCarried

\* A restore that the deletions leave alone, or that goes with its run.
LEMMA RestoresGone ==
  ASSUME TypeOK, NEW S, restore' = WithoutRestoresOf(S)
  PROVE  \A m \in RestoreRun :
           /\ restore'[m].job = restore[m].job
           /\ restore'[m].status = restore[m].status \/ restore'[m].status = "gone"
BY DEF TypeOK, WithoutRestoresOf, Restore

\* A step that no restore and no request about to enqueue one takes part in.
LEMMA CarriedAlone ==
  ASSUME TypeOK, CarriedInv, UNCHANGED restorer, crashes' >= crashes, crashes \in Nat, crashes' \in Nat,
         \A m \in RestoreRun :
           /\ restore'[m].job = restore[m].job
           /\ restore'[m].status = restore[m].status \/ restore'[m].status = "gone",
         \A c \in Client : /\ Enqueuing(c)' <=> Enqueuing(c)
                           /\ Enqueuing(c) => req'[c].restore = req[c].restore
  PROVE  CarriedInv'
<1>1. rcur \in {0} \cup RestoreRun
  BY DEF TypeOK
<1>2. RestorerInv'
  BY <1>1 DEF CarriedInv, RestorerInv, InFlight
<1>3. EnqueueInv'
  <2>1. ASSUME NEW c \in Client, Enqueuing(c)'
        PROVE  /\ req'[c].restore \in RestoreRun
               /\ restore'[req'[c].restore].status # "none" /\ restore'[req'[c].restore].job = "none"
    <3>1. /\ Enqueuing(c) /\ req'[c].restore = req[c].restore /\ req[c].restore \in RestoreRun
          /\ restore[req[c].restore].status # "none" /\ restore[req[c].restore].job = "none"
      BY <2>1 DEF CarriedInv, EnqueueInv
    <3> QED BY <3>1
  <2>2. ASSUME NEW c \in Client, NEW d \in Client, Enqueuing(c)', Enqueuing(d)', req'[c].restore = req'[d].restore
        PROVE  c = d
    BY <2>2 DEF CarriedInv, EnqueueInv
  <2> QED BY <2>1, <2>2 DEF EnqueueInv
<1>4. RestoreCarried'
  <2> SUFFICES ASSUME crashes' = 0, NEW m \in RestoreRun, restore'[m].status \in InFlight
               PROVE  restore'[m].job = "waiting" \/ rcur' = m \/ \E c \in Client : Enqueuing(c)' /\ req'[c].restore = m
    BY DEF RestoreCarried, Enqueuing, At
  <2>1. crashes = 0 /\ restore[m].status \in InFlight
    BY DEF InFlight
  <2>2. restore[m].job = "waiting" \/ rcur = m \/ \E c \in Client : Enqueuing(c) /\ req[c].restore = m
    BY <2>1 DEF CarriedInv, RestoreCarried, Enqueuing
  <2> QED BY <2>2
<1> QED BY <1>2, <1>3, <1>4 DEF CarriedInv

\* One restore changes.
LEMMA RestoreChanged ==
  ASSUME TypeOK, NEW m \in RestoreRun
  PROVE  /\ \A j \in {"none", "waiting", "active", "ended"} :
              restore' = [restore EXCEPT ![m].job = j] =>
                /\ restore' \in [RestoreRun -> Restore]
                /\ restore'[m].job = j /\ restore'[m].status = restore[m].status
                /\ \A k \in RestoreRun \ {m} : restore'[k] = restore[k]
         /\ \A s \in RunStatus \cup {"queued"} :
              restore' = [restore EXCEPT ![m].status = s] =>
                /\ restore' \in [RestoreRun -> Restore]
                /\ restore'[m].status = s /\ restore'[m].job = restore[m].job
                /\ \A k \in RestoreRun \ {m} : restore'[k] = restore[k]
<1>1. restore \in [RestoreRun -> Restore] /\ restore[m] \in Restore
  BY DEF TypeOK
<1>2. ASSUME NEW j \in {"none", "waiting", "active", "ended"}, restore' = [restore EXCEPT ![m].job = j]
      PROVE  /\ restore' \in [RestoreRun -> Restore]
             /\ restore'[m].job = j /\ restore'[m].status = restore[m].status
             /\ \A k \in RestoreRun \ {m} : restore'[k] = restore[k]
  <2>1. restore' \in [RestoreRun -> Restore]
    BY <1>1, <1>2, RestoreFields
  <2> QED BY <1>1, <1>2, <2>1 DEF Restore
<1>3. ASSUME NEW s \in RunStatus \cup {"queued"}, restore' = [restore EXCEPT ![m].status = s]
      PROVE  /\ restore' \in [RestoreRun -> Restore]
             /\ restore'[m].status = s /\ restore'[m].job = restore[m].job
             /\ \A k \in RestoreRun \ {m} : restore'[k] = restore[k]
  <2>1. restore' \in [RestoreRun -> Restore]
    BY <1>1, <1>3, RestoreFields
  <2> QED BY <1>1, <1>3, <2>1 DEF Restore
<1> QED BY <1>2, <1>3

\* The restore worker: it takes a job that no request is about to enqueue, and settles its restore.
LEMMA RestorerStep ==
  ASSUME TypeOK, CarriedInv, RestoreAttempt
  PROVE  CarriedInv'
<1>1. /\ UNCHANGED <<req, crashes>> /\ restore \in [RestoreRun -> Restore] /\ rcur \in {0} \cup RestoreRun
      /\ \A c \in Client : (Enqueuing(c)' <=> Enqueuing(c))
      /\ 0 \notin RestoreRun
  BY DEF RestoreAttempt, RestorePickUp, RestoreRead, RestoreMark, Extract, Load, RestoreSucceed,
         RestoreCatch, RestoreEnd, SetStatus, TypeOK, Enqueuing, At, RestoreRun
<1>2. /\ \A c \in Client : Enqueuing(c) =>
           /\ req[c].restore \in RestoreRun /\ restore[req[c].restore].status # "none"
           /\ restore[req[c].restore].job = "none"
      /\ \A c, d \in Client : Enqueuing(c) /\ Enqueuing(d) /\ req[c].restore = req[d].restore => c = d
  BY DEF CarriedInv, EnqueueInv
<1>3. crashes = 0 => \A m \in RestoreRun : restore[m].status \in InFlight =>
        restore[m].job = "waiting" \/ rcur = m \/ \E c \in Client : Enqueuing(c) /\ req[c].restore = m
  BY DEF CarriedInv, RestoreCarried, Enqueuing
<1>4. ASSUME NEW m \in RestoreRun, restore[m].job # "none", restore' \in [RestoreRun -> Restore],
             \A k \in RestoreRun \ {m} : restore'[k] = restore[k]
      PROVE  EnqueueInv'
  <2>1. ASSUME NEW c \in Client, Enqueuing(c)
        PROVE  /\ req[c].restore \in RestoreRun
               /\ restore'[req[c].restore].status # "none" /\ restore'[req[c].restore].job = "none"
    BY <1>2, <1>4, <2>1
  <2> QED BY <1>1, <1>2, <2>1 DEF EnqueueInv
<1>5. CASE RestorePickUp
  <2>1. PICK m \in RestoreRun : restore[m].job = "waiting" /\ restore' = [restore EXCEPT ![m].job = "active"] /\ rcur' = m
    BY <1>5 DEF RestorePickUp
  <2>2. rpc = "idle" /\ rpc' = "read" /\ rcur = 0
    BY <1>5 DEF RestorePickUp, CarriedInv, RestorerInv
  <2>3. /\ restore' \in [RestoreRun -> Restore] /\ restore'[m].job = "active"
        /\ \A k \in RestoreRun \ {m} : restore'[k] = restore[k]
    BY <2>1, RestoreChanged
  <2>4. RestorerInv'
    BY <1>1, <2>1, <2>2, <2>3 DEF RestorerInv
  <2>5. EnqueueInv'
    BY <1>4, <2>1, <2>3
  <2>6. RestoreCarried'
    <3> SUFFICES ASSUME crashes = 0, NEW k \in RestoreRun, restore'[k].status \in InFlight, k # m
                 PROVE  restore'[k].job = "waiting" \/ \E c \in Client : Enqueuing(c) /\ req[c].restore = k
      BY <1>1, <2>1 DEF RestoreCarried, Enqueuing, At
    <3> QED BY <1>1, <1>3, <2>2, <2>3
  <2> QED BY <2>4, <2>5, <2>6 DEF CarriedInv
<1>6. CASE RestoreRead \/ Extract \/ Load
  <2>1. UNCHANGED <<restore, rcur>> /\ rpc # "idle" /\ rpc' # "idle"
    BY <1>6 DEF RestoreRead, Extract, Load
  <2>2. rpc' = "end" => restore[rcur].status \notin InFlight
    BY <1>6 DEF RestoreRead, Extract, Load, InFlight
  <2>3. RestorerInv'
    BY <2>1, <2>2 DEF CarriedInv, RestorerInv
  <2>4. EnqueueInv' /\ RestoreCarried'
    BY <1>1, <1>2, <1>3, <2>1 DEF EnqueueInv, RestoreCarried, Enqueuing, At
  <2> QED BY <2>3, <2>4 DEF CarriedInv
<1>7. ASSUME NEW s \in RunStatus \cup {"queued"}, NEW next, NEW thrown, SetStatus(s, next, thrown), rpc # "idle",
             next # "idle", thrown # "idle", next = "end" => s \notin InFlight
      PROVE  CarriedInv'
  <2>1. rcur \in RestoreRun /\ restore[rcur].job = "active" /\ rcur' = rcur
    BY <1>1, <1>7 DEF CarriedInv, RestorerInv, SetStatus
  <2>2. CASE restore[rcur].status # "gone"
    <3>1. restore' = [restore EXCEPT ![rcur].status = s] /\ rpc' = next
      BY <1>7, <2>2 DEF SetStatus
    <3>2. /\ restore' \in [RestoreRun -> Restore] /\ restore'[rcur].job = "active" /\ restore'[rcur].status = s
          /\ \A k \in RestoreRun \ {rcur} : restore'[k] = restore[k]
      BY <1>7, <2>1, <3>1, RestoreChanged
    <3>3. RestorerInv'
      BY <1>1, <1>7, <2>1, <3>1, <3>2 DEF RestorerInv
    <3>4. EnqueueInv'
      BY <1>4, <2>1, <3>2
    <3>5. RestoreCarried'
      <4> SUFFICES ASSUME crashes = 0, NEW k \in RestoreRun, restore'[k].status \in InFlight, k # rcur
                   PROVE  restore'[k].job = "waiting" \/ \E c \in Client : Enqueuing(c) /\ req[c].restore = k
        BY <1>1, <2>1 DEF RestoreCarried, Enqueuing, At
      <4> QED BY <1>1, <1>3, <2>1, <3>2
    <3> QED BY <3>3, <3>4, <3>5 DEF CarriedInv
  <2>3. CASE restore[rcur].status = "gone"
    <3>1. UNCHANGED restore /\ rpc' = thrown
      BY <1>7, <2>3 DEF SetStatus
    <3>2. RestorerInv'
      BY <1>1, <1>7, <2>1, <2>3, <3>1 DEF RestorerInv, InFlight
    <3>3. EnqueueInv' /\ RestoreCarried'
      BY <1>1, <1>2, <1>3, <2>1, <3>1 DEF EnqueueInv, RestoreCarried, Enqueuing, At
    <3> QED BY <3>2, <3>3 DEF CarriedInv
  <2> QED BY <2>2, <2>3
<1>8. CASE RestoreMark \/ RestoreSucceed \/ RestoreCatch
  <2>1. CASE RestoreMark
    BY <1>7, <2>1 DEF RestoreMark, RunStatus
  <2>2. CASE RestoreSucceed
    BY <1>7, <2>2 DEF RestoreSucceed, RunStatus, InFlight
  <2>3. CASE RestoreCatch
    BY <1>7, <2>3 DEF RestoreCatch, RunStatus, InFlight
  <2> QED BY <1>8, <2>1, <2>2, <2>3
<1>9. CASE RestoreEnd
  <2>1. /\ rcur \in RestoreRun /\ restore[rcur].job = "active" /\ restore[rcur].status \notin InFlight
        /\ restore' = [restore EXCEPT ![rcur].job = "ended"] /\ rpc' = "idle" /\ rcur' = 0
    BY <1>1, <1>9 DEF RestoreEnd, CarriedInv, RestorerInv
  <2>2. /\ restore' \in [RestoreRun -> Restore] /\ restore'[rcur].status = restore[rcur].status
        /\ \A k \in RestoreRun \ {rcur} : restore'[k] = restore[k]
    BY <2>1, RestoreChanged
  <2>3. RestorerInv'
    BY <2>1 DEF RestorerInv
  <2>4. EnqueueInv'
    BY <1>4, <2>1, <2>2
  <2>5. RestoreCarried'
    <3> SUFFICES ASSUME crashes = 0, NEW k \in RestoreRun, restore'[k].status \in InFlight
                 PROVE  restore'[k].job = "waiting" \/ \E c \in Client : Enqueuing(c) /\ req[c].restore = k
      BY <1>1 DEF RestoreCarried, Enqueuing, At
    <3>1. k # rcur
      BY <2>1, <2>2
    <3> QED BY <1>3, <2>2, <3>1
  <2> QED BY <2>3, <2>4, <2>5 DEF CarriedInv
<1> QED BY <1>5, <1>6, <1>8, <1>9 DEF RestoreAttempt

\* A stalled job is not the restore worker's, so its restore is not in flight while nothing has died.
LEMMA StalledRestoreStep ==
  ASSUME TypeOK, CarriedInv, CheckStalledRestore
  PROVE  CarriedInv'
<1>1. PICK m \in RestoreRun : /\ restore[m].job = "active" /\ rcur # m
                              /\ restore' = [restore EXCEPT ![m] = Recovered(restore[m])]
                              /\ UNCHANGED <<rpc, rcur, req, crashes>>
  BY DEF CheckStalledRestore
<1>2. /\ restore \in [RestoreRun -> Restore] /\ rcur \in {0} \cup RestoreRun
      /\ restore'[m].status = restore[m].status /\ \A k \in RestoreRun \ {m} : restore'[k] = restore[k]
  BY <1>1 DEF TypeOK, Recovered, Restore
<1>3. \A c \in Client : /\ Enqueuing(c)' <=> Enqueuing(c)
                        /\ Enqueuing(c) => req[c].restore \in RestoreRun /\ req[c].restore # m
                                           /\ restore[req[c].restore].status # "none" /\ restore[req[c].restore].job = "none"
  BY <1>1 DEF CarriedInv, EnqueueInv, Enqueuing, At
<1>4. RestorerInv'
  BY <1>1, <1>2 DEF CarriedInv, RestorerInv
<1>5. EnqueueInv'
  <2>1. \A c, d \in Client : Enqueuing(c) /\ Enqueuing(d) /\ req[c].restore = req[d].restore => c = d
    BY DEF CarriedInv, EnqueueInv
  <2> QED BY <1>1, <1>2, <1>3, <2>1 DEF EnqueueInv
<1>6. RestoreCarried'
  <2> SUFFICES ASSUME crashes = 0, NEW k \in RestoreRun, restore'[k].status \in InFlight
               PROVE  restore'[k].job = "waiting" \/ rcur = k \/ \E c \in Client : Enqueuing(c) /\ req[c].restore = k
    BY <1>1 DEF RestoreCarried, Enqueuing, At
  <2>1. restore[k].job = "waiting" \/ rcur = k \/ \E c \in Client : Enqueuing(c) /\ req[c].restore = k
    BY <1>2 DEF CarriedInv, RestoreCarried, Enqueuing
  <2>2. k # m
    BY <1>1, <1>3, <2>1
  <2> QED BY <1>2, <2>1, <2>2
<1> QED BY <1>4, <1>5, <1>6 DEF CarriedInv

\* What a handler leaves behind of its request.
LEMMA RequestChanged ==
  ASSUME TypeOK, NEW c \in Client
  PROVE  /\ Respond(c) => ~Enqueuing(c)' /\ \A d \in Client \ {c} : req'[d] = req[d]
         /\ \A s : GoTo(c, s) /\ s # "enqueueRestore" => ~Enqueuing(c)' /\ \A d \in Client \ {c} : req'[d] = req[d]
BY DEF TypeOK, Respond, GoTo, Enqueuing, At, NoRequest, Request

\* A handler that has nothing to do with restores.
LEMMA HandleElsewhere ==
  ASSUME TypeOK, TypeOK', CarriedInv, NEW c \in Client, Handle(c),
         ~RestoreCreate(c), ~RestoreEnqueue(c)
  PROVE  CarriedInv'
<1>1. UNCHANGED <<rpc, rcur, crashes>> /\ (UNCHANGED restore \/ restore' = WithoutRestoresOf(Created))
  BY DEF Handle, EnqueueRun, PatchUpdate, ListRepeats, RemoveRepeats, AddRepeat, DeleteList,
         DeleteFile, DeleteRow, DropJob, RestoreAccess, RestoreGuard
<1>2. \A m \in RestoreRun :
        /\ restore'[m].job = restore[m].job
        /\ restore'[m].status = restore[m].status \/ restore'[m].status = "gone"
  BY <1>1, RestoresGone
<1>3. ~Enqueuing(c)
  BY DEF Handle, EnqueueRun, PatchUpdate, ListRepeats, RemoveRepeats, AddRepeat, DeleteList,
         DeleteFile, DeleteRow, RestoreAccess, RestoreGuard, RestoreCreate, RestoreEnqueue, Enqueuing, At
<1>4. ~Enqueuing(c)' /\ \A d \in Client \ {c} : req'[d] = req[d]
  <2>1. CASE EnqueueRun(c) \/ PatchUpdate(c) \/ RemoveRepeats(c) \/ AddRepeat(c) \/ DeleteRow(c)
             \/ RestoreAccess(c) \/ RestoreGuard(c)
    <3>1. Respond(c) \/ \E s \in {"list", "add", "drop", "guard", "create"} : GoTo(c, s)
      BY <2>1 DEF EnqueueRun, PatchUpdate, RemoveRepeats, AddRepeat, DeleteRow, RestoreAccess, RestoreGuard
    <3> QED BY <3>1, RequestChanged
  <2>2. CASE ListRepeats(c)
    BY <2>2 DEF ListRepeats, TypeOK, Request, Enqueuing, At
  <2>3. CASE DeleteList(c)
    BY <2>3 DEF DeleteList, TypeOK, Request, Enqueuing, At
  <2>4. CASE DeleteFile(c)
    <3>1. CASE GoTo(c, "list")
      BY <3>1, RequestChanged
    <3>2. CASE \E n : req' = [req EXCEPT ![c].files = @ \ {n}]
      BY <2>4, <3>2 DEF DeleteFile, TypeOK, Request, Enqueuing, At
    <3> QED BY <2>4, <3>1, <3>2 DEF DeleteFile
  <2> QED BY <2>1, <2>2, <2>3, <2>4 DEF Handle
<1>5. \A d \in Client : (Enqueuing(d)' <=> Enqueuing(d)) /\ (Enqueuing(d) => req'[d].restore = req[d].restore)
  BY <1>3, <1>4 DEF Enqueuing, At
<1>6. crashes \in Nat /\ crashes' >= crashes /\ crashes' \in Nat
  BY <1>1 DEF TypeOK
<1> QED BY <1>1, <1>2, <1>5, <1>6, CarriedAlone

\* A restore and its request come together, and part when the job is enqueued.
LEMMA RestoreRequestStep ==
  ASSUME TypeOK, TypeOK', CarriedInv, NEW c \in Client, RestoreCreate(c) \/ RestoreEnqueue(c)
  PROVE  CarriedInv'
<1>1. /\ UNCHANGED <<rpc, rcur, crashes>> /\ rcur \in {0} \cup RestoreRun /\ 0 \notin RestoreRun
      /\ restore \in [RestoreRun -> Restore] /\ req \in [Client -> Request]
  <2>1. 0 \notin RestoreRun
    BY DEF RestoreRun
  <2> QED BY <2>1 DEF RestoreCreate, RestoreEnqueue, TypeOK
<1>2. /\ \A d \in Client : Enqueuing(d) =>
           /\ req[d].restore \in RestoreRun /\ restore[req[d].restore].status # "none"
           /\ restore[req[d].restore].job = "none"
      /\ \A d, e \in Client : Enqueuing(d) /\ Enqueuing(e) /\ req[d].restore = req[e].restore => d = e
  BY DEF CarriedInv, EnqueueInv
<1>3. crashes = 0 => \A m \in RestoreRun : restore[m].status \in InFlight =>
        restore[m].job = "waiting" \/ rcur = m \/ \E d \in Client : Enqueuing(d) /\ req[d].restore = m
  BY DEF CarriedInv, RestoreCarried, Enqueuing
<1>4. CASE RestoreCreate(c) /\ run[req[c].run] = "gone"
  <2>1. UNCHANGED restore /\ Respond(c) /\ ~Enqueuing(c)
    BY <1>4 DEF RestoreCreate, Enqueuing, At
  <2>2. \A d \in Client : (Enqueuing(d)' <=> Enqueuing(d)) /\ (Enqueuing(d) => req'[d].restore = req[d].restore)
    BY <2>1, RequestChanged DEF Enqueuing, At
  <2>3. crashes \in Nat /\ crashes' >= crashes /\ crashes' \in Nat
    BY <1>1 DEF TypeOK
  <2> QED BY <1>1, <2>1, <2>2, <2>3, CarriedAlone
<1>5. CASE RestoreCreate(c) /\ run[req[c].run] # "gone"
  <2>1. PICK m \in RestoreRun :
          /\ restore[m] = NoRestore
          /\ restore' = [restore EXCEPT ![m] = [@ EXCEPT !.of = req[c].run, !.status = "queued"]]
          /\ req' = [req EXCEPT ![c] = [@ EXCEPT !.step = "enqueueRestore", !.restore = m]]
    BY <1>5 DEF RestoreCreate
  <2>2. /\ restore[m].job = "none" /\ restore[m].status = "none"
        /\ restore'[m].job = "none" /\ restore'[m].status = "queued"
        /\ \A k \in RestoreRun \ {m} : restore'[k] = restore[k]
    BY <1>1, <2>1 DEF NoRestore
  <2>3. /\ Enqueuing(c)' /\ ~Enqueuing(c) /\ req'[c].restore = m
        /\ \A d \in Client \ {c} : req'[d] = req[d] /\ (Enqueuing(d)' <=> Enqueuing(d))
    <3>1. req[c] \in Request /\ At(c, "restore", "create")
      BY <1>1, <1>5 DEF RestoreCreate
    <3>2. req'[c] = [req[c] EXCEPT !.step = "enqueueRestore", !.restore = m]
      BY <1>1, <2>1
    <3>3. req'[c].op = "restore" /\ req'[c].step = "enqueueRestore" /\ req'[c].restore = m
      BY <3>1, <3>2 DEF Request, At
    <3>4. \A d \in Client \ {c} : req'[d] = req[d]
      BY <1>1, <2>1
    <3> QED BY <3>1, <3>3, <3>4 DEF Enqueuing, At
  <2>4. rcur # m
    BY <1>1, <2>2 DEF CarriedInv, RestorerInv
  <2>5. RestorerInv'
    BY <1>1, <2>2, <2>4 DEF CarriedInv, RestorerInv
  <2>6. EnqueueInv'
    <3>1. \A d \in Client \ {c} : Enqueuing(d) => req[d].restore # m
      BY <1>2, <2>2
    <3> QED BY <1>2, <2>2, <2>3, <3>1 DEF EnqueueInv
  <2>7. RestoreCarried'
    <3> SUFFICES ASSUME crashes = 0, NEW k \in RestoreRun, restore'[k].status \in InFlight
                 PROVE  restore'[k].job = "waiting" \/ rcur = k \/ \E d \in Client : Enqueuing(d)' /\ req'[d].restore = k
      BY <1>1 DEF RestoreCarried, Enqueuing
    <3>1. CASE k = m
      BY <2>3, <3>1
    <3>2. CASE k # m
      BY <1>3, <2>2, <2>3, <3>2
    <3> QED BY <3>1, <3>2
  <2> QED BY <2>5, <2>6, <2>7 DEF CarriedInv
<1>6. CASE RestoreEnqueue(c)
  <2> DEFINE m == req[c].restore
  <2>1. /\ Enqueuing(c) /\ Respond(c) /\ restore' = [restore EXCEPT ![m].job = "waiting"]
    BY <1>6 DEF RestoreEnqueue, Enqueuing
  <2>2. m \in RestoreRun /\ restore[m].job = "none" /\ \A d \in Client \ {c} : Enqueuing(d) => req[d].restore # m
    BY <1>2, <2>1
  <2>3. /\ restore' \in [RestoreRun -> Restore]
        /\ restore'[m].job = "waiting" /\ restore'[m].status = restore[m].status
        /\ \A k \in RestoreRun \ {m} : restore'[k] = restore[k]
    BY <2>1, <2>2, RestoreChanged
  <2>4. ~Enqueuing(c)' /\ \A d \in Client \ {c} : req'[d] = req[d] /\ (Enqueuing(d)' <=> Enqueuing(d))
    BY <2>1, RequestChanged DEF Enqueuing, At
  <2> HIDE DEF m
  <2>5. RestorerInv'
    <3>1. rcur # m
      BY <1>1, <2>2 DEF CarriedInv, RestorerInv
    <3> QED BY <1>1, <2>3, <3>1 DEF CarriedInv, RestorerInv
  <2>6. EnqueueInv'
    BY <1>2, <2>2, <2>3, <2>4 DEF EnqueueInv
  <2>7. RestoreCarried'
    <3> SUFFICES ASSUME crashes = 0, NEW k \in RestoreRun, restore'[k].status \in InFlight, k # m
                 PROVE  restore'[k].job = "waiting" \/ rcur = k \/ \E d \in Client : Enqueuing(d)' /\ req'[d].restore = k
      BY <1>1, <2>3 DEF RestoreCarried, Enqueuing
    <3>1. restore[k].job = "waiting" \/ rcur = k \/ \E d \in Client : Enqueuing(d) /\ req[d].restore = k
      BY <1>3, <2>3
    <3>2. ASSUME NEW d \in Client, Enqueuing(d), req[d].restore = k PROVE d # c
      BY <3>2 DEF m
    <3> QED BY <2>3, <2>4, <3>1, <3>2
  <2> QED BY <2>5, <2>6, <2>7 DEF CarriedInv
<1> QED BY <1>4, <1>5, <1>6

LEMMA CarriedStep ==
  ASSUME TypeOK, TypeOK', CarriedInv, [Next]_vars
  PROVE  CarriedInv'
<1>1. CASE RestoreAttempt
  BY <1>1, RestorerStep
<1>2. CASE CheckStalledRestore
  BY <1>2, StalledRestoreStep
<1>3. CASE Attempt \/ Fire \/ CheckStalled \/ DeleteConnection \/ Boot \/ UNCHANGED vars
  <2>1. /\ UNCHANGED <<rpc, rcur, req, crashes>>
        /\ UNCHANGED restore \/ \E S : restore' = WithoutRestoresOf(S)
    BY <1>3 DEF Attempt, PickUp, ReadJob, CreateRun, MarkRunning, Dump, OpenArchive, WriteArchive,
         Succeed, MarkSuccess, ListOld, Prune, DropOld, CatchRun, CatchJob, End, Mark, Fire,
         CheckStalled, DeleteConnection, DropJob, Boot, BootClear, BootAdd, vars
  <2>2. \A m \in RestoreRun :
          /\ restore'[m].job = restore[m].job
          /\ restore'[m].status = restore[m].status \/ restore'[m].status = "gone"
    BY <2>1, RestoresGone
  <2>3. \A c \in Client : (Enqueuing(c)' <=> Enqueuing(c)) /\ (Enqueuing(c) => req'[c].restore = req[c].restore)
    BY <2>1 DEF Enqueuing, At
  <2>4. crashes \in Nat /\ crashes' >= crashes /\ crashes' \in Nat
    BY <2>1 DEF TypeOK
  <2> QED BY <2>1, <2>2, <2>3, <2>4, CarriedAlone
<1>4. CASE \E c \in Client : IssueRun(c) \/ IssueDelete(c) \/ IssuePatch(c) \/ IssueRestore(c)
  <2>1. PICK c \in Client : IssueRun(c) \/ IssueDelete(c) \/ IssuePatch(c) \/ IssueRestore(c)
    BY <1>4
  <2>2. ASSUME NEW r, Issue(c, r), r.step # "enqueueRestore" PROVE CarriedInv'
    <3>1. /\ UNCHANGED <<rpc, rcur, restore, crashes>> /\ req[c] = NoRequest
          /\ req'[c] = r /\ \A d \in Client \ {c} : req'[d] = req[d]
      BY <2>2 DEF Issue, TypeOK
    <3>2. ~Enqueuing(c) /\ ~Enqueuing(c)'
      BY <2>2, <3>1 DEF Enqueuing, At, NoRequest
    <3>3. \A d \in Client : (Enqueuing(d)' <=> Enqueuing(d)) /\ (Enqueuing(d) => req'[d].restore = req[d].restore)
      BY <3>1, <3>2 DEF Enqueuing, At
    <3>4. crashes \in Nat /\ crashes' >= crashes /\ crashes' \in Nat
      BY <3>1 DEF TypeOK
    <3> QED BY <3>1, <3>3, <3>4, CarriedAlone
  <2>3. CASE IssueRun(c)
    BY <2>2, <2>3 DEF IssueRun, NoRequest
  <2>4. CASE IssueDelete(c)
    BY <2>2, <2>4 DEF IssueDelete, NoRequest
  <2>5. CASE IssuePatch(c)
    BY <2>2, <2>5 DEF IssuePatch, NoRequest
  <2>6. CASE IssueRestore(c)
    BY <2>2, <2>6 DEF IssueRestore, NoRequest
  <2> QED BY <2>1, <2>3, <2>4, <2>5, <2>6
<1>5. CASE \E c \in Client : Handle(c)
  BY <1>5, HandleElsewhere, RestoreRequestStep
<1>6. CASE Crash
  <2>1. /\ crashes' # 0 /\ rpc' = "idle" /\ rcur' = 0 /\ \A c \in Client : req'[c] = NoRequest
    BY <1>6 DEF Crash, TypeOK
  <2>2. \A c \in Client : ~Enqueuing(c)'
    BY <2>1 DEF Enqueuing, At, NoRequest
  <2> QED BY <2>1, <2>2 DEF CarriedInv, RestorerInv, EnqueueInv, RestoreCarried
<1> QED BY <1>1, <1>2, <1>3, <1>4, <1>5, <1>6 DEF Next

LEMMA CarriedInitially == Init => CarriedInv
<1> SUFFICES ASSUME Init PROVE CarriedInv
  OBVIOUS
<1>1. \A c \in Client : ~Enqueuing(c)
  BY DEF Init, Enqueuing, At, NoRequest
<1>2. \A m \in RestoreRun : restore[m].status = "none"
  BY DEF Init, NoRestore
<1>3. rpc = "idle" /\ rcur = 0
  BY DEF Init
<1> QED BY <1>1, <1>2, <1>3 DEF CarriedInv, RestorerInv, EnqueueInv, RestoreCarried, InFlight

(* As long as the process lives, a restore in flight is carried: by its BullMQ
   job, by the attempt, or by the request that is about to enqueue it, for any
   number of clients, requests, restores, deletions and stalls. *)
THEOREM RestoreCarriedHolds == Spec => []RestoreCarried
<1>1. Init => TypeOK /\ CarriedInv
  BY InitTyped, CarriedInitially
<1>2. TypeOK /\ CarriedInv /\ [Next]_vars => (TypeOK /\ CarriedInv)'
  BY TypeStep, CarriedStep
<1>3. CarriedInv => RestoreCarried
  BY DEF CarriedInv
<1> QED
  BY <1>1, <1>2, <1>3, PTL DEF Spec
=============================================================================
