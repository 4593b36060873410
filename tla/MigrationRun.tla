---------------------------- MODULE MigrationRun ----------------------------
(***************************************************************************)
(* One run of a Migration V2 job: the routes, the BullMQ job, the worker    *)
(* (worker.ts) and the pipeline whose workers share a queue of namespaces   *)
(* and one summary (pipeline.ts).  A job that stalls is run again.          *)
(***************************************************************************)
EXTENDS Integers, FiniteSets, FiniteSetsExt

CONSTANTS Namespace,   \* what listNamespaces returns
          Rows,        \* how many rows each has; a batch has one row
          MaxPending,  \* bound: updates of the progress in flight
          MaxDeaths    \* bound: processes that die in mid-run; one is put back (maxStalledCount)

ASSUME MigrationRunAssumption ==
  /\ IsFiniteSet(Namespace) /\ Rows \in [Namespace -> Nat]
  /\ MaxPending \in Nat /\ MaxDeaths \in Nat

VARIABLES
  mopt,      \* the columns of the job row, and what its destination does with a duplicate
  mrow,      \* the MigrationRunV2 row
  mjob,      \* the BullMQ job
  mpc,       \* the worker: where runMigrationJob stands
  space,     \* the namespaces, as the pipeline sees them
  summary,   \* MigrationSummary
  table,     \* the rows of each namespace at the destination
  progress,  \* progressByNs: the namespaces that are done or failed
  pending,   \* updates of the row's progress that nobody waits for
  deaths,
  overtaken  \* history: a progress update landed after a later one

migrationVars == <<mopt, mrow, mjob, mpc, space, summary, table, progress, pending, deaths, overtaken>>

Row(n) == 1..Rows[n]
Options == [drop : BOOLEAN, skips : BOOLEAN, parallel : 1..2, dry : BOOLEAN]
Terminal == {"succeeded", "partial", "failed"}
Progress == SUBSET Namespace
Space == [at : {"queued", "infer", "init", "stream", "finalise", "done", "threw"}, next : Nat,
          wrote : Nat, lost : Nat, wroteBefore : Nat, lostBefore : Nat]
NoSpace == [at |-> "queued", next |-> 1, wrote |-> 0, lost |-> 0, wroteBefore |-> 0, lostBefore |-> 0]
Summary == [ok : Nat, bad : Nat,
            wrote : Nat, lost : Nat, errors : SUBSET Namespace]
NoSummary == [ok |-> 0, bad |-> 0, wrote |-> 0, lost |-> 0, errors |-> {}]

NoRun == [phase |-> "none", cancel |-> FALSE, errors |-> {}, shown |-> {}]
Exists == mrow.phase \notin {"none", "deleted"}

MigrationTypeOK ==
  /\ mopt \in Options
  /\ mrow \in [phase : {"none", "queued", "running", "deleted"} \cup Terminal, cancel : BOOLEAN,
               errors : SUBSET Namespace, shown : Progress]
  /\ mjob \in {"none", "waiting", "active", "stalled", "completed", "failed"}
  /\ mpc \in {"idle", "mark", "plan", "run", "flush", "finalise", "end"}
  /\ space \in [Namespace -> Space] /\ summary \in Summary /\ table \in [Namespace -> SUBSET Nat]
  /\ progress \in Progress /\ pending \in SUBSET Progress
  /\ deaths \in 0..MaxDeaths /\ overtaken \in BOOLEAN

\* What the other options decide in no run is left at FALSE.
MigrationInit ==
  /\ mopt \in {o \in Options : (o.drop => ~o.skips) /\ (o.dry => ~o.drop /\ ~o.skips)}
  /\ mrow = NoRun
  /\ mjob = "none" /\ mpc = "idle"
  /\ space = [n \in Namespace |-> NoSpace] /\ summary = NoSummary
  /\ table = [n \in Namespace |-> {}]
  /\ progress = {} /\ pending = {}
  /\ deaths = 0 /\ overtaken = FALSE

-----------------------------------------------------------------------------
(* The routes. *)

pipeVars == <<mopt, mpc, space, summary, table, progress, pending, deaths, overtaken>>

\* POST /jobs/:id/run: the run row ...
CreateMigrationRun ==
  /\ mrow.phase = "none"
  /\ mrow' = [mrow EXCEPT !.phase = "queued"]
  /\ UNCHANGED <<mjob, pipeVars>>

\* ... and the BullMQ job.
EnqueueMigration ==
  /\ mrow.phase # "none" /\ mjob = "none"
  /\ mjob' = "waiting"
  /\ UNCHANGED <<mrow, pipeVars>>

\* POST /runs/:id/cancel: 409 in a terminal phase.
CancelRun ==
  /\ Exists /\ ~mrow.cancel /\ mrow.phase \notin {"succeeded", "failed"}
  /\ mrow' = [mrow EXCEPT !.cancel = TRUE]
  /\ UNCHANGED <<mjob, pipeVars>>

\* DELETE /jobs/:id; the run goes with its job.
DeleteMigrationJob ==
  /\ Exists /\ mrow' = [NoRun EXCEPT !.phase = "deleted"]
  /\ UNCHANGED <<mjob, pipeVars>>

-----------------------------------------------------------------------------
(* The worker. *)

\* findUniqueOrThrow.
PickUpRun ==
  /\ mjob = "waiting"
  /\ IF Exists THEN mjob' = "active" /\ mpc' = "mark" ELSE mjob' = "failed" /\ UNCHANGED mpc
  /\ UNCHANGED <<mopt, mrow, space, summary, table, progress, pending, deaths, overtaken>>

JobEnds(outcome) == mjob' = outcome /\ mpc' = "idle"
\* migrationRunV2.update throws when the row is gone, and the job fails.
UpdateRun(row, step) ==
  IF Exists THEN mrow' = row /\ mpc' = step /\ UNCHANGED mjob
                 ELSE JobEnds("failed") /\ UNCHANGED mrow

MarkRunning ==
  /\ mpc = "mark"
  /\ UpdateRun([mrow EXCEPT !.phase = "running"], "plan")
  /\ space' = [n \in Namespace |-> NoSpace] /\ summary' = NoSummary
  /\ progress' = {}
  /\ UNCHANGED <<mopt, table, pending, deaths, overtaken>>

local == <<space, summary, table, progress>>

\* Mutant of PlanFails: the worker returns without a phase.
PlanFailsQuietly ==
  /\ mpc = "plan" /\ mpc' = "end"
  /\ UNCHANGED <<mopt, mrow, mjob, local, pending, deaths, overtaken>>

\* buildMigrationPlan throws (a connection is gone, a pair has no sourceDatabase).
PlanFails ==
  /\ mpc = "plan"
  /\ UpdateRun([mrow EXCEPT !.phase = "failed", !.errors = {}], "end")
  /\ UNCHANGED <<mopt, local, pending, deaths, overtaken>>

StartPipeline ==
  /\ mpc = "plan" /\ mpc' = "run"
  /\ UNCHANGED <<mopt, mrow, mjob, local, pending, deaths, overtaken>>

-----------------------------------------------------------------------------
(* The pipeline.  onProgress comes with every step. *)

rowVars == <<mopt, mrow, mjob, mpc, deaths, overtaken>>

\* With some of the ticks an update of the row is sent.  (With the 25th, and with every one
\* until it is answered.  The request to cancel is looked at when the count of ticks is 0
\* here, just after it was incremented: never.)
OnProgress(over) ==
  /\ progress' = progress \cup over
  /\ \/ UNCHANGED pending
     \/ Cardinality(pending) < MaxPending /\ pending' = pending \cup {progress'}

Busy == {n \in Namespace : space[n].at \in {"infer", "init", "stream", "finalise"}}
Go(n, at) == space' = [space EXCEPT ![n].at = at]

\* queue.shift, and what runOne remembers of the summary.
TakeNamespace(n) ==
  /\ mpc = "run" /\ space[n].at = "queued" /\ Cardinality(Busy) < mopt.parallel
  /\ space' = [space EXCEPT ![n] = [@ EXCEPT !.at = "infer", !.wroteBefore = summary.wrote,
                                             !.lostBefore = summary.lost]]
  /\ OnProgress({})
  /\ UNCHANGED <<summary, table, rowVars>>

\* inferSchema, the mapper; nothing else in a dry run.
Infer(n) ==
  /\ mpc = "run" /\ space[n].at = "infer"
  /\ Go(n, IF mopt.dry THEN "done" ELSE "init")
  /\ OnProgress(IF mopt.dry THEN {n} ELSE {})
  /\ summary' = IF mopt.dry THEN [summary EXCEPT !.ok = @ + 1] ELSE summary
  /\ UNCHANGED <<table, rowVars>>

\* writer.init: drop and create, or create what is not there; an empty reader has no batch.
InitDestination(n) ==
  /\ mpc = "run" /\ space[n].at = "init"
  /\ table' = IF mopt.drop THEN [table EXCEPT ![n] = {}] ELSE table
  /\ Go(n, IF Rows[n] = 0 THEN "finalise" ELSE "stream")
  /\ UNCHANGED <<summary, progress, pending, rowVars>>

\* writeBatch: the row lands, is there already, or is lost.
WriteBatch(n) ==
  LET r == space[n].next
      after == [space[n] EXCEPT !.next = r + 1, !.at = IF r = Rows[n] THEN "finalise" ELSE "stream"] IN
  /\ mpc = "run" /\ space[n].at = "stream"
  /\ \/ r \notin table[n] /\ table' = [table EXCEPT ![n] = @ \cup {r}]
        /\ space' = [space EXCEPT ![n] = [after EXCEPT !.wrote = @ + 1]]
     \/ r \in table[n] /\ mopt.skips /\ space' = [space EXCEPT ![n] = after] /\ UNCHANGED table
     \/ (r \in table[n] => ~mopt.skips)
        /\ space' = [space EXCEPT ![n] = [after EXCEPT !.lost = @ + 1]] /\ UNCHANGED table
  /\ OnProgress({})
  /\ UNCHANGED <<summary, rowVars>>

Settled(s, n, wrote, lost) ==
  IF lost = 0 THEN [s EXCEPT !.ok = @ + 1]
  ELSE IF wrote = 0 THEN [s EXCEPT !.bad = @ + 1, !.errors = @ \cup {n}]
                    ELSE [s EXCEPT !.ok = @ + 1, !.errors = @ \cup {n}]

Totals(n) == [summary EXCEPT !.wrote = @ + space[n].wrote, !.lost = @ + space[n].lost]

EndOf(n, s) ==
  /\ mpc = "run" /\ space[n].at = "finalise"
  /\ summary' = s
  /\ space' = [space EXCEPT ![n] = [NoSpace EXCEPT !.at = "done", !.lost = space[n].lost]]
  /\ OnProgress({n})
  /\ UNCHANGED <<table, rowVars>>

\* Mutant of FinishNamespace: the whole summary is taken for the namespace's.
FinishNamespaceTotals(n) == EndOf(n, Settled(Totals(n), n, Totals(n).wrote, Totals(n).lost))

\* writer.finalize, the totals, and runOne's look at what they grew by, whoever made them grow.
FinishNamespace(n) ==
  EndOf(n, Settled(Totals(n), n, Totals(n).wrote - space[n].wroteBefore,
                                 Totals(n).lost - space[n].lostBefore))

\* Any call of the reader or the writer throws: what was written counts nowhere.
NamespaceThrows(n) ==
  /\ mpc = "run" /\ n \in Busy
  /\ space' = [space EXCEPT ![n] = [NoSpace EXCEPT !.at = "threw"]]
  /\ summary' = [summary EXCEPT !.bad = @ + 1, !.errors = @ \cup {n}]
  /\ OnProgress({n})
  /\ UNCHANGED <<table, rowVars>>

\* listNamespaces throws.
PipelineThrows ==
  /\ mpc = "run" /\ \A n \in Namespace : space[n].at = "queued"
  /\ UpdateRun([mrow EXCEPT !.phase = "failed", !.errors = {}], "end")
  /\ UNCHANGED <<mopt, local, pending, deaths, overtaken>>

\* Promise.all, close; the last flush of the progress.
PipelineReturns ==
  /\ mpc = "run" /\ \A n \in Namespace : space[n].at \in {"done", "threw"}
  /\ mpc' = "flush"
  /\ UNCHANGED <<mopt, mrow, mjob, local, pending, deaths, overtaken>>

-----------------------------------------------------------------------------
(* persistProgress: updates of the row that nobody waits for, but the last. *)

Show(p) == mrow' = IF Exists THEN [mrow EXCEPT !.shown = p] ELSE mrow

PersistLands(p) ==
  /\ p \in pending
  /\ Show(p)
  /\ pending' = pending \ {p}
  /\ overtaken' = (overtaken \/ mpc \notin {"run", "flush"})
  /\ UNCHANGED <<mopt, mjob, mpc, local, deaths>>

\* The last one is awaited; what is still in flight may land after it.
FinalFlush ==
  /\ mpc = "flush" /\ Show(progress)
  /\ mpc' = "finalise"
  /\ UNCHANGED <<mopt, mjob, local, pending, deaths, overtaken>>

Phase ==
  IF summary.bad = summary.ok + summary.bad /\ summary.bad > 0 THEN "failed"
  ELSE IF summary.bad > 0 \/ summary.errors # {} \/ summary.lost > 0 THEN "partial"
  ELSE "succeeded"

\* finalise; when it throws (the row is gone), so does the second one, in the catch.
Finalise ==
  /\ mpc = "finalise"
  /\ UpdateRun([mrow EXCEPT !.phase = Phase, !.errors = summary.errors], "end")
  /\ UNCHANGED <<mopt, local, pending, deaths, overtaken>>

RunJobCompletes ==
  /\ mpc = "end" /\ JobEnds("completed")
  /\ UNCHANGED <<mopt, mrow, local, pending, deaths, overtaken>>

-----------------------------------------------------------------------------
\* The process of the worker dies.
MigrationProcessDies ==
  /\ deaths < MaxDeaths /\ deaths' = deaths + 1
  /\ mjob = "active"
  /\ mjob' = "stalled" /\ mpc' = "idle"
  /\ pending' = {}
  /\ UNCHANGED <<mopt, mrow, local, overtaken>>

\* BullMQ puts a stalled job back once, and then fails it.
RunStalled ==
  /\ mjob = "stalled" /\ mjob' = IF deaths = 1 THEN "waiting" ELSE "failed"
  /\ UNCHANGED <<mrow, pipeVars>>

Worker ==
  \/ PickUpRun \/ MarkRunning \/ PlanFails \/ StartPipeline
  \/ \E n \in Namespace : \/ TakeNamespace(n) \/ Infer(n) \/ InitDestination(n) \/ WriteBatch(n)
                          \/ FinishNamespace(n) \/ NamespaceThrows(n)
  \/ PipelineThrows \/ PipelineReturns \/ FinalFlush \/ Finalise \/ RunJobCompletes
  \/ RunStalled

MigrationNext ==
  \/ CreateMigrationRun \/ EnqueueMigration \/ CancelRun \/ DeleteMigrationJob
  \/ Worker
  \/ \E p \in pending : PersistLands(p)
  \/ MigrationProcessDies

\* A worker whose calls return goes on; BullMQ delivers jobs and checks for stalled ones.
MigrationFairness == WF_migrationVars(Worker)

MigrationSpec == MigrationInit /\ [][MigrationNext]_migrationVars
MigrationFairSpec == MigrationSpec /\ MigrationFairness

-----------------------------------------------------------------------------
Losers == {n \in Namespace : space[n].at = "threw" \/ space[n].lost > 0}

(* A run that says succeeded has put every row at the destination, whichever
   attempt wrote it, and its progress says so; and while its namespaces are
   migrated one at a time, its errors are those of the namespaces that lost rows. *)
RunTruthful ==
  /\ mrow.phase = "succeeded" /\ ~mopt.dry => \A n \in Namespace : table[n] = Row(n)
  /\ mrow.phase = "succeeded" /\ ~overtaken => mrow.shown = Namespace
  /\ mrow.phase \in Terminal /\ mopt.parallel = 1 => mrow.errors = Losers

(* A run whose job is in the queue ends in a terminal phase, also when its
   process dies once. *)
RunEnds == mjob = "waiting" /\ deaths <= 1 ~> mrow.phase \in Terminal \/ ~Exists \/ deaths > 1
=============================================================================
