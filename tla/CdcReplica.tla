----------------------------- MODULE CdcReplica -----------------------------
(***************************************************************************)
(* The data path of one CdcSyncJob: the source database and its change     *)
(* feed, the persisted resume cursor and snapshotState, one worker attempt *)
(* (bootstrap snapshot, then tail), and the destination.                   *)
(*                                                                         *)
(* jobs/cdc-sync.job.ts awaits a database between any two of the actions   *)
(* below, so the application can write to the source, the process can die  *)
(* and the connection can drop between them.  Who may start an attempt,    *)
(* and when (BullMQ, pause, resume, delete), is in module CdcControl; here *)
(* the job either is one BullMQ still runs, or is over until somebody      *)
(* starts the sync.  BullMQ's job lock is assumed to keep attempts of one  *)
(* job apart.                                                              *)
(*                                                                         *)
(* A position is the number of source changes before it: resume tokens and *)
(* LSNs are ordered and opaque, so the log index stands for them.          *)
(* Rows have keys that both ends write alike (Transfer!KeysAgree): a change  *)
(* is located by its key.                                                   *)
(***************************************************************************)
EXTENDS Integers, Sequences, FiniteSets

CONSTANTS Key,         \* rows of the replicated namespaces
          Val,         \* row images
          NoRow,       \* no such row
          SourceType,  \* CdcSyncJob.sourceType: "mongodb" or "postgres"
          DestType,    \* CdcSyncJob.destType: "mongodb", "postgres" or "mysql"
          Bootstrap,   \* CdcSyncJob.bootstrap: "snapshot" or "tail"
          MaxLog,      \* bound: source changes
          MaxFaults,   \* bound: crashes, dropped streams, pauses, rejections
          Prefetch,    \* bound: events received and not yet consumed
          BatchSize,   \* rows per writeBatch call
          MaxStalls,   \* BullMQ's maxStalledCount (its default is 1)
          StartTime    \* what a MongoDB driver may do with the plain {t, i} of a start cursor

ASSUME ConstantsAssumption ==
  /\ NoRow \notin Val
  /\ SourceType \in {"mongodb", "postgres"}
  /\ DestType \in {"mongodb", "postgres", "mysql"}
  /\ Bootstrap \in {"snapshot", "tail"}
  /\ MaxLog \in Nat /\ MaxFaults \in Nat
  /\ Prefetch \in Nat \ {0} /\ BatchSize \in Nat \ {0}
  /\ MaxStalls \in Nat /\ StartTime \subseteq {"taken", "refused"}
  /\ IsFiniteSet(Key)

VARIABLES
  \* the source server
  src,            \* [Key -> Image]: its rows now
  log,            \* Seq(Change): its change feed
  acked,          \* Postgres: the slot's confirmed position, NoCursor: no slot
  \* the CdcSyncJob row
  cursor,         \* resume position, NoCursor when null
  snapshotState,  \* "pending" or "done"
  \* its BullMQ job
  job,            \* "live": waiting, delayed or active; "over": completed or failed
  stalls,         \* times its process has died
  \* the destination
  dest,           \* [Key -> Image]
  \* the running attempt
  pc,             \* the next step of the worker
  start,          \* startCursor
  todo,           \* rows the snapshot reader has not passed yet
  batch,          \* rows read and not yet written: a function on a set of keys
  snapFailed,     \* summary.failed > 0 \/ totalFailed > 0
  pos,            \* events up to here have been dealt with by this attempt
  fetched,        \* events up to here have reached the adapter's queue
  feed,           \* their images: a function on pos+1 .. fetched
  \* bookkeeping of the model
  faults,         \* faults so far
  since,          \* the position from which nothing may be lost
  handled,        \* events handed to the writer (or superseded, see Skip)
  rejected        \* events whose last applyChange threw

source == <<src, log>>
jobRow == <<cursor, snapshotState>>
queue == <<job, stalls>>
attempt == <<pc, start, todo, batch, snapFailed, pos, fetched, feed>>
history == <<since, handled, rejected>>
vars == <<src, log, acked, cursor, snapshotState, job, stalls, dest, pc, start, todo, batch,
          snapFailed, pos, fetched, feed, faults, since, handled, rejected>>

NoCursor == -1
Position == Nat \cup {NoCursor}
Image == Val \cup {NoRow}
Op == {"insert", "update", "delete"}
Change == [key : Key, val : Image, op : Op]
Empty == [x \in {} |-> NoRow]
Streaming == {"tail", "apply", "save"}
PC == {"idle", "capture", "saveStart", "copy", "markDone", "open"} \cup Streaming

TypeOK ==
  /\ src \in [Key -> Image] /\ dest \in [Key -> Image]
  /\ log \in Seq(Change)
  /\ acked \in Position /\ cursor \in Position /\ start \in Position
  /\ snapshotState \in {"pending", "done"}
  /\ job \in {"live", "over"} /\ stalls \in Nat
  /\ pc \in PC
  /\ todo \in SUBSET Key
  /\ DOMAIN batch \subseteq Key /\ \A k \in DOMAIN batch : batch[k] \in Val
  /\ snapFailed \in BOOLEAN
  /\ pos \in Nat /\ fetched \in Nat
  /\ DOMAIN feed = (pos + 1) .. fetched
  /\ \A i \in DOMAIN feed : feed[i] \in Image
  /\ pc \in {"apply", "save"} => pos < fetched
  /\ faults \in Nat /\ since \in Position
  /\ handled \in SUBSET Nat /\ rejected \in SUBSET handled

Init ==
  /\ src = [k \in Key |-> NoRow] /\ dest = [k \in Key |-> NoRow]
  /\ log = <<>> /\ acked = NoCursor
  /\ cursor = NoCursor /\ snapshotState = "pending"
  /\ job = "live" /\ stalls = 0
  /\ pc = "idle" /\ start = NoCursor
  /\ todo = {} /\ batch = Empty /\ snapFailed = FALSE
  /\ pos = 0 /\ fetched = 0 /\ feed = Empty
  /\ faults = 0 /\ since = NoCursor /\ handled = {} /\ rejected = {}

-----------------------------------------------------------------------------
\* No change to row k after position n.
QuietAfter(k, n) == \A i \in (n + 1) .. Len(log) : log[i].key # k

\* Change i is the last one of its row.
IsLast(i) == QuietAfter(log[i].key, i)

\* The last change of row k is one the writer rejected.
GaveUp(k) == \E i \in rejected : i \in 1 .. Len(log) /\ log[i].key = k /\ IsLast(i)

\* The application writes a row of the source: one event of its feed.
SourceWrite(k, v) ==
  /\ Len(log) < MaxLog
  /\ v # src[k]
  /\ src' = [src EXCEPT ![k] = v]
  /\ log' = Append(log, [key |-> k, val |-> v,
                         op |-> IF v = NoRow THEN "delete"
                                ELSE IF src[k] = NoRow THEN "insert" ELSE "update"])
  /\ UNCHANGED <<queue, acked, jobRow, dest, attempt, faults, history>>

-----------------------------------------------------------------------------
\* The attempt is over; its locals are gone.
EndAttempt ==
  /\ pc' = "idle" /\ start' = NoCursor
  /\ todo' = {} /\ batch' = Empty /\ snapFailed' = FALSE
  /\ pos' = 0 /\ fetched' = 0 /\ feed' = Empty

NeedsSnapshot == Bootstrap = "snapshot" /\ snapshotState # "done"

\* Mutant of Begin: a retried bootstrap captures its start again.
BeginRecaptures ==
  /\ pc = "idle" /\ job = "live"
  /\ start' = cursor
  /\ pc' = IF NeedsSnapshot THEN "capture" ELSE "open"
  /\ UNCHANGED <<source, queue, acked, jobRow, dest, todo, batch, snapFailed, pos, fetched, feed,
                 faults, history>>

\* The worker picks the job up and reads its row.
Begin ==
  /\ pc = "idle" /\ job = "live"
  /\ start' = cursor
  /\ IF ~NeedsSnapshot THEN pc' = "open" /\ UNCHANGED todo
     ELSE IF cursor = NoCursor THEN pc' = "capture" /\ UNCHANGED todo
     ELSE pc' = "copy" /\ todo' = Key
  /\ UNCHANGED <<source, queue, acked, jobRow, dest, batch, snapFailed, pos, fetched, feed,
                 faults, history>>

\* Postgres provisions the slot once and afterwards reports its position.
ProvisionSlot ==
  acked' = IF SourceType = "postgres" /\ acked = NoCursor THEN Len(log) ELSE acked

\* A slot is consistent from where it was created.  Mongo's operationTime is
\* that of the last operation, which the stream delivers again when it was a
\* change of a replicated row.
CaptureStartCursor ==
  /\ pc = "capture"
  /\ ProvisionSlot
  /\ IF SourceType = "postgres" THEN start' = acked'
     ELSE start' \in {Len(log), Len(log) - 1} \cap Nat
  /\ pc' = "saveStart"
  /\ UNCHANGED <<source, queue, jobRow, dest, todo, batch, snapFailed, pos, fetched, feed,
                 faults, history>>

\* The captured cursor is persisted before the first row is copied.
SaveStart ==
  /\ pc = "saveStart"
  /\ cursor' = start /\ since' = start
  /\ pc' = "copy" /\ todo' = Key
  /\ UNCHANGED <<source, queue, acked, snapshotState, dest, start, batch, snapFailed, pos,
                 fetched, feed, faults, handled, rejected>>

-----------------------------------------------------------------------------
\* runMigration(dropExisting: false): rows are read one by one, in batches.
CopyRow(k) ==
  /\ pc = "copy" /\ k \in todo
  /\ Cardinality(DOMAIN batch) < BatchSize
  /\ todo' = todo \ {k}
  /\ batch' = IF src[k] = NoRow THEN batch
              ELSE [x \in DOMAIN batch \cup {k} |-> IF x = k THEN src[k] ELSE batch[x]]
  /\ UNCHANGED <<source, queue, acked, jobRow, dest, pc, start, snapFailed, pos, fetched, feed,
                 faults, history>>

BatchDue == DOMAIN batch # {} /\ (Cardinality(DOMAIN batch) = BatchSize \/ todo = {})
Duplicates == {k \in DOMAIN batch : dest[k] # NoRow}

\* The destination after the rows of S of the batch have landed.
Land(S) == [k \in Key |-> IF k \in S THEN batch[k] ELSE dest[k]]

\* The rows that may land when those of R are refused.  Mongo's unordered insertMany
\* loses no other; a COPY loses the batch; of MySQL's INSERTs, one for some of the rows
\* each, those with a row of R fail.
Landing(R) ==
  CASE DestType = "mongodb" -> {DOMAIN batch \ R}
    [] DestType = "postgres" -> {IF R = {} THEN DOMAIN batch ELSE {}}
    [] DestType = "mysql" ->
         {{k \in DOMAIN batch : \A r \in R : insert[r] # insert[k]} :
            insert \in [DOMAIN batch -> DOMAIN batch]}

\* Without a single row written MySQL's writer throws, and the namespace has failed:
\* what was left of it is not copied.
WriteRows(S) ==
  /\ dest' = Land(S)
  /\ batch' = Empty
  /\ IF DestType = "mysql" /\ S = {} THEN \E rest \in SUBSET todo : todo' = rest
     ELSE UNCHANGED todo

\* Mutant of Flush: duplicates fail a Mongo batch too.
FlushStrict ==
  /\ pc = "copy" /\ BatchDue
  /\ IF Duplicates = {} THEN dest' = Land(DOMAIN batch) /\ UNCHANGED snapFailed
     ELSE UNCHANGED dest /\ snapFailed' = TRUE
  /\ batch' = Empty
  /\ UNCHANGED <<source, queue, acked, jobRow, pc, start, todo, pos, fetched, feed, faults,
                 history>>

\* Mutant of Flush: the rows of a failed COPY are not counted.
FlushUncounted ==
  /\ pc = "copy" /\ BatchDue
  /\ \E S \in Landing(Duplicates) : WriteRows(S)
  /\ UNCHANGED <<source, queue, acked, jobRow, pc, start, snapFailed, pos, fetched, feed,
                 faults, history>>

\* writeBatch.  A duplicate is skipped by Mongo, where it is no failure; Postgres and
\* MySQL refuse it.
Flush ==
  /\ pc = "copy" /\ BatchDue
  /\ \E S \in Landing(Duplicates) : WriteRows(S)
  /\ snapFailed' = (snapFailed \/ (DestType # "mongodb" /\ Duplicates # {}))
  /\ UNCHANGED <<source, queue, acked, jobRow, pc, start, pos, fetched, feed, faults, history>>

\* writeBatch meets rows of R that the destination does not accept.
FlushRejects ==
  /\ pc = "copy" /\ BatchDue /\ faults < MaxFaults
  /\ \E R \in (SUBSET (DOMAIN batch \ Duplicates)) \ {{}} :
       \E S \in Landing(Duplicates \cup R) : WriteRows(S)
  /\ snapFailed' = TRUE /\ faults' = faults + 1
  /\ UNCHANGED <<source, queue, acked, jobRow, pc, start, pos, fetched, feed, history>>

\* Reading or preparing a namespace throws: runOne counts it as failed and
\* goes on with the other namespaces; what was left of this one is not copied.
NamespaceFails ==
  /\ pc = "copy" /\ faults < MaxFaults
  /\ \E rest \in SUBSET todo : todo' = rest
  /\ batch' = Empty /\ snapFailed' = TRUE /\ faults' = faults + 1
  /\ UNCHANGED <<source, queue, acked, jobRow, dest, pc, start, pos, fetched, feed, history>>

\* Mutant of FinishCopy: the summary's failures are not looked at.
FinishCopyAnyway ==
  /\ pc = "copy" /\ todo = {} /\ batch = Empty
  /\ pc' = "markDone"
  /\ UNCHANGED <<source, queue, acked, jobRow, dest, start, todo, batch, snapFailed, pos, fetched,
                 feed, faults, history>>

\* A summary with failures makes the attempt fail, otherwise it is complete.
FinishCopy ==
  /\ pc = "copy" /\ todo = {} /\ batch = Empty
  /\ IF snapFailed THEN EndAttempt
     ELSE pc' = "markDone"
          /\ UNCHANGED <<start, todo, batch, snapFailed, pos, fetched, feed>>
  /\ UNCHANGED <<source, queue, acked, jobRow, dest, faults, history>>

MarkDone ==
  /\ pc = "markDone"
  /\ snapshotState' = "done"
  /\ pc' = "open"
  /\ UNCHANGED <<source, queue, acked, cursor, dest, start, todo, batch, snapFailed, pos,
                 fetched, feed, faults, history>>

-----------------------------------------------------------------------------
\* Mutants of FirstPosition: the cursor is not passed, or read as the next one.
FirstPositionNow == Len(log)
FirstPositionSkipsOne == IF start = NoCursor THEN Len(log) ELSE start + 1

\* Where the server starts to send: after the cursor; "now" without one; a
\* Postgres slot never goes back behind what it saw acknowledged.
FirstPosition ==
  IF SourceType = "postgres"
  THEN IF start > acked' THEN start ELSE acked'
  ELSE IF start = NoCursor THEN Len(log) ELSE start

\* A Mongo stream is opened at the operation time captured before the snapshot, which no
\* event's resume token has replaced yet.  It was saved as a plain object.
AtOperationTime == SourceType = "mongodb" /\ start # NoCursor /\ start = since

\* A driver that does not make a Timestamp of it sends it as it is, and the server refuses
\* the stream: the attempt throws.
OpenRefused ==
  /\ pc = "open" /\ AtOperationTime /\ "refused" \in StartTime
  /\ EndAttempt
  /\ UNCHANGED <<source, queue, acked, jobRow, dest, faults, history>>

OpenStream ==
  /\ pc = "open" /\ (AtOperationTime => "taken" \in StartTime)
  /\ ProvisionSlot
  /\ pos' = FirstPosition /\ fetched' = FirstPosition /\ feed' = Empty
  /\ since' = IF since = NoCursor THEN FirstPosition ELSE since
  /\ pc' = "tail"
  /\ UNCHANGED <<source, queue, jobRow, dest, start, todo, batch, snapFailed, faults,
                 handled, rejected>>

\* The image event i carries when it is fetched.  Mongo looks an updated
\* document up at that moment (fullDocument: updateLookup): it may be newer
\* than the event, or gone.
ImageNow(i) ==
  IF SourceType = "mongodb" /\ log[i].op = "update" THEN src[log[i].key] ELSE log[i].val

\* The next event arrives in the adapter's queue, whatever the worker awaits.
Fetch ==
  /\ pc \in Streaming
  /\ fetched < Len(log) /\ fetched - pos < Prefetch
  /\ fetched' = fetched + 1
  /\ feed' = [i \in (pos + 1) .. (fetched + 1) |->
                IF i = fetched + 1 THEN ImageNow(i) ELSE feed[i]]
  /\ UNCHANGED <<source, queue, acked, jobRow, dest, pc, start, todo, batch, snapFailed, pos,
                 faults, history>>

\* pg-logical-replication acknowledges what it received (acknowledge.auto).
AutoAcknowledge ==
  /\ SourceType = "postgres" /\ pc \in Streaming
  /\ acked < fetched
  /\ acked' = fetched
  /\ UNCHANGED <<source, queue, jobRow, dest, attempt, faults, history>>

\* Mutant of Consume: the event stays in the queue.
ConsumeKeepsEvent == pos' = pos + 1 /\ UNCHANGED feed

\* The event at the head of the queue is done with.
Consume ==
  /\ pos' = pos + 1
  /\ feed' = [i \in (pos + 2) .. fetched |-> feed[i]]

\* mapEvent drops an update whose document was gone at lookup time.
Superseded(i) == SourceType = "mongodb" /\ log[i].op = "update" /\ feed[i] = NoRow

Skip ==
  /\ pc = "tail" /\ pos < fetched /\ Superseded(pos + 1)
  /\ Consume
  /\ handled' = handled \cup {pos + 1}
  /\ UNCHANGED <<source, queue, acked, jobRow, dest, pc, start, todo, batch, snapFailed, fetched,
                 faults, since, rejected>>

\* An event is yielded, and the row says: neither paused nor disabled.
NextEvent ==
  /\ pc = "tail" /\ pos < fetched /\ ~Superseded(pos + 1)
  /\ pc' = "apply"
  /\ UNCHANGED <<source, queue, acked, jobRow, dest, start, todo, batch, snapFailed, pos, fetched,
                 feed, faults, history>>

\* The row says paused, disabled or deleted: the event is dropped, unapplied, and the
\* attempt returns, which completes the job.
PauseBreak ==
  /\ pc = "tail" /\ pos < fetched /\ ~Superseded(pos + 1)
  /\ faults < MaxFaults /\ faults' = faults + 1
  /\ EndAttempt /\ job' = "over"
  /\ UNCHANGED <<source, stalls, acked, jobRow, dest, history>>

\* The same when the attempt has only read its row.
PauseAtTop ==
  /\ pc = "idle" /\ job = "live"
  /\ faults < MaxFaults /\ faults' = faults + 1
  /\ job' = "over"
  /\ UNCHANGED <<source, stalls, acked, jobRow, dest, attempt, history>>

\* applyChange: upsert or delete by key.
Apply ==
  /\ pc = "apply"
  /\ dest' = [dest EXCEPT ![log[pos + 1].key] = feed[pos + 1]]
  /\ handled' = handled \cup {pos + 1}
  /\ rejected' = rejected \ {pos + 1}
  /\ pc' = "save"
  /\ UNCHANGED <<source, queue, acked, jobRow, start, todo, batch, snapFailed, pos, fetched, feed,
                 faults, since>>

\* applyChange throws (before or after the destination took the change): the
\* error is counted and the loop goes on, past the event.
ApplyFails ==
  /\ pc = "apply" /\ faults < MaxFaults
  /\ \/ dest' = [dest EXCEPT ![log[pos + 1].key] = feed[pos + 1]]
     \/ UNCHANGED dest
  /\ handled' = handled \cup {pos + 1}
  /\ rejected' = rejected \cup {pos + 1}
  /\ Consume
  /\ pc' = "tail" /\ faults' = faults + 1
  /\ UNCHANGED <<source, queue, acked, jobRow, start, todo, batch, snapFailed, fetched, since>>

\* Mutant of SaveCursor: the position of the last event received is saved.
SaveCursorReceived ==
  /\ pc = "save"
  /\ cursor' = fetched
  /\ Consume
  /\ pc' = "tail"
  /\ UNCHANGED <<source, queue, acked, snapshotState, dest, start, todo, batch, snapFailed,
                 fetched, faults, history>>

\* The event's own cursor is persisted after it was applied.
SaveCursor ==
  /\ pc = "save"
  /\ cursor' = pos + 1
  /\ Consume
  /\ pc' = "tail"
  /\ UNCHANGED <<source, queue, acked, snapshotState, dest, start, todo, batch, snapFailed,
                 fetched, faults, history>>

\* Persisting it throws inside the same try: counted, and the loop goes on.
SaveCursorFails ==
  /\ pc = "save" /\ faults < MaxFaults
  /\ Consume
  /\ pc' = "tail" /\ faults' = faults + 1
  /\ UNCHANGED <<source, queue, acked, jobRow, dest, start, todo, batch, snapFailed, fetched,
                 history>>

\* The stream drops or a query outside that try throws: BullMQ retries the job.
AttemptThrows ==
  /\ pc # "idle" /\ faults < MaxFaults /\ faults' = faults + 1
  /\ EndAttempt
  /\ UNCHANGED <<source, queue, acked, jobRow, dest, history>>

\* The process dies.  BullMQ puts a stalled job back MaxStalls times, then fails it.
Crash ==
  /\ pc # "idle" /\ faults < MaxFaults /\ faults' = faults + 1
  /\ EndAttempt
  /\ stalls' = stalls + 1 /\ job' = IF stalls < MaxStalls THEN "live" ELSE "over"
  /\ UNCHANGED <<source, acked, jobRow, dest, history>>

\* A Mongo stream is invalidated: the iterator ends, and the job completes.
StreamEnds ==
  /\ SourceType = "mongodb" /\ pc = "tail" /\ pos = fetched
  /\ faults < MaxFaults /\ faults' = faults + 1
  /\ EndAttempt /\ job' = "over"
  /\ UNCHANGED <<source, stalls, acked, jobRow, dest, history>>

\* Somebody starts the sync again: a new BullMQ job.
Restart ==
  /\ pc = "idle" /\ job = "over"
  /\ job' = "live" /\ stalls' = 0
  /\ UNCHANGED <<source, acked, jobRow, dest, attempt, faults, history>>

-----------------------------------------------------------------------------
Snapshot == CaptureStartCursor \/ SaveStart \/ (\E k \in Key : CopyRow(k))
            \/ Flush \/ FinishCopy \/ MarkDone
TailStream == OpenStream \/ OpenRefused \/ Skip \/ NextEvent \/ Apply \/ SaveCursor
Fault == FlushRejects \/ NamespaceFails \/ PauseBreak \/ PauseAtTop \/ ApplyFails
         \/ SaveCursorFails \/ AttemptThrows \/ Crash \/ StreamEnds

Next ==
  \/ \E k \in Key, v \in Image : SourceWrite(k, v)
  \/ Begin \/ Snapshot \/ TailStream \/ Fetch \/ AutoAcknowledge
  \/ Fault \/ Restart

Spec == Init /\ [][Next]_vars

(* BullMQ runs a live job and the worker makes the next step of an attempt, whose
   calls return; a Mongo driver fetches the events there are (a Postgres stream may
   stay silent for ever).  Nobody has to write, to start a sync whose job is over, or
   to fail. *)
FairSpec ==
  /\ Spec /\ WF_vars(Begin \/ Snapshot) /\ WF_vars(TailStream)
  /\ SourceType = "mongodb" => WF_vars(Fetch)

-----------------------------------------------------------------------------
(* A resume without gaps: every change after the position the sync promised
   to start from, up to the persisted cursor, has been handed to the writer
   (or was superseded by a later one), whatever crashed in between. *)
NoGap == cursor # NoCursor => \A i \in (since + 1) .. cursor : i \in handled

(* The copy is right where the sync has caught up: once the bootstrap is
   marked done, a row none of whose changes lies beyond the cursor is the same
   on both sides, unless its last change was rejected by the writer. *)
Converged ==
  snapshotState = "done" =>
    \A k \in Key : QuietAfter(k, cursor) /\ ~GaveUp(k) => dest[k] = src[k]

(* The saved cursor stays the pre-snapshot one until the snapshot is complete,
   however often it is retried, and only moves forward afterwards. *)
CursorHeldThenForward ==
  [][cursor # NoCursor => snapshotState = "done" /\ cursor' > cursor]_cursor

MarkOf(k) ==
  IF snapshotState # "done" \/ ~QuietAfter(k, cursor) THEN "stale"
  ELSE IF GaveUp(k) THEN "abandoned" ELSE "synced"

(* The sync implements the write-back copy of KeyReplica: a row is stale while
   the cursor has not passed its last change or the bootstrap is not done. *)
Replica == INSTANCE KeyReplica WITH mark <- [k \in Key |-> MarkOf(k)]
ImplementsReplica == Replica!Spec

(* Whatever crashes, drops or fails, a row is in the end the same on both sides, unless
   its last change was rejected, or the sync is over: somebody stopped it, its stream
   was invalidated, or its process died once too often. *)
EventuallyEqual == \A k \in Key : <>[](job = "over" \/ dest[k] = src[k] \/ GaveUp(k))

(* A bootstrap whose start cursor is saved is completed by some later attempt, unless
   the sync is over first. *)
BootstrapCompletes == cursor # NoCursor ~> snapshotState = "done" \/ job = "over"
=============================================================================
