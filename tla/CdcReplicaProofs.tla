-------------------------- MODULE CdcReplicaProofs --------------------------
(***************************************************************************)
(* Proofs about CdcReplica for every set of rows and images, every bound   *)
(* and every writer: type correctness; and, for a source whose stream      *)
(* resumes where it is asked to (MongoDB) bootstrapped by a snapshot, that *)
(* no change is skipped, that the copy converges, that the cursor is held  *)
(* and then only moves forward, and that the sync implements KeyReplica.   *)
(* A Postgres slot does not resume where it is asked to once a stream has  *)
(* acknowledged what it only queued; until an attempt ends while its       *)
(* stream is open, all of that holds for Postgres too.                     *)
(*                                                                         *)
(* The argument is the one of the code's comment on the start cursor: the  *)
(* position is taken before the first row is read, so a row the snapshot   *)
(* may have read too early has a change beyond it.  The inductive          *)
(* invariant says, at each program point, what is already right about the  *)
(* rows that have no change beyond the position reached.                   *)
(***************************************************************************)
EXTENDS CdcReplica, TLAPS

\* Where the running attempt has got to in the log.
Reached == IF pc = "save" THEN pos + 1 ELSE pos

\* The source's rows are what the log made them.
SrcFollowsLog ==
  /\ \A i \in 1 .. Len(log) : IsLast(i) => src[log[i].key] = log[i].val
  /\ \A i \in 1 .. Len(log) : log[i].op = "update" => log[i].val # NoRow

\* What the persisted row and the attempt's locals are at each program point.
AttemptShape ==
  /\ cursor <= Len(log)
  /\ cursor = NoCursor <=> since = NoCursor
  /\ snapshotState = "done" => cursor # NoCursor
  /\ pc \in {"idle", "capture", "saveStart"} => batch = Empty
  /\ pc \in {"capture", "saveStart"} => cursor = NoCursor
  /\ pc = "saveStart" => start \in 0 .. Len(log)
  /\ pc \in {"copy", "markDone"} => snapshotState = "pending" /\ cursor # NoCursor
  /\ pc \in {"copy", "markDone", "open"} => start = cursor
  /\ pc \in {"open"} \cup Streaming => snapshotState = "done"
  /\ pc \in Streaming => cursor <= pos /\ pos <= fetched /\ fetched <= Len(log)

\* The destination is empty until the start cursor is saved.
Untouched == cursor = NoCursor => \A k \in Key : dest[k] = NoRow

\* An unfinished snapshot has copied a row that did not change since, or not.
PartialCopy ==
  snapshotState = "pending" /\ cursor # NoCursor =>
    \A k \in Key : QuietAfter(k, cursor) => dest[k] \in {NoRow, src[k]}

\* During a copy, and right after it, for the rows that did not change since.
CopyExact ==
  /\ pc = "copy" => \A k \in Key : QuietAfter(k, cursor) =>
       /\ k \in DOMAIN batch => batch[k] = src[k]
       /\ ~snapFailed /\ k \notin todo /\ k \notin DOMAIN batch => dest[k] = src[k]
  /\ pc = "markDone" => \A k \in Key : QuietAfter(k, cursor) => dest[k] = src[k]

\* A queued event that is its row's last one carries the row.
FeedCurrent ==
  pc \in Streaming =>
    \A i \in (pos + 1) .. fetched : IsLast(i) => feed[i] = src[log[i].key]

\* Up to the position reached the copy is right.
TailExact ==
  pc \in Streaming =>
    \A k \in Key : QuietAfter(k, Reached) /\ ~GaveUp(k) => dest[k] = src[k]

\* Up to the position reached every event was handled.
HandledSoFar == pc \in Streaming => \A i \in (since + 1) .. Reached : i \in handled

\* A Postgres slot has acknowledged nothing beyond the cursor before a stream is open.
SlotHeld ==
  SourceType = "postgres" =>
    /\ acked <= Len(log)
    /\ pc = "saveStart" => acked = start
    /\ pc \notin Streaming /\ cursor # NoCursor => acked = cursor

\* No attempt ends while its stream is open: the process lives, the connection
\* holds and nobody pauses the sync.
StreamStays == pc \in Streaming => pc' \in Streaming

\* Without a snapshot nothing is promised before the stream is open.
TailShape ==
  /\ pc \in {"idle", "open"} \cup Streaming
  /\ pc \notin Streaming => cursor = NoCursor /\ since = NoCursor
  /\ pc \in Streaming => since # NoCursor /\ since <= pos /\ cursor <= pos

TailInv == TypeOK /\ TailShape /\ HandledSoFar /\ NoGap

IInv ==
  /\ TypeOK
  /\ SrcFollowsLog /\ AttemptShape /\ Untouched /\ PartialCopy /\ CopyExact
  /\ FeedCurrent /\ TailExact /\ HandledSoFar
  /\ NoGap /\ Converged
-----------------------------------------------------------------------------
\* What can land is never a refused row, and all of them when none is refused.
LEMMA Lands ==
  ASSUME NEW R \in SUBSET DOMAIN batch, NEW S \in Landing(R)
  PROVE  /\ S \subseteq DOMAIN batch \ R
         /\ DestType = "mongodb" \/ R = {} => S = DOMAIN batch \ R
BY ConstantsAssumption DEF Landing

(* A step, whichever, keeps the types. *)
LEMMA TypeStep == TypeOK /\ [Next]_vars => TypeOK'
<1> USE ConstantsAssumption DEF Image, Position, NoCursor, PC, Streaming,
        Empty, source, jobRow, queue, attempt, history
<1> SUFFICES ASSUME TypeOK, [Next]_vars PROVE TypeOK'
  OBVIOUS
<1>0. ASSUME EndAttempt
      PROVE  /\ pc' = "idle" /\ start' = -1 /\ todo' = {} /\ snapFailed' = FALSE
             /\ DOMAIN batch' = {} /\ pos' = 0 /\ fetched' = 0
             /\ DOMAIN feed' = (pos' + 1) .. fetched' /\ DOMAIN feed' = {}
  BY <1>0 DEF EndAttempt
<1>1. ASSUME NEW k \in Key, NEW v \in Image, SourceWrite(k, v) PROVE TypeOK'
  <2>1. log' \in Seq(Change)
    <3> DEFINE op == IF v = NoRow THEN "delete"
                     ELSE IF src[k] = NoRow THEN "insert" ELSE "update"
    <3>1. op \in Op
      BY DEF Op
    <3>2. [key |-> k, val |-> v, op |-> op] \in Change
      BY <3>1 DEF Change
    <3> HIDE DEF op
    <3> QED
      BY <1>1, <3>2 DEF TypeOK, SourceWrite, op
  <2> QED
    BY <1>1, <2>1 DEF TypeOK, SourceWrite
<1>2. CASE Begin
  BY <1>2 DEF TypeOK, Begin
<1>3. CASE CaptureStartCursor
  BY <1>3 DEF TypeOK, CaptureStartCursor, ProvisionSlot
<1>4. CASE SaveStart
  BY <1>4 DEF TypeOK, SaveStart
<1>5. ASSUME NEW k \in Key, CopyRow(k) PROVE TypeOK'
  BY <1>5 DEF TypeOK, CopyRow
<1>6. ASSUME NEW R \in SUBSET DOMAIN batch, NEW S \in Landing(R), WriteRows(S)
      PROVE  dest' \in [Key -> Image] /\ DOMAIN batch' = {} /\ todo' \in SUBSET Key
  <2>1. S \subseteq DOMAIN batch
    BY Lands
  <2>2. dest' = Land(S) /\ batch' = Empty /\ todo' \in SUBSET todo
    BY <1>6 DEF WriteRows
  <2> QED
    BY <2>1, <2>2 DEF TypeOK, Land
<1>7. CASE FinishCopy
  <2>1. CASE snapFailed
    BY <1>7, <1>0, <2>1 DEF TypeOK, FinishCopy
  <2>2. CASE ~snapFailed
    BY <1>7, <2>2 DEF TypeOK, FinishCopy
  <2> QED
    BY <2>1, <2>2
<1>8. CASE MarkDone
  BY <1>8 DEF TypeOK, MarkDone
<1>9. CASE OpenStream
  BY <1>9 DEF TypeOK, OpenStream, ProvisionSlot, FirstPosition
<1>10. CASE Fetch
  <2>1. log[fetched + 1] \in Change
    BY <1>10 DEF TypeOK, Fetch
  <2>2. ImageNow(fetched + 1) \in Image
    BY <2>1 DEF TypeOK, ImageNow, Change
  <2>3. fetched' = fetched + 1 /\ pos' = pos /\ DOMAIN feed' = (pos + 1) .. (fetched + 1)
    BY <1>10 DEF Fetch
  <2>4. ASSUME NEW i \in DOMAIN feed' PROVE feed'[i] \in Image
    BY <1>10, <2>2, <2>3, <2>4 DEF TypeOK, Fetch
  <2> QED
    BY <1>10, <2>3, <2>4 DEF TypeOK, Fetch
<1>11. CASE Skip
  BY <1>11 DEF TypeOK, Skip, Consume
<1>12. CASE NextEvent
  BY <1>12 DEF TypeOK, NextEvent
<1>13. CASE Apply
  <2>1. pos + 1 \in DOMAIN feed /\ pos + 1 \in Nat
    BY <1>13 DEF TypeOK, Apply
  <2>2. dest' \in [Key -> Image]
    BY <1>13, <2>1 DEF TypeOK, Apply
  <2> QED
    BY <1>13, <2>1, <2>2 DEF TypeOK, Apply
<1>14. CASE SaveCursor
  BY <1>14 DEF TypeOK, SaveCursor, Consume
<1>15. CASE AutoAcknowledge
  BY <1>15 DEF TypeOK, AutoAcknowledge
<1>16. CASE Flush \/ FlushRejects
  <2>1. dest' \in [Key -> Image] /\ DOMAIN batch' = {} /\ todo' \in SUBSET Key
    <3>1. CASE Flush
      BY <1>6, <3>1 DEF Flush, Duplicates
    <3>2. CASE FlushRejects
      BY <1>6, <3>2 DEF FlushRejects, Duplicates
    <3> QED
      BY <1>16, <3>1, <3>2
  <2>2. /\ snapFailed' \in BOOLEAN /\ faults' \in Nat
        /\ UNCHANGED <<src, log, acked, cursor, snapshotState, job, stalls, pc, start, pos,
                       fetched, feed, since, handled, rejected>>
    <3>1. CASE Flush
      BY <3>1 DEF TypeOK, Flush
    <3>2. CASE FlushRejects
      BY <3>2 DEF TypeOK, FlushRejects
    <3> QED
      BY <1>16, <3>1, <3>2
  <2>3. pc = "copy"
    BY <1>16 DEF Flush, FlushRejects
  <2> QED
    BY <2>1, <2>2, <2>3 DEF TypeOK
<1>17. CASE NamespaceFails
  BY <1>17 DEF TypeOK, NamespaceFails
<1>18. CASE PauseBreak \/ StreamEnds \/ OpenRefused
  <2>1. /\ EndAttempt /\ job' \in {"live", "over"} /\ faults' \in Nat
        /\ UNCHANGED <<src, log, acked, cursor, snapshotState, stalls, dest, since, handled,
                       rejected>>
    BY <1>18 DEF TypeOK, PauseBreak, StreamEnds, OpenRefused
  <2> QED
    BY <2>1, <1>0 DEF TypeOK
<1>19. CASE ApplyFails
  <2>1. pos + 1 \in DOMAIN feed /\ pos + 1 \in Nat
    BY <1>19 DEF TypeOK, ApplyFails
  <2>2. dest' \in [Key -> Image]
    BY <1>19, <2>1 DEF TypeOK, ApplyFails
  <2>3. DOMAIN feed' = (pos' + 1) .. fetched' /\ \A i \in DOMAIN feed' : feed'[i] \in Image
    BY <1>19, <2>1 DEF TypeOK, ApplyFails, Consume
  <2> QED
    BY <1>19, <2>1, <2>2, <2>3 DEF TypeOK, ApplyFails, Consume
<1>20. CASE SaveCursorFails
  BY <1>20 DEF TypeOK, SaveCursorFails, Consume
<1>21. CASE AttemptThrows \/ Crash
  <2>1. /\ EndAttempt /\ job' \in {"live", "over"} /\ stalls' \in Nat /\ faults' \in Nat
        /\ UNCHANGED <<src, log, acked, cursor, snapshotState, dest, since, handled, rejected>>
    BY <1>21 DEF TypeOK, AttemptThrows, Crash
  <2> QED
    BY <2>1, <1>0 DEF TypeOK
<1>23. CASE PauseAtTop \/ Restart
  <2>1. /\ job' \in {"live", "over"} /\ stalls' \in Nat /\ faults' \in Nat
        /\ UNCHANGED <<src, log, acked, cursor, snapshotState, dest, attempt, since, handled,
                       rejected>>
    BY <1>23 DEF TypeOK, PauseAtTop, Restart
  <2> QED
    BY <2>1 DEF TypeOK
<1>22. CASE UNCHANGED vars
  BY <1>22 DEF TypeOK, vars
<1> QED
  BY <1>1, <1>2, <1>3, <1>4, <1>5, <1>6, <1>7, <1>8, <1>9, <1>10, <1>11, <1>12,
     <1>13, <1>14, <1>15, <1>16, <1>17, <1>18, <1>19, <1>20, <1>21, <1>22, <1>23
     DEF Next, Snapshot, TailStream, Fault

(* The initial state has them. *)
LEMMA TypeInit == Init => TypeOK
<1> USE ConstantsAssumption DEF Image, Position, NoCursor, PC, Streaming,
        Empty, source, jobRow, queue, attempt, history
<1> SUFFICES ASSUME Init PROVE TypeOK
  OBVIOUS
<1>1. log \in Seq(Change)
  BY DEF Init
<1>2. DOMAIN feed = (pos + 1) .. fetched /\ \A i \in DOMAIN feed : feed[i] \in Image
  BY DEF Init
<1> QED
  BY <1>1, <1>2 DEF Init, TypeOK

(* Every variable keeps its type, whatever the databases, the mode and the
   faults. *)
THEOREM TypeCorrect == Spec => []TypeOK
  BY TypeInit, TypeStep, PTL DEF Spec

-----------------------------------------------------------------------------
\* The initial state satisfies the inductive invariant.
LEMMA IInvInit == Init => IInv
  BY TypeInit DEF Init, IInv, SrcFollowsLog, AttemptShape, Untouched, PartialCopy,
     CopyExact, FeedCurrent, TailExact, HandledSoFar, NoGap, Converged, NoCursor,
     Streaming

\* What a write of the application does to the log.
LEMMA WriteLog ==
  ASSUME TypeOK, NEW k \in Key, NEW v \in Image, SourceWrite(k, v)
  PROVE  /\ Len(log) \in Nat /\ Len(log') = Len(log) + 1
         /\ \A i \in 1 .. Len(log) : log'[i] = log[i] /\ log[i].key \in Key
         /\ log'[Len(log) + 1].key = k /\ log'[Len(log) + 1].val = v
         /\ log'[Len(log) + 1].op = "update" => v # NoRow
<1> DEFINE op == IF v = NoRow THEN "delete"
                 ELSE IF src[k] = NoRow THEN "insert" ELSE "update"
           entry == [key |-> k, val |-> v, op |-> op]
<1>1. entry.key = k /\ entry.val = v /\ (entry.op = "update" => v # NoRow)
  OBVIOUS
<1>2. entry \in Change
  BY DEF Change, Op
<1> HIDE DEF entry
<1>3. log' = Append(log, entry)
  BY DEF SourceWrite, entry
<1>4. \A i \in 1 .. Len(log) : log[i] \in Change
  BY DEF TypeOK
<1> QED
  BY <1>1, <1>2, <1>3, <1>4 DEF TypeOK, Change

\* A write leaves no row quiet but those that were, and not its own.
LEMMA WriteQuiet ==
  ASSUME TypeOK, NEW k \in Key, NEW v \in Image, SourceWrite(k, v)
  PROVE  /\ \A x \in Key, n \in 0 .. Len(log) :
              (\A i \in (n + 1) .. Len(log') : log'[i].key # x) => x # k /\ QuietAfter(x, n)
         /\ \A i \in 1 .. Len(log) :
              (\A j \in (i + 1) .. Len(log') : log'[j].key # log'[i].key)
                => log[i].key # k /\ IsLast(i)
         /\ \A x \in Key \ {k} : GaveUp(x) => GaveUp(x)'
<1> USE WriteLog
<1>1. \A x \in Key, n \in 0 .. Len(log) :
        (\A i \in (n + 1) .. Len(log') : log'[i].key # x) => x # k /\ QuietAfter(x, n)
  BY DEF QuietAfter
<1>2. \A i \in 1 .. Len(log) :
        (\A j \in (i + 1) .. Len(log') : log'[j].key # log'[i].key)
          => log[i].key # k /\ IsLast(i)
  BY DEF QuietAfter, IsLast
<1>3. ASSUME NEW x \in Key \ {k}, GaveUp(x) PROVE GaveUp(x)'
  <2>1. PICK i \in rejected : i \in 1 .. Len(log) /\ log[i].key = x /\ IsLast(i)
    BY <1>3 DEF GaveUp
  <2>2. \A j \in (i + 1) .. Len(log') : log'[j].key # log'[i].key
    BY <1>3, <2>1 DEF IsLast, QuietAfter
  <2>3. i \in rejected' /\ i \in 1 .. Len(log') /\ log'[i].key = x
    BY <2>1 DEF SourceWrite, history
  <2> QED
    BY <2>2, <2>3 DEF GaveUp, IsLast, QuietAfter
<1> QED
  BY <1>1, <1>2, <1>3

\* A write of the application keeps the inductive invariant.
LEMMA WriteKeeps ==
  ASSUME IInv, TypeOK', NEW k \in Key, NEW v \in Image, SourceWrite(k, v)
  PROVE  IInv'
<1> USE DEF SourceWrite, source, jobRow, queue, attempt, history, Streaming, NoCursor, Position
<1>0. TypeOK
  BY DEF IInv
<1>1. SrcFollowsLog'
  <2>1. ASSUME NEW i \in 1 .. Len(log'), IsLast(i)' PROVE src'[log'[i].key] = log'[i].val
    <3>1. CASE i \in 1 .. Len(log)
      <4>1. log[i].key # k /\ IsLast(i) /\ log'[i] = log[i] /\ log[i].key \in Key
        BY <1>0, <2>1, <3>1, WriteLog, WriteQuiet DEF IsLast, QuietAfter
      <4> QED
        BY <1>0, <3>1, <4>1 DEF IInv, SrcFollowsLog, TypeOK
    <3>2. CASE i = Len(log) + 1
      BY <1>0, <3>2, WriteLog DEF TypeOK
    <3> QED
      BY <1>0, <3>1, <3>2, WriteLog
  <2>2. ASSUME NEW i \in 1 .. Len(log'), log'[i].op = "update" PROVE log'[i].val # NoRow
    BY <1>0, <2>2, WriteLog DEF IInv, SrcFollowsLog
  <2> QED
    BY <2>1, <2>2 DEF SrcFollowsLog
<1>2. AttemptShape'
  BY <1>0, WriteLog DEF IInv, AttemptShape, TypeOK
<1>3. Untouched' /\ HandledSoFar' /\ NoGap'
  BY DEF IInv, Untouched, HandledSoFar, NoGap, Reached
<1>4. PartialCopy'
  BY <1>0, <1>2, WriteQuiet DEF IInv, PartialCopy, QuietAfter, AttemptShape, TypeOK
<1>5. CopyExact'
  BY <1>0, <1>2, WriteQuiet DEF IInv, CopyExact, QuietAfter, AttemptShape, TypeOK
<1>6. FeedCurrent'
  BY <1>0, <1>2, WriteLog, WriteQuiet DEF IInv, FeedCurrent, IsLast, QuietAfter, AttemptShape, TypeOK
<1>7. TailExact'
  <2> SUFFICES ASSUME pc' \in Streaming, NEW x \in Key,
                      QuietAfter(x, Reached)', ~GaveUp(x)'
               PROVE  dest'[x] = src'[x]
    BY DEF TailExact
  <2>1. Reached' = Reached /\ Reached \in 0 .. Len(log)
    BY <1>0 DEF IInv, AttemptShape, TypeOK, Reached
  <2>2. x # k /\ QuietAfter(x, Reached) /\ ~GaveUp(x)
    BY <1>0, <2>1, WriteQuiet DEF QuietAfter
  <2> QED
    BY <1>0, <2>2 DEF IInv, TailExact, TypeOK
<1>8. Converged'
  <2> SUFFICES ASSUME snapshotState' = "done", NEW x \in Key,
                      QuietAfter(x, cursor)', ~GaveUp(x)'
               PROVE  dest'[x] = src'[x]
    BY DEF Converged
  <2>1. cursor' = cursor /\ cursor \in 0 .. Len(log)
    BY <1>0 DEF IInv, AttemptShape, TypeOK
  <2>2. \A i \in (cursor + 1) .. Len(log') : log'[i].key # x
    BY <2>1 DEF QuietAfter
  <2>3. x # k /\ QuietAfter(x, cursor) /\ ~GaveUp(x)
    BY <1>0, <2>1, <2>2, WriteQuiet
  <2> QED
    BY <1>0, <2>3 DEF IInv, Converged, TypeOK
<1> QED
  BY <1>1, <1>2, <1>3, <1>4, <1>5, <1>6, <1>7, <1>8 DEF IInv

-----------------------------------------------------------------------------
\* A bootstrap step keeps the inductive invariant.
LEMMA SnapshotKeeps ==
  ASSUME Bootstrap = "snapshot", IInv, SlotHeld, TypeOK',
         Begin \/ Snapshot \/ FlushRejects \/ NamespaceFails
  PROVE  IInv'
<1> USE DEF IInv, Position, NoCursor, Streaming, source, jobRow, queue, attempt, history, TypeOK,
        SrcFollowsLog, AttemptShape, Untouched, NoGap, HandledSoFar, PartialCopy,
        CopyExact, FeedCurrent, TailExact, Converged, QuietAfter, IsLast, GaveUp, Reached
<1>1. CASE Begin
  <2>1. CopyExact'
    BY <1>1 DEF Begin, Empty
  <2> QED
    BY <1>1, <2>1 DEF Begin, NeedsSnapshot
<1>2. CASE CaptureStartCursor
  <2>1. start' \in 0 .. Len(log)
    BY <1>2, ConstantsAssumption DEF CaptureStartCursor, ProvisionSlot, SlotHeld
  <2> QED
    BY <1>2, <2>1 DEF CaptureStartCursor
<1>3. CASE SaveStart
  <2>1. /\ dest' = dest /\ src' = src /\ batch' = Empty /\ todo' = Key
        /\ pc' = "copy" /\ snapshotState' = snapshotState
    BY <1>3 DEF SaveStart
  <2>2. \A k \in Key : dest[k] = NoRow
    BY <1>3 DEF SaveStart
  <2>3. PartialCopy'
    BY <2>1, <2>2
  <2>4. CopyExact'
    BY <2>1 DEF Empty
  <2>5. cursor' = start /\ since' = start /\ start' = start /\ start \in 0 .. Len(log)
    BY <1>3 DEF SaveStart
  <2>6. AttemptShape' /\ Untouched' /\ NoGap'
    BY <1>3, <2>1, <2>5 DEF SaveStart
  <2>7. SrcFollowsLog' /\ FeedCurrent' /\ TailExact' /\ HandledSoFar' /\ Converged'
    BY <1>3, <2>1 DEF SaveStart
  <2> HIDE DEF SrcFollowsLog, AttemptShape, Untouched, PartialCopy, CopyExact, FeedCurrent,
               TailExact, HandledSoFar, NoGap, Converged, TypeOK
  <2> QED
    BY <2>3, <2>4, <2>6, <2>7
<1>4. ASSUME NEW k \in Key, CopyRow(k) PROVE IInv'
  <2>1. CopyExact'
    <3> SUFFICES ASSUME NEW x \in Key, QuietAfter(x, cursor)
                 PROVE  /\ x \in DOMAIN batch' => batch'[x] = src[x]
                        /\ ~snapFailed /\ x \notin todo' /\ x \notin DOMAIN batch'
                             => dest[x] = src[x]
      BY <1>4 DEF CopyRow
    <3>1. dest[x] \in {NoRow, src[x]}
      BY <1>4 DEF CopyRow
    <3>2. CASE x = k
      BY <1>4, <3>1, <3>2 DEF CopyRow
    <3>3. CASE x # k
      BY <1>4, <3>3 DEF CopyRow
    <3> QED
      BY <3>2, <3>3
  <2>2. /\ SrcFollowsLog' /\ AttemptShape' /\ Untouched' /\ PartialCopy'
        /\ FeedCurrent' /\ TailExact' /\ HandledSoFar' /\ NoGap' /\ Converged'
    BY <1>4 DEF CopyRow
  <2> HIDE DEF SrcFollowsLog, AttemptShape, Untouched, PartialCopy, CopyExact, FeedCurrent,
               TailExact, HandledSoFar, NoGap, Converged, TypeOK
  <2> QED
    BY <2>1, <2>2
<1>5. CASE Flush \/ FlushRejects
  <2>1. /\ pc = "copy" /\ pc' = pc /\ log' = log /\ src' = src /\ cursor' = cursor
        /\ snapshotState' = snapshotState /\ start' = start /\ since' = since
        /\ UNCHANGED <<pos, fetched, feed, handled, rejected>>
    BY <1>5 DEF Flush, FlushRejects
  <2>2. PICK S \in SUBSET DOMAIN batch :
          /\ WriteRows(S)
          /\ ~snapFailed' => ~snapFailed /\ S = DOMAIN batch \ Duplicates /\ todo' = todo
    <3>1. CASE Flush
      <4>1. PICK S \in Landing(Duplicates) : WriteRows(S)
        BY <1>5, <3>1 DEF Flush
      <4>2. S \subseteq DOMAIN batch /\ (DestType = "mongodb" \/ Duplicates = {} => S = DOMAIN batch \ Duplicates)
        BY Lands DEF Duplicates
      <4>3. ASSUME ~snapFailed' PROVE todo' = todo
        <5>1. DestType = "mongodb" \/ S # {}
          BY <3>1, <4>2, <4>3 DEF Flush, BatchDue
        <5> QED
          BY <4>1, <5>1 DEF WriteRows
      <4> QED
        BY <3>1, <4>1, <4>2, <4>3 DEF Flush
    <3>2. CASE FlushRejects
      <4>1. PICK R \in SUBSET (DOMAIN batch \ Duplicates) :
                 \E S \in Landing(Duplicates \cup R) : WriteRows(S)
        BY <1>5, <3>2 DEF FlushRejects
      <4>3. PICK S \in Landing(Duplicates \cup R) : WriteRows(S)
        BY <4>1
      <4>2. S \subseteq DOMAIN batch
        BY Lands DEF Duplicates
      <4> QED
        BY <3>2, <4>2, <4>3 DEF FlushRejects
    <3> QED
      BY <1>5, <3>1, <3>2
  <2>3. /\ \A x \in Key : dest'[x] = IF x \in S THEN batch[x] ELSE dest[x]
        /\ DOMAIN batch' = {}
    BY <2>2 DEF WriteRows, Land, Empty
  <2>5. ASSUME NEW x \in Key, QuietAfter(x, cursor)
        PROVE  dest'[x] \in {NoRow, src[x]}
    BY <2>1, <2>3, <2>5
  <2>6. ASSUME NEW x \in Key, QuietAfter(x, cursor), ~snapFailed', x \notin todo'
        PROVE  dest'[x] = src[x]
    <3>1. dest[x] \in {NoRow, src[x]} /\ (x \in DOMAIN batch => batch[x] = src[x])
      BY <2>1, <2>6
    <3>2. x \notin todo
      BY <2>2, <2>6
    <3>3. CASE x \in DOMAIN batch
      BY <2>2, <2>3, <2>6, <3>1, <3>3 DEF Duplicates
    <3>4. CASE x \notin DOMAIN batch
      BY <2>1, <2>2, <2>3, <2>6, <3>1, <3>2, <3>4
    <3> QED
      BY <3>3, <3>4
  <2>7. PartialCopy' /\ CopyExact'
    BY <2>1, <2>3, <2>5, <2>6
  <2>8. /\ SrcFollowsLog' /\ AttemptShape' /\ Untouched' /\ FeedCurrent' /\ TailExact'
        /\ HandledSoFar' /\ NoGap' /\ Converged'
    BY <2>1, <2>3
  <2> HIDE DEF SrcFollowsLog, AttemptShape, Untouched, PartialCopy, CopyExact, FeedCurrent,
               TailExact, HandledSoFar, NoGap, Converged, TypeOK
  <2> QED
    BY <2>7, <2>8
<1>6. CASE FinishCopy
  <2>1. CASE snapFailed
    BY <1>6, <2>1 DEF FinishCopy, EndAttempt
  <2>2. CASE ~snapFailed
    <3>1. CopyExact'
      BY <1>6, <2>2 DEF FinishCopy, Empty
    <3> QED
      BY <1>6, <2>2, <3>1 DEF FinishCopy
  <2> QED
    BY <2>1, <2>2
<1>7. CASE MarkDone
  <2>1. Converged'
    BY <1>7 DEF MarkDone
  <2> QED
    BY <1>7, <2>1 DEF MarkDone
<1>9. CASE NamespaceFails
  <2>1. CopyExact'
    BY <1>9 DEF NamespaceFails, Empty
  <2> QED
    BY <1>9, <2>1 DEF NamespaceFails
<1> QED
  BY <1>1, <1>2, <1>3, <1>4, <1>5, <1>6, <1>7, <1>9 DEF Snapshot

-----------------------------------------------------------------------------
\* A step of the tail, a fault or a stutter keeps the inductive invariant.
LEMMA TailKeeps ==
  ASSUME Bootstrap = "snapshot", IInv, SlotHeld, TypeOK',
         TailStream \/ Fetch \/ AutoAcknowledge \/ PauseBreak \/ PauseAtTop \/ ApplyFails
         \/ SaveCursorFails \/ AttemptThrows \/ Crash \/ StreamEnds \/ Restart
         \/ UNCHANGED vars
  PROVE  IInv'
<1> USE DEF IInv, Position, NoCursor, Streaming, source, jobRow, queue, attempt, history, TypeOK,
        SrcFollowsLog, AttemptShape, Untouched, NoGap, HandledSoFar, PartialCopy,
        CopyExact, FeedCurrent, TailExact, Converged, QuietAfter, IsLast, GaveUp, Reached
<1>1. CASE OpenStream
  <2>1. /\ pos' = cursor /\ fetched' = cursor /\ since' = since /\ pc' = "tail"
        /\ UNCHANGED <<src, log, dest, cursor, snapshotState, handled, rejected>>
    <3>1. start = cursor /\ cursor # NoCursor /\ since # NoCursor
      BY <1>1 DEF OpenStream
    <3>2. SourceType = "postgres" => acked' = cursor
      BY <1>1, <3>1 DEF OpenStream, ProvisionSlot, SlotHeld
    <3>3. FirstPosition = cursor
      BY <3>1, <3>2 DEF FirstPosition
    <3> QED
      BY <1>1, <3>1, <3>3 DEF OpenStream
  <2>2. snapshotState = "done" /\ cursor # NoCursor
    BY <1>1 DEF OpenStream
  <2>3. HandledSoFar'
    BY <2>1, <2>2
  <2>4. TailExact'
    BY <2>1, <2>2
  <2>5. /\ SrcFollowsLog' /\ AttemptShape' /\ Untouched' /\ PartialCopy' /\ CopyExact'
        /\ FeedCurrent' /\ NoGap' /\ Converged'
    BY <1>1, <2>1 DEF OpenStream
  <2> HIDE DEF SrcFollowsLog, AttemptShape, Untouched, PartialCopy, CopyExact, FeedCurrent,
               TailExact, HandledSoFar, NoGap, Converged, TypeOK
  <2> QED
    BY <2>3, <2>4, <2>5
<1>2. CASE Fetch
  <2>1. FeedCurrent'
    <3> SUFFICES ASSUME NEW i \in (pos + 1) .. (fetched + 1), IsLast(i)
                 PROVE  feed'[i] = src[log[i].key]
      BY <1>2 DEF Fetch
    <3>1. CASE i = fetched + 1
      <4>1. feed'[i] = ImageNow(fetched + 1)
        BY <1>2, <3>1 DEF Fetch
      <4>2. fetched + 1 \in 1 .. Len(log)
        BY <1>2 DEF Fetch
      <4> QED
        BY <3>1, <4>1, <4>2 DEF ImageNow
    <3>2. CASE i # fetched + 1
      <4>1. feed'[i] = feed[i] /\ i \in (pos + 1) .. fetched
        BY <1>2, <3>2 DEF Fetch
      <4> QED
        BY <1>2, <4>1 DEF Fetch
    <3> QED
      BY <3>1, <3>2
  <2>2. /\ SrcFollowsLog' /\ AttemptShape' /\ Untouched' /\ PartialCopy' /\ CopyExact'
        /\ TailExact' /\ HandledSoFar' /\ NoGap' /\ Converged'
    BY <1>2 DEF Fetch
  <2> HIDE DEF SrcFollowsLog, AttemptShape, Untouched, PartialCopy, CopyExact, FeedCurrent,
               TailExact, HandledSoFar, NoGap, Converged, TypeOK
  <2> QED
    BY <2>1, <2>2
<1>3. CASE Skip
  <2>1. TailExact'
    <3>1. ~IsLast(pos + 1)
      <4>1. pos + 1 \in 1 .. Len(log) /\ log[pos + 1].op = "update" /\ feed[pos + 1] = NoRow
        BY <1>3 DEF Skip, Superseded
      <4>2. IsLast(pos + 1) => feed[pos + 1] = src[log[pos + 1].key]
        BY <1>3 DEF Skip
      <4>3. IsLast(pos + 1) => src[log[pos + 1].key] # NoRow
        BY <4>1
      <4> QED
        BY <4>1, <4>2, <4>3
    <3>2. ASSUME NEW x \in Key, QuietAfter(x, pos + 1) PROVE QuietAfter(x, pos)
      BY <3>1, <3>2
    <3> QED
      BY <1>3, <3>2 DEF Skip, Consume
  <2>2. /\ SrcFollowsLog' /\ AttemptShape' /\ Untouched' /\ PartialCopy' /\ CopyExact'
        /\ FeedCurrent' /\ HandledSoFar' /\ NoGap' /\ Converged'
    BY <1>3 DEF Skip, Consume
  <2> HIDE DEF SrcFollowsLog, AttemptShape, Untouched, PartialCopy, CopyExact, FeedCurrent,
               TailExact, HandledSoFar, NoGap, Converged, TypeOK
  <2> QED
    BY <2>1, <2>2
<1>4. CASE NextEvent
  BY <1>4 DEF NextEvent
<1>5. CASE Apply
  <2>1. /\ pc = "apply" /\ pc' = "save" /\ pos' = pos /\ UNCHANGED <<src, log>>
        /\ pos + 1 \in 1 .. Len(log) /\ rejected' = rejected \ {pos + 1}
        /\ dest' = [dest EXCEPT ![log[pos + 1].key] = feed[pos + 1]]
    BY <1>5 DEF Apply
  <2>2. TailExact'
    <3> SUFFICES ASSUME NEW x \in Key, QuietAfter(x, pos + 1), ~GaveUp(x)'
                 PROVE  dest'[x] = src[x]
      BY <2>1
    <3>1. CASE x = log[pos + 1].key
      <4>1. feed[pos + 1] = src[x]
        BY <2>1, <3>1
      <4> QED
        BY <2>1, <3>1, <4>1
    <3>2. CASE x # log[pos + 1].key
      <4>1. QuietAfter(x, pos) /\ ~GaveUp(x)
        BY <2>1, <3>2
      <4> QED
        BY <2>1, <3>2, <4>1
    <3> QED
      BY <3>1, <3>2
  <2>3. Converged'
    <3>1. ASSUME NEW x \in Key, QuietAfter(x, cursor), ~GaveUp(x)'
          PROVE  x # log[pos + 1].key /\ ~GaveUp(x)
      BY <2>1, <3>1
    <3> QED
      BY <1>5, <3>1 DEF Apply
  <2>4. SrcFollowsLog' /\ AttemptShape' /\ Untouched' /\ PartialCopy' /\ CopyExact'
    BY <1>5 DEF Apply
  <2>5. FeedCurrent'
    BY <1>5 DEF Apply
  <2>6. HandledSoFar' /\ NoGap'
    <3>1. handled' = handled \cup {pos + 1} /\ UNCHANGED <<cursor, since>>
      BY <1>5 DEF Apply
    <3> QED
      BY <2>1, <3>1
  <2> HIDE DEF SrcFollowsLog, AttemptShape, Untouched, PartialCopy, CopyExact, FeedCurrent,
               TailExact, HandledSoFar, NoGap, Converged, TypeOK
  <2> QED
    BY <2>2, <2>3, <2>4, <2>5, <2>6
<1>6. CASE SaveCursor
  <2>1. /\ pc = "save" /\ pc' = "tail" /\ pos' = pos + 1 /\ cursor' = pos + 1
        /\ fetched' = fetched /\ feed' = [i \in (pos + 2) .. fetched |-> feed[i]]
        /\ UNCHANGED <<src, log, dest, snapshotState, handled, rejected, since, batch, todo,
                       start, snapFailed>>
    BY <1>6 DEF SaveCursor, Consume
  <2>2. NoGap' /\ HandledSoFar'
    BY <2>1
  <2>3. Converged' /\ TailExact'
    BY <2>1
  <2>4. FeedCurrent'
    BY <2>1
  <2>5. SrcFollowsLog' /\ AttemptShape' /\ Untouched' /\ PartialCopy' /\ CopyExact'
    BY <2>1
  <2> HIDE DEF SrcFollowsLog, AttemptShape, Untouched, PartialCopy, CopyExact, FeedCurrent,
               TailExact, HandledSoFar, NoGap, Converged, TypeOK
  <2> QED
    BY <2>2, <2>3, <2>4, <2>5
<1>7. CASE AutoAcknowledge
  <2>1. UNCHANGED <<src, log, dest, cursor, snapshotState, pc, start, todo, batch, snapFailed, pos,
                    fetched, feed, since, handled, rejected>>
    BY <1>7 DEF AutoAcknowledge
  <2>2. SrcFollowsLog' /\ AttemptShape' /\ Untouched' /\ NoGap' /\ Converged'
    BY <2>1
  <2>3. PartialCopy' /\ CopyExact'
    BY <2>1
  <2>4. FeedCurrent' /\ TailExact' /\ HandledSoFar'
    BY <2>1
  <2> HIDE DEF SrcFollowsLog, AttemptShape, Untouched, PartialCopy, CopyExact, FeedCurrent,
               TailExact, HandledSoFar, NoGap, Converged, TypeOK
  <2> QED
    BY <2>2, <2>3, <2>4
<1>8. CASE PauseBreak \/ StreamEnds \/ OpenRefused \/ AttemptThrows
  <2>1. /\ pc' = "idle" /\ batch' = Empty
        /\ UNCHANGED <<src, log, dest, cursor, snapshotState, since, handled, rejected>>
    BY <1>8 DEF PauseBreak, StreamEnds, OpenRefused, AttemptThrows, EndAttempt
  <2>2. SrcFollowsLog' /\ Untouched' /\ PartialCopy' /\ CopyExact' /\ NoGap' /\ Converged'
    BY <2>1
  <2>3. AttemptShape' /\ FeedCurrent' /\ TailExact' /\ HandledSoFar'
    BY <2>1
  <2> HIDE DEF SrcFollowsLog, AttemptShape, Untouched, PartialCopy, CopyExact, FeedCurrent,
               TailExact, HandledSoFar, NoGap, Converged, TypeOK
  <2> QED
    BY <2>2, <2>3
<1>9. CASE ApplyFails
  <2>1. /\ pc = "apply" /\ pc' = "tail" /\ pos' = pos + 1 /\ UNCHANGED <<src, log, cursor>>
        /\ pos + 1 \in 1 .. Len(log) /\ rejected' = rejected \cup {pos + 1}
        /\ snapshotState' = snapshotState
        /\ \A x \in Key : x # log[pos + 1].key => dest'[x] = dest[x]
    BY <1>9 DEF ApplyFails, Consume
  <2>2. ASSUME NEW x \in Key, ~GaveUp(x)', QuietAfter(x, pos + 1)
        PROVE  x # log[pos + 1].key /\ QuietAfter(x, pos) /\ ~GaveUp(x)
    <3>1. x # log[pos + 1].key
      <4> SUFFICES ASSUME x = log[pos + 1].key PROVE GaveUp(x)'
        BY <2>2
      <4>1. \A j \in (pos + 2) .. Len(log) : log[j].key # log[pos + 1].key
        BY <2>2
      <4> QED
        BY <2>1, <4>1
    <3>2. QuietAfter(x, pos)
      BY <2>2, <3>1
    <3>3. ~GaveUp(x)
      BY <2>1, <2>2
    <3> QED
      BY <3>1, <3>2, <3>3
  <2>3. TailExact'
    <3> SUFFICES ASSUME NEW x \in Key, QuietAfter(x, pos + 1), ~GaveUp(x)'
                 PROVE  dest'[x] = src[x]
      BY <2>1
    <3>1. dest'[x] = dest[x] /\ QuietAfter(x, pos) /\ ~GaveUp(x)
      BY <2>1, <2>2
    <3> QED
      BY <2>1, <3>1
  <2>4. Converged'
    <3>1. ASSUME NEW x \in Key, QuietAfter(x, cursor), ~GaveUp(x)'
          PROVE  x # log[pos + 1].key /\ ~GaveUp(x)
      BY <2>1, <3>1
    <3> SUFFICES ASSUME snapshotState = "done", NEW x \in Key,
                        QuietAfter(x, cursor), ~GaveUp(x)'
                 PROVE  dest'[x] = src[x]
      BY <2>1
    <3>2. dest'[x] = dest[x] /\ ~GaveUp(x)
      BY <2>1, <3>1
    <3> QED
      BY <3>2
  <2>5. SrcFollowsLog' /\ AttemptShape' /\ Untouched' /\ PartialCopy' /\ CopyExact'
    BY <1>9 DEF ApplyFails, Consume
  <2>6. FeedCurrent'
    <3>1. fetched' = fetched /\ feed' = [i \in (pos + 2) .. fetched |-> feed[i]]
      BY <1>9 DEF ApplyFails, Consume
    <3>2. \A i \in (pos + 2) .. fetched : feed'[i] = feed[i]
      BY <3>1
    <3> QED
      BY <2>1, <3>1, <3>2
  <2>7. HandledSoFar' /\ NoGap'
    BY <1>9 DEF ApplyFails, Consume
  <2> HIDE DEF SrcFollowsLog, AttemptShape, Untouched, PartialCopy, CopyExact, FeedCurrent,
               TailExact, HandledSoFar, NoGap, Converged, TypeOK
  <2> QED
    BY <2>3, <2>4, <2>5, <2>6, <2>7
<1>10. CASE SaveCursorFails
  BY <1>10 DEF SaveCursorFails, Consume
<1>11. CASE Crash
  BY <1>11 DEF Crash, EndAttempt
<1>12. CASE UNCHANGED vars
  BY <1>12 DEF vars
<1>13. CASE PauseAtTop \/ Restart
  <2>1. UNCHANGED <<src, log, dest, cursor, snapshotState, pc, start, todo, batch, snapFailed, pos,
                    fetched, feed, since, handled, rejected>>
    BY <1>13 DEF PauseAtTop, Restart
  <2>2. SrcFollowsLog' /\ AttemptShape' /\ Untouched' /\ NoGap' /\ Converged'
    BY <2>1
  <2>3. PartialCopy' /\ CopyExact'
    BY <2>1
  <2>4. FeedCurrent' /\ TailExact' /\ HandledSoFar'
    BY <2>1
  <2> HIDE DEF SrcFollowsLog, AttemptShape, Untouched, PartialCopy, CopyExact, FeedCurrent,
               TailExact, HandledSoFar, NoGap, Converged, TypeOK
  <2> QED
    BY <2>2, <2>3, <2>4
<1> QED
  BY <1>1, <1>2, <1>3, <1>4, <1>5, <1>6, <1>7, <1>8, <1>9, <1>10, <1>11, <1>12, <1>13
     DEF TailStream

\* The invariant is inductive for a bootstrap by a snapshot, as long as the slot is held.
LEMMA IInvStep ==
  ASSUME Bootstrap = "snapshot", IInv, SlotHeld, [Next]_vars
  PROVE  IInv'
<1>1. TypeOK'
  BY TypeStep DEF IInv
<1>2. ASSUME NEW k \in Key, NEW v \in Image, SourceWrite(k, v) PROVE IInv'
  BY <1>1, <1>2, WriteKeeps
<1> QED
  BY <1>1, <1>2, SnapshotKeeps, TailKeeps DEF Next, Fault

\* A stream that resumes where it is asked to has no slot that could be lost.
LEMMA ResumableStep ==
  ASSUME SourceType = "mongodb", Bootstrap = "snapshot", IInv, [Next]_vars
  PROVE  IInv'
  BY IInvStep DEF SlotHeld

(* A resume leaves no gap: with a MongoDB source and a snapshot bootstrap every
   change up to the saved cursor has been handed to the writer, after any
   number of crashes, drops and failed attempts. *)
THEOREM NoGapHolds ==
  ASSUME SourceType = "mongodb", Bootstrap = "snapshot" PROVE Spec => []NoGap
<1>1. IInv /\ [Next]_vars => IInv'
  BY ResumableStep
<1>2. IInv => NoGap
  BY DEF IInv
<1> QED
  BY IInvInit, <1>1, <1>2, PTL DEF Spec

(* The copy converges: with the same source and bootstrap, and any destination,
   a row without a change beyond the cursor is the same on both sides. *)
THEOREM ConvergedHolds ==
  ASSUME SourceType = "mongodb", Bootstrap = "snapshot" PROVE Spec => []Converged
<1>1. IInv /\ [Next]_vars => IInv'
  BY ResumableStep
<1>2. IInv => Converged
  BY DEF IInv
<1> QED
  BY IInvInit, <1>1, <1>2, PTL DEF Spec

\* A step that moves a saved cursor moves it forward, after the bootstrap.
LEMMA CursorStep ==
  IInv /\ [Next]_vars => [cursor # NoCursor => snapshotState = "done" /\ cursor' > cursor]_cursor
<1> SUFFICES ASSUME IInv, [Next]_vars, cursor' # cursor, cursor # NoCursor
             PROVE  snapshotState = "done" /\ cursor' > cursor
  OBVIOUS
<1>1. ~SaveStart
  BY DEF IInv, AttemptShape, SaveStart
<1>2. CASE SaveCursor
  BY <1>2 DEF SaveCursor, IInv, AttemptShape, TypeOK, Streaming, Position, NoCursor
<1> QED
  BY <1>1, <1>2 DEF Next, Snapshot, TailStream, Fault, vars, jobRow, attempt, source,
     history, SourceWrite, Begin, CaptureStartCursor, CopyRow, Flush, FinishCopy,
     MarkDone, OpenStream, OpenRefused, Fetch, Skip, NextEvent, Apply, AutoAcknowledge,
     FlushRejects, NamespaceFails, PauseBreak, PauseAtTop, ApplyFails, SaveCursorFails,
     AttemptThrows, Crash, StreamEnds, Restart

(* The cursor is held during the bootstrap and only moves forward afterwards. *)
THEOREM CursorHeldThenForwardHolds ==
  ASSUME SourceType = "mongodb", Bootstrap = "snapshot"
  PROVE  Spec => CursorHeldThenForward
<1>1. IInv /\ [Next]_vars => IInv'
  BY ResumableStep
<1> QED
  BY IInvInit, <1>1, CursorStep, PTL DEF Spec, CursorHeldThenForward

-----------------------------------------------------------------------------
\* What MarkOf depends on besides the row.
MarkSame == UNCHANGED <<log, cursor, snapshotState, rejected>>

\* Steps that touch neither the rows nor what marks depend on.
LEMMA QuietSteps ==
  ASSUME MarkSame, UNCHANGED <<src, dest>> PROVE UNCHANGED Replica!vars
<1>1. \A k \in Key : MarkOf(k)' = MarkOf(k)
  BY DEF MarkSame, MarkOf, QuietAfter, GaveUp, IsLast
<1> QED
  BY <1>1 DEF Replica!vars

\* A write of the application is a Change.
LEMMA WriteRefines ==
  ASSUME IInv, IInv', NEW k \in Key, NEW v \in Image, SourceWrite(k, v)
  PROVE  Replica!Change
<1>0. TypeOK
  BY DEF IInv
<1>1. MarkOf(k)' = "stale"
  <2>1. cursor' = cursor /\ snapshotState' = snapshotState
    BY DEF SourceWrite, jobRow
  <2>2. CASE snapshotState = "done"
    <3>1. cursor \in 0 .. Len(log)
      BY <1>0, <2>2 DEF IInv, AttemptShape, TypeOK, Position, NoCursor
    <3>2. \E i \in (cursor + 1) .. Len(log') : log'[i].key = k
      BY <1>0, <3>1, WriteLog
    <3> QED
      BY <2>1, <3>2 DEF MarkOf, QuietAfter
  <2>3. CASE snapshotState # "done"
    BY <2>1, <2>3 DEF MarkOf
  <2> QED
    BY <2>2, <2>3
<1>2. ASSUME NEW x \in Key, x # k PROVE MarkOf(x)' = MarkOf(x)
  <2>1. cursor' = cursor /\ snapshotState' = snapshotState /\ rejected' = rejected
    BY DEF SourceWrite, jobRow, history
  <2>2. CASE snapshotState = "done"
    <3>1. cursor \in 0 .. Len(log)
      BY <1>0, <2>2 DEF IInv, AttemptShape, TypeOK, Position, NoCursor
    <3>2. QuietAfter(x, cursor)' <=> QuietAfter(x, cursor)
      BY <1>0, <1>2, <2>1, <3>1, WriteLog DEF QuietAfter
    <3>3. QuietAfter(x, cursor) => (GaveUp(x)' <=> GaveUp(x))
      <4>1. GaveUp(x) => GaveUp(x)'
        BY <1>0, <1>2, WriteQuiet
      <4>2. ASSUME GaveUp(x)' PROVE GaveUp(x)
        <5>1. PICK i \in rejected' : /\ i \in 1 .. Len(log') /\ log'[i].key = x
                                     /\ \A j \in (i + 1) .. Len(log') : log'[j].key # log'[i].key
          BY <4>2 DEF GaveUp, IsLast, QuietAfter
        <5>2. i \in 1 .. Len(log)
          BY <1>0, <1>2, <5>1, WriteLog
        <5> QED
          BY <1>0, <2>1, <5>1, <5>2, WriteLog, WriteQuiet DEF GaveUp
      <4> QED
        BY <4>1, <4>2
    <3> QED
      BY <2>1, <2>2, <3>2, <3>3 DEF MarkOf
  <2>3. CASE snapshotState # "done"
    BY <2>1, <2>3 DEF MarkOf
  <2> QED
    BY <2>2, <2>3
<1>3. src' = [src EXCEPT ![k] = v] /\ dest' = dest
  BY DEF SourceWrite
<1>4. [x \in Key |-> MarkOf(x)]' = [[x \in Key |-> MarkOf(x)] EXCEPT ![k] = "stale"]
  BY <1>1, <1>2
<1> QED
  BY <1>3, <1>4 DEF Replica!Change, Replica!Image, Image

\* Rows are written only where they are stale, and stay as stale as they were.
LEMMA WritesRefine ==
  ASSUME IInv, IInv', src' = src,
         \A k \in Key : MarkOf(k)' = MarkOf(k),
         \A k \in Key : dest'[k] # dest[k] => MarkOf(k) = "stale"
  PROVE  Replica!Write
<1>1. dest' \in [Key -> Replica!Image]
  BY DEF IInv, TypeOK, Image, Replica!Image
<1>2. [x \in Key |-> MarkOf(x)]' = [x \in Key |-> MarkOf(x)]
  OBVIOUS
<1> QED
  BY <1>1, <1>2 DEF Replica!Write

\* Rows are settled only when they were stale, and as synced only when equal.
LEMMA SettleRefines ==
  ASSUME IInv, IInv', src' = src, dest' = dest,
         \A k \in Key : MarkOf(k) # "stale" => MarkOf(k)' = MarkOf(k)
  PROVE  Replica!Settle
<1>1. \A k \in Key : MarkOf(k)' = "synced" => dest[k] = src[k]
  BY DEF IInv, MarkOf, Converged
<1>2. [k \in Key |-> MarkOf(k)]' \in [Key -> Replica!Mark]
  BY DEF MarkOf, Replica!Mark
<1> QED
  BY <1>1, <1>2 DEF Replica!Settle

\* Every step of the sync is a step of the write-back copy, or none.
LEMMA RefinementStep ==
  ASSUME IInv, IInv', [Next]_vars
  PROVE  [Replica!Next]_(Replica!vars)
<1> USE DEF source, jobRow, queue, attempt, history
<1>0. TypeOK /\ AttemptShape
  BY DEF IInv
<1>1. ASSUME NEW k \in Key, NEW v \in Image, SourceWrite(k, v) PROVE Replica!Change
  BY <1>1, WriteRefines
<1>2. Begin \/ CaptureStartCursor \/ FinishCopy \/ NamespaceFails \/ PauseBreak \/ PauseAtTop
        \/ AttemptThrows \/ Crash \/ StreamEnds \/ Restart \/ AutoAcknowledge \/ OpenStream
        \/ OpenRefused \/ Fetch \/ Skip \/ NextEvent \/ SaveCursorFails \/ UNCHANGED vars \/ (\E k \in Key : CopyRow(k))
        => MarkSame /\ UNCHANGED <<src, dest>>
  BY DEF MarkSame, vars, Begin, CaptureStartCursor, FinishCopy, NamespaceFails, PauseBreak,
     PauseAtTop, AttemptThrows, Crash, StreamEnds, Restart, AutoAcknowledge, OpenStream,
     OpenRefused, Fetch, Skip, NextEvent, SaveCursorFails, CopyRow
<1>3. SaveStart => UNCHANGED Replica!vars
  <2> SUFFICES ASSUME SaveStart PROVE UNCHANGED Replica!vars
    OBVIOUS
  <2>1. snapshotState # "done" /\ snapshotState' # "done"
    BY <1>0 DEF SaveStart, AttemptShape
  <2>2. \A k \in Key : MarkOf(k)' = MarkOf(k)
    BY <2>1 DEF MarkOf
  <2> QED
    BY <2>2 DEF SaveStart, Replica!vars
<1>4. Flush \/ FlushRejects => Replica!Write
  <2> SUFFICES ASSUME Flush \/ FlushRejects PROVE Replica!Write
    OBVIOUS
  <2>1. snapshotState # "done" /\ snapshotState' # "done" /\ src' = src
    BY <1>0 DEF Flush, FlushRejects, AttemptShape
  <2>2. \A k \in Key : MarkOf(k)' = MarkOf(k) /\ MarkOf(k) = "stale"
    BY <2>1 DEF MarkOf
  <2> QED
    BY <2>1, <2>2, WritesRefine
<1>5. Apply \/ ApplyFails => Replica!Write
  <2> SUFFICES ASSUME Apply \/ ApplyFails PROVE Replica!Write
    OBVIOUS
  <2>1. /\ UNCHANGED <<src, log, cursor, snapshotState>>
        /\ rejected' \in {rejected \ {pos + 1}, rejected \cup {pos + 1}}
        /\ \A x \in Key : x # log[pos + 1].key => dest'[x] = dest[x]
    BY <1>0 DEF Apply, ApplyFails, TypeOK
  <2>2. snapshotState = "done" /\ cursor \in 0 .. pos /\ pos \in 0 .. (Len(log) - 1)
    BY <1>0 DEF Apply, ApplyFails, AttemptShape, TypeOK, Streaming, Position, NoCursor
  <2>3. ASSUME NEW x \in Key, QuietAfter(x, cursor) PROVE x # log[pos + 1].key
    BY <2>2, <2>3 DEF QuietAfter
  <2>4. ASSUME NEW x \in Key PROVE MarkOf(x)' = MarkOf(x)
    <3>1. CASE ~QuietAfter(x, cursor)
      BY <2>1, <3>1 DEF MarkOf, QuietAfter
    <3>2. CASE QuietAfter(x, cursor)
      <4>1. GaveUp(x)' <=> GaveUp(x)
        BY <2>1, <2>3, <3>2 DEF GaveUp, IsLast, QuietAfter
      <4> QED
        BY <2>1, <4>1 DEF MarkOf, QuietAfter
    <3> QED
      BY <3>1, <3>2
  <2>5. ASSUME NEW x \in Key, dest'[x] # dest[x] PROVE MarkOf(x) = "stale"
    BY <2>1, <2>3, <2>5 DEF MarkOf
  <2> QED
    BY <2>1, <2>4, <2>5, WritesRefine
<1>6. MarkDone => Replica!Settle
  <2> SUFFICES ASSUME MarkDone PROVE Replica!Settle
    OBVIOUS
  <2>1. src' = src /\ dest' = dest /\ \A k \in Key : MarkOf(k) = "stale"
    BY <1>0 DEF MarkDone, MarkOf, AttemptShape
  <2> QED
    BY <2>1, SettleRefines
<1>7. SaveCursor => Replica!Settle
  <2> SUFFICES ASSUME SaveCursor PROVE Replica!Settle
    OBVIOUS
  <2>1. /\ UNCHANGED <<src, dest, log, snapshotState, rejected>> /\ cursor' = pos + 1
        /\ cursor \in 0 .. pos /\ pos \in Nat
    BY <1>0 DEF SaveCursor, AttemptShape, TypeOK, Streaming, Position, NoCursor
  <2>2. ASSUME NEW k \in Key, MarkOf(k) # "stale" PROVE MarkOf(k)' = MarkOf(k)
    <3>1. QuietAfter(k, cursor) /\ QuietAfter(k, cursor)'
      BY <2>1, <2>2 DEF MarkOf, QuietAfter
    <3>2. GaveUp(k)' <=> GaveUp(k)
      BY <2>1 DEF GaveUp, IsLast, QuietAfter
    <3> QED
      BY <2>1, <3>1, <3>2 DEF MarkOf
  <2> QED
    BY <2>1, <2>2, SettleRefines
<1> QED
  BY <1>1, <1>2, <1>3, <1>4, <1>5, <1>6, <1>7, QuietSteps
     DEF Next, Snapshot, TailStream, Fault, Replica!Next

(* The sync implements the write-back copy: whatever crashes, a row whose
   changes lie before the cursor of a finished bootstrap is settled, and nothing
   writes to it again until it changes. *)
THEOREM ImplementsReplicaHolds ==
  ASSUME SourceType = "mongodb", Bootstrap = "snapshot" PROVE Spec => ImplementsReplica
<1>1. IInv /\ [Next]_vars => IInv'
  BY ResumableStep
<1>2. Init => Replica!Init
  BY DEF Init, Replica!Init, MarkOf
<1>3. IInv /\ IInv' /\ [Next]_vars => [Replica!Next]_(Replica!vars)
  BY RefinementStep
<1> QED
  BY IInvInit, <1>1, <1>2, <1>3, PTL DEF Spec, ImplementsReplica, Replica!Spec

-----------------------------------------------------------------------------
(* Until a stream ends: any source, Postgres included. *)

\* The slot is held until a stream is open, and after that while it stays open.
LEMMA SlotStep ==
  ASSUME Bootstrap = "snapshot", IInv, SlotHeld, [Next]_vars, StreamStays
  PROVE  SlotHeld'
<1> USE ConstantsAssumption DEF source, jobRow, queue, attempt, history, SlotHeld, Streaming, NoCursor, Position
<1>0. TypeOK /\ AttemptShape
  BY DEF IInv
<1>1. ASSUME NEW k \in Key, NEW v \in Image, SourceWrite(k, v) PROVE SlotHeld'
  BY <1>0, <1>1, WriteLog DEF SourceWrite, TypeOK
<1>2. CASE Begin
  BY <1>2 DEF Begin
<1>3. CASE CaptureStartCursor
  BY <1>0, <1>3 DEF CaptureStartCursor, ProvisionSlot, TypeOK, AttemptShape
<1>4. CASE SaveStart
  BY <1>4 DEF SaveStart
<1>5. CASE FinishCopy
  BY <1>5 DEF FinishCopy, EndAttempt
<1>6. CASE MarkDone
  BY <1>6 DEF MarkDone
<1>7. CASE OpenStream
  BY <1>0, <1>7 DEF OpenStream, ProvisionSlot, TypeOK
<1>8. CASE Flush \/ FlushRejects \/ NamespaceFails \/ PauseAtTop \/ Restart
           \/ \E k \in Key : CopyRow(k)
  BY <1>8 DEF Flush, FlushRejects, NamespaceFails, PauseAtTop, Restart, CopyRow
<1>9. CASE Fetch \/ Skip \/ NextEvent \/ Apply \/ SaveCursor \/ ApplyFails \/ SaveCursorFails
  BY <1>9 DEF Fetch, Skip, NextEvent, Apply, SaveCursor, ApplyFails, SaveCursorFails, Consume
<1>10. CASE AutoAcknowledge
  BY <1>0, <1>10 DEF AutoAcknowledge, AttemptShape, TypeOK
<1>11. CASE PauseBreak \/ StreamEnds \/ OpenRefused \/ AttemptThrows \/ Crash
  BY <1>11 DEF PauseBreak, StreamEnds, OpenRefused, AttemptThrows, Crash, EndAttempt, StreamStays
<1>12. CASE UNCHANGED vars
  BY <1>12 DEF vars
<1> QED
  BY <1>1, <1>2, <1>3, <1>4, <1>5, <1>6, <1>7, <1>8, <1>9, <1>10, <1>11, <1>12
     DEF Next, Snapshot, TailStream, Fault

\* Without a snapshot: what the open stream has handled.
LEMMA TailStep ==
  ASSUME Bootstrap = "tail", TailInv, [Next]_vars, StreamStays
  PROVE  TailInv'
<1> USE DEF TailInv, TailShape, HandledSoFar, NoGap, Reached, source, jobRow, queue, attempt, history,
        Streaming, NoCursor, Position
<1>0. TypeOK /\ TypeOK'
  BY TypeStep
<1>1. ASSUME NEW k \in Key, NEW v \in Image, SourceWrite(k, v) PROVE TailInv'
  BY <1>0, <1>1 DEF SourceWrite
<1>2. CASE Begin
  BY <1>0, <1>2 DEF Begin, NeedsSnapshot
<1>3. CASE Snapshot \/ FlushRejects \/ NamespaceFails
  BY <1>3 DEF Snapshot, CaptureStartCursor, SaveStart, CopyRow, Flush, FinishCopy, MarkDone,
     FlushRejects, NamespaceFails, BatchDue
<1>4. CASE OpenStream
  <2>0. since = NoCursor /\ cursor = NoCursor
    BY <1>4 DEF OpenStream
  <2>1. pos' = since' /\ cursor' = NoCursor /\ pc' = "tail"
    BY <1>4, <2>0 DEF OpenStream
  <2>2. pos' \in Nat
    BY <1>0 DEF TypeOK
  <2>3. TailShape'
    BY <2>1, <2>2
  <2>4. HandledSoFar'
    <3>1. \A n \in Nat : (n + 1) .. n = {}
      OBVIOUS
    <3>2. (since' + 1) .. Reached' = {}
      BY <2>1, <2>2, <3>1
    <3> QED
      BY <2>1, <3>2
  <2>5. NoGap'
    BY <2>1
  <2> HIDE DEF TailShape, HandledSoFar, NoGap
  <2> QED
    BY <1>0, <2>3, <2>4, <2>5
<1>5. CASE Fetch \/ NextEvent
  BY <1>0, <1>5 DEF Fetch, NextEvent, TypeOK
<1>6. CASE Skip \/ ApplyFails
  <2>1. /\ pc \in {"tail", "apply"} /\ pc' = "tail" /\ pos' = pos + 1
        /\ handled' = handled \cup {pos + 1} /\ UNCHANGED <<cursor, since>>
    BY <1>6 DEF Skip, ApplyFails, Consume
  <2> QED
    BY <1>0, <2>1 DEF TypeOK
<1>7. CASE Apply
  BY <1>0, <1>7 DEF Apply, TypeOK
<1>8. CASE SaveCursor \/ SaveCursorFails
  <2>1. /\ pc = "save" /\ pc' = "tail" /\ pos' = pos + 1 /\ cursor' \in {cursor, pos + 1}
        /\ UNCHANGED <<handled, since>>
    BY <1>8 DEF SaveCursor, SaveCursorFails, Consume
  <2> QED
    BY <1>0, <2>1 DEF TypeOK
<1>9. CASE AutoAcknowledge
  BY <1>0, <1>9 DEF AutoAcknowledge
<1>10. CASE PauseBreak \/ StreamEnds \/ OpenRefused \/ AttemptThrows \/ Crash
  <2>1. pc' = "idle" /\ UNCHANGED <<cursor, since, handled>>
    BY <1>10 DEF PauseBreak, StreamEnds, OpenRefused, AttemptThrows, Crash, EndAttempt
  <2> QED
    BY <1>0, <2>1 DEF StreamStays
<1>12. CASE PauseAtTop \/ Restart
  BY <1>0, <1>12 DEF PauseAtTop, Restart
<1>11. CASE UNCHANGED vars
  BY <1>0, <1>11 DEF vars
<1> QED
  BY <1>1, <1>2, <1>3, <1>4, <1>5, <1>6, <1>7, <1>8, <1>9, <1>10, <1>11, <1>12
     DEF Next, TailStream, Fault

\* Either bootstrap keeps its invariant while the stream stays open.
OpenInv == IF Bootstrap = "snapshot" THEN IInv /\ SlotHeld ELSE TailInv

LEMMA OpenStart == Init => OpenInv
<1>1. Init => SlotHeld /\ TailInv
  BY TypeInit DEF Init, SlotHeld, TailInv, TailShape, HandledSoFar, NoGap, NoCursor, Streaming
<1> QED BY <1>1, IInvInit DEF OpenInv

LEMMA OpenStep == OpenInv /\ [Next]_vars /\ [StreamStays]_vars => OpenInv'
<1> SUFFICES ASSUME OpenInv, [Next]_vars, [StreamStays]_vars PROVE OpenInv'
  OBVIOUS
<1>1. StreamStays
  BY DEF StreamStays, vars, Streaming
<1>2. CASE Bootstrap = "snapshot"
  BY <1>1, <1>2, IInvStep, SlotStep DEF OpenInv
<1>3. CASE Bootstrap = "tail"
  BY <1>1, <1>3, TailStep DEF OpenInv
<1> QED BY <1>2, <1>3, ConstantsAssumption

(* No gap before a stream ends: with a MongoDB or a Postgres source, with or        *)
(* without a snapshot, every change up to the saved cursor has been handed to the   *)
(* writer, however often the bootstrap failed before, as long as no attempt ends    *)
(* while its stream is open.  What a Postgres slot loses, it loses there.           *)
THEOREM NoGapWhileOpen == Spec /\ [][StreamStays]_vars => []NoGap
<1>1. OpenInv => NoGap
  BY DEF OpenInv, IInv, TailInv
<1> QED BY <1>1, OpenStart, OpenStep, PTL DEF Spec

(* The copy converges, the cursor is held and then moves forward, and the sync      *)
(* implements the write-back copy under the same condition, for either source.      *)
THEOREM CopiesWhileOpen ==
  ASSUME Bootstrap = "snapshot"
  PROVE  Spec /\ [][StreamStays]_vars => []Converged /\ CursorHeldThenForward /\ ImplementsReplica
<1>1. OpenInv => IInv /\ Converged
  BY DEF OpenInv, IInv
<1>2. Init => Replica!Init
  BY DEF Init, Replica!Init, MarkOf
<1>3. IInv /\ IInv' /\ [Next]_vars => [Replica!Next]_(Replica!vars)
  BY RefinementStep
<1> QED
  BY OpenStart, OpenStep, <1>1, <1>2, <1>3, CursorStep, PTL
     DEF Spec, CursorHeldThenForward, ImplementsReplica, Replica!Spec

\* Without faults no attempt ends once its stream is open.
LEMMA UndisturbedStep == ASSUME MaxFaults = 0, TypeOK, [Next]_vars PROVE [StreamStays]_vars
<1>1. ~Fault
  BY DEF Fault, FlushRejects, NamespaceFails, PauseBreak, PauseAtTop, ApplyFails, SaveCursorFails,
     AttemptThrows, Crash, StreamEnds, TypeOK
<1> QED
  BY <1>1 DEF StreamStays, Streaming, vars, Next, Snapshot, TailStream, source, jobRow, attempt,
     history, SourceWrite, Begin, CaptureStartCursor, SaveStart, CopyRow, Flush, FinishCopy,
     MarkDone, OpenStream, OpenRefused, Fetch, Skip, NextEvent, Apply, SaveCursor,
     AutoAcknowledge, Restart

(* Undisturbed, every change up to the cursor is handed to the writer: the run on   *)
(* a Postgres source, for any rows, log, bootstrap, writer and queue.               *)
THEOREM NoGapUndisturbed == ASSUME MaxFaults = 0 PROVE Spec => []NoGap
<1>1. TypeOK /\ [Next]_vars => [StreamStays]_vars
  BY UndisturbedStep
<1> QED BY <1>1, TypeCorrect, NoGapWhileOpen, PTL DEF Spec
=============================================================================
