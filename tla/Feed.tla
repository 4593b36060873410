-------------------------------- MODULE Feed --------------------------------
(***************************************************************************)
(* The SQL change feeds: how MySqlCdcSource and PostgresCdcSource turn the   *)
(* driver's callbacks into the events a sync iterates over.  Both keep a     *)
(* queue and a waker between the callbacks and the iterator.  MySQL's        *)
(* callback looks the key columns of the event's table up first, and queues  *)
(* the rows when that promise resolves; Postgres's queues at once, but lets  *)
(* the driver acknowledge what was received.                                 *)
(* A position counts the entries of its file, not bytes.                     *)
(***************************************************************************)
EXTENDS Integers, FiniteSets, SequencesExt

CONSTANTS
  Table,            \* the tables of the source
  Chosen,           \* those the sync is restricted to
  MaxLog,           \* bound: entries of the source's log
  MaxAttempts       \* bound: streams opened

ASSUME FeedAssumption == Chosen \subseteq Table /\ MaxLog \in Nat /\ MaxAttempts \in Nat

VARIABLES
  feed,      \* what this feed is like, see FeedInit
  log,       \* the source's log: row events (of one or more rows) and file changes
  open,      \* a stream is open
  began,     \* the entries it left out
  sent,      \* entries of the log the driver has handed to the callback
  file,      \* currentFile
  lookups,   \* entries whose key lookup has not resolved, in the order they came
  keys,      \* pkCache: the tables whose key columns are known
  queue,     \* rows and errors queued for the iterator
  waiting,   \* the iterator awaits its waker
  acked,     \* Postgres: how far the slot was acknowledged
  saved,     \* the sync's persisted cursor
  applied,   \* the rows the writer was given
  attempts

feedVars == <<feed, log, open, began, sent, file, lookups, keys, queue, waiting, acked, saved, applied, attempts>>

Cursor == [file : 0 .. MaxLog, position : 0 .. MaxLog]
Failure == [index |-> 0, row |-> 0, cursor |-> [file |-> 0, position |-> 0]]

FileOf(i) == Cardinality({j \in 1 .. i - 1 : log[j].rows = 0})
PositionOf(i) == Cardinality({j \in 1 .. i : FileOf(j) = FileOf(i)})
CursorOf(i) == [file |-> FileOf(i), position |-> PositionOf(i)]
AtOrBefore(c, d) == c.file < d.file \/ (c.file = d.file /\ c.position <= d.position)

\* paced: the next event arrives when the lookups of the earlier ones are over;
\* rows: what a statement changes, in one event or several.
FeedInit ==
  /\ feed \in [engine : {"mysql", "postgres"}, paced : BOOLEAN, rows : {1, 2}]
  /\ feed.engine = "postgres" => feed.rows = 1 /\ ~feed.paced
  /\ log = <<>>
  /\ open = FALSE /\ began = 0 /\ sent = 0 /\ file = 0 /\ lookups = <<>> /\ keys = {}
  /\ queue = <<>> /\ waiting = FALSE
  /\ acked = 0
  /\ saved = [file |-> 0, position |-> 0]
  /\ applied = {}
  /\ attempts = 0

-----------------------------------------------------------------------------
(* The source.  An entry of no rows is a change of file.  A statement's map   *)
(* of its table comes with its first event.                                  *)
SourceWrites(t, n, m) ==
  /\ Len(log) < MaxLog /\ n <= feed.rows
  /\ ~m => feed.rows > 1 /\ log # <<>> /\ Last(log).rows > 0 /\ Last(log).table = t
  /\ log' = Append(log, [table |-> t, rows |-> n, map |-> m])
  /\ UNCHANGED <<feed, open, began, sent, file, lookups, keys, queue, waiting, acked, saved, applied, attempts>>

SourceRotates ==
  /\ Len(log) < MaxLog /\ feed.engine = "mysql"
  /\ log' = Append(log, [table |-> CHOOSE t \in Table : TRUE, rows |-> 0, map |-> FALSE])
  /\ UNCHANGED <<feed, open, began, sent, file, lookups, keys, queue, waiting, acked, saved, applied, attempts>>

-----------------------------------------------------------------------------
(* Opening a stream *)
\* The entries behind a cursor: what a stream that starts at it leaves out.
Behind(c) == Cardinality({i \in DOMAIN log : AtOrBefore(CursorOf(i), c)})

\* The slot never goes back, and a binlog has no position past its file's end.
StartFails ==
  /\ feed.engine = "mysql"
  /\ \A i \in DOMAIN log : FileOf(i) = saved.file => PositionOf(i) < saved.position
  /\ saved.position > 0

StartAt ==
  IF feed.engine = "mysql" THEN Behind(saved)
  ELSE IF Behind(saved) > acked THEN Behind(saved) ELSE acked

StreamOpens ==
  /\ ~open /\ attempts < MaxAttempts
  /\ open' = TRUE
  /\ attempts' = attempts + 1
  /\ sent' = IF StartFails THEN Len(log) ELSE StartAt
  /\ began' = sent'
  /\ file' = saved.file
  /\ queue' = IF StartFails THEN <<Failure>> ELSE <<>>
  /\ UNCHANGED <<feed, log, lookups, keys, waiting, acked, saved, applied>>

-----------------------------------------------------------------------------
(* The driver's callbacks *)
RowsOf(i, c) == [r \in 1 .. log[i].rows |-> [index |-> i, row |-> r, cursor |-> c]]

Queued(items) == queue' = queue \o items /\ waiting' = FALSE

RotateArrives ==
  /\ open /\ sent < Len(log) /\ (feed.paced => lookups = <<>>)
  /\ log[sent + 1].rows = 0
  /\ sent' = sent + 1
  /\ file' = FileOf(sent + 2)
  /\ UNCHANGED <<feed, log, open, began, lookups, keys, queue, waiting, acked, saved, applied, attempts>>

\* tableMap knows the tables of the maps this stream was sent.
Mapped(i) == \E j \in began + 1 .. i : log[j].map /\ log[j].table = log[i].table

RowsArrive ==
  LET i == sent + 1 IN
  /\ open /\ sent < Len(log) /\ (feed.paced => lookups = <<>>)
  /\ log[i].rows > 0
  /\ sent' = i
  /\ IF log[i].table \notin Chosen \/ ~Mapped(i)
     THEN UNCHANGED <<lookups, queue, waiting>>
     ELSE IF feed.engine = "postgres"
     THEN Queued(RowsOf(i, CursorOf(i))) /\ UNCHANGED lookups
     ELSE /\ lookups' = Append(lookups, [index |-> i, cached |-> log[i].table \in keys])
          /\ UNCHANGED <<queue, waiting>>
  /\ UNCHANGED <<feed, log, open, began, file, keys, acked, saved, applied, attempts>>

\* Mutant of LookupResolves: the rows carry the position the callback has reached.
LookupResolvesLate(n) ==
  LET i == lookups[n].index IN
  /\ Queued(RowsOf(i, [file |-> file, position |-> PositionOf(i) + 1]))
  /\ keys' = keys \cup {log[i].table}
  /\ lookups' = RemoveAt(lookups, n)
  /\ UNCHANGED <<feed, log, open, began, sent, file, acked, saved, applied, attempts>>

\* A lookup is a connection of its own, unless the table is known: those resolve in order.
LookupResolves(n) ==
  LET i == lookups[n].index IN
  /\ lookups[n].cached => \A m \in 1 .. n - 1 : ~lookups[m].cached
  /\ Queued(RowsOf(i, [file |-> file, position |-> PositionOf(i)]))
  /\ keys' = keys \cup {log[i].table}
  /\ lookups' = RemoveAt(lookups, n)
  /\ UNCHANGED <<feed, log, open, began, sent, file, acked, saved, applied, attempts>>

LookupFails(n) ==
  /\ ~lookups[n].cached /\ ~Contains(queue, Failure)
  /\ Queued(<<Failure>>)
  /\ lookups' = RemoveAt(lookups, n)
  /\ UNCHANGED <<feed, log, open, began, sent, file, keys, acked, saved, applied, attempts>>

\* One failure is enough: the iterator throws it and reads no further.
ConnectionFails ==
  /\ open /\ ~Contains(queue, Failure)
  /\ Queued(<<Failure>>)
  /\ UNCHANGED <<feed, log, open, began, sent, file, lookups, keys, acked, saved, applied, attempts>>

\* pg-logical-replication: acknowledge.auto
AutoAcknowledges ==
  /\ open /\ feed.engine = "postgres" /\ acked < sent
  /\ acked' = sent
  /\ UNCHANGED <<feed, log, open, began, sent, file, lookups, keys, queue, waiting, saved, applied, attempts>>

-----------------------------------------------------------------------------
(* The iterator, and the sync that consumes it *)
IteratorWaits ==
  /\ open /\ queue = <<>> /\ ~waiting
  /\ waiting' = TRUE
  /\ UNCHANGED <<feed, log, open, began, sent, file, lookups, keys, queue, acked, saved, applied, attempts>>

Stopped ==
  /\ open' = FALSE /\ lookups' = <<>> /\ keys' = {} /\ queue' = <<>> /\ waiting' = FALSE

\* The event is applied, and its cursor saved for the next attempt.
Yields ==
  LET e == Head(queue) IN
  /\ open /\ queue # <<>> /\ ~waiting
  /\ IF e = Failure
     THEN Stopped /\ UNCHANGED <<applied, saved>>
     ELSE /\ applied' = applied \cup {<<e.index, e.row>>}
          /\ saved' = e.cursor
          /\ queue' = Tail(queue)
          /\ UNCHANGED <<open, lookups, keys, waiting>>
  /\ UNCHANGED <<feed, log, began, sent, file, acked, attempts>>

\* A pause, a crash: the queue and the lookups go with the source.
SyncStops ==
  /\ open
  /\ Stopped
  /\ UNCHANGED <<feed, log, began, sent, file, acked, saved, applied, attempts>>

FeedNext ==
  \/ \E t \in Table, n \in {1, 2}, m \in BOOLEAN : SourceWrites(t, n, m)
  \/ SourceRotates
  \/ StreamOpens
  \/ RotateArrives \/ RowsArrive
  \/ \E n \in DOMAIN lookups : LookupResolves(n) \/ LookupFails(n)
  \/ ConnectionFails \/ AutoAcknowledges
  \/ IteratorWaits \/ Yields \/ SyncStops

FeedSpec == FeedInit /\ [][FeedNext]_feedVars

-----------------------------------------------------------------------------
FeedTypeOK ==
  /\ saved \in Cursor
  /\ sent \in 0 .. Len(log) /\ began \in 0 .. sent /\ acked \in 0 .. Len(log)
  /\ keys \subseteq Chosen
  /\ \A n \in DOMAIN lookups : lookups[n].index \in 1 .. sent
  /\ waiting => open /\ queue = <<>>
  /\ ~open => queue = <<>> /\ lookups = <<>>

SourceRow ==
  {x \in (DOMAIN log) \X {1, 2} : x[2] <= log[x[1]].rows /\ log[x[1]].table \in Chosen}

Skipped == {x \in SourceRow \ applied : AtOrBefore(CursorOf(x[1]), saved)}

\* What makes each adapter skip: MySQL, events that come while a lookup is
\* pending, or statements of several rows (a stream that starts again between
\* two rows of an event, or past the map of its table); Postgres, a second
\* stream (its slot was acknowledged for rows of the first one's queue).
SkipsForeseen == IF feed.engine = "mysql" THEN ~feed.paced \/ feed.rows > 1 ELSE attempts > 1

(* No row of the listed tables is behind the saved cursor, or behind where   *)
(* the next stream starts, without having been applied, over any number of   *)
(* broken streams and changes of file, outside the cases SkipsForeseen names *)
(* (stream and captureStartCursor of the two adapters).                      *)
RowsKept ==
  ~SkipsForeseen =>
     /\ Skipped = {}
     /\ ~open /\ feed.engine = "mysql" =>
          ~StartFails /\ \A x \in SourceRow \ applied : x[1] > StartAt
=============================================================================
