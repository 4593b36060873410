------------------------------- MODULE Metrics -------------------------------
(***************************************************************************)
(* What is measured of the SQL servers: the snapshot (sql-monitor.service    *)
(* .ts) and its translation for the sweep of the alert rules                 *)
(* (scheduler/index.ts).                                                     *)
(* The queries of one snapshot are taken as one; ratios are percentages.     *)
(***************************************************************************)
EXTENDS Integers, FiniteSets

CONSTANTS
  Status,       \* the states of the SQL server looked at
  None

VARIABLES
  server,    \* the SQL server
  judged     \* the values the sweep gave the rules last, and the server it asked

metricsVars == <<server, judged>>

\* memVirtual and networkBytesIn/Out go the way of memResident.
Metric == {"currentConnections", "availableConnections", "memResident", "opsPerSecTotal",
           "replicationLag", "wtCachePercent"}

\* A server: its engine, its other sessions, and the counters since it started.
SqlServer == [engine : {"postgres", "mysql"}, sessions : Nat, max : Nat \cup {None},
                 uptime : Nat, transactions : Nat, questions : Nat, hits : Nat, misses : Nat,
                 replica : BOOLEAN, lag : Nat \cup {None}]

ASSUME MetricsAssumption ==
  /\ Status \subseteq SqlServer
  /\ None \notin Nat /\ \A s \in Status : None \notin {{}, {s.lag}}

-----------------------------------------------------------------------------
(* The snapshot *)
PerSecond(count, s) == IF s.uptime > 0 THEN count \div s.uptime ELSE 0
Percent(part, whole) == IF whole > 0 THEN (part * 100) \div whole ELSE None

\* pg_stat_activity leaves the monitor's own session out; the code adds it again.
getPostgresSnapshot(s) ==
  [current |-> s.sessions + 1, max |-> s.max,
   tps |-> PerSecond(s.transactions, s), qps |-> None,
   cache |-> Percent(s.hits, s.hits + s.misses),
   replica |-> s.replica, lag |-> IF s.replica THEN s.lag ELSE None]

\* read_requests counts the reads that missed as well.
getMysqlSnapshot(s) ==
  [current |-> s.sessions + 1, max |-> s.max,
   tps |-> PerSecond(s.transactions, s), qps |-> PerSecond(s.questions, s),
   cache |-> Percent(s.hits + s.misses, s.hits + s.misses + s.misses),
   replica |-> s.replica, lag |-> IF s.replica THEN s.lag ELSE None]

getSqlMonitorSnapshot(s) ==
  IF s.engine = "postgres" THEN getPostgresSnapshot(s) ELSE getMysqlSnapshot(s)

-----------------------------------------------------------------------------
(* The translation for the alert rules *)
OrZero(v) == IF v = None THEN 0 ELSE v

\* Mutant of adaptSqlSnapshot: the ratio is taken for the percentage.
adaptSqlSnapshotRatio(q) ==
  [currentConnections |-> q.current,
   availableConnections |-> IF q.max = None \/ q.max < q.current THEN 0 ELSE q.max - q.current,
   query |-> OrZero(q.qps), command |-> OrZero(q.tps),
   memResident |-> 0,
   wtCacheUsedMB |-> OrZero(q.cache) \div 100, wtCacheMaxMB |-> 100,
   lags |-> IF ~q.replica THEN None ELSE {q.lag} \ {None}]

\* What SQL does not report becomes 0; a primary has no replica set.
adaptSqlSnapshot(q) ==
  [currentConnections |-> q.current,
   availableConnections |-> IF q.max = None \/ q.max < q.current THEN 0 ELSE q.max - q.current,
   query |-> OrZero(q.qps), command |-> OrZero(q.tps),
   memResident |-> 0,
   wtCacheUsedMB |-> OrZero(q.cache), wtCacheMaxMB |-> 100,
   lags |-> IF ~q.replica THEN None ELSE {q.lag} \ {None}]

extractMetricValue(shape, m) ==
  CASE m = "currentConnections" -> shape.currentConnections
    [] m = "availableConnections" -> shape.availableConnections
    [] m = "memResident" -> shape.memResident
    [] m = "opsPerSecTotal" -> shape.query + shape.command
    [] m = "replicationLag" ->
         IF shape.lags = None THEN None
         ELSE IF shape.lags = {} THEN 0
         ELSE CHOOSE l \in shape.lags : \A k \in shape.lags : k <= l
    [] m = "wtCachePercent" ->
         IF shape.wtCacheMaxMB = 0 THEN None ELSE (shape.wtCacheUsedMB * 100) \div shape.wtCacheMaxMB

-----------------------------------------------------------------------------
MetricsInit ==
  /\ server \in Status
  /\ judged = None

ServerChanges ==
  /\ server' \in {s \in Status : s.engine = server.engine}
  /\ server' # server
  /\ UNCHANGED judged

\* snapshotForAlertEval, and the values evaluateAlerts then compares.
Sweep ==
  /\ judged' = [asked |-> server,
                value |-> [m \in Metric |->
                  extractMetricValue(adaptSqlSnapshot(getSqlMonitorSnapshot(server)), m)]]
  /\ UNCHANGED server

MetricsNext == ServerChanges \/ Sweep

MetricsSpec == MetricsInit /\ [][MetricsNext]_metricsVars

-----------------------------------------------------------------------------
MetricsTypeOK ==
  /\ server \in Status
  /\ judged # None =>
       judged.asked \in Status /\ judged.value \in [Metric -> Nat \cup {None}]

\* What the server itself says of a metric, None when it does not.  Its
\* questions are all it was asked, a commit included.
Reported(s, m) ==
  CASE m = "currentConnections" -> s.sessions + 1
    [] m = "availableConnections" ->
         IF s.max = None \/ s.max < s.sessions + 1 THEN None ELSE s.max - s.sessions - 1
    [] m = "opsPerSecTotal" ->
         IF s.uptime = 0 THEN None
         ELSE (IF s.engine = "postgres" THEN s.transactions ELSE s.questions) \div s.uptime
    [] m = "replicationLag" -> IF s.replica THEN s.lag ELSE None
    [] m = "wtCachePercent" -> Percent(s.hits, s.hits + s.misses)
    [] OTHER -> None

\* MySQL's questions and commits are added up, and its misses counted as hits too.
Inflated(s, m) ==
  /\ s.engine = "mysql"
  /\ m = "opsPerSecTotal" \/ (m = "wtCachePercent" /\ s.misses > 0)

(* Where a SQL server reports a metric, its rules compare with what it       *)
(* reports, through the snapshot and its translation into MongoDB's shape,   *)
(* or with more for the two metrics Inflated names (scheduler/index.ts       *)
(* adaptSqlSnapshot).                                                        *)
MetricCarried ==
  judged # None =>
    \A m \in Metric :
      LET reported == Reported(judged.asked, m)
          value == judged.value[m]
      IN
      reported # None =>
        IF Inflated(judged.asked, m) THEN value >= reported ELSE value = reported

(* "Metrics that don't apply to SQL (memResident, memVirtual, wtCacheUsedMB) *)
(* come through as 0 and the evaluator skips them via `value === null'       *)
(* short-circuits": what the server does not report is no number to the      *)
(* rules.                                                                    *)
AbsentSkipped ==
  judged # None =>
    \A m \in {"memResident", "wtCachePercent"} :
      Reported(judged.asked, m) = None => judged.value[m] = None
=============================================================================
