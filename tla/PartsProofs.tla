----------------------------- MODULE PartsProofs -----------------------------
(***************************************************************************)
(* The rules compare with what a SQL server reports, the change feeds lose   *)
(* no row outside the cases that are named, and an explorer that turns the   *)
(* pages sees every row: for any number of servers, tables, entries of the   *)
(* log and rows, and any size of a page.  The parts together do what each of *)
(* them does.                                                                *)
(***************************************************************************)
EXTENDS MCParts, AccountsProofs, TransferProofs

LEMMA Truths == TRUE \in BOOLEAN /\ FALSE \in BOOLEAN
OBVIOUS

-----------------------------------------------------------------------------
(* Metrics: the definitions. *)

\* What a snapshot of a SQL server holds.
SqlSnapshot == [current : Nat, max : Nat \cup {None}, tps : Nat, qps : Nat \cup {None},
                cache : Nat \cup {None}, replica : BOOLEAN, lag : Nat \cup {None}]

\* The rules were given what the translation makes of the server that was asked.
JudgedInv ==
  judged # None =>
    /\ judged.asked \in Status
    /\ judged.value = [m \in Metric |->
         extractMetricValue(adaptSqlSnapshot(getSqlMonitorSnapshot(judged.asked)), m)]

MetricsInv == server \in Status /\ JudgedInv

-----------------------------------------------------------------------------
(* Metrics: what the snapshots and their translation compute. *)

LEMMA DivNat == ASSUME NEW a \in Nat, NEW b \in Nat, b > 0 PROVE a \div b \in Nat
OBVIOUS

LEMMA DivBelow == ASSUME NEW a \in Nat, NEW b \in Nat, b > 0 PROVE b * (a \div b) <= a
OBVIOUS

LEMMA DivAtLeast ==
  ASSUME NEW a \in Nat, NEW b \in Nat, b > 0, NEW k \in Nat, b * k <= a
  PROVE  k <= a \div b
OBVIOUS

LEMMA ServerTyped ==
  ASSUME NEW s \in Status
  PROVE  /\ s.engine \in {"postgres", "mysql"} /\ s.sessions \in Nat /\ s.max \in Nat \cup {None}
         /\ s.uptime \in Nat /\ s.transactions \in Nat /\ s.questions \in Nat
         /\ s.hits \in Nat /\ s.misses \in Nat /\ s.replica \in BOOLEAN /\ s.lag \in Nat \cup {None}
         /\ None \notin Nat /\ None # {} /\ None # {s.lag}
<1>1. s \in SqlServer /\ None \notin Nat /\ None \notin {{}, {s.lag}}
  BY MetricsAssumption
<1> QED BY <1>1 DEF SqlServer

LEMMA PerSecondNat ==
  ASSUME NEW s \in Status, NEW n \in Nat
  PROVE  PerSecond(n, s) \in Nat
BY ServerTyped, DivNat DEF PerSecond

LEMMA PercentNat ==
  ASSUME NEW a \in Nat, NEW b \in Nat
  PROVE  Percent(a, b) \in Nat \cup {None}
<1>1. CASE b > 0
  BY <1>1, DivNat DEF Percent
<1>2. CASE ~(b > 0)
  BY <1>2 DEF Percent
<1> QED BY <1>1, <1>2

LEMMA SnapshotTyped ==
  ASSUME NEW s \in Status
  PROVE  getSqlMonitorSnapshot(s) \in SqlSnapshot
<1>1. s.sessions + 1 \in Nat /\ s.max \in Nat \cup {None} /\ s.replica \in BOOLEAN
  BY ServerTyped
<1>2. PerSecond(s.transactions, s) \in Nat /\ PerSecond(s.questions, s) \in Nat
  BY ServerTyped, PerSecondNat
<1>3. /\ Percent(s.hits, s.hits + s.misses) \in Nat \cup {None}
      /\ Percent(s.hits + s.misses, s.hits + s.misses + s.misses) \in Nat \cup {None}
  <2>1. s.hits \in Nat /\ s.hits + s.misses \in Nat /\ s.hits + s.misses + s.misses \in Nat
    BY ServerTyped
  <2> QED BY <2>1, PercentNat
<1>4. (IF s.replica THEN s.lag ELSE None) \in Nat \cup {None}
  BY ServerTyped
<1>5. getPostgresSnapshot(s) \in SqlSnapshot
  BY <1>1, <1>2, <1>3, <1>4 DEF getPostgresSnapshot, SqlSnapshot
<1>6. getMysqlSnapshot(s) \in SqlSnapshot
  BY <1>1, <1>2, <1>3, <1>4 DEF getMysqlSnapshot, SqlSnapshot
<1> QED BY <1>5, <1>6 DEF getSqlMonitorSnapshot

\* The fields of the snapshot, whichever engine it is of.
LEMMA SnapshotFields ==
  ASSUME NEW s \in Status, NEW q, q = getSqlMonitorSnapshot(s)
  PROVE  /\ q.current = s.sessions + 1 /\ q.max = s.max /\ q.tps = PerSecond(s.transactions, s)
         /\ q.replica = s.replica /\ q.lag = (IF s.replica THEN s.lag ELSE None)
         /\ s.engine = "postgres" => q.qps = None /\ q.cache = Percent(s.hits, s.hits + s.misses)
         /\ s.engine = "mysql" => /\ q.qps = PerSecond(s.questions, s)
                                  /\ q.cache = Percent(s.hits + s.misses, s.hits + s.misses + s.misses)
BY ServerTyped DEF getSqlMonitorSnapshot, getPostgresSnapshot, getMysqlSnapshot

\* What is compared for each metric.
LEMMA Compared ==
  ASSUME NEW s \in Status, NEW q, q = getSqlMonitorSnapshot(s), NEW v, v = adaptSqlSnapshot(q)
  PROVE  /\ extractMetricValue(v, "currentConnections") = s.sessions + 1
         /\ extractMetricValue(v, "availableConnections") =
              (IF s.max = None \/ s.max < s.sessions + 1 THEN 0 ELSE s.max - s.sessions - 1)
         /\ extractMetricValue(v, "memResident") = 0
         /\ extractMetricValue(v, "opsPerSecTotal") = OrZero(q.qps) + PerSecond(s.transactions, s)
         /\ extractMetricValue(v, "replicationLag") = (IF ~s.replica THEN None ELSE OrZero(s.lag))
         /\ extractMetricValue(v, "wtCachePercent") = OrZero(q.cache)
<1>1. q \in SqlSnapshot
  BY SnapshotTyped
<1>2. /\ q.current = s.sessions + 1 /\ q.max = s.max /\ q.tps = PerSecond(s.transactions, s)
      /\ q.replica = s.replica /\ q.lag = (IF s.replica THEN s.lag ELSE None)
  BY SnapshotFields
<1>3. OrZero(q.tps) = PerSecond(s.transactions, s) /\ OrZero(q.cache) \in Nat
  BY <1>1, <1>2, ServerTyped DEF OrZero, SqlSnapshot
<1>4. /\ v.currentConnections = q.current
      /\ v.availableConnections = (IF q.max = None \/ q.max < q.current THEN 0 ELSE q.max - q.current)
      /\ v.query = OrZero(q.qps) /\ v.command = OrZero(q.tps) /\ v.memResident = 0
      /\ v.wtCacheUsedMB = OrZero(q.cache) /\ v.wtCacheMaxMB = 100
      /\ v.lags = (IF ~q.replica THEN None ELSE {q.lag} \ {None})
  BY DEF adaptSqlSnapshot
<1>5. extractMetricValue(v, "currentConnections") = s.sessions + 1
  BY <1>2, <1>4 DEF extractMetricValue
<1>6. extractMetricValue(v, "availableConnections") =
        (IF s.max = None \/ s.max < s.sessions + 1 THEN 0 ELSE s.max - s.sessions - 1)
  <2>1. s.max # None => s.max - (s.sessions + 1) = s.max - s.sessions - 1
    BY ServerTyped
  <2>2. extractMetricValue(v, "availableConnections") = v.availableConnections
    BY DEF extractMetricValue
  <2> QED BY <1>2, <1>4, <2>1, <2>2
<1>7. extractMetricValue(v, "memResident") = 0
  BY <1>4 DEF extractMetricValue
<1>8. extractMetricValue(v, "opsPerSecTotal") = OrZero(q.qps) + PerSecond(s.transactions, s)
  BY <1>3, <1>4 DEF extractMetricValue
<1>9. extractMetricValue(v, "replicationLag") = (IF ~s.replica THEN None ELSE OrZero(s.lag))
  <2>1. CASE ~s.replica
    BY <1>2, <1>4, <2>1 DEF extractMetricValue
  <2>2. CASE s.replica /\ s.lag = None
    <3>1. v.lags = {}
      BY <1>2, <1>4, <2>2
    <3> QED BY <2>2, <3>1, ServerTyped DEF extractMetricValue, OrZero
  <2>3. CASE s.replica /\ s.lag # None
    <3>1. v.lags = {s.lag}
      BY <1>2, <1>4, <2>3
    <3>2. (CHOOSE l \in {s.lag} : \A k \in {s.lag} : k <= l) = s.lag
      BY <2>3, ServerTyped
    <3> QED BY <2>3, <3>1, <3>2, ServerTyped DEF extractMetricValue, OrZero
  <2> QED BY <2>1, <2>2, <2>3
<1>10. extractMetricValue(v, "wtCachePercent") = OrZero(q.cache)
  BY <1>3, <1>4 DEF extractMetricValue
<1> QED BY <1>5, <1>6, <1>7, <1>8, <1>9, <1>10

\* A cache that is asked again for every miss looks no worse.
LEMMA PercentInflated ==
  ASSUME NEW h \in Nat, NEW m \in Nat, h + m > 0
  PROVE  /\ Percent(h, h + m) \in Nat /\ Percent(h + m, h + m + m) \in Nat
         /\ Percent(h, h + m) <= Percent(h + m, h + m + m)
         /\ m = 0 => Percent(h, h + m) = Percent(h + m, h + m + m)
<1> DEFINE k == (h * 100) \div (h + m)
<1>1. /\ h * 100 \in Nat /\ h + m \in Nat /\ (h + m) * 100 \in Nat /\ h + m + m \in Nat /\ h + m + m > 0
      /\ 100 \in Nat /\ h * 100 <= (h + m) * 100
  OBVIOUS
<1>2. k \in Nat /\ (h + m) * k <= h * 100
  BY <1>1, DivNat, DivBelow
<1>3. ((h + m) * 100) \div (h + m + m) \in Nat
  BY <1>1, DivNat
<1> HIDE DEF k
<1>4. k <= 100
  BY <1>2
<1>5. m * k <= m * 100
  BY <1>2, <1>4
<1>6. (h + m + m) * k = (h + m) * k + m * k
  BY <1>2
<1>7. (h + m + m) * k <= (h + m) * 100
  BY <1>2, <1>5, <1>6
<1>8. k <= ((h + m) * 100) \div (h + m + m)
  BY <1>1, <1>2, <1>7, DivAtLeast
<1>9. Percent(h, h + m) = k /\ Percent(h + m, h + m + m) = ((h + m) * 100) \div (h + m + m)
  BY <1>1 DEF Percent, k
<1>10. m = 0 => Percent(h, h + m) = Percent(h + m, h + m + m)
  BY DEF Percent
<1> QED BY <1>2, <1>3, <1>8, <1>9, <1>10

\* The translation carries what the server reports.
LEMMA Carried ==
  ASSUME NEW s \in Status, NEW m \in Metric
  PROVE  LET value == extractMetricValue(adaptSqlSnapshot(getSqlMonitorSnapshot(s)), m) IN
         Reported(s, m) # None =>
           IF Inflated(s, m) THEN value >= Reported(s, m) ELSE value = Reported(s, m)
<1> DEFINE q == getSqlMonitorSnapshot(s)
           v == adaptSqlSnapshot(q)
<1>0. /\ s.engine \in {"postgres", "mysql"} /\ s.sessions \in Nat /\ s.max \in Nat \cup {None}
      /\ s.uptime \in Nat /\ s.transactions \in Nat /\ s.questions \in Nat
      /\ s.hits \in Nat /\ s.misses \in Nat /\ s.lag \in Nat \cup {None} /\ None \notin Nat
  BY ServerTyped
<1>1. /\ q.qps = (IF s.engine = "postgres" THEN None ELSE PerSecond(s.questions, s))
      /\ q.cache = (IF s.engine = "postgres" THEN Percent(s.hits, s.hits + s.misses)
                    ELSE Percent(s.hits + s.misses, s.hits + s.misses + s.misses))
  BY <1>0, SnapshotFields
<1>2. /\ extractMetricValue(v, "currentConnections") = s.sessions + 1
      /\ extractMetricValue(v, "availableConnections") =
           (IF s.max = None \/ s.max < s.sessions + 1 THEN 0 ELSE s.max - s.sessions - 1)
      /\ extractMetricValue(v, "memResident") = 0
      /\ extractMetricValue(v, "opsPerSecTotal") = OrZero(q.qps) + PerSecond(s.transactions, s)
      /\ extractMetricValue(v, "replicationLag") = (IF ~s.replica THEN None ELSE OrZero(s.lag))
      /\ extractMetricValue(v, "wtCachePercent") = OrZero(q.cache)
  BY Compared
<1>3. SUFFICES
        Reported(s, m) # None =>
          IF Inflated(s, m) THEN extractMetricValue(v, m) >= Reported(s, m)
          ELSE extractMetricValue(v, m) = Reported(s, m)
  OBVIOUS
<1> HIDE DEF q, v
<1>4. CASE m = "currentConnections"
  <2>1. Reported(s, m) = s.sessions + 1 /\ ~Inflated(s, m)
    BY <1>4 DEF Reported, Inflated
  <2> QED BY <1>0, <1>2, <1>4, <2>1
<1>5. CASE m = "availableConnections"
  <2>1. Reported(s, m) = (IF s.max = None \/ s.max < s.sessions + 1 THEN None ELSE s.max - s.sessions - 1)
    BY <1>5 DEF Reported
  <2>2. ~Inflated(s, m) /\ m # "replicationLag"
    BY <1>5 DEF Inflated
  <2>3. CASE s.max = None \/ s.max < s.sessions + 1
    BY <1>2, <1>5, <2>1, <2>2, <2>3
  <2>4. CASE ~(s.max = None \/ s.max < s.sessions + 1)
    <3>1. s.max - s.sessions - 1 \in Nat
      BY <1>0, <2>4
    <3> QED BY <1>0, <1>2, <1>5, <2>1, <2>2, <2>4, <3>1
  <2> QED BY <2>3, <2>4
<1>6. CASE m = "memResident"
  <2>1. Reported(s, m) = None /\ m # "replicationLag"
    BY <1>6 DEF Reported
  <2> QED BY <1>2, <1>6, <2>1
<1>7. CASE m = "opsPerSecTotal"
  <2>1. /\ Reported(s, m) = (IF s.uptime = 0 THEN None
                            ELSE (IF s.engine = "postgres" THEN s.transactions ELSE s.questions) \div s.uptime)
        /\ Inflated(s, m) <=> s.engine = "mysql"
        /\ m # "replicationLag"
    BY <1>7 DEF Reported, Inflated
  <2>2. PerSecond(s.transactions, s) \in Nat /\ PerSecond(s.questions, s) \in Nat
    BY <1>0, PerSecondNat
  <2>3. CASE s.uptime = 0
    <3>1. PerSecond(s.transactions, s) = 0 /\ PerSecond(s.questions, s) = 0
      BY <2>3 DEF PerSecond
    <3> QED BY <1>1, <1>2, <1>7, <2>1, <2>3, <3>1 DEF OrZero
  <2>4. CASE s.uptime # 0
    <3>1. /\ PerSecond(s.transactions, s) = s.transactions \div s.uptime
          /\ PerSecond(s.questions, s) = s.questions \div s.uptime
      BY <1>0, <2>4 DEF PerSecond
    <3>2. Reported(s, m) = (IF s.engine = "postgres" THEN PerSecond(s.transactions, s) ELSE PerSecond(s.questions, s))
      BY <2>1, <2>4, <3>1
    <3>3. OrZero(q.qps) = (IF s.engine = "postgres" THEN 0 ELSE PerSecond(s.questions, s))
      BY <1>0, <1>1, <2>2 DEF OrZero
    <3> QED BY <1>0, <1>2, <1>7, <2>1, <2>2, <3>2, <3>3
  <2> QED BY <2>3, <2>4
<1>8. CASE m = "replicationLag"
  <2>1. Reported(s, m) = (IF s.replica THEN s.lag ELSE None) /\ ~Inflated(s, m)
    BY <1>8 DEF Reported, Inflated
  <2> QED BY <1>0, <1>2, <1>8, <2>1 DEF OrZero
<1>9. CASE m = "wtCachePercent"
  <2>1. /\ Reported(s, m) = Percent(s.hits, s.hits + s.misses) /\ m # "replicationLag"
        /\ Inflated(s, m) <=> s.engine = "mysql" /\ s.misses > 0
    BY <1>9 DEF Reported, Inflated
  <2>2. CASE s.hits + s.misses > 0
    <3>1. /\ Percent(s.hits, s.hits + s.misses) \in Nat
          /\ Percent(s.hits + s.misses, s.hits + s.misses + s.misses) \in Nat
          /\ Percent(s.hits, s.hits + s.misses) <= Percent(s.hits + s.misses, s.hits + s.misses + s.misses)
          /\ s.misses = 0 =>
               Percent(s.hits, s.hits + s.misses) = Percent(s.hits + s.misses, s.hits + s.misses + s.misses)
      BY <1>0, <2>2, PercentInflated
    <3> QED BY <1>0, <1>1, <1>2, <1>9, <2>1, <3>1 DEF OrZero
  <2>3. CASE ~(s.hits + s.misses > 0)
    <3>1. s.hits + s.misses = 0 /\ s.hits + s.misses + s.misses = 0 /\ s.misses = 0
      BY <1>0, <2>3
    <3>2. Percent(s.hits, s.hits + s.misses) = None /\ Percent(s.hits + s.misses, s.hits + s.misses + s.misses) = None
      BY <3>1 DEF Percent
    <3> QED BY <1>1, <1>2, <1>9, <2>1, <3>2 DEF OrZero
  <2> QED BY <2>2, <2>3
<1> QED BY <1>4, <1>5, <1>6, <1>7, <1>8, <1>9 DEF Metric

-----------------------------------------------------------------------------
(* Metrics: the steps. *)

\* A rule is given a number, or nothing.
LEMMA ValuesTyped ==
  ASSUME NEW s \in Status, NEW m \in Metric
  PROVE  extractMetricValue(adaptSqlSnapshot(getSqlMonitorSnapshot(s)), m) \in Nat \cup {None}
<1> DEFINE q == getSqlMonitorSnapshot(s)
           v == adaptSqlSnapshot(q)
<1>1. /\ q.current \in Nat /\ q.max \in Nat \cup {None}
      /\ q.qps \in Nat \cup {None} /\ q.cache \in Nat \cup {None}
  BY SnapshotTyped DEF SqlSnapshot
<1>2. s.sessions + 1 \in Nat /\ s.max \in Nat \cup {None} /\ s.lag \in Nat \cup {None}
  BY ServerTyped
<1>3. PerSecond(s.transactions, s) \in Nat
  BY ServerTyped, PerSecondNat
<1>4. OrZero(q.qps) \in Nat /\ OrZero(q.cache) \in Nat /\ OrZero(s.lag) \in Nat
  BY <1>1, <1>2 DEF OrZero
<1>5. OrZero(q.qps) + PerSecond(s.transactions, s) \in Nat
  BY <1>3, <1>4
<1>6. (IF s.max = None \/ s.max < s.sessions + 1 THEN 0 ELSE s.max - s.sessions - 1) \in Nat
  <2>1. CASE s.max = None \/ s.max < s.sessions + 1
    BY <2>1
  <2>2. CASE s.max # None /\ ~(s.max < s.sessions + 1)
    <3>1. s.max \in Nat /\ s.sessions \in Nat
      BY <1>2, <2>2, ServerTyped
    <3>2. s.max - s.sessions - 1 \in Nat
      BY <2>2, <3>1
    <3> QED BY <2>2, <3>2
  <2> QED BY <2>1, <2>2
<1> HIDE DEF q, v
<1>7. /\ extractMetricValue(v, "currentConnections") = s.sessions + 1
      /\ extractMetricValue(v, "availableConnections") =
           (IF s.max = None \/ s.max < s.sessions + 1 THEN 0 ELSE s.max - s.sessions - 1)
      /\ extractMetricValue(v, "memResident") = 0
      /\ extractMetricValue(v, "opsPerSecTotal") = OrZero(q.qps) + PerSecond(s.transactions, s)
      /\ extractMetricValue(v, "replicationLag") = (IF ~s.replica THEN None ELSE OrZero(s.lag))
      /\ extractMetricValue(v, "wtCachePercent") = OrZero(q.cache)
  BY Compared DEF q, v
<1>8. extractMetricValue(v, m) \in Nat \cup {None}
  BY <1>2, <1>4, <1>5, <1>6, <1>7 DEF Metric
<1> QED BY <1>8 DEF q, v

LEMMA MetricsTyped ==
  ASSUME MetricsInv
  PROVE  MetricsTypeOK
BY ValuesTyped DEF MetricsInv, MetricsTypeOK, JudgedInv

LEMMA MetricsStep == MetricsInv /\ [MetricsNext]_metricsVars => MetricsInv'
<1> SUFFICES ASSUME MetricsInv, [MetricsNext]_metricsVars PROVE MetricsInv'
  OBVIOUS
<1>1. CASE Sweep
  BY <1>1 DEF Sweep, MetricsInv, JudgedInv
<1>2. CASE ServerChanges \/ UNCHANGED metricsVars
  BY <1>2 DEF ServerChanges, metricsVars, MetricsInv, JudgedInv
<1> QED BY <1>1, <1>2 DEF MetricsNext

LEMMA MetricsStart == MetricsInit => MetricsInv
  BY DEF MetricsInit, MetricsInv, JudgedInv

(* Whatever the servers report, a rule is given a number or nothing. *)
THEOREM MetricsTypeCorrect == MetricsSpec => []MetricsTypeOK
<1> QED BY MetricsTyped, MetricsStart, MetricsStep, PTL DEF MetricsSpec

(* Whatever the server's numbers are, a rule over a metric it reports compares *)
(* with what it reports, and with more only where Inflated says.               *)
THEOREM MetricCarriedHolds == MetricsSpec => []MetricCarried
<1>1. MetricsInv => MetricCarried
  <2> SUFFICES ASSUME MetricsInv, judged # None, NEW m \in Metric,
                      Reported(judged.asked, m) # None
               PROVE  IF Inflated(judged.asked, m) THEN judged.value[m] >= Reported(judged.asked, m)
                      ELSE judged.value[m] = Reported(judged.asked, m)
    BY DEF MetricCarried
  <2>1. /\ judged.asked \in Status
        /\ judged.value[m] = extractMetricValue(adaptSqlSnapshot(getSqlMonitorSnapshot(judged.asked)), m)
    BY DEF MetricsInv, JudgedInv
  <2> QED BY <2>1, Carried
<1> QED BY <1>1, MetricsStart, MetricsStep, PTL DEF MetricsSpec
-----------------------------------------------------------------------------
(* Sequences *)

\* A sequence with one element more, the others moved by one.
Widened(t, s, i, e) == \A k \in 1 .. Len(s) + 1 : t[k] = (IF k < i THEN s[k] ELSE IF k = i THEN e ELSE s[k - 1])

LEMMA Inserted ==
  ASSUME NEW S, NEW s \in Seq(S), NEW e \in S, NEW i \in 1 .. Len(s) + 1
  PROVE  /\ InsertAt(s, i, e) \in Seq(S) /\ Len(InsertAt(s, i, e)) = Len(s) + 1
         /\ Widened(InsertAt(s, i, e), s, i, e)
<1> DEFINE a == SubSeq(s, 1, i - 1)
           b == SubSeq(s, i, Len(s))
           d == <<e>>
           c == a \o d
           t == c \o b
<1>1. /\ Len(s) \in Nat /\ i \in Int /\ i - 1 \in Nat /\ Len(s) - i + 1 \in Nat
      /\ i + (Len(s) - i + 1) = Len(s) + 1
  OBVIOUS
<1>2. \A k \in 1 .. i - 1 : a[k] = s[k]
  OBVIOUS
<1>3. \A k \in 1 .. Len(s) - i + 1 : b[k] = s[i + k - 1]
  OBVIOUS
<1>4. d[1] = e
  OBVIOUS
<1>5. a \in Seq(S) /\ b \in Seq(S) /\ d \in Seq(S)
  OBVIOUS
<1>6. Len(a) = i - 1 /\ Len(b) = Len(s) - i + 1 /\ Len(d) = 1
  OBVIOUS
<1>7. SUFFICES /\ t \in Seq(S) /\ Len(t) = Len(s) + 1
               /\ \A k \in 1 .. Len(s) + 1 : t[k] = (IF k < i THEN s[k] ELSE IF k = i THEN e ELSE s[k - 1])
  BY Zenon DEF InsertAt, Widened
<1> HIDE DEF a, b, d
<1>8. Len(a) + Len(d) = i
  BY <1>1, <1>6
<1>9. /\ c \in Seq(S) /\ Len(c) = Len(a) + Len(d)
      /\ \A k \in 1 .. Len(a) + Len(d) : c[k] = (IF k <= Len(a) THEN a[k] ELSE d[k - Len(a)])
  BY <1>5, ConcatProperties
<1> HIDE DEF c
<1>10. Len(c) = i
  BY <1>8, <1>9
<1>11. \A k \in 1 .. i : c[k] = (IF k <= i - 1 THEN a[k] ELSE d[k - (i - 1)])
  BY <1>6, <1>8, <1>9
<1>12. Len(c) + Len(b) = Len(s) + 1
  BY <1>1, <1>6, <1>10
<1>13. c \in Seq(S)
  BY <1>9
<1>14. /\ t \in Seq(S) /\ Len(t) = Len(c) + Len(b)
       /\ \A k \in 1 .. Len(c) + Len(b) : t[k] = (IF k <= Len(c) THEN c[k] ELSE b[k - Len(c)])
  BY <1>5, <1>13, ConcatProperties
<1> HIDE DEF t
<1>15. \A k \in 1 .. Len(s) + 1 : t[k] = (IF k <= i THEN c[k] ELSE b[k - i])
  BY <1>10, <1>12, <1>14
<1>16. ASSUME NEW k \in 1 .. Len(s) + 1
       PROVE  t[k] = (IF k < i THEN s[k] ELSE IF k = i THEN e ELSE s[k - 1])
  <2>1. t[k] = (IF k <= i THEN c[k] ELSE b[k - i])
    BY <1>1, <1>15
  <2>2. CASE k < i
    <3>1. k \in 1 .. i - 1 /\ k \in 1 .. i /\ k <= i /\ k <= i - 1
      BY <1>1, <2>2
    <3> QED BY <1>2, <1>11, <2>1, <2>2, <3>1
  <2>3. CASE k = i
    <3>1. k \in 1 .. i /\ k <= i /\ ~(k <= i - 1) /\ k - (i - 1) = 1 /\ ~(k < i)
      BY <1>1, <2>3
    <3>2. c[k] = d[1]
      BY <1>11, <3>1
    <3> QED BY <1>4, <2>1, <2>3, <3>1, <3>2
  <2>4. CASE ~(k < i) /\ k # i
    <3>1. k - i \in 1 .. Len(s) - i + 1 /\ i + (k - i) - 1 = k - 1 /\ ~(k <= i)
      BY <1>1, <2>4
    <3>2. b[k - i] = s[i + (k - i) - 1]
      BY <1>3, <3>1
    <3> QED BY <2>1, <2>4, <3>1, <3>2
  <2> QED BY <2>2, <2>3, <2>4
<1> QED BY <1>12, <1>14, <1>16
-----------------------------------------------------------------------------
(* The feeds: the definitions. *)

Entry == [table : Table \cup {CHOOSE t \in Table : TRUE}, rows : 0 .. 2, map : BOOLEAN]
Item == [index : 0 .. MaxLog, row : 0 .. 2, cursor : Cursor]

FeedTyped ==
  /\ feed \in [engine : {"mysql", "postgres"}, paced : BOOLEAN, rows : {1, 2}]
  /\ log \in Seq(Entry) /\ Len(log) <= MaxLog
  /\ file \in 0 .. MaxLog /\ attempts \in Nat
  /\ lookups \in Seq([index : 0 .. MaxLog, cached : BOOLEAN]) /\ queue \in Seq(Item)
  /\ \A i \in DOMAIN log : log[i].rows <= feed.rows
  /\ feed.rows = 1 => \A i \in DOMAIN log : log[i].rows > 0 => log[i].map
  /\ \A n \in DOMAIN lookups : log[lookups[n].index].table \in Chosen
  /\ feed.engine = "postgres" => feed.rows = 1 /\ lookups = <<>>
  /\ attempts = 0 => acked = 0 /\ ~open

\* The sync has saved the cursor of entry k, or none yet, and what is before it is applied.
SavedAt(k) ==
  \/ k = 0 /\ saved = [file |-> 0, position |-> 0]
  \/ k \in DOMAIN log /\ log[k].rows > 0 /\ saved = CursorOf(k)
Covered(k) == \A x \in SourceRow : x[1] <= k => x \in applied

\* The events that reach the writer carry their own cursors, and come in order.
Clean(n) == \A m \in 1 .. n : queue[m] # Failure
QueuedInOrder ==
  \A n \in DOMAIN queue : Clean(n) =>
    /\ queue[n].index \in 1 .. sent /\ log[queue[n].index].rows > 0 /\ queue[n].row = 1
    /\ queue[n].cursor = CursorOf(queue[n].index)
    /\ \A x \in SourceRow : x[1] < queue[n].index =>
         x \in applied \/ \E m \in 1 .. n - 1 : queue[m].index = x[1]

\* Until the stream breaks, what was received is applied, queued or looked up.
Received ==
  Clean(Len(queue)) => \A x \in SourceRow : x[1] <= sent =>
    \/ x \in applied
    \/ \E n \in DOMAIN queue : queue[n].index = x[1]
    \/ \E n \in DOMAIN lookups : lookups[n].index = x[1]

\* One lookup at a time: the file is still that of its event.
Paced ==
  feed.engine = "mysql" =>
    /\ file = FileOf(sent + 1)
    /\ \A n \in DOMAIN lookups : n = 1 /\ lookups[n].index = sent /\ log[sent].rows > 0

FeedKept ==
  ~SkipsForeseen =>
    /\ \E k \in 0 .. Len(log) : SavedAt(k) /\ Covered(k)
    /\ open => QueuedInOrder /\ Received /\ Paced

FeedInv == FeedTypeOK /\ FeedTyped /\ FeedKept
-----------------------------------------------------------------------------
(* The feeds: the order of the cursors. *)

LEMMA Counted ==
  ASSUME NEW n \in Nat, NEW A \in SUBSET (1 .. n)
  PROVE  IsFiniteSet(A) /\ Cardinality(A) \in 0 .. n
<1>1. IsFiniteSet(1 .. n) /\ Cardinality(1 .. n) = n
  BY FS_Interval
<1>2. IsFiniteSet(A) /\ Cardinality(A) <= Cardinality(1 .. n)
  BY <1>1, FS_Subset
<1> QED BY <1>1, <1>2, FS_CardinalityType

LEMMA CountedMore ==
  ASSUME NEW n \in Nat, NEW B \in SUBSET (1 .. n), NEW A \in SUBSET B
  PROVE  /\ Cardinality(A) <= Cardinality(B)
         /\ A # B => Cardinality(A) < Cardinality(B)
<1>1. IsFiniteSet(B) /\ A \in SUBSET (1 .. n)
  BY Counted
<1>2. Cardinality(A) <= Cardinality(B)
  BY <1>1, FS_Subset
<1>3. ASSUME A # B PROVE Cardinality(A) < Cardinality(B)
  <2>1. Cardinality(A) = Cardinality(B) => A = B
    BY <1>1, FS_Subset
  <2>2. Cardinality(A) \in Int /\ Cardinality(B) \in Int
    BY <1>1, Counted
  <2> QED BY <1>2, <1>3, <2>1, <2>2
<1> QED BY <1>2, <1>3

LEMMA FileNumber ==
  ASSUME NEW i \in Nat, i > 0
  PROVE  /\ FileOf(i) \in 0 .. i - 1
         /\ log[i].rows > 0 => FileOf(i + 1) = FileOf(i)
         /\ i = 1 => FileOf(i) = 0
<1>1. {j \in 1 .. i - 1 : log[j].rows = 0} \in SUBSET (1 .. (i - 1)) /\ i - 1 \in Nat
  OBVIOUS
<1>2. FileOf(i) \in 0 .. i - 1
  BY <1>1, Counted DEF FileOf
<1>3. ASSUME log[i].rows > 0 PROVE FileOf(i + 1) = FileOf(i)
  <2>1. {j \in 1 .. (i + 1) - 1 : log[j].rows = 0} = {j \in 1 .. i - 1 : log[j].rows = 0}
    BY <1>3
  <2> QED BY <2>1 DEF FileOf
<1> QED BY <1>2, <1>3

LEMMA FilesGrow ==
  ASSUME NEW i \in Nat, NEW k \in Nat, 0 < i, i <= k
  PROVE  FileOf(i) <= FileOf(k)
<1>1. /\ k - 1 \in Nat /\ {j \in 1 .. k - 1 : log[j].rows = 0} \in SUBSET (1 .. (k - 1))
      /\ {j \in 1 .. i - 1 : log[j].rows = 0} \in SUBSET {j \in 1 .. k - 1 : log[j].rows = 0}
  OBVIOUS
<1> QED BY <1>1, CountedMore DEF FileOf

LEMMA Positions ==
  ASSUME NEW i \in Nat, i > 0
  PROVE  /\ PositionOf(i) \in 1 .. i
         /\ \A k \in Nat : i < k /\ FileOf(i) = FileOf(k) => PositionOf(i) < PositionOf(k)
<1>1. PositionOf(i) \in 0 .. i
  <2>1. {j \in 1 .. i : FileOf(j) = FileOf(i)} \in SUBSET (1 .. i)
    OBVIOUS
  <2> QED BY <2>1, Counted DEF PositionOf
<1>2. PositionOf(i) # 0
  <2>1. {} \in SUBSET {j \in 1 .. i : FileOf(j) = FileOf(i)} /\ {j \in 1 .. i : FileOf(j) = FileOf(i)} \in SUBSET (1 .. i)
    OBVIOUS
  <2>2. {} # {j \in 1 .. i : FileOf(j) = FileOf(i)}
    OBVIOUS
  <2>3. Cardinality({}) < PositionOf(i)
    BY <2>1, <2>2, CountedMore DEF PositionOf
  <2> QED BY <2>3, FS_EmptySet
<1>3. ASSUME NEW k \in Nat, i < k, FileOf(i) = FileOf(k) PROVE PositionOf(i) < PositionOf(k)
  <2> DEFINE A == {j \in 1 .. i : FileOf(j) = FileOf(i)}
             B == {j \in 1 .. k : FileOf(j) = FileOf(k)}
  <2>1. A \in SUBSET B /\ B \in SUBSET (1 .. k)
    BY <1>3
  <2>2. k \in B /\ k \notin A
    BY <1>3
  <2>3. PositionOf(i) = Cardinality(A) /\ PositionOf(k) = Cardinality(B)
    BY DEF PositionOf
  <2> HIDE DEF A, B
  <2> QED BY <2>1, <2>2, <2>3, CountedMore
<1> QED BY <1>1, <1>2, <1>3

\* The cursors are ordered as the entries of the log are.
LEMMA CursorOrder ==
  ASSUME NEW i \in Nat, NEW k \in Nat, i > 0, k > 0
  PROVE  AtOrBefore(CursorOf(i), CursorOf(k)) <=> i <= k
<1>1. /\ FileOf(i) \in Int /\ FileOf(k) \in Int /\ PositionOf(i) \in Int /\ PositionOf(k) \in Int
  BY FileNumber, Positions
<1>2. AtOrBefore(CursorOf(i), CursorOf(k)) <=>
        FileOf(i) < FileOf(k) \/ (FileOf(i) = FileOf(k) /\ PositionOf(i) <= PositionOf(k))
  BY DEF AtOrBefore, CursorOf
<1>3. CASE i < k
  BY <1>1, <1>2, <1>3, FilesGrow, Positions
<1>4. CASE i = k
  BY <1>1, <1>2, <1>4
<1>5. CASE k < i
  BY <1>1, <1>2, <1>5, FilesGrow, Positions
<1> QED BY <1>3, <1>4, <1>5

\* The stream that starts at an entry's cursor leaves out what is up to it.
LEMMA BehindEntry ==
  ASSUME FeedTyped, NEW k, SavedAt(k)
  PROVE  /\ k \in 0 .. Len(log) /\ Behind(saved) = k
         /\ \A i \in 1 .. Len(log) : AtOrBefore(CursorOf(i), saved) <=> i <= k
         /\ saved.file = FileOf(k + 1) /\ ~StartFails
<1>1. Len(log) \in Nat /\ DOMAIN log = 1 .. Len(log)
  BY DEF FeedTyped
<1>2. CASE k = 0 /\ saved = [file |-> 0, position |-> 0]
  <2>1. \A i \in 1 .. Len(log) : ~AtOrBefore(CursorOf(i), saved)
    <3> TAKE i \in 1 .. Len(log)
    <3>1. i \in Nat /\ i > 0 /\ CursorOf(i).file = FileOf(i) /\ CursorOf(i).position = PositionOf(i)
      BY <1>1 DEF CursorOf
    <3>2. FileOf(i) \in Int /\ FileOf(i) >= 0 /\ PositionOf(i) \in Int /\ PositionOf(i) > 0
      BY <3>1, FileNumber, Positions
    <3> QED BY <1>2, <3>1, <3>2 DEF AtOrBefore
  <2>2. {i \in DOMAIN log : AtOrBefore(CursorOf(i), saved)} = {}
    BY <1>1, <2>1
  <2>3. Behind(saved) = 0
    BY <2>2, FS_EmptySet DEF Behind
  <2>4. FileOf(1) = 0
    BY FileNumber
  <2> QED BY <1>1, <1>2, <2>1, <2>3, <2>4 DEF StartFails
<1>3. CASE k \in DOMAIN log /\ log[k].rows > 0 /\ saved = CursorOf(k)
  <2>1. k \in Nat /\ k > 0 /\ k \in 1 .. Len(log)
    BY <1>1, <1>3
  <2>2. \A i \in 1 .. Len(log) : AtOrBefore(CursorOf(i), saved) <=> i <= k
    BY <1>1, <1>3, <2>1, CursorOrder
  <2>3. {i \in DOMAIN log : AtOrBefore(CursorOf(i), saved)} = 1 .. k
    BY <1>1, <2>1, <2>2
  <2>4. Behind(saved) = k
    <3>1. Cardinality(1 .. k) = k
      BY <2>1, FS_Interval
    <3> QED BY <2>3, <3>1 DEF Behind
  <2>5. saved.file = FileOf(k) /\ saved.position = PositionOf(k) /\ FileOf(k + 1) = FileOf(k)
    BY <1>3, <2>1, FileNumber DEF CursorOf
  <2>6. ~StartFails
    <3>1. PositionOf(k) \in Int /\ ~(PositionOf(k) < saved.position)
      BY <2>1, <2>5, Positions
    <3>2. ~\A i \in DOMAIN log : FileOf(i) = saved.file => PositionOf(i) < saved.position
      BY <1>3, <2>5, <3>1
    <3> QED BY <3>2 DEF StartFails
  <2> QED BY <2>1, <2>2, <2>4, <2>5, <2>6
<1> QED BY <1>2, <1>3 DEF SavedAt

\* What is written to the log leaves the cursors of its entries.
LEMMA LogGrows ==
  ASSUME FeedTyped, NEW e \in Entry, log' = Append(log, e)
  PROVE  /\ log' \in Seq(Entry) /\ Len(log') = Len(log) + 1 /\ DOMAIN log' = 1 .. Len(log) + 1
         /\ \A i \in 1 .. Len(log) : log'[i] = log[i] /\ CursorOf(i)' = CursorOf(i)
         /\ \A i \in 1 .. Len(log) + 1 : FileOf(i)' = FileOf(i)
         /\ log'[Len(log) + 1] = e
<1>1. log \in Seq(Entry) /\ Len(log) \in Nat /\ DOMAIN log = 1 .. Len(log)
  BY DEF FeedTyped
<1>2. /\ log' \in Seq(Entry) /\ Len(log') = Len(log) + 1
      /\ \A i \in 1 .. Len(log) : log'[i] = log[i] 
      /\ log'[Len(log) + 1] = e
  BY <1>1, AppendProperties
<1>3. ASSUME NEW i \in 1 .. Len(log) + 1 PROVE FileOf(i)' = FileOf(i)
  <2>1. {j \in 1 .. i - 1 : log'[j].rows = 0} = {j \in 1 .. i - 1 : log[j].rows = 0}
    BY <1>1, <1>2
  <2> QED BY <2>1 DEF FileOf
<1>4. ASSUME NEW i \in 1 .. Len(log) PROVE CursorOf(i)' = CursorOf(i)
  <2>1. \A j \in 1 .. i : FileOf(j)' = FileOf(j)
    BY <1>1, <1>3
  <2>2. FileOf(i)' = FileOf(i)
    BY <1>1, <1>3
  <2>3. {j \in 1 .. i : FileOf(j)' = FileOf(i)'} = {j \in 1 .. i : FileOf(j) = FileOf(i)}
    BY <2>1, <2>2
  <2>4. PositionOf(i)' = PositionOf(i)
    BY <2>3 DEF PositionOf
  <2> QED BY <2>2, <2>4 DEF CursorOf
<1>5. DOMAIN log' = 1 .. Len(log) + 1
  BY <1>2
<1>6. ASSUME NEW i \in 1 .. Len(log) PROVE log'[i] = log[i] /\ CursorOf(i)' = CursorOf(i)
  BY <1>2, <1>4
<1> QED BY <1>2, <1>3, <1>5, <1>6

LEMMA LogKept ==
  ASSUME UNCHANGED log
  PROVE  /\ \A i \in Nat : FileOf(i)' = FileOf(i) /\ CursorOf(i)' = CursorOf(i)
         /\ SourceRow' = SourceRow
<1>1. ASSUME NEW i \in Nat PROVE FileOf(i)' = FileOf(i)
  BY DEF FileOf
<1>2. ASSUME NEW i \in Nat PROVE CursorOf(i)' = CursorOf(i)
  <2>1. {j \in 1 .. i : FileOf(j)' = FileOf(i)'} = {j \in 1 .. i : FileOf(j) = FileOf(i)}
    BY <1>1
  <2>2. PositionOf(i)' = PositionOf(i)
    BY <2>1 DEF PositionOf
  <2> QED BY <1>1, <2>2 DEF CursorOf
<1>3. SourceRow' = SourceRow
  BY DEF SourceRow
<1> QED BY <1>1, <1>2, <1>3

LEMMA CursorTyped ==
  ASSUME FeedTyped, NEW i \in 1 .. Len(log)
  PROVE  /\ CursorOf(i) \in Cursor /\ PositionOf(i) \in 0 .. MaxLog /\ FileOf(i + 1) \in 0 .. MaxLog
         /\ \A f \in 0 .. MaxLog : [file |-> f, position |-> PositionOf(i)] \in Cursor
<1>1. i \in Nat /\ i > 0 /\ i <= MaxLog /\ i + 1 \in Nat /\ i + 1 > 0 /\ (i + 1) - 1 = i /\ MaxLog \in Nat
  BY FeedAssumption DEF FeedTyped
<1>2. FileOf(i) \in 0 .. i - 1 /\ PositionOf(i) \in 1 .. i /\ FileOf(i + 1) \in 0 .. i
  BY <1>1, FileNumber, Positions
<1> QED BY <1>1, <1>2 DEF CursorOf, Cursor

LEMMA EntryTyped ==
  ASSUME FeedTyped, NEW i \in 1 .. Len(log)
  PROVE  /\ log[i] \in Entry /\ i \in 0 .. MaxLog /\ i \in Nat /\ i > 0
         /\ log[i].rows \in 0 .. 2 /\ log[i].rows \in 0 .. feed.rows /\ log[i].rows \in Nat
<1>1. /\ log \in Seq(Entry) /\ DOMAIN log = 1 .. Len(log) /\ Len(log) \in Nat /\ Len(log) <= MaxLog
      /\ MaxLog \in Nat /\ feed.rows \in {1, 2} /\ log[i].rows <= feed.rows
  BY FeedAssumption DEF FeedTyped
<1>2. log[i] \in Entry
  BY <1>1, ElementOfSeq
<1>3. log[i].rows \in 0 .. 2
  BY <1>2 DEF Entry
<1> QED BY <1>1, <1>2, <1>3

\* The rows of an event, one after the other.
LEMMA RowsTyped ==
  ASSUME FeedTyped, NEW i \in 1 .. Len(log), NEW c \in Cursor
  PROVE  /\ RowsOf(i, c) \in Seq(Item) /\ Len(RowsOf(i, c)) = log[i].rows /\ log[i].rows \in 0 .. feed.rows
         /\ \A r \in 1 .. log[i].rows : RowsOf(i, c)[r] = [index |-> i, row |-> r, cursor |-> c]
<1>1. /\ log[i].rows \in 0 .. 2 /\ log[i].rows \in 0 .. feed.rows /\ i \in 0 .. MaxLog
      /\ log[i].rows \in Nat
  BY EntryTyped
<1>2. \A r \in 1 .. log[i].rows : [index |-> i, row |-> r, cursor |-> c] \in Item
  BY <1>1 DEF Item
<1>3. RowsOf(i, c) \in [1 .. log[i].rows -> Item]
  BY <1>2 DEF RowsOf
<1>4. RowsOf(i, c) \in Seq(Item) /\ DOMAIN RowsOf(i, c) = 1 .. log[i].rows
  BY <1>1, <1>3, SeqDef
<1>5. Len(RowsOf(i, c)) = log[i].rows
  BY <1>1, <1>4, LenProperties
<1> QED BY <1>1, <1>4, <1>5 DEF RowsOf

\* What is queued comes after what was.
LEMMA QueueGrows ==
  ASSUME FeedTyped, NEW items \in Seq(Item), queue' = queue \o items
  PROVE  /\ queue' \in Seq(Item) /\ Len(queue') = Len(queue) + Len(items)
         /\ Len(queue) \in Nat /\ Len(items) \in Nat
         /\ \A n \in 1 .. Len(queue) : queue'[n] = queue[n] /\ (Clean(n)' <=> Clean(n))
         /\ \A n \in 1 .. Len(items) : queue'[Len(queue) + n] = items[n]
<1>1. /\ queue \in Seq(Item) /\ Len(queue) \in Nat /\ Len(items) \in Nat
  BY LenProperties DEF FeedTyped
<1>2. /\ queue' \in Seq(Item) /\ Len(queue') = Len(queue) + Len(items)
      /\ \A n \in 1 .. Len(queue) + Len(items) :
           queue'[n] = (IF n <= Len(queue) THEN queue[n] ELSE items[n - Len(queue)])
  BY <1>1, ConcatProperties
<1>3. \A n \in 1 .. Len(queue) : queue'[n] = queue[n]
  BY <1>1, <1>2
<1>4. ASSUME NEW n \in 1 .. Len(queue) PROVE Clean(n)' <=> Clean(n)
  <2>1. \A m \in 1 .. n : queue'[m] = queue[m]
    BY <1>1, <1>3
  <2> QED BY <2>1 DEF Clean, Failure
<1>5. ASSUME NEW n \in 1 .. Len(items) PROVE queue'[Len(queue) + n] = items[n]
  <2>1. Len(queue) + n \in 1 .. Len(queue) + Len(items) /\ ~(Len(queue) + n <= Len(queue)) /\ (Len(queue) + n) - Len(queue) = n
    BY <1>1
  <2> QED BY <1>2, <2>1
<1> QED BY <1>1, <1>2, <1>3, <1>4, <1>5
-----------------------------------------------------------------------------
(* The feeds: the steps. *)

\* A source that writes changes nothing of what is behind a cursor.
LEMMA WritesKept ==
  ASSUME FeedInv,
         SourceRotates \/ \E t \in Table, n \in {1, 2}, m \in BOOLEAN : SourceWrites(t, n, m)
  PROVE  FeedInv'
<1>0. PICK e \in Entry :
        /\ log' = Append(log, e) /\ e.rows <= feed.rows
        /\ feed.rows = 1 /\ e.rows > 0 => e.map
  <2>1. CASE SourceRotates
    <3>1. [table |-> CHOOSE t \in Table : TRUE, rows |-> 0, map |-> FALSE] \in Entry /\ feed.rows \in {1, 2}
      BY DEF FeedInv, FeedTyped, Entry
    <3> QED BY <2>1, <3>1 DEF SourceRotates
  <2>2. CASE \E t \in Table, n \in {1, 2}, m \in BOOLEAN : SourceWrites(t, n, m)
    <3>1. PICK t \in Table, n \in {1, 2}, m \in BOOLEAN : SourceWrites(t, n, m)
      BY <2>2
    <3> DEFINE e == [table |-> t, rows |-> n, map |-> m]
    <3>2. e \in Entry
      <4>1. t \in Table \cup {CHOOSE u \in Table : TRUE} /\ n \in 0 .. 2 /\ m \in BOOLEAN
        BY <3>1
      <4> QED BY <4>1, Zenon DEF Entry
    <3>3. e.rows = n /\ e.map = m /\ n <= feed.rows /\ log' = Append(log, e)
      BY <3>1 DEF SourceWrites
    <3>4. feed.rows = 1 => m
      BY <3>1 DEF SourceWrites
    <3> HIDE DEF e
    <3> QED BY <3>2, <3>3, <3>4
  <2> QED BY <2>1, <2>2
<1>1. log' = Append(log, e) /\ e.rows <= feed.rows
  BY <1>0
<1>2. /\ UNCHANGED <<feed, open, began, sent, file, lookups, keys, queue, waiting, acked, saved, applied, attempts>>
      /\ Len(log) < MaxLog
  BY DEF SourceRotates, SourceWrites
<1>3. FeedTyped /\ FeedTypeOK /\ FeedKept
  BY DEF FeedInv
<1>4. /\ log' \in Seq(Entry) /\ Len(log') = Len(log) + 1 /\ DOMAIN log' = 1 .. Len(log) + 1
      /\ Len(log) \in Nat /\ DOMAIN log = 1 .. Len(log) /\ sent \in 0 .. Len(log) /\ MaxLog \in Nat
  BY <1>1, <1>3, LogGrows, FeedAssumption DEF FeedTyped, FeedTypeOK
<1>5. /\ \A i \in 1 .. Len(log) : log'[i] = log[i] /\ CursorOf(i)' = CursorOf(i)
      /\ \A i \in 1 .. Len(log) + 1 : FileOf(i)' = FileOf(i)
      /\ log'[Len(log) + 1] = e
  BY <1>1, <1>3, LogGrows
<1>6. FeedTypeOK'
  BY <1>2, <1>3, <1>4 DEF FeedTypeOK
<1>7. \A n \in DOMAIN lookups : lookups[n].index \in 1 .. Len(log) /\ lookups[n].index \in 1 .. sent
  BY <1>3, <1>4 DEF FeedTypeOK
<1>8. FeedTyped'
  <2>1. \A i \in DOMAIN log' : log'[i].rows <= feed'.rows
    <3> TAKE i \in DOMAIN log'
    <3>1. CASE i \in 1 .. Len(log)
      BY <1>2, <1>3, <1>4, <1>5, <3>1 DEF FeedTyped
    <3>2. CASE i = Len(log) + 1
      BY <1>1, <1>2, <1>5, <3>2
    <3> QED BY <1>4, <3>1, <3>2
  <2>2. \A n \in DOMAIN lookups' : log'[lookups'[n].index].table \in Chosen
    BY <1>2, <1>3, <1>5, <1>7 DEF FeedTyped
  <2>3. ASSUME feed.rows = 1, NEW i \in DOMAIN log', log'[i].rows > 0 PROVE log'[i].map
    <3>1. CASE i \in 1 .. Len(log)
      BY <1>3, <1>4, <1>5, <2>3, <3>1 DEF FeedTyped
    <3>2. CASE i = Len(log) + 1
      <4>1. log'[i] = e
        BY <1>5, <3>2
      <4> QED BY <1>0, <2>3, <4>1
    <3> QED BY <1>4, <2>3, <3>1, <3>2
  <2> QED BY <1>2, <1>3, <1>4, <2>1, <2>2, <2>3 DEF FeedTyped
<1>9. \A x \in SourceRow' : x[1] \in Int /\ (x[1] <= Len(log) => x \in SourceRow)
  BY <1>4, <1>5 DEF SourceRow
<1>10. ASSUME ~SkipsForeseen' PROVE FeedKept!2'
  <2>1. ~SkipsForeseen
    BY <1>2, <1>10 DEF SkipsForeseen
  <2>2. PICK k \in 0 .. Len(log) : SavedAt(k) /\ Covered(k)
    BY <1>3, <2>1 DEF FeedKept
  <2>3. SavedAt(k)'
    BY <1>2, <1>4, <1>5, <2>2 DEF SavedAt
  <2>4. Covered(k)'
    BY <1>2, <1>4, <1>9, <2>2 DEF Covered
  <2>5. ASSUME open PROVE QueuedInOrder' /\ Received' /\ Paced'
    <3>1. QueuedInOrder /\ Received /\ Paced
      BY <1>3, <2>1, <2>5 DEF FeedKept
    <3>2. \A n \in DOMAIN queue \cup {Len(queue)} : Clean(n)' <=> Clean(n)
      BY <1>2 DEF Clean, Failure
    <3>3. QueuedInOrder'
      <4> SUFFICES ASSUME NEW n \in DOMAIN queue, Clean(n)
                   PROVE  /\ queue[n].index \in 1 .. sent /\ log'[queue[n].index].rows > 0 /\ queue[n].row = 1
                          /\ queue[n].cursor = CursorOf(queue[n].index)'
                          /\ \A x \in SourceRow' : x[1] < queue[n].index =>
                               x \in applied \/ \E m \in 1 .. n - 1 : queue[m].index = x[1]
        BY <1>2, <3>2 DEF QueuedInOrder
      <4>1. /\ queue[n].index \in 1 .. sent /\ log[queue[n].index].rows > 0 /\ queue[n].row = 1
            /\ queue[n].cursor = CursorOf(queue[n].index)
            /\ \A x \in SourceRow : x[1] < queue[n].index =>
                 x \in applied \/ \E m \in 1 .. n - 1 : queue[m].index = x[1]
        BY <3>1 DEF QueuedInOrder
      <4>2. queue[n].index \in 1 .. Len(log)
        BY <1>4, <4>1
      <4>3. \A x \in SourceRow' : x[1] < queue[n].index => x \in SourceRow
        BY <1>4, <1>9, <4>2 DEF SourceRow
      <4>4. log'[queue[n].index].rows > 0 /\ queue[n].cursor = CursorOf(queue[n].index)'
        BY <1>2, <1>5, <4>1, <4>2
      <4>5. ASSUME NEW x \in SourceRow', x[1] < queue[n].index
            PROVE  x \in applied \/ \E m \in 1 .. n - 1 : queue[m].index = x[1]
        BY <4>1, <4>3, <4>5
      <4> QED BY <4>1, <4>4, <4>5
    <3>4. Received'
      <4>1. \A x \in SourceRow' : x[1] <= sent => x \in SourceRow
        BY <1>4, <1>9 DEF SourceRow
      <4> QED BY <1>2, <3>1, <3>2, <4>1 DEF Received
    <3>5. Paced'
      <4>1. sent + 1 \in 1 .. Len(log) + 1
        BY <1>4
      <4>2. FileOf(sent + 1)' = FileOf(sent + 1)
        BY <1>2, <1>5, <4>1
      <4>3. \A n \in DOMAIN lookups : lookups[n].index = sent => log'[sent] = log[sent]
        BY <1>5, <1>7
      <4> QED BY <1>2, <3>1, <4>2, <4>3 DEF Paced
    <3> QED BY <3>3, <3>4, <3>5
  <2> QED BY <1>2, <1>4, <2>2, <2>3, <2>4, <2>5
<1> QED BY <1>6, <1>8, <1>10 DEF FeedInv, FeedKept

\* A stream starts behind the saved cursor, and nowhere else.
LEMMA OpensKept ==
  ASSUME FeedInv, StreamOpens
  PROVE  FeedInv'
<1>1. FeedTyped /\ FeedTypeOK /\ FeedKept
  BY DEF FeedInv
<1>2. /\ ~open /\ open' = TRUE /\ attempts' = attempts + 1 /\ file' = saved.file
      /\ sent' = (IF StartFails THEN Len(log) ELSE StartAt) /\ began' = sent'
      /\ queue' = IF StartFails THEN <<Failure>> ELSE <<>>
      /\ UNCHANGED <<feed, log, lookups, keys, waiting, acked, saved, applied>>
  BY DEF StreamOpens
<1>3. Len(log) \in Nat /\ DOMAIN log = 1 .. Len(log) /\ acked \in 0 .. Len(log) /\ lookups = <<>> /\ ~waiting
  BY <1>1, <1>2 DEF FeedTyped, FeedTypeOK
<1>4. Behind(saved) \in 0 .. Len(log)
  <2>1. {i \in DOMAIN log : AtOrBefore(CursorOf(i), saved)} \in SUBSET (1 .. Len(log))
    BY <1>3
  <2> QED BY <1>3, <2>1, Counted DEF Behind
<1>5. sent' \in 0 .. Len(log)
  BY <1>2, <1>3, <1>4 DEF StartAt
<1>6. FeedTypeOK'
  BY <1>1, <1>2, <1>3, <1>5 DEF FeedTypeOK
<1>7. queue' \in Seq(Item)
  <2>1. Failure \in Item
    BY FeedAssumption DEF Failure, Item, Cursor
  <2> QED BY <1>2, <2>1
<1>8. FeedTyped'
  <2>1. saved.file \in 0 .. MaxLog
    BY <1>1 DEF FeedTypeOK, Cursor
  <2>2. attempts' \in Nat /\ attempts' # 0
    BY <1>1, <1>2 DEF FeedTyped
  <2> QED BY <1>1, <1>2, <1>3, <1>7, <2>1, <2>2 DEF FeedTyped
<1>9. ASSUME ~SkipsForeseen' PROVE FeedKept!2'
  <2>1. ~SkipsForeseen
    BY <1>1, <1>2, <1>9 DEF SkipsForeseen, FeedTyped
  <2>2. PICK k \in 0 .. Len(log) : SavedAt(k) /\ Covered(k)
    BY <1>1, <2>1 DEF FeedKept
  <2>3. k \in 0 .. Len(log) /\ Behind(saved) = k /\ saved.file = FileOf(k + 1) /\ ~StartFails
    BY <1>1, <2>2, BehindEntry
  <2>4. SavedAt(k)' /\ Covered(k)'
    <3>1. CASE k = 0
      BY <1>2, <2>2, <3>1, LogKept DEF SavedAt, Covered
    <3>2. CASE k # 0
      BY <1>2, <2>2, <2>3, <3>2, LogKept DEF SavedAt, Covered
    <3> QED BY <3>1, <3>2
  <2>5. sent' = k /\ queue' = <<>>
    <3>1. CASE feed.engine = "mysql"
      BY <1>2, <2>3, <3>1 DEF StartAt
    <3>2. CASE feed.engine # "mysql"
      <4>1. attempts = 0 /\ acked = 0
        BY <1>1, <1>2, <1>9, <3>2 DEF SkipsForeseen, FeedTyped
      <4> QED BY <1>2, <2>3, <3>2, <4>1 DEF StartAt
    <3> QED BY <3>1, <3>2
  <2>6. QueuedInOrder'
    BY <2>5 DEF QueuedInOrder
  <2>7. Received'
    BY <1>2, <2>2, <2>5, LogKept DEF Received, Covered
  <2>8. Paced'
    <3>1. FileOf(k + 1)' = FileOf(k + 1)
      BY <1>2, <2>3, LogKept
    <3> QED BY <1>2, <1>3, <2>3, <2>5, <3>1 DEF Paced
  <2> QED BY <1>2, <2>3, <2>4, <2>6, <2>7, <2>8
<1> QED BY <1>6, <1>8, <1>9 DEF FeedInv, FeedKept

\* A step that applies nothing leaves what the cursor stands for.
LEMMA CursorKept ==
  ASSUME FeedInv, UNCHANGED <<feed, log, saved, applied, attempts>>,
         ~SkipsForeseen /\ open' => QueuedInOrder' /\ Received' /\ Paced'
  PROVE  FeedKept'
<1>1. SkipsForeseen' <=> SkipsForeseen
  BY DEF SkipsForeseen
<1>2. ASSUME ~SkipsForeseen PROVE \E k \in 0 .. Len(log) : SavedAt(k)' /\ Covered(k)'
  <2>1. PICK k \in 0 .. Len(log) : SavedAt(k) /\ Covered(k)
    BY <1>2 DEF FeedInv, FeedKept
  <2>2. Len(log) \in Nat /\ k \in 0 .. Len(log)
    BY <2>1 DEF FeedInv, FeedTyped
  <2>3. SavedAt(k)'
    <3>1. CASE k = 0
      BY <2>1, <3>1, LogKept DEF SavedAt
    <3>2. CASE k # 0
      BY <2>1, <2>2, <3>2, LogKept DEF SavedAt
    <3> QED BY <3>1, <3>2
  <2>4. Covered(k)'
    BY <2>1, LogKept DEF Covered
  <2> QED BY <2>1, <2>3, <2>4
<1> QED BY <1>1, <1>2 DEF FeedKept

LEMMA RotateKept ==
  ASSUME FeedInv, RotateArrives
  PROVE  FeedInv'
<1>1. FeedTyped /\ FeedTypeOK /\ FeedKept
  BY DEF FeedInv
<1>2. /\ open /\ sent < Len(log) /\ (feed.paced => lookups = <<>>)
      /\ log[sent + 1].rows = 0 /\ sent' = sent + 1 /\ file' = FileOf(sent + 2)
      /\ UNCHANGED <<feed, log, open, began, lookups, keys, queue, waiting, acked, saved, applied, attempts>>
  BY DEF RotateArrives
<1>3. /\ Len(log) \in Nat /\ DOMAIN log = 1 .. Len(log) /\ sent \in 0 .. Len(log)
      /\ sent + 1 \in 1 .. Len(log) /\ (sent + 1) + 1 = sent + 2 /\ sent' \in 0 .. Len(log)
      /\ \A i \in 1 .. sent : i \in 1 .. sent'
  BY <1>1, <1>2 DEF FeedTyped, FeedTypeOK
<1>4. FileOf(sent + 2) \in 0 .. MaxLog
  BY <1>1, <1>3, CursorTyped
<1>5. FeedTypeOK'
  BY <1>1, <1>2, <1>3 DEF FeedTypeOK
<1>6. FeedTyped'
  BY <1>1, <1>2, <1>4 DEF FeedTyped
<1>7. ASSUME ~SkipsForeseen PROVE QueuedInOrder' /\ Received' /\ Paced'
  <2>1. QueuedInOrder /\ Received /\ Paced
    BY <1>1, <1>2, <1>7 DEF FeedKept
  <2>2. \A n \in Nat : Clean(n)' <=> Clean(n)
    BY <1>2 DEF Clean, Failure
  <2>3. QueuedInOrder'
    <3>1. SourceRow' = SourceRow
      BY <1>2, LogKept
    <3> SUFFICES ASSUME NEW n \in DOMAIN queue, Clean(n)
                 PROVE  /\ queue[n].index \in 1 .. sent' /\ log[queue[n].index].rows > 0 /\ queue[n].row = 1
                        /\ queue[n].cursor = CursorOf(queue[n].index)'
                        /\ \A x \in SourceRow : x[1] < queue[n].index =>
                             x \in applied \/ \E m \in 1 .. n - 1 : queue[m].index = x[1]
      BY <1>2, <3>1 DEF QueuedInOrder, Clean, Failure
    <3>2. /\ queue[n].index \in 1 .. sent /\ log[queue[n].index].rows > 0 /\ queue[n].row = 1
          /\ queue[n].cursor = CursorOf(queue[n].index)
          /\ \A x \in SourceRow : x[1] < queue[n].index =>
               x \in applied \/ \E m \in 1 .. n - 1 : queue[m].index = x[1]
      BY <2>1 DEF QueuedInOrder
    <3>3. queue[n].index \in Nat /\ queue[n].index \in 1 .. sent'
      BY <1>3, <3>2
    <3>4. queue[n].cursor = CursorOf(queue[n].index)'
      BY <1>2, <3>2, <3>3, LogKept
    <3> QED BY <3>2, <3>3, <3>4
  <2>4. Received'
    <3>1. SourceRow' = SourceRow /\ (Clean(Len(queue))' <=> Clean(Len(queue)))
      BY <1>2, LogKept DEF Clean, Failure
    <3>2. \A x \in SourceRow : x[1] <= sent' => x[1] <= sent
      <4> TAKE x \in SourceRow
      <4>1. x[1] \in 1 .. Len(log) /\ log[x[1]].rows \in Nat /\ x[2] \in {1, 2} /\ x[2] <= log[x[1]].rows
        BY <1>1, <1>3, EntryTyped DEF SourceRow
      <4>2. x[1] # sent + 1
        BY <1>2, <4>1
      <4> QED BY <1>2, <1>3, <4>1, <4>2
    <3> QED BY <1>2, <2>1, <3>1, <3>2 DEF Received
  <2>5. Paced'
    <3> SUFFICES ASSUME feed.engine = "mysql"
                 PROVE  /\ file' = FileOf(sent + 1)'
                        /\ \A n \in DOMAIN lookups : n = 1 /\ lookups[n].index = sent' /\ log[sent'].rows > 0
      BY <1>2 DEF Paced
    <3>1. lookups = <<>>
      BY <1>2, <1>7 DEF SkipsForeseen
    <3>2. file' = FileOf(sent + 1)'
      BY <1>2, <1>3 DEF FileOf
    <3> QED BY <3>1, <3>2
  <2> QED BY <2>3, <2>4, <2>5
<1>8. FeedKept'
  BY <1>2, <1>7, CursorKept
<1> QED BY <1>5, <1>6, <1>8 DEF FeedInv

\* An event comes after what was received before it, whether it is queued at once or looked up first.
LEMMA ArriveKept ==
  ASSUME FeedInv, RowsArrive
  PROVE  FeedInv'
<1> DEFINE i == sent + 1
<1>1. FeedTyped /\ FeedTypeOK /\ FeedKept
  BY DEF FeedInv
<1>2. /\ open /\ sent < Len(log) /\ (feed.paced => lookups = <<>>)
      /\ log[i].rows > 0 /\ sent' = i
      /\ UNCHANGED <<feed, log, open, began, file, keys, acked, saved, applied, attempts>>
  BY DEF RowsArrive
<1>3. \/ (log[i].table \notin Chosen \/ feed.rows # 1) /\ feed.rows \in {1, 2}
         /\ UNCHANGED <<lookups, queue, waiting>>
      \/ /\ log[i].table \in Chosen /\ feed.engine = "postgres"
         /\ queue' = queue \o RowsOf(i, CursorOf(i)) /\ waiting' = FALSE /\ UNCHANGED lookups
      \/ /\ log[i].table \in Chosen /\ feed.engine # "postgres"
         /\ lookups' = Append(lookups, [index |-> i, cached |-> log[i].table \in keys])
         /\ UNCHANGED <<queue, waiting>>
  <2>1. feed.rows = 1 => Mapped(i)
    <3>1. i \in DOMAIN log /\ i \in began + 1 .. i
      BY <1>1, <1>2 DEF FeedTyped, FeedTypeOK
    <3>2. feed.rows = 1 => log[i].map
      BY <1>1, <1>2, <3>1 DEF FeedTyped
    <3> QED BY <3>1, <3>2 DEF Mapped
  <2>2. feed.rows \in {1, 2}
    BY <1>1 DEF FeedTyped
  <2> QED BY <2>1, <2>2 DEF RowsArrive, Queued
<1>4. /\ Len(log) \in Nat /\ DOMAIN log = 1 .. Len(log) /\ sent \in 0 .. Len(log)
      /\ i \in 1 .. Len(log) /\ i \in Nat /\ i > 0 /\ i \in 0 .. MaxLog /\ sent' \in 0 .. Len(log)
      /\ \A j \in 1 .. sent : j \in 1 .. sent'
  BY <1>1, <1>2, FeedAssumption DEF FeedTyped, FeedTypeOK
<1> HIDE DEF i
<1>5. CursorOf(i) \in Cursor /\ log[i].rows \in 0 .. feed.rows /\ i = sent + 1
  BY <1>1, <1>4, CursorTyped, EntryTyped DEF i
<1>6. /\ queue' \in Seq(Item) /\ Len(queue) \in Nat
      /\ feed.engine # "postgres" \/ log[i].table \notin Chosen => UNCHANGED queue
      /\ feed.engine = "postgres" /\ log[i].table \in Chosen =>
           /\ Len(queue') = Len(queue) + 1
           /\ \A n \in 1 .. Len(queue) : queue'[n] = queue[n] /\ (Clean(n)' <=> Clean(n))
           /\ queue'[Len(queue) + 1] = [index |-> i, row |-> 1, cursor |-> CursorOf(i)]
  <2>1. queue \in Seq(Item) /\ Len(queue) \in Nat
    BY <1>1 DEF FeedTyped
  <2>2. CASE feed.engine = "postgres" /\ log[i].table \in Chosen
    <3>1. /\ RowsOf(i, CursorOf(i)) \in Seq(Item) /\ Len(RowsOf(i, CursorOf(i))) = log[i].rows
          /\ \A r \in 1 .. log[i].rows : RowsOf(i, CursorOf(i))[r] = [index |-> i, row |-> r, cursor |-> CursorOf(i)]
      BY <1>1, <1>4, <1>5, RowsTyped
    <3>2. log[i].rows = 1
      BY <1>1, <1>2, <1>5, <2>2 DEF FeedTyped
    <3>3. queue' = queue \o RowsOf(i, CursorOf(i))
      <4>1. feed.rows = 1
        BY <1>1, <2>2 DEF FeedTyped
      <4> QED BY <1>3, <2>2, <4>1
    <3>4. /\ queue' \in Seq(Item) /\ Len(queue') = Len(queue) + Len(RowsOf(i, CursorOf(i)))
          /\ \A n \in 1 .. Len(queue) : queue'[n] = queue[n] /\ (Clean(n)' <=> Clean(n))
          /\ \A n \in 1 .. Len(RowsOf(i, CursorOf(i))) : queue'[Len(queue) + n] = RowsOf(i, CursorOf(i))[n]
      BY <1>1, <3>1, <3>3, QueueGrows
    <3> QED BY <2>1, <2>2, <3>1, <3>2, <3>4
  <2>3. CASE ~(feed.engine = "postgres" /\ log[i].table \in Chosen)
    BY <1>3, <2>1, <2>3
  <2> QED BY <2>2, <2>3
<1>7. lookups' \in Seq([index : 0 .. MaxLog, cached : BOOLEAN]) /\ Len(lookups) \in Nat
      /\ \/ UNCHANGED lookups
         \/ /\ feed.engine = "mysql" /\ log[i].table \in Chosen /\ Len(lookups') = Len(lookups) + 1
            /\ \A n \in 1 .. Len(lookups) : lookups'[n] = lookups[n]
            /\ lookups'[Len(lookups) + 1].index = i
  <2>1. /\ lookups \in Seq([index : 0 .. MaxLog, cached : BOOLEAN]) /\ Len(lookups) \in Nat
        /\ feed.engine \in {"mysql", "postgres"}
    BY <1>1 DEF FeedTyped
  <2>2. CASE lookups' = Append(lookups, [index |-> i, cached |-> log[i].table \in keys])
             /\ feed.engine # "postgres" /\ log[i].table \in Chosen
    <3> DEFINE l == [index |-> i, cached |-> log[i].table \in keys]
    <3>1. \A b \in BOOLEAN : [index |-> i, cached |-> b] \in [index : 0 .. MaxLog, cached : BOOLEAN]
      BY <1>4
    <3>2. (log[i].table \in keys) \in BOOLEAN
      OBVIOUS
    <3>3. l \in [index : 0 .. MaxLog, cached : BOOLEAN] /\ l.index = i
      BY <3>1, <3>2
    <3> HIDE DEF l
    <3>4. lookups' = Append(lookups, l)
      BY <2>2 DEF l
    <3>5. /\ lookups' \in Seq([index : 0 .. MaxLog, cached : BOOLEAN]) /\ Len(lookups') = Len(lookups) + 1
          /\ \A n \in 1 .. Len(lookups) : lookups'[n] = lookups[n]
          /\ lookups'[Len(lookups) + 1] = l
      BY <2>1, <3>3, <3>4, AppendProperties
    <3> QED BY <2>1, <2>2, <3>3, <3>5
  <2>3. CASE UNCHANGED lookups
    BY <2>1, <2>3
  <2> QED BY <1>3, <2>2, <2>3
<1>8. /\ DOMAIN lookups = 1 .. Len(lookups) /\ DOMAIN lookups' = 1 .. Len(lookups')
      /\ DOMAIN queue = 1 .. Len(queue) /\ DOMAIN queue' = 1 .. Len(queue')
  BY <1>1, <1>6, <1>7, LenProperties DEF FeedTyped
<1>9. \A n \in DOMAIN lookups' : lookups'[n].index \in 1 .. sent' /\ log[lookups'[n].index].table \in Chosen
  <2>1. \A n \in DOMAIN lookups : lookups[n].index \in 1 .. sent' /\ log[lookups[n].index].table \in Chosen
    BY <1>1, <1>4 DEF FeedTyped, FeedTypeOK
  <2>2. CASE UNCHANGED lookups
    BY <2>1, <2>2
  <2>3. CASE ~UNCHANGED lookups
    <3> TAKE n \in DOMAIN lookups'
    <3>1. CASE n \in 1 .. Len(lookups)
      BY <1>7, <1>8, <2>1, <2>3, <3>1
    <3>2. CASE n = Len(lookups) + 1
      <4>1. i \in 1 .. sent'
        BY <1>2, <1>4 DEF i
      <4> QED BY <1>7, <2>3, <3>2, <4>1
    <3>3. n \in 1 .. Len(lookups) \/ n = Len(lookups) + 1
      <4>1. DOMAIN lookups' = 1 .. Len(lookups) + 1
        BY <1>7, <1>8, <2>3
      <4> QED BY <1>7, <4>1
    <3> QED BY <3>1, <3>2, <3>3
  <2> QED BY <2>2, <2>3
<1>10. FeedTypeOK'
  BY <1>1, <1>2, <1>3, <1>4, <1>9 DEF FeedTypeOK
<1>11. FeedTyped'
  <2>1. feed.engine = "postgres" => lookups' = <<>>
    BY <1>1, <1>7 DEF FeedTyped
  <2> QED BY <1>1, <1>2, <1>6, <1>7, <1>9, <2>1 DEF FeedTyped
<1>12. ASSUME ~SkipsForeseen PROVE QueuedInOrder' /\ Received' /\ Paced'
  <2>1. QueuedInOrder /\ Received /\ Paced
    BY <1>1, <1>2, <1>12 DEF FeedKept
  <2>2. SourceRow' = SourceRow /\ \A j \in 1 .. sent' : CursorOf(j)' = CursorOf(j)
    BY <1>2, <1>4, LogKept
  <2>3. \A x \in SourceRow : x[1] \in Nat /\ log[x[1]].table \in Chosen /\ (x[1] <= sent' => x[1] <= sent \/ x[1] = i)
    BY <1>2, <1>4 DEF SourceRow, i
  <2>4. feed.engine = "mysql" => lookups = <<>> /\ feed.engine # "postgres"
    BY <1>2, <1>12 DEF SkipsForeseen
  <2>5. ASSUME NEW n \in DOMAIN queue, Clean(n)
        PROVE  /\ queue[n].index \in 1 .. sent' /\ log[queue[n].index].rows > 0 /\ queue[n].row = 1
               /\ queue[n].cursor = CursorOf(queue[n].index)
               /\ \A x \in SourceRow : x[1] < queue[n].index =>
                    x \in applied \/ \E m \in 1 .. n - 1 : queue[m].index = x[1]
    BY <1>4, <2>1, <2>5 DEF QueuedInOrder
  <2>6. CASE feed.engine = "postgres" /\ log[i].table \in Chosen
    <3>1. PICK q \in Nat : q = Len(queue)
      BY <1>6
    <3>2. /\ Len(queue') = q + 1
          /\ \A n \in 1 .. q : queue'[n] = queue[n] /\ (Clean(n)' <=> Clean(n))
          /\ queue'[q + 1] = [index |-> i, row |-> 1, cursor |-> CursorOf(i)]
          /\ UNCHANGED lookups /\ lookups = <<>>
      BY <1>1, <1>3, <1>6, <2>6, <3>1 DEF FeedTyped
    <3>3. Clean(q + 1)' => Clean(q)
      BY <3>1, <3>2 DEF Clean, Failure
    <3>4. ASSUME Clean(q + 1)', NEW x \in SourceRow, x[1] <= sent
          PROVE  x \in applied \/ \E m \in 1 .. q : queue'[m].index = x[1]
      BY <1>8, <2>1, <3>1, <3>2, <3>3, <3>4 DEF Received
    <3>5. QueuedInOrder'
      <4> SUFFICES ASSUME NEW n \in 1 .. q + 1, Clean(n)'
                   PROVE  /\ queue'[n].index \in 1 .. sent' /\ log[queue'[n].index].rows > 0 /\ queue'[n].row = 1
                          /\ queue'[n].cursor = CursorOf(queue[n].index)'
                          /\ \A x \in SourceRow : x[1] < queue'[n].index =>
                               x \in applied \/ \E m \in 1 .. n - 1 : queue'[m].index = x[1]
        BY <1>2, <1>8, <2>2, <3>1, <3>2 DEF QueuedInOrder
      <4>1. CASE n \in 1 .. q
        <5>1. queue'[n] = queue[n] /\ Clean(n) /\ \A m \in 1 .. n - 1 : queue'[m] = queue[m]
          BY <3>1, <3>2, <4>1
        <5>2. queue[n].cursor = CursorOf(queue[n].index) /\ queue[n].index \in 1 .. sent'
          BY <1>8, <2>5, <3>1, <4>1, <5>1
        <5>3. queue'[n].cursor = CursorOf(queue[n].index)'
          BY <2>2, <5>1, <5>2
        <5> QED BY <1>8, <2>5, <3>1, <4>1, <5>1, <5>3
      <4>2. CASE n = q + 1
        <5>1. queue'[n].index = i /\ queue'[n].row = 1 /\ queue'[n].cursor = CursorOf(i) /\ i \in 1 .. sent'
          BY <1>2, <1>4, <3>2, <4>2
        <5>2. queue'[n].cursor = CursorOf(queue[n].index)'
          BY <2>2, <5>1
        <5>3. n - 1 = q /\ \A x \in SourceRow : x[1] < i => x[1] <= sent
          BY <1>4, <1>5, <2>3, <3>1, <4>2
        <5>4. ASSUME NEW x \in SourceRow, x[1] < queue'[n].index
              PROVE  x \in applied \/ \E m \in 1 .. n - 1 : queue'[m].index = x[1]
          BY <3>4, <4>2, <5>1, <5>3, <5>4
        <5> QED BY <1>2, <5>1, <5>2, <5>4
      <4> QED BY <3>1, <4>1, <4>2
    <3>6. Received'
      <4> SUFFICES ASSUME Clean(q + 1)', NEW x \in SourceRow, x[1] <= sent'
                   PROVE  x \in applied \/ \E n \in 1 .. q + 1 : queue'[n].index = x[1]
        BY <1>2, <1>8, <2>2, <3>1, <3>2 DEF Received, Clean, Failure
      <4>1. CASE x[1] <= sent
        BY <3>1, <3>4, <4>1
      <4>2. CASE x[1] = i
        BY <3>1, <3>2, <4>2
      <4> QED BY <2>3, <4>1, <4>2
    <3>7. Paced'
      BY <1>2, <2>6 DEF Paced
    <3> QED BY <3>5, <3>6, <3>7
  <2>7. CASE ~(feed.engine = "postgres" /\ log[i].table \in Chosen)
    <3>1. UNCHANGED queue
      BY <1>6, <2>7
    <3>2. \A n : Clean(n)' <=> Clean(n)
      BY <3>1 DEF Clean, Failure
    <3>3. QueuedInOrder'
      <4> SUFFICES ASSUME NEW n \in DOMAIN queue, Clean(n)
                   PROVE  /\ queue[n].index \in 1 .. sent' /\ log[queue[n].index].rows > 0 /\ queue[n].row = 1
                          /\ queue[n].cursor = CursorOf(queue[n].index)'
                          /\ \A x \in SourceRow : x[1] < queue[n].index =>
                               x \in applied \/ \E m \in 1 .. n - 1 : queue[m].index = x[1]
        BY <1>2, <2>2, <3>1, <3>2 DEF QueuedInOrder
      <4>1. queue[n].cursor = CursorOf(queue[n].index)'
        BY <2>2, <2>5, <3>1
      <4> QED BY <2>5, <4>1
    <3>4. Received'
      <4> SUFFICES ASSUME Clean(Len(queue)), NEW x \in SourceRow, x[1] <= sent'
                   PROVE  \/ x \in applied
                          \/ \E n \in DOMAIN queue : queue[n].index = x[1]
                          \/ \E n \in DOMAIN lookups' : lookups'[n].index = x[1]
        BY <1>2, <2>2, <3>1, <3>2 DEF Received
      <4>1. \A n \in DOMAIN lookups : n \in DOMAIN lookups' /\ lookups'[n] = lookups[n]
        <5>1. CASE UNCHANGED lookups
          BY <5>1
        <5>2. CASE Len(lookups') = Len(lookups) + 1 /\ \A n \in 1 .. Len(lookups) : lookups'[n] = lookups[n]
          <6>1. \A n \in 1 .. Len(lookups) : n \in 1 .. Len(lookups) + 1
            BY <1>7
          <6> QED BY <1>8, <5>2, <6>1
        <5> QED BY <1>7, <5>1, <5>2
      <4>2. CASE x[1] <= sent
        BY <2>1, <4>1, <4>2 DEF Received
      <4>3. CASE x[1] = i
        <5>1. log[i].table \in Chosen
          BY <2>3, <4>3
        <5>2. lookups' = Append(lookups, [index |-> i, cached |-> log[i].table \in keys])
          <6>1. feed.engine = "mysql" /\ feed.rows = 1
            BY <1>1, <1>12, <2>7, <5>1 DEF SkipsForeseen, FeedTyped
          <6> QED BY <1>3, <5>1, <6>1
        <5>3. ~UNCHANGED lookups
          <6>1. Len(Append(lookups, [index |-> i, cached |-> log[i].table \in keys])) = Len(lookups) + 1
            BY <1>1 DEF FeedTyped
          <6> QED BY <1>7, <5>2, <6>1
        <5>4. Len(lookups) + 1 \in DOMAIN lookups' /\ lookups'[Len(lookups) + 1].index = i
          <6>1. Len(lookups') = Len(lookups) + 1 /\ lookups'[Len(lookups) + 1].index = i /\ Len(lookups) \in Nat
            BY <1>7, <5>3
          <6> QED BY <1>8, <6>1
        <5> QED BY <4>3, <5>4
      <4> QED BY <2>3, <4>2, <4>3
    <3>5. Paced'
      <4> SUFFICES ASSUME feed.engine = "mysql"
                   PROVE  /\ file = FileOf(sent + 1)'
                          /\ \A n \in DOMAIN lookups' : n = 1 /\ lookups'[n].index = sent' /\ log[sent'].rows > 0
        BY <1>2 DEF Paced
      <4>1. file = FileOf(i) /\ FileOf(i + 1) = FileOf(i)
        BY <1>2, <1>4, <1>5, <2>1, FileNumber DEF Paced
      <4>2. FileOf(sent + 1)' = FileOf(i + 1)
        BY <1>2 DEF FileOf
      <4>3. lookups = <<>> /\ Len(lookups) = 0
        BY <2>4
      <4> QED BY <1>2, <1>7, <1>8, <4>1, <4>2, <4>3
    <3> QED BY <3>3, <3>4, <3>5
  <2> QED BY <2>6, <2>7
<1>13. FeedKept'
  BY <1>2, <1>12, CursorKept
<1> QED BY <1>10, <1>11, <1>13 DEF FeedInv

\* What a lookup in the list leaves of it.
LEMMA LookupTaken ==
  ASSUME FeedTyped, FeedTypeOK, NEW n \in DOMAIN lookups, lookups' = RemoveAt(lookups, n), UNCHANGED <<feed, log, began, sent>>
  PROVE  /\ lookups' \in Seq([index : 0 .. MaxLog, cached : BOOLEAN])
         /\ \A m \in DOMAIN lookups' : lookups'[m].index \in 1 .. sent /\ log[lookups'[m].index].table \in Chosen
         /\ n \in 1 .. Len(lookups) /\ Len(lookups') = Len(lookups) - 1
         /\ feed.engine = "mysql"
<1>1. lookups \in Seq([index : 0 .. MaxLog, cached : BOOLEAN]) /\ n \in 1 .. Len(lookups) /\ Len(lookups) \in Nat
  BY DEF FeedTyped
<1>2. /\ lookups' \in Seq([index : 0 .. MaxLog, cached : BOOLEAN]) /\ Len(lookups') = Len(lookups) - 1
      /\ \A k \in 1 .. Len(lookups) - 1 : lookups'[k] = (IF k < n THEN lookups[k] ELSE lookups[k + 1])
  BY <1>1, Removed
<1>3. ASSUME NEW m \in DOMAIN lookups'
      PROVE  lookups'[m].index \in 1 .. sent /\ log[lookups'[m].index].table \in Chosen
  <2>1. m \in 1 .. Len(lookups) - 1
    BY <1>2, LenProperties
  <2>2. \E k \in 1 .. Len(lookups) : lookups'[m] = lookups[k]
    <3>1. CASE m < n
      <4>1. m \in 1 .. Len(lookups)
        BY <1>1, <2>1
      <4> QED BY <1>2, <2>1, <3>1, <4>1
    <3>2. CASE ~(m < n)
      <4>1. m + 1 \in 1 .. Len(lookups)
        BY <1>1, <2>1
      <4> QED BY <1>2, <2>1, <3>2, <4>1
    <3> QED BY <3>1, <3>2
  <2>3. DOMAIN lookups = 1 .. Len(lookups)
    BY <1>1
  <2> QED BY <2>2, <2>3 DEF FeedTyped, FeedTypeOK
<1>4. feed.engine = "mysql"
  <2>1. lookups # <<>>
    BY <1>1
  <2> QED BY <2>1 DEF FeedTyped
<1> QED BY <1>1, <1>2, <1>3, <1>4

\* When lookups are paced, the one that resolves is of the last event received, and in its file.
LEMMA ResolvesKept ==
  ASSUME FeedInv, NEW n \in DOMAIN lookups, LookupResolves(n)
  PROVE  FeedInv'
<1> DEFINE i == lookups[n].index
           c == [file |-> file, position |-> PositionOf(i)]
<1>1. FeedTyped /\ FeedTypeOK /\ FeedKept
  BY DEF FeedInv
<1>2. /\ queue' = queue \o RowsOf(i, c) /\ waiting' = FALSE
      /\ keys' = keys \cup {log[i].table} /\ lookups' = RemoveAt(lookups, n)
      /\ UNCHANGED <<feed, log, open, began, sent, file, acked, saved, applied, attempts>>
  BY DEF LookupResolves, Queued
<1>3. /\ lookups' \in Seq([index : 0 .. MaxLog, cached : BOOLEAN])
      /\ \A m \in DOMAIN lookups' : lookups'[m].index \in 1 .. sent /\ log[lookups'[m].index].table \in Chosen
      /\ n \in 1 .. Len(lookups) /\ Len(lookups') = Len(lookups) - 1 /\ feed.engine = "mysql"
  BY <1>1, <1>2, LookupTaken
<1>4. /\ Len(log) \in Nat /\ i \in 1 .. sent /\ i \in 1 .. Len(log) /\ log[i].table \in Chosen /\ sent \in 0 .. Len(log)
      /\ file \in 0 .. MaxLog
  BY <1>1 DEF FeedTyped, FeedTypeOK
<1>5. c \in Cursor
  BY <1>1, <1>4, CursorTyped
<1>6. open
  <2>1. lookups # <<>>
    BY <1>1, <1>3 DEF FeedTyped
  <2> QED BY <1>1, <2>1 DEF FeedTypeOK
<1> HIDE DEF i, c
<1>7. /\ RowsOf(i, c) \in Seq(Item) /\ Len(RowsOf(i, c)) = log[i].rows /\ log[i].rows \in 0 .. feed.rows
      /\ \A r \in 1 .. log[i].rows : RowsOf(i, c)[r] = [index |-> i, row |-> r, cursor |-> c]
  BY <1>1, <1>4, <1>5, RowsTyped
<1>8. /\ queue' \in Seq(Item) /\ Len(queue') = Len(queue) + Len(RowsOf(i, c)) /\ Len(queue) \in Nat
      /\ \A m \in 1 .. Len(queue) : queue'[m] = queue[m] /\ (Clean(m)' <=> Clean(m))
      /\ \A m \in 1 .. Len(RowsOf(i, c)) : queue'[Len(queue) + m] = RowsOf(i, c)[m]
  BY <1>1, <1>2, <1>7, QueueGrows
<1>9. FeedTypeOK'
  BY <1>1, <1>2, <1>3, <1>4, <1>6 DEF FeedTypeOK
<1>10. FeedTyped'
  BY <1>1, <1>2, <1>3, <1>8 DEF FeedTyped
<1>11. ASSUME ~SkipsForeseen PROVE QueuedInOrder' /\ Received' /\ Paced'
  <2>1. QueuedInOrder /\ Received /\ Paced
    BY <1>1, <1>6, <1>11 DEF FeedKept
  <2>2. DOMAIN lookups = 1 .. Len(lookups) /\ Len(lookups) \in Nat
    BY <1>1 DEF FeedTyped
  <2>3. \A m \in DOMAIN lookups : m = 1 /\ lookups[m].index = sent /\ log[sent].rows > 0
    BY <1>3, <2>1 DEF Paced
  <2>4. Len(lookups) = 1 /\ i = sent /\ log[i].rows > 0
    <3>1. Len(lookups) \in DOMAIN lookups
      BY <1>3, <2>2
    <3> QED BY <2>3, <3>1 DEF i
  <2>5. log[i].rows = 1
    BY <1>1, <1>3, <1>7, <1>11, <2>4 DEF SkipsForeseen, FeedTyped
  <2>6. c = CursorOf(i) /\ i \in Nat /\ i > 0
    <3>1. file = FileOf(i + 1) /\ i \in Nat /\ i > 0
      BY <1>3, <1>4, <2>1, <2>4 DEF Paced
    <3>2. FileOf(i + 1) = FileOf(i)
      BY <2>4, <3>1, FileNumber
    <3> QED BY <3>1, <3>2 DEF c, CursorOf
  <2>7. PICK q \in Nat : q = Len(queue)
    BY <1>8
  <2>8. /\ Len(queue') = q + 1 /\ DOMAIN queue' = 1 .. q + 1 /\ DOMAIN queue = 1 .. q
        /\ \A m \in 1 .. q : queue'[m] = queue[m] /\ (Clean(m)' <=> Clean(m))
        /\ queue'[q + 1] = [index |-> i, row |-> 1, cursor |-> CursorOf(i)]
    <3>1. Len(queue') = q + 1 /\ queue'[q + 1] = [index |-> i, row |-> 1, cursor |-> c]
      BY <1>7, <1>8, <2>5, <2>7
    <3>2. DOMAIN queue' = 1 .. q + 1 /\ DOMAIN queue = 1 .. q
      BY <1>1, <1>8, <2>7, <3>1, LenProperties DEF FeedTyped
    <3> QED BY <1>8, <2>6, <2>7, <3>1, <3>2
  <2>9. SourceRow' = SourceRow /\ \A j \in 1 .. sent : CursorOf(j)' = CursorOf(j)
    BY <1>2, <1>4, LogKept
  <2>10. Clean(q + 1)' => Clean(q)
    BY <2>7, <2>8 DEF Clean, Failure
  <2>11. ASSUME Clean(q + 1)', NEW x \in SourceRow, x[1] < i
         PROVE  x \in applied \/ \E m \in 1 .. q : queue'[m].index = x[1]
    <3>1. x[1] \in Int /\ x[1] <= sent /\ x[1] # sent
      BY <1>4, <2>4, <2>11 DEF SourceRow
    <3> QED BY <2>1, <2>3, <2>7, <2>8, <2>10, <2>11, <3>1 DEF Received
  <2>12. QueuedInOrder'
    <3> SUFFICES ASSUME NEW m \in 1 .. q + 1, Clean(m)'
                 PROVE  /\ queue'[m].index \in 1 .. sent /\ log[queue'[m].index].rows > 0 /\ queue'[m].row = 1
                        /\ queue'[m].cursor = CursorOf(queue[m].index)'
                        /\ \A x \in SourceRow : x[1] < queue'[m].index =>
                             x \in applied \/ \E k \in 1 .. m - 1 : queue'[k].index = x[1]
      BY <1>2, <2>8, <2>9 DEF QueuedInOrder
    <3>1. CASE m \in 1 .. q
      <4>1. queue'[m] = queue[m] /\ Clean(m) /\ \A k \in 1 .. m - 1 : queue'[k] = queue[k]
        BY <2>8, <3>1
      <4>2. /\ queue[m].index \in 1 .. sent /\ log[queue[m].index].rows > 0 /\ queue[m].row = 1
            /\ queue[m].cursor = CursorOf(queue[m].index)
            /\ \A x \in SourceRow : x[1] < queue[m].index =>
                 x \in applied \/ \E k \in 1 .. m - 1 : queue[k].index = x[1]
        BY <2>1, <2>8, <3>1, <4>1 DEF QueuedInOrder
      <4>3. queue'[m].cursor = CursorOf(queue[m].index)'
        BY <2>9, <4>1, <4>2
      <4> QED BY <4>1, <4>2, <4>3
    <3>2. CASE m = q + 1
      <4>1. queue'[m].index = i /\ queue'[m].row = 1 /\ queue'[m].cursor = CursorOf(i) /\ m - 1 = q
        BY <2>8, <3>2
      <4>2. queue'[m].cursor = CursorOf(queue[m].index)'
        BY <1>4, <2>9, <4>1
      <4>3. ASSUME NEW x \in SourceRow, x[1] < queue'[m].index
            PROVE  x \in applied \/ \E k \in 1 .. m - 1 : queue'[k].index = x[1]
        BY <2>11, <3>2, <4>1, <4>3
      <4> QED BY <1>4, <2>4, <4>1, <4>2, <4>3
    <3> QED BY <3>1, <3>2
  <2>13. Received'
    <3> SUFFICES ASSUME Clean(q + 1)', NEW x \in SourceRow, x[1] <= sent
                 PROVE  x \in applied \/ \E m \in 1 .. q + 1 : queue'[m].index = x[1]
      BY <1>2, <2>7, <2>8, <2>9 DEF Received, Clean, Failure
    <3>1. CASE x[1] < i
      BY <2>7, <2>11, <3>1
    <3>2. CASE x[1] = i
      BY <2>7, <2>8, <3>2
    <3>3. x[1] \in Int
      BY <1>4 DEF SourceRow
    <3> QED BY <1>4, <2>4, <3>1, <3>2, <3>3
  <2>14. Paced'
    <3>1. DOMAIN lookups' = {}
      BY <1>3, <2>4, LenProperties
    <3>2. FileOf(sent + 1)' = FileOf(sent + 1)
      BY <1>2 DEF FileOf
    <3> QED BY <1>2, <1>3, <2>1, <3>1, <3>2 DEF Paced
  <2> QED BY <2>12, <2>13, <2>14
<1>12. FeedKept'
  BY <1>2, <1>11, CursorKept
<1> QED BY <1>9, <1>10, <1>12 DEF FeedInv

\* After a failure nothing is promised of what is queued behind it.
LEMMA FailsKept ==
  ASSUME FeedInv, ConnectionFails \/ \E n \in DOMAIN lookups : LookupFails(n)
  PROVE  FeedInv'
<1>1. FeedTyped /\ FeedTypeOK /\ FeedKept
  BY DEF FeedInv
<1>2. /\ queue' = queue \o <<Failure>> /\ waiting' = FALSE
      /\ UNCHANGED <<feed, log, open, began, sent, file, keys, acked, saved, applied, attempts>>
      /\ UNCHANGED lookups \/ \E n \in DOMAIN lookups : lookups' = RemoveAt(lookups, n)
  BY DEF ConnectionFails, LookupFails, Queued
<1>3. open
  <2>1. CASE ConnectionFails
    BY <2>1 DEF ConnectionFails
  <2>2. CASE \E n \in DOMAIN lookups : LookupFails(n)
    <3>1. lookups # <<>>
      BY <2>2
    <3> QED BY <1>1, <3>1 DEF FeedTypeOK
  <2> QED BY <2>1, <2>2
<1>4. /\ lookups' \in Seq([index : 0 .. MaxLog, cached : BOOLEAN])
      /\ \A m \in DOMAIN lookups' : lookups'[m].index \in 1 .. sent /\ log[lookups'[m].index].table \in Chosen
      /\ feed.engine = "postgres" => lookups' = <<>>
  <2>1. CASE UNCHANGED lookups
    BY <1>1, <2>1 DEF FeedTyped, FeedTypeOK
  <2>2. CASE \E n \in DOMAIN lookups : lookups' = RemoveAt(lookups, n)
    <3>1. PICK n \in DOMAIN lookups : lookups' = RemoveAt(lookups, n)
      BY <2>2
    <3> QED BY <1>1, <1>2, <3>1, LookupTaken
  <2> QED BY <1>2, <2>1, <2>2
<1>5. <<Failure>> \in Seq(Item) /\ Len(<<Failure>>) = 1 /\ <<Failure>>[1] = Failure
  <2>1. Failure \in Item
    BY FeedAssumption DEF Failure, Item, Cursor
  <2> QED BY <2>1
<1>6. /\ queue' \in Seq(Item) /\ Len(queue') = Len(queue) + Len(<<Failure>>) /\ Len(queue) \in Nat
      /\ \A m \in 1 .. Len(queue) : queue'[m] = queue[m] /\ (Clean(m)' <=> Clean(m))
      /\ \A m \in 1 .. Len(<<Failure>>) : queue'[Len(queue) + m] = <<Failure>>[m]
  BY <1>1, <1>2, <1>5, QueueGrows
<1>7. FeedTypeOK'
  BY <1>1, <1>2, <1>3, <1>4 DEF FeedTypeOK
<1>8. FeedTyped'
  BY <1>1, <1>2, <1>4, <1>6 DEF FeedTyped
<1>9. ASSUME ~SkipsForeseen PROVE QueuedInOrder' /\ Received' /\ Paced'
  <2>1. QueuedInOrder /\ Paced
    BY <1>1, <1>3, <1>9 DEF FeedKept
  <2>2. PICK q \in Nat : q = Len(queue)
    BY <1>6
  <2>3. /\ Len(queue') = q + 1 /\ DOMAIN queue' = 1 .. q + 1 /\ DOMAIN queue = 1 .. q
        /\ \A m \in 1 .. q : queue'[m] = queue[m] /\ (Clean(m)' <=> Clean(m))
        /\ queue'[q + 1] = Failure
    <3>1. Len(queue') = q + 1 /\ queue'[q + 1] = Failure
      BY <1>5, <1>6, <2>2
    <3>2. DOMAIN queue' = 1 .. q + 1 /\ DOMAIN queue = 1 .. q
      BY <1>1, <1>6, <2>2, <3>1, LenProperties DEF FeedTyped
    <3> QED BY <1>6, <2>2, <3>1, <3>2
  <2>4. ~Clean(q + 1)'
    BY <2>3 DEF Clean, Failure
  <2>5. SourceRow' = SourceRow /\ \A j \in Nat : CursorOf(j)' = CursorOf(j)
    BY <1>2, LogKept
  <2>6. QueuedInOrder'
    <3> SUFFICES ASSUME NEW m \in 1 .. q, Clean(m)'
                 PROVE  /\ queue'[m].index \in 1 .. sent /\ log[queue'[m].index].rows > 0 /\ queue'[m].row = 1
                        /\ queue'[m].cursor = CursorOf(queue[m].index)'
                        /\ \A x \in SourceRow : x[1] < queue'[m].index =>
                             x \in applied \/ \E k \in 1 .. m - 1 : queue'[k].index = x[1]
      <4>1. \A m \in 1 .. q + 1 : m = q + 1 \/ m \in 1 .. q
        OBVIOUS
      <4>2. \A m \in DOMAIN queue' : Clean(m)' => m \in 1 .. q
        BY <2>3, <2>4, <4>1
      <4>3. sent' = sent /\ log' = log /\ applied' = applied
        BY <1>2
      <4> QED BY <2>5, <4>2, <4>3 DEF QueuedInOrder
    <3>1. queue'[m] = queue[m] /\ Clean(m) /\ \A k \in 1 .. m - 1 : queue'[k] = queue[k]
      BY <2>3
    <3>2. /\ queue[m].index \in 1 .. sent /\ log[queue[m].index].rows > 0 /\ queue[m].row = 1
          /\ queue[m].cursor = CursorOf(queue[m].index)
          /\ \A x \in SourceRow : x[1] < queue[m].index =>
               x \in applied \/ \E k \in 1 .. m - 1 : queue[k].index = x[1]
      BY <2>1, <2>3, <3>1 DEF QueuedInOrder
    <3>3. queue'[m].cursor = CursorOf(queue[m].index)'
      BY <2>5, <3>1, <3>2
    <3> QED BY <3>1, <3>2, <3>3
  <2>7. Received'
    BY <2>3, <2>4 DEF Received, Clean, Failure
  <2>8. Paced'
    <3>1. FileOf(sent + 1)' = FileOf(sent + 1)
      BY <1>2 DEF FileOf
    <3>2. CASE UNCHANGED lookups
      BY <1>2, <2>1, <3>1, <3>2 DEF Paced
    <3>3. CASE \E n \in DOMAIN lookups : lookups' = RemoveAt(lookups, n)
      <4>1. PICK n \in DOMAIN lookups : lookups' = RemoveAt(lookups, n)
        BY <3>3
      <4>2. n \in 1 .. Len(lookups) /\ Len(lookups') = Len(lookups) - 1 /\ feed.engine = "mysql"
        BY <1>1, <1>2, <4>1, LookupTaken
      <4>3. \A m \in DOMAIN lookups : m = 1
        BY <2>1, <4>2 DEF Paced
      <4>4. Len(lookups) = 1
        <5>1. DOMAIN lookups = 1 .. Len(lookups) /\ Len(lookups) \in Nat
          BY <1>1 DEF FeedTyped
        <5>2. Len(lookups) \in DOMAIN lookups
          BY <4>2, <5>1
        <5> QED BY <4>3, <5>2
      <4>5. DOMAIN lookups' = {}
        BY <1>4, <4>2, <4>4, LenProperties
      <4> QED BY <1>2, <2>1, <3>1, <4>5 DEF Paced
    <3> QED BY <1>2, <3>2, <3>3
  <2> QED BY <2>6, <2>7, <2>8
<1>10. FeedKept'
  BY <1>2, <1>9, CursorKept
<1> QED BY <1>7, <1>8, <1>10 DEF FeedInv

\* The event at the head is applied, and its cursor saved: what it covers is applied by then.
LEMMA YieldsKept ==
  ASSUME FeedInv, Yields
  PROVE  FeedInv'
<1>1. FeedTyped /\ FeedTypeOK /\ FeedKept
  BY DEF FeedInv
<1>2. /\ open /\ queue # <<>> /\ UNCHANGED <<feed, log, began, sent, file, acked, attempts>>
      /\ \/ Head(queue) = Failure /\ Stopped /\ UNCHANGED <<applied, saved>>
         \/ /\ Head(queue) # Failure
            /\ applied' = applied \cup {<<Head(queue).index, Head(queue).row>>} /\ saved' = Head(queue).cursor
            /\ queue' = Tail(queue) /\ UNCHANGED <<open, lookups, keys, waiting>>
  BY DEF Yields
<1>3. CASE Head(queue) = Failure
  <2>1. Stopped /\ UNCHANGED <<feed, log, began, sent, file, acked, attempts, applied, saved>>
    BY <1>2, <1>3
  <2>2. FeedTypeOK'
    BY <1>1, <2>1 DEF FeedTypeOK, Stopped
  <2>3. FeedTyped'
    BY <1>1, <2>1 DEF FeedTyped, Stopped
  <2>4. FeedKept'
    BY <2>1, CursorKept DEF Stopped
  <2> QED BY <2>2, <2>3, <2>4 DEF FeedInv
<1>4. CASE Head(queue) # Failure
  <2> DEFINE e == queue[1]
  <2>1. queue \in Seq(Item) /\ Len(queue) \in Nat /\ Len(queue) > 0 /\ DOMAIN queue = 1 .. Len(queue) /\ Head(queue) = e
    BY <1>1, <1>2 DEF FeedTyped
  <2>2. /\ applied' = applied \cup {<<e.index, e.row>>} /\ saved' = e.cursor /\ queue' = Tail(queue)
        /\ UNCHANGED <<feed, log, open, began, sent, file, lookups, keys, waiting, acked, attempts>>
    BY <1>2, <1>4, <2>1
  <2>3. e \in Item
    BY <2>1, ElementOfSeq
  <2>4. PICK q \in Nat : Len(queue) = q + 1
    <3>1. Len(queue) - 1 \in Nat /\ Len(queue) = (Len(queue) - 1) + 1
      BY <2>1
    <3> QED BY <3>1
  <2>5. /\ queue' \in Seq(Item) /\ Len(queue') = q /\ DOMAIN queue' = 1 .. q
        /\ \A n \in 1 .. q : queue'[n] = queue[n + 1] /\ n + 1 \in 1 .. q + 1
    <3>1. queue' \in Seq(Item) /\ Len(queue') = q /\ \A n \in 1 .. q : queue'[n] = queue[n + 1]
      BY <1>2, <2>1, <2>2, <2>4, HeadTailProperties
    <3> QED BY <3>1
  <2> HIDE DEF e
  <2>6. FeedTypeOK'
    <3>1. saved' \in Cursor
      BY <2>2, <2>3 DEF Item
    <3> QED BY <1>1, <1>2, <2>2, <3>1 DEF FeedTypeOK
  <2>7. FeedTyped'
    BY <1>1, <2>2, <2>5 DEF FeedTyped
  <2>8. ASSUME ~SkipsForeseen' PROVE FeedKept!2'
    <3>1. ~SkipsForeseen
      BY <2>2, <2>8 DEF SkipsForeseen
    <3>2. QueuedInOrder /\ Received /\ Paced
      BY <1>1, <1>2, <3>1 DEF FeedKept
    <3>3. Clean(1)
      BY <1>4, <2>1 DEF Clean, e
    <3>4. /\ e.index \in 1 .. sent /\ log[e.index].rows > 0 /\ e.row = 1 /\ e.cursor = CursorOf(e.index)
          /\ \A x \in SourceRow : x[1] < e.index => x \in applied
      <4>1. 1 \in DOMAIN queue /\ 1 .. 1 - 1 = {}
        BY <2>1
      <4> QED BY <3>2, <3>3, <4>1 DEF QueuedInOrder, e
    <3>5. /\ Len(log) \in Nat /\ DOMAIN log = 1 .. Len(log) /\ sent \in 0 .. Len(log)
          /\ e.index \in 0 .. Len(log) /\ e.index \in DOMAIN log /\ e.index \in Nat
      BY <1>1, <3>4 DEF FeedTyped, FeedTypeOK
    <3>6. SourceRow' = SourceRow /\ \A j \in Nat : CursorOf(j)' = CursorOf(j) /\ FileOf(j)' = FileOf(j)
      BY <2>2, LogKept
    <3>7. feed.rows = 1
      BY <1>1, <3>1 DEF SkipsForeseen, FeedTyped
    <3>8. \A x \in SourceRow : x[1] = e.index => x \in applied'
      <4> TAKE x \in SourceRow
      <4>1. x[1] \in 1 .. Len(log) /\ x = <<x[1], x[2]>> /\ x[2] \in {1, 2} /\ x[2] <= log[x[1]].rows
        BY <3>5 DEF SourceRow
      <4>2. log[x[1]].rows <= 1 /\ log[x[1]].rows \in Nat
        BY <1>1, <3>7, <4>1, EntryTyped
      <4>3. x[2] = 1
        BY <4>1, <4>2
      <4> QED BY <2>2, <3>4, <4>1, <4>3
    <3>9. \A x \in SourceRow : x[1] \in Int /\ (x \in applied => x \in applied')
      BY <2>2, <3>5 DEF SourceRow
    <3>10. PICK k \in 0 .. Len(log) : k = e.index
      BY <3>5
    <3>11. SavedAt(k)'
      BY <2>2, <3>4, <3>5, <3>6, <3>10 DEF SavedAt
    <3>12. Covered(k)'
      BY <3>4, <3>5, <3>6, <3>8, <3>9, <3>10 DEF Covered
    <3>13. \A n \in 0 .. q : Clean(n)' => Clean(n + 1)
      <4> SUFFICES ASSUME NEW n \in 0 .. q, Clean(n)', NEW m \in 1 .. n + 1
                   PROVE  queue[m] # Failure
        BY DEF Clean
      <4>1. CASE m = 1
        BY <3>3, <4>1 DEF Clean
      <4>2. CASE m # 1
        <5>1. m - 1 \in 1 .. n /\ m - 1 \in 1 .. q /\ (m - 1) + 1 = m
          BY <4>2
        <5>2. queue'[m - 1] # Failure
          BY <5>1 DEF Clean, Failure
        <5>3. queue'[m - 1] = queue[(m - 1) + 1]
          BY <2>5, <5>1
        <5> QED BY <5>1, <5>2, <5>3
      <4> QED BY <4>1, <4>2
    <3>14. \A x \in SourceRow, n \in 1 .. q + 1 :
             (\E m \in 1 .. n : queue[m].index = x[1]) =>
               x \in applied' \/ \E m \in 1 .. n - 1 : queue'[m].index = x[1]
      <4> SUFFICES ASSUME NEW x \in SourceRow, NEW n \in 1 .. q + 1, NEW m \in 1 .. n, queue[m].index = x[1]
                   PROVE  x \in applied' \/ \E l \in 1 .. n - 1 : queue'[l].index = x[1]
        OBVIOUS
      <4>1. CASE m = 1
        BY <3>8, <4>1 DEF e
      <4>2. CASE m # 1
        <5>1. m - 1 \in 1 .. n - 1 /\ m - 1 \in 1 .. q /\ (m - 1) + 1 = m
          BY <4>2
        <5>2. queue'[m - 1] = queue[m]
          BY <2>5, <5>1
        <5> QED BY <5>1, <5>2
      <4> QED BY <4>1, <4>2
    <3>15. QueuedInOrder'
      <4> SUFFICES ASSUME NEW n \in 1 .. q, Clean(n)'
                   PROVE  /\ queue'[n].index \in 1 .. sent /\ log[queue'[n].index].rows > 0 /\ queue'[n].row = 1
                          /\ queue'[n].cursor = CursorOf(queue[n].index)'
                          /\ \A x \in SourceRow : x[1] < queue'[n].index =>
                               x \in applied' \/ \E m \in 1 .. n - 1 : queue'[m].index = x[1]
        BY <2>2, <2>5, <3>6 DEF QueuedInOrder
      <4>1. n + 1 \in DOMAIN queue /\ n + 1 \in 1 .. q + 1 /\ n \in 0 .. q /\ (n + 1) - 1 = n /\ queue'[n] = queue[n + 1]
        BY <2>1, <2>4, <2>5
      <4>2. Clean(n + 1)
        BY <3>13, <4>1
      <4>3. /\ queue'[n].index \in 1 .. sent /\ log[queue'[n].index].rows > 0 /\ queue'[n].row = 1
            /\ queue'[n].cursor = CursorOf(queue'[n].index)
            /\ \A x \in SourceRow : x[1] < queue'[n].index =>
                 x \in applied \/ \E m \in 1 .. n : queue[m].index = x[1]
        BY <3>2, <4>1, <4>2 DEF QueuedInOrder
      <4>4. queue'[n].cursor = CursorOf(queue[n].index)'
        BY <3>5, <3>6, <4>3
      <4>5. ASSUME NEW x \in SourceRow, x[1] < queue'[n].index
            PROVE  x \in applied' \/ \E m \in 1 .. n - 1 : queue'[m].index = x[1]
        <5>1. CASE x \in applied
          BY <3>9, <5>1
        <5>2. CASE \E m \in 1 .. n : queue[m].index = x[1]
          <6>1. n \in 1 .. q + 1
            BY <4>1
          <6> QED BY <3>14, <5>2, <6>1
        <5> QED BY <4>3, <4>5, <5>1, <5>2
      <4> QED BY <4>3, <4>4, <4>5
    <3>16. Received'
      <4> SUFFICES ASSUME Clean(q)', NEW x \in SourceRow, x[1] <= sent
                   PROVE  \/ x \in applied' \/ \E n \in 1 .. q : queue'[n].index = x[1]
                          \/ \E n \in DOMAIN lookups : lookups[n].index = x[1]
        BY <2>2, <2>5, <3>6 DEF Received, Clean, Failure
      <4>1. q \in 0 .. q /\ q + 1 \in 1 .. q + 1 /\ (q + 1) - 1 = q
        OBVIOUS
      <4>2. Clean(q + 1)
        BY <3>13, <4>1
      <4>3. \/ x \in applied \/ \E n \in 1 .. q + 1 : queue[n].index = x[1]
            \/ \E n \in DOMAIN lookups : lookups[n].index = x[1]
        BY <2>1, <2>4, <3>2, <4>2 DEF Received
      <4>4. (\E n \in 1 .. q + 1 : queue[n].index = x[1]) =>
               x \in applied' \/ \E n \in 1 .. q : queue'[n].index = x[1]
        BY <3>14, <4>1
      <4> QED BY <3>9, <4>3, <4>4
    <3>17. Paced'
      <4>1. FileOf(sent + 1)' = FileOf(sent + 1)
        BY <2>2 DEF FileOf
      <4> QED BY <2>2, <3>2, <4>1 DEF Paced
    <3> QED BY <2>2, <3>10, <3>11, <3>12, <3>15, <3>16, <3>17
  <2> QED BY <2>6, <2>7, <2>8 DEF FeedInv, FeedKept
<1> QED BY <1>3, <1>4

\* The steps that receive nothing and apply nothing.
LEMMA OthersKept ==
  ASSUME FeedInv, AutoAcknowledges \/ IteratorWaits \/ SyncStops \/ UNCHANGED feedVars
  PROVE  FeedInv'
<1>1. FeedTyped /\ FeedTypeOK /\ FeedKept
  BY DEF FeedInv
<1>2. CASE SyncStops
  <2>1. Stopped /\ UNCHANGED <<feed, log, began, sent, file, acked, attempts, applied, saved>>
    BY <1>2 DEF SyncStops
  <2>2. FeedTypeOK'
    BY <1>1, <2>1 DEF FeedTypeOK, Stopped
  <2>3. FeedTyped'
    BY <1>1, <2>1 DEF FeedTyped, Stopped
  <2>4. FeedKept'
    BY <2>1, CursorKept DEF Stopped
  <2> QED BY <2>2, <2>3, <2>4 DEF FeedInv
<1>3. CASE AutoAcknowledges \/ IteratorWaits \/ UNCHANGED feedVars
  <2>1. UNCHANGED <<feed, log, open, began, sent, file, lookups, keys, queue, saved, applied, attempts>>
    BY <1>3 DEF AutoAcknowledges, IteratorWaits, feedVars
  <2>2. FeedTypeOK'
    BY <1>1, <1>3, <2>1 DEF FeedTypeOK, AutoAcknowledges, IteratorWaits, feedVars
  <2>3. attempts = 0 => acked' = 0 /\ ~open
    BY <1>1, <1>3 DEF FeedTyped, AutoAcknowledges, IteratorWaits, feedVars
  <2>4. FeedTyped'
    BY <1>1, <2>1, <2>3 DEF FeedTyped
  <2>5. ASSUME ~SkipsForeseen, open' PROVE QueuedInOrder' /\ Received' /\ Paced'
    <3>1. QueuedInOrder /\ Received /\ Paced
      BY <1>1, <2>1, <2>5 DEF FeedKept
    <3>2. SourceRow' = SourceRow /\ \A j \in Nat : CursorOf(j)' = CursorOf(j)
      BY <2>1, LogKept
    <3>3. QueuedInOrder'
      <4> SUFFICES ASSUME NEW n \in DOMAIN queue, Clean(n)
                   PROVE  /\ queue[n].index \in 1 .. sent /\ log[queue[n].index].rows > 0 /\ queue[n].row = 1
                          /\ queue[n].cursor = CursorOf(queue[n].index)'
                          /\ \A x \in SourceRow : x[1] < queue[n].index =>
                               x \in applied \/ \E m \in 1 .. n - 1 : queue[m].index = x[1]
        BY <2>1, <3>2 DEF QueuedInOrder, Clean, Failure
      <4>1. /\ queue[n].index \in 1 .. sent /\ log[queue[n].index].rows > 0 /\ queue[n].row = 1
            /\ queue[n].cursor = CursorOf(queue[n].index)
            /\ \A x \in SourceRow : x[1] < queue[n].index =>
                 x \in applied \/ \E m \in 1 .. n - 1 : queue[m].index = x[1]
        BY <3>1 DEF QueuedInOrder
      <4>2. queue[n].cursor = CursorOf(queue[n].index)'
        BY <2>1, <3>2, <4>1
      <4> QED BY <4>1, <4>2
    <3>4. Received'
      BY <2>1, <3>1, <3>2 DEF Received, Clean, Failure
    <3>5. Paced'
      <4>1. FileOf(sent + 1)' = FileOf(sent + 1)
        BY <2>1 DEF FileOf
      <4> QED BY <2>1, <3>1, <4>1 DEF Paced
    <3> QED BY <3>3, <3>4, <3>5
  <2>6. FeedKept'
    BY <2>1, <2>5, CursorKept
  <2> QED BY <2>2, <2>4, <2>6 DEF FeedInv
<1> QED BY <1>2, <1>3

LEMMA FeedStart == FeedInit => FeedInv
<1> SUFFICES ASSUME FeedInit PROVE FeedInv
  OBVIOUS
<1>1. FeedTypeOK
  BY FeedAssumption DEF FeedInit, FeedTypeOK, Cursor
<1>2. FeedTyped
  BY FeedAssumption DEF FeedInit, FeedTyped
<1>3. SavedAt(0) /\ Covered(0) /\ 0 \in 0 .. Len(log)
  BY DEF FeedInit, SavedAt, Covered, SourceRow
<1> QED BY <1>1, <1>2, <1>3 DEF FeedInv, FeedKept, FeedInit

LEMMA FeedStep == FeedInv /\ [FeedNext]_feedVars => FeedInv'
<1> SUFFICES ASSUME FeedInv, [FeedNext]_feedVars PROVE FeedInv'
  OBVIOUS
<1>1. CASE SourceRotates \/ \E t \in Table, n \in {1, 2}, m \in BOOLEAN : SourceWrites(t, n, m)
  BY <1>1, WritesKept
<1>2. CASE StreamOpens
  BY <1>2, OpensKept
<1>3. CASE RotateArrives
  BY <1>3, RotateKept
<1>4. CASE RowsArrive
  BY <1>4, ArriveKept
<1>5. CASE \E n \in DOMAIN lookups : LookupResolves(n)
  BY <1>5, ResolvesKept
<1>6. CASE ConnectionFails \/ \E n \in DOMAIN lookups : LookupFails(n)
  BY <1>6, FailsKept
<1>7. CASE Yields
  BY <1>7, YieldsKept
<1>8. CASE AutoAcknowledges \/ IteratorWaits \/ SyncStops \/ UNCHANGED feedVars
  BY <1>8, OthersKept
<1> QED BY <1>1, <1>2, <1>3, <1>4, <1>5, <1>6, <1>7, <1>8 DEF FeedNext

LEMMA FeedSafe == FeedSpec => []FeedInv
<1> QED BY FeedStart, FeedStep, PTL DEF FeedSpec

\* The state of a feed is what its declarations say: the cursor and the slot stay within the log,
\* a waiting iterator has an open stream and an empty queue, and a closed stream leaves nothing behind
\* (the fields and the finally blocks of the two adapters).
THEOREM FeedTypeCorrect == FeedSpec => []FeedTypeOK
<1>1. FeedInv => FeedTypeOK
  BY DEF FeedInv
<1> QED BY FeedSafe, <1>1, PTL

\* Outside the cases SkipsForeseen names, no row of the listed tables falls behind the saved cursor, or
\* behind where the next stream starts, without having been applied: whatever the order of events, file
\* changes, lookups, failures, pauses and restarts (stream and captureStartCursor of the two adapters).
THEOREM RowsKeptHolds == FeedSpec => []RowsKept
<1>1. FeedInv => RowsKept
  <2> SUFFICES ASSUME FeedInv, ~SkipsForeseen
               PROVE  /\ Skipped = {}
                      /\ ~open /\ feed.engine = "mysql" =>
                           ~StartFails /\ \A x \in SourceRow \ applied : x[1] > StartAt
    BY DEF RowsKept
  <2>1. PICK k \in 0 .. Len(log) : SavedAt(k) /\ Covered(k)
    BY DEF FeedInv, FeedKept
  <2>2. FeedTyped
    BY DEF FeedInv
  <2>3. /\ Behind(saved) = k /\ ~StartFails
        /\ \A i \in 1 .. Len(log) : AtOrBefore(CursorOf(i), saved) <=> i <= k
    BY <2>1, <2>2, BehindEntry
  <2>4. \A x \in SourceRow : x[1] \in 1 .. Len(log) /\ x[1] \in Int
    BY <2>2 DEF FeedTyped, SourceRow
  <2>5. Skipped = {}
    BY <2>1, <2>3, <2>4 DEF Skipped, Covered
  <2>6. ASSUME feed.engine = "mysql" PROVE \A x \in SourceRow \ applied : x[1] > StartAt
    <3>1. k \in Int /\ StartAt = k
      BY <2>1, <2>2, <2>3, <2>6 DEF StartAt, FeedTyped
    <3> QED BY <2>1, <2>4, <3>1 DEF Covered
  <2> QED BY <2>3, <2>5, <2>6
<1> QED BY FeedSafe, <1>1, PTL
-----------------------------------------------------------------------------
(* The explorer: the definitions. *)

PageRequest == {Quiet, Sent} \cup [at : {"read"}, rows : SUBSET RowNo]

BrowseTyped ==
  /\ sorted \in {"key", "ctid", "first", "none"}
  /\ listing \in Seq(1 .. born) /\ Len(listing) <= born
  /\ asked \in [Page -> PageRequest]
  /\ since \subseteq 1 .. born
  /\ disturbed = {} => since \subseteq Contents(listing)

\* The rows of the last read of a page, whether its answer has come or not.
Seen(p) == IF asked[p].at = "read" THEN asked[p].rows ELSE pages[p].rows
SeenUpTo(p) == UNION {Seen(q) : q \in 0 .. p}
Chain(p) == 0 .. p \subseteq chained

\* A row that was there all the time is on a page that was read, or has been
\* moved behind the last of them by the rows that were inserted.
SeenOrBehind ==
  Ordered /\ disturbed = {} =>
    \A p \in Page : Chain(p) => \A i \in DOMAIN listing :
      listing[i] \in since \ SeenUpTo(p) => i > (p + 1) * PageSize

\* The page whose answer said that it is the last.
SeenAll ==
  Ordered /\ disturbed = {} =>
    \A p \in Page : Chain(p) /\ asked[p].at # "read" /\ pages[p].total <= (p + 1) * PageSize =>
      since \subseteq SeenUpTo(p)

BrowseInv == BrowseTypeOK /\ BrowseTyped /\ SeenOrBehind /\ SeenAll
-----------------------------------------------------------------------------
(* The explorer: the table and what a query reads of it. *)

LEMMA PagesTyped ==
  /\ PageSize \in Nat /\ PageSize > 0 /\ MaxRows \in Nat /\ MaxRows > 0 /\ PageSize <= MaxRows
  /\ (MaxRows - 1) \div PageSize \in Nat /\ 0 \in Page /\ Page \subseteq Nat
<1>1. PageSize \in Nat /\ PageSize > 0 /\ MaxRows \in Nat /\ MaxRows > 0 /\ MaxRows - 1 \in Nat /\ PageSize <= MaxRows
  BY BrowseAssumption
<1>2. (MaxRows - 1) \div PageSize \in Nat
  BY <1>1, DivNat
<1> QED BY <1>1, <1>2 DEF Page

LEMMA BrowseTypes ==
  ASSUME BrowseInv
  PROVE  /\ BrowseTypeOK /\ BrowseTyped /\ SeenOrBehind /\ SeenAll
         /\ born \in 0 .. MaxRows /\ at \in Page /\ chained \subseteq Page /\ pages \in [Page -> Answer]
         /\ asked \in [Page -> PageRequest] /\ listing \in Seq(1 .. born) /\ Len(listing) \in 0 .. born
         /\ since \subseteq 1 .. born
BY DEF BrowseInv, BrowseTypeOK, BrowseTyped

\* A page holds rows of the table; in the table's own order, those of its positions.
LEMMA PageHolds ==
  ASSUME BrowseInv, NEW s \in Orders, NEW p \in Page
  PROVE  /\ OffsetLimit(s, p) \subseteq RowNo
         /\ Ordered => \A i \in DOMAIN listing :
              p * PageSize < i /\ i <= (p + 1) * PageSize => listing[i] \in OffsetLimit(s, p)
<1>1. Contents(s) = Contents(listing)
  BY DEF Orders
<1>2. OffsetLimit(s, p) \subseteq Contents(s)
  BY DEF OffsetLimit, Contents
<1>3. Contents(listing) \subseteq RowNo
  BY DEF BrowseInv, BrowseTypeOK
<1>4. ASSUME Ordered, NEW i \in DOMAIN listing, p * PageSize < i /\ i <= (p + 1) * PageSize
      PROVE  listing[i] \in OffsetLimit(s, p)
  BY <1>4 DEF Orders, OffsetLimit
<1> QED BY <1>1, <1>2, <1>3, <1>4

-----------------------------------------------------------------------------
(* The explorer: the steps. *)

\* Nothing a page was read after, and no answer.
LEMMA SeenKept ==
  ASSUME UNCHANGED pages, \A p \in Page : Seen(p)' = Seen(p)
  PROVE  \A p \in Page : SeenUpTo(p)' = SeenUpTo(p)
<1>1. \A p \in Page : 0 .. p \subseteq Page
  BY PagesTyped DEF Page
<1> QED BY <1>1 DEF SeenUpTo

\* The table with the next row in it.
LEMMA RowInTable ==
  ASSUME NEW n \in Nat, NEW s \in Seq(1 .. n), NEW i \in 1 .. Len(s) + 1
  PROVE  /\ InsertAt(s, i, n + 1) \in Seq(1 .. n + 1) /\ Len(InsertAt(s, i, n + 1)) = Len(s) + 1
         /\ \A k \in 1 .. Len(s) + 1 :
              InsertAt(s, i, n + 1)[k] = (IF k < i THEN s[k] ELSE IF k = i THEN n + 1 ELSE s[k - 1])
<1>1. PICK S : S = 1 .. n + 1
  OBVIOUS
<1>2. s \in Seq(S)
  <2>1. 1 .. n \subseteq S
    BY <1>1
  <2> QED BY <2>1, SeqMonotonic
<1>3. PICK e : e = n + 1
  OBVIOUS
<1>4. e \in S
  BY <1>1, <1>3
<1>5. InsertAt(s, i, e) \in Seq(S) /\ Len(InsertAt(s, i, e)) = Len(s) + 1
  BY <1>2, <1>4, Inserted
<1>6. Widened(InsertAt(s, i, e), s, i, e)
  BY <1>2, <1>4, Inserted
<1> QED BY <1>1, <1>3, <1>5, <1>6 DEF Widened

LEMMA InsertStep ==
  ASSUME BrowseInv, NEW i \in 1 .. Len(listing) + 1, RowInserted(i)
  PROVE  BrowseInv'
<1>1. /\ born < MaxRows /\ born' = born + 1 /\ listing' = InsertAt(listing, i, born + 1)
      /\ UNCHANGED <<sorted, at, pages, asked, chained, since, disturbed>>
  BY DEF RowInserted
<1>2. born \in Nat /\ MaxRows \in Nat /\ Len(listing) \in Nat
  BY PagesTyped, BrowseTypes
<1>3. /\ listing' \in Seq(1 .. born + 1) /\ Len(listing') = Len(listing) + 1
      /\ \A k \in 1 .. Len(listing) + 1 :
           listing'[k] = (IF k < i THEN listing[k] ELSE IF k = i THEN born + 1 ELSE listing[k - 1])
  <2>1. listing \in Seq(1 .. born)
    BY BrowseTypes
  <2>2. /\ InsertAt(listing, i, born + 1) \in Seq(1 .. born + 1)
        /\ Len(InsertAt(listing, i, born + 1)) = Len(listing) + 1
    BY <1>2, <2>1, RowInTable, Zenon
  <2>3. \A k \in 1 .. Len(listing) + 1 :
          InsertAt(listing, i, born + 1)[k] =
            (IF k < i THEN listing[k] ELSE IF k = i THEN born + 1 ELSE listing[k - 1])
    BY <1>2, <2>1, RowInTable, SMT
  <2> QED BY <1>1, <2>2, <2>3
<1>4. DOMAIN listing = 1 .. Len(listing) /\ DOMAIN listing' = 1 .. Len(listing')
  BY <1>3, BrowseTypes
<1>5. \A k \in DOMAIN listing : \E m \in DOMAIN listing' : listing'[m] = listing[k]
  <2> TAKE k \in DOMAIN listing
  <2>1. CASE k < i
    <3>1. k \in 1 .. Len(listing) + 1 /\ k \in DOMAIN listing'
      BY <1>2, <1>3, <1>4
    <3> QED BY <1>3, <2>1, <3>1
  <2>2. CASE k >= i
    <3>1. k + 1 \in 1 .. Len(listing') /\ ~(k + 1 < i) /\ k + 1 # i /\ (k + 1) - 1 = k
      BY <1>2, <1>3, <1>4, <2>2
    <3> QED BY <1>3, <1>4, <3>1
  <2> QED BY <1>2, <1>4, <2>1, <2>2
<1>6. Contents(listing)' \subseteq RowNo
  <2>1. \A k \in DOMAIN listing' : listing'[k] \in 1 .. born + 1
    BY <1>3, LenProperties
  <2>2. 1 .. born + 1 \subseteq RowNo
    BY <1>1, <1>2 DEF RowNo
  <2> QED BY <2>1, <2>2 DEF Contents
<1>7. BrowseTypeOK'
  BY <1>1, <1>2, <1>6, BrowseTypes DEF BrowseTypeOK
<1>8. disturbed' = {} => since' \subseteq Contents(listing)'
  <2>1. Contents(listing) \subseteq Contents(listing')
    BY <1>5 DEF Contents
  <2> QED BY <1>1, <2>1, BrowseTypes DEF BrowseTyped, Contents
<1>9. BrowseTyped'
  <2>1. Len(listing') <= born' /\ listing' \in Seq(1 .. born')
    <3>1. Len(listing) <= born
      BY BrowseTypes
    <3>2. Len(listing') <= born + 1
      BY <1>2, <1>3, <3>1
    <3> QED BY <1>1, <1>3, <3>2
  <2>2. since' \subseteq 1 .. born'
    BY <1>1, <1>2, BrowseTypes
  <2> QED BY <1>1, <1>8, <2>1, <2>2, BrowseTypes DEF BrowseTyped
<1>10. \A p \in Page : SeenUpTo(p)' = SeenUpTo(p)
  BY <1>1, SeenKept DEF Seen
<1>11. SeenOrBehind'
  <2> SUFFICES ASSUME Ordered, disturbed = {}, NEW p \in Page, Chain(p), NEW k \in DOMAIN listing',
                      listing'[k] \in since, listing'[k] \notin SeenUpTo(p)
               PROVE  k > (p + 1) * PageSize
    BY <1>1, <1>10 DEF Ordered, SeenOrBehind, Chain
  <2>1. \A j \in DOMAIN listing : listing[j] \in since \ SeenUpTo(p) => j > (p + 1) * PageSize
    BY BrowseTypes DEF SeenOrBehind
  <2>2. k # i
    BY <1>2, <1>3, <1>4, BrowseTypes
  <2>3. CASE k < i
    BY <1>2, <1>3, <1>4, <2>1, <2>3
  <2>4. CASE k > i
    <3>1. k - 1 \in DOMAIN listing /\ listing'[k] = listing[k - 1]
      BY <1>2, <1>3, <1>4, <2>4
    <3>2. k - 1 > (p + 1) * PageSize /\ k \in Int /\ (p + 1) * PageSize \in Int
      BY <1>4, <2>1, <3>1, PagesTyped
    <3> QED BY <3>2
  <2> QED BY <1>2, <1>4, <2>2, <2>3, <2>4
<1>12. SeenAll'
  BY <1>1, <1>10, BrowseTypes DEF Ordered, SeenAll, Chain
<1> QED BY <1>7, <1>9, <1>11, <1>12 DEF BrowseInv

LEMMA DeleteRowStep ==
  ASSUME BrowseInv, NEW i \in DOMAIN listing, RowDeleted(i)
  PROVE  BrowseInv'
<1>1. /\ listing' = RemoveAt(listing, i) /\ disturbed' = disturbed \cup {"deleted"}
      /\ UNCHANGED <<sorted, born, at, pages, asked, chained, since>>
  BY DEF RowDeleted
<1>2. listing' \in Seq(1 .. born) /\ Len(listing') = Len(listing) - 1
  <2>1. listing \in Seq(1 .. born) /\ i \in 1 .. Len(listing)
    BY BrowseTypes
  <2> QED BY <1>1, <2>1, Removed, Zenon
<1>3. Contents(listing)' \subseteq RowNo
  <2>1. \A k \in DOMAIN listing' : listing'[k] \in 1 .. born
    BY <1>2, LenProperties
  <2>2. 1 .. born \subseteq RowNo
    BY BrowseTypes, PagesTyped DEF RowNo
  <2> QED BY <2>1, <2>2 DEF Contents
<1>4. BrowseTypeOK'
  BY <1>1, <1>3, BrowseTypes DEF BrowseTypeOK
<1>6. BrowseTyped'
  <2>1. Len(listing') <= born
    BY <1>2, BrowseTypes
  <2> QED BY <1>1, <1>2, <2>1, BrowseTypes DEF BrowseTyped
<1>5. SeenOrBehind' /\ SeenAll'
  BY <1>1 DEF SeenOrBehind, SeenAll
<1> QED BY <1>4, <1>5, <1>6 DEF BrowseInv

\* A new version of a row, somewhere else.
LEMMA UpdateRowStep ==
  ASSUME BrowseInv, NEW i \in DOMAIN listing, NEW j \in DOMAIN listing, RowUpdated(i, j)
  PROVE  BrowseInv'
<1>1. /\ listing' = InsertAt(RemoveAt(listing, i), j, listing[i])
      /\ disturbed' = disturbed \cup {"moved"}
      /\ UNCHANGED <<sorted, born, at, pages, asked, chained, since>>
  BY DEF RowUpdated
<1>2. listing' \in Seq(1 .. born) /\ Len(listing') = Len(listing)
  <2>1. listing \in Seq(1 .. born) /\ i \in 1 .. Len(listing) /\ j \in 1 .. Len(listing)
    BY BrowseTypes
  <2>2. RemoveAt(listing, i) \in Seq(1 .. born) /\ Len(RemoveAt(listing, i)) = Len(listing) - 1
    BY <2>1, Removed, Zenon
  <2>5. Len(listing) \in Nat
    BY BrowseTypes
  <2>6. (Len(listing) - 1) + 1 = Len(listing)
    BY <2>5
  <2>3. j \in 1 .. Len(RemoveAt(listing, i)) + 1 /\ listing[i] \in 1 .. born
    <3>1. listing[i] \in 1 .. born
      BY <2>1, LenProperties
    <3> QED BY <2>1, <2>2, <2>6, <3>1
  <2>4. /\ InsertAt(RemoveAt(listing, i), j, listing[i]) \in Seq(1 .. born)
        /\ Len(InsertAt(RemoveAt(listing, i), j, listing[i])) = Len(RemoveAt(listing, i)) + 1
    BY <2>2, <2>3, Inserted, Zenon
  <2> QED BY <1>1, <2>2, <2>4, <2>6
<1>3. Contents(listing)' \subseteq RowNo
  <2>1. \A k \in DOMAIN listing' : listing'[k] \in 1 .. born
    BY <1>2, LenProperties
  <2>2. 1 .. born \subseteq RowNo
    BY BrowseTypes, PagesTyped DEF RowNo
  <2> QED BY <2>1, <2>2 DEF Contents
<1>4. BrowseTypeOK'
  BY <1>1, <1>3, BrowseTypes DEF BrowseTypeOK
<1>6. BrowseTyped'
  <2>1. Len(listing') <= born
    BY <1>2, BrowseTypes
  <2> QED BY <1>1, <1>2, <2>1, BrowseTypes DEF BrowseTyped
<1>5. SeenOrBehind' /\ SeenAll'
  BY <1>1 DEF SeenOrBehind, SeenAll
<1> QED BY <1>4, <1>5, <1>6 DEF BrowseInv

\* The pages before one, and their union.
LEMMA UpTo ==
  ASSUME NEW p \in Page
  PROVE  /\ p \in Nat /\ 0 .. p \subseteq Page
         /\ p # 0 => p - 1 \in Page /\ 0 .. p = 0 .. (p - 1) \cup {p}
                     /\ SeenUpTo(p) = SeenUpTo(p - 1) \cup Seen(p)
         /\ p = 0 => SeenUpTo(p) = Seen(p)
<1>1. p \in Nat /\ 0 .. p \subseteq Page
  BY PagesTyped DEF Page
<1>2. ASSUME p # 0 PROVE p - 1 \in Page /\ 0 .. p = 0 .. (p - 1) \cup {p}
  BY <1>1, <1>2, PagesTyped DEF Page
<1>3. ASSUME p = 0 PROVE SeenUpTo(p) = Seen(p)
  <2>1. 0 .. p = {0}
    BY <1>3
  <2> QED BY <1>3, <2>1 DEF SeenUpTo
<1>4. ASSUME p # 0 PROVE SeenUpTo(p) = SeenUpTo(p - 1) \cup Seen(p)
  <2>1. 0 .. p = 0 .. (p - 1) \cup {p}
    BY <1>2, <1>4
  <2> QED BY <2>1 DEF SeenUpTo
<1> QED BY <1>1, <1>2, <1>3, <1>4

\* The view, and a page that is asked for.
LEMMA AskStep ==
  ASSUME BrowseInv, SelectTable \/ NextPage \/ PreviousPage \/ AskPage \/ UNCHANGED browseVars
  PROVE  BrowseInv'
<1>1. UNCHANGED <<sorted, listing, born, pages, chained, since, disturbed>>
  BY DEF SelectTable, NextPage, PreviousPage, AskPage, Turns, browseVars
<1>2. at' \in Page
  <2>1. CASE PreviousPage
    BY <2>1, BrowseTypes, PagesTyped DEF PreviousPage, Turns, Page
  <2>2. CASE SelectTable \/ NextPage \/ AskPage \/ UNCHANGED browseVars
    BY <2>2, BrowseTypes, PagesTyped DEF SelectTable, NextPage, AskPage, Turns, browseVars
  <2> QED BY <2>1, <2>2
<1>3. /\ asked' \in [Page -> PageRequest]
      /\ \A p \in Page : asked'[p] = asked[p] \/ (asked[p].at = "quiet" /\ asked'[p].at = "sent")
  <2>1. CASE AskPage
    <3>1. asked[at].at = "quiet" /\ asked' = [asked EXCEPT ![at] = Sent] /\ Sent.at = "sent" /\ Sent \in PageRequest
      BY <2>1 DEF AskPage, Quiet, Sent, PageRequest
    <3> QED BY <3>1, BrowseTypes
  <2>2. CASE asked' = asked
    BY <2>2, BrowseTypes
  <2> QED BY <2>1, <2>2 DEF SelectTable, NextPage, PreviousPage, Turns, browseVars
<1>4. \A p \in Page : Seen(p)' = Seen(p) /\ (asked'[p].at = "read" <=> asked[p].at = "read")
  BY <1>1, <1>3 DEF Seen
<1>5. \A p \in Page : SeenUpTo(p)' = SeenUpTo(p)
  BY <1>1, <1>4, SeenKept
<1>6. BrowseTypeOK'
  <2>1. \A p \in Page : asked'[p].at \in {"quiet", "sent", "read"}
    BY <1>3, BrowseTypes DEF BrowseTypeOK
  <2> QED BY <1>1, <1>2, <2>1, BrowseTypes DEF BrowseTypeOK, Contents
<1>7. BrowseTyped'
  BY <1>1, <1>3, BrowseTypes DEF BrowseTyped, Contents
<1>8. SeenOrBehind'
  BY <1>1, <1>5, BrowseTypes DEF Ordered, SeenOrBehind, Chain
<1>9. SeenAll'
  BY <1>1, <1>4, <1>5, BrowseTypes DEF Ordered, SeenAll, Chain
<1> QED BY <1>6, <1>7, <1>8, <1>9 DEF BrowseInv

\* The page of the query that is answered first: its rows.
LEMMA ReadStep ==
  ASSUME BrowseInv, NEW p \in Page, asked[p] = Sent, FetchPage(p)
  PROVE  BrowseInv'
<1>1. /\ Reads(p) /\ UNCHANGED <<sorted, listing, born, at, pages>>
      /\ \E s \in Orders : asked' = [asked EXCEPT ![p] = [at |-> "read", rows |-> OffsetLimit(s, p)]]
  BY DEF FetchPage, Sent
<1>2. PICK s \in Orders : asked' = [asked EXCEPT ![p] = [at |-> "read", rows |-> OffsetLimit(s, p)]]
  BY <1>1
<1>3. /\ OffsetLimit(s, p) \subseteq RowNo
      /\ Ordered => \A i \in DOMAIN listing :
           p * PageSize < i /\ i <= (p + 1) * PageSize => listing[i] \in OffsetLimit(s, p)
  BY PageHolds
<1>4. /\ asked' \in [Page -> PageRequest] /\ asked'[p].at = "read" /\ asked'[p].rows = OffsetLimit(s, p)
      /\ \A q \in Page \ {p} : asked'[q] = asked[q]
  <2>1. PICK x \in PageRequest : x = [at |-> "read", rows |-> OffsetLimit(s, p)]
    BY <1>3 DEF PageRequest
  <2> QED BY <1>2, <2>1, BrowseTypes
<1>5. Seen(p)' = OffsetLimit(s, p) /\ \A q \in Page \ {p} : Seen(q)' = Seen(q)
  BY <1>1, <1>4 DEF Seen
<1>6. p \in Nat /\ \A q \in Page : q \in Nat /\ 0 .. q \subseteq Page
  BY UpTo
<1>7. \A q \in Page : q < p => SeenUpTo(q)' = SeenUpTo(q)
  BY <1>5, <1>6 DEF SeenUpTo
<1>8. /\ chained' = (IF p = 0 \/ p - 1 \in chained THEN chained \cup {p} ELSE chained \ {p}) \ {p + 1}
      /\ p = 0 => since' = Contents(listing) /\ disturbed' = {}
      /\ p # 0 => since' = since /\ disturbed' = disturbed
  BY <1>1 DEF Reads
\* A chain that goes up to this page or below it is the old one; none goes past it.
<1>9. \A q \in Page : Chain(q)' => q <= p /\ (q < p => Chain(q)) /\ (q = p /\ p # 0 => Chain(p - 1))
  <2> SUFFICES ASSUME NEW q \in Page, 0 .. q \subseteq chained'
               PROVE  q <= p /\ (q < p => 0 .. q \subseteq chained) /\ (q = p /\ p # 0 => 0 .. (p - 1) \subseteq chained)
    BY DEF Chain
  <2>1. p + 1 \notin chained' /\ q <= p
    BY <1>6, <1>8
  <2> QED BY <1>6, <1>8, <2>1
<1>10. chained' \subseteq Page
  BY <1>8, BrowseTypes
<1>11. Contents(listing) \subseteq RowNo /\ Contents(listing) \subseteq 1 .. born
  <2>1. \A i \in DOMAIN listing : listing[i] \in 1 .. born
    BY BrowseTypes, LenProperties
  <2>2. 1 .. born \subseteq RowNo
    BY BrowseTypes, PagesTyped DEF RowNo
  <2> QED BY <2>1, <2>2 DEF Contents
<1>12. since' \subseteq RowNo /\ since' \subseteq 1 .. born /\ disturbed' \subseteq {"deleted", "moved"}
       /\ (disturbed' = {} => since' \subseteq Contents(listing))
  <2>1. CASE p = 0
    BY <1>8, <1>11, <2>1
  <2>2. CASE p # 0
    BY <1>8, <2>2, BrowseTypes DEF BrowseTyped, BrowseTypeOK
  <2> QED BY <2>1, <2>2
<1>13. BrowseTypeOK'
  <2>1. \A q \in Page : asked'[q].at \in {"quiet", "sent", "read"}
    BY <1>4, BrowseTypes DEF BrowseTypeOK
  <2> QED BY <1>1, <1>10, <1>12, <2>1, BrowseTypes DEF BrowseTypeOK, Contents
<1>14. BrowseTyped'
  BY <1>1, <1>4, <1>12, BrowseTypes DEF BrowseTyped, Contents
<1>15. SeenOrBehind'
  <2> SUFFICES ASSUME Ordered, disturbed' = {}, NEW q \in Page, Chain(q)', NEW i \in DOMAIN listing,
                      listing[i] \in since', listing[i] \notin SeenUpTo(q)'
               PROVE  i > (q + 1) * PageSize
    BY <1>1 DEF Ordered, SeenOrBehind
  <2>1. CASE q < p
    <3>1. p # 0 /\ Chain(q) /\ listing[i] \notin SeenUpTo(q)
      BY <1>6, <1>7, <1>9, <2>1
    <3> QED BY <1>8, <3>1, BrowseTypes DEF SeenOrBehind
  <2>2. CASE q = p
    <3>1. listing[i] \notin OffsetLimit(s, p)
      BY <1>5, <1>6, <2>2 DEF SeenUpTo
    <3>2. i \in Nat /\ p * PageSize \in Nat /\ (p + 1) * PageSize \in Nat
      BY <1>6, PagesTyped, BrowseTypes
    <3>3. i > p * PageSize
      <4>1. CASE p = 0
        BY <3>2, <4>1, BrowseTypes, PagesTyped
      <4>2. CASE p # 0
        <5>1. p - 1 \in Page /\ Chain(p - 1) /\ since' = since /\ disturbed = {}
          BY <1>8, <1>9, <2>2, <4>2, UpTo
        <5>2. listing[i] \notin SeenUpTo(p - 1)
          <6>1. SeenUpTo(p - 1)' = SeenUpTo(p - 1)
            BY <1>6, <1>7, <5>1
          <6>2. SeenUpTo(p - 1)' \subseteq SeenUpTo(p)'
            BY <1>6, <5>1 DEF SeenUpTo
          <6> QED BY <2>2, <6>1, <6>2
        <5>3. i > ((p - 1) + 1) * PageSize
          BY <5>1, <5>2, BrowseTypes DEF SeenOrBehind
        <5> QED BY <1>6, <5>3
      <4> QED BY <4>1, <4>2
    <3> QED BY <1>3, <2>2, <3>1, <3>2, <3>3
  <2> QED BY <1>6, <1>9, <2>1, <2>2
<1>16. SeenAll'
  <2> SUFFICES ASSUME Ordered, disturbed' = {}, NEW q \in Page, Chain(q)', asked'[q].at # "read",
                      pages[q].total <= (q + 1) * PageSize
               PROVE  since' \subseteq SeenUpTo(q)'
    BY <1>1 DEF Ordered, SeenAll
  <2>1. q # p /\ q <= p
    BY <1>4, <1>9
  <2>2. q < p /\ p # 0
    <3>1. q \in Nat /\ p \in Nat
      BY <1>6
    <3> QED BY <2>1, <3>1
  <2>3. Chain(q) /\ SeenUpTo(q)' = SeenUpTo(q)
    BY <1>7, <1>9, <2>2
  <2>4. asked[q].at # "read"
    BY <1>4, <2>1
  <2> QED BY <1>8, <2>2, <2>3, <2>4, BrowseTypes DEF SeenAll
<1> QED BY <1>13, <1>14, <1>15, <1>16 DEF BrowseInv

\* Its count, and the answer: the rows stay those that were read.
LEMMA AnswerStep ==
  ASSUME BrowseInv, NEW p \in Page, asked[p].at = "read", FetchPage(p)
  PROVE  BrowseInv'
<1>1. /\ pages' = [pages EXCEPT ![p] = [total |-> Len(listing), rows |-> asked[p].rows]]
      /\ asked' = [asked EXCEPT ![p] = Quiet]
      /\ UNCHANGED <<sorted, listing, born, at, chained, since, disturbed>>
  BY DEF FetchPage, Sent
<1>2. asked[p].rows \subseteq RowNo
  <2>1. asked[p] \in PageRequest
    BY BrowseTypes
  <2> QED BY <2>1 DEF PageRequest, Quiet, Sent
<1>3. Len(listing) \in -1 .. MaxRows /\ Len(listing) \in Nat
  BY BrowseTypes, PagesTyped
<1>4. /\ pages' \in [Page -> Answer] /\ pages'[p].total = Len(listing) /\ pages'[p].rows = asked[p].rows
      /\ \A q \in Page \ {p} : pages'[q] = pages[q]
  <2>1. PICK x \in Answer : x = [total |-> Len(listing), rows |-> asked[p].rows]
    BY <1>2, <1>3 DEF Answer
  <2> QED BY <1>1, <2>1, BrowseTypes
<1>5. /\ asked' \in [Page -> PageRequest] /\ asked'[p].at = "quiet"
      /\ \A q \in Page \ {p} : asked'[q] = asked[q]
  <2>1. Quiet \in PageRequest /\ Quiet.at = "quiet"
    BY DEF Quiet, PageRequest
  <2> QED BY <1>1, <2>1, BrowseTypes
<1>6. \A q \in Page : Seen(q)' = Seen(q)
  <2>1. Seen(p)' = asked[p].rows /\ Seen(p) = asked[p].rows
    BY <1>4, <1>5 DEF Seen
  <2>2. \A q \in Page \ {p} : Seen(q)' = Seen(q)
    BY <1>4, <1>5 DEF Seen
  <2> QED BY <2>1, <2>2
<1>7. \A q \in Page : SeenUpTo(q)' = SeenUpTo(q)
  BY <1>6, UpTo DEF SeenUpTo
<1>8. BrowseTypeOK'
  <2>1. \A q \in Page : asked'[q].at \in {"quiet", "sent", "read"}
    BY <1>5, BrowseTypes DEF BrowseTypeOK
  <2> QED BY <1>1, <1>4, <2>1, BrowseTypes DEF BrowseTypeOK, Contents
<1>9. BrowseTyped'
  BY <1>1, <1>5, BrowseTypes DEF BrowseTyped, Contents
<1>10. SeenOrBehind'
  BY <1>1, <1>7, BrowseTypes DEF Ordered, SeenOrBehind, Chain
<1>11. SeenAll'
  <2> SUFFICES ASSUME Ordered, disturbed = {}, NEW q \in Page, Chain(q), asked'[q].at # "read",
                      pages'[q].total <= (q + 1) * PageSize
               PROVE  since \subseteq SeenUpTo(q)
    BY <1>1, <1>7 DEF Ordered, SeenAll, Chain
  <2>1. CASE q # p
    BY <1>4, <1>5, <2>1, BrowseTypes DEF SeenAll
  <2>2. CASE q = p
    <3> SUFFICES ASSUME NEW x \in since, x \notin SeenUpTo(q) PROVE FALSE
      OBVIOUS
    <3>1. PICK i \in DOMAIN listing : listing[i] = x
      BY BrowseTypes DEF BrowseTyped, Contents
    <3>2. i > (q + 1) * PageSize
      BY <3>1, BrowseTypes DEF SeenOrBehind
    <3>3. i <= Len(listing) /\ i \in Nat /\ (q + 1) * PageSize \in Nat
      BY <3>1, BrowseTypes, PagesTyped
    <3>4. Len(listing) <= (q + 1) * PageSize
      BY <1>4, <2>2
    <3> QED BY <1>3, <3>2, <3>3, <3>4
  <2> QED BY <2>1, <2>2
<1> QED BY <1>8, <1>9, <1>10, <1>11 DEF BrowseInv

\* A page that was read and never answered breaks the chain.
LEMMA FailStep == ASSUME BrowseInv, NEW p \in Page, FetchFails(p) PROVE BrowseInv'
<1>1. /\ asked[p] # Quiet /\ asked' = [asked EXCEPT ![p] = Quiet]
      /\ chained' = (IF asked[p].at = "read" THEN chained \ {p, p + 1} ELSE chained)
      /\ UNCHANGED <<sorted, listing, born, at, pages, since, disturbed>>
  BY DEF FetchFails
<1>2. /\ asked' \in [Page -> PageRequest] /\ asked'[p].at = "quiet"
      /\ \A q \in Page \ {p} : asked'[q] = asked[q]
  <2>1. Quiet \in PageRequest /\ Quiet.at = "quiet"
    BY DEF Quiet, PageRequest
  <2> QED BY <1>1, <2>1, BrowseTypes
<1>3. \A q \in Page : q # p \/ asked[p].at # "read" =>
        Seen(q)' = Seen(q) /\ (asked'[q].at = "read" <=> asked[q].at = "read")
  BY <1>1, <1>2 DEF Seen
<1>4. p \in Nat /\ \A q \in Page : q \in Nat /\ 0 .. q \subseteq Page
  BY UpTo
<1>5. ASSUME NEW q \in Page, Chain(q)'
      PROVE  /\ Chain(q) /\ SeenUpTo(q)' = SeenUpTo(q)
             /\ asked'[q].at = "read" <=> asked[q].at = "read"
  <2>1. 0 .. q \subseteq chained' /\ chained' \subseteq chained
    BY <1>1, <1>5 DEF Chain
  <2>2. asked[p].at = "read" => p \notin 0 .. q
    BY <1>1, <2>1
  <2>3. \A k \in 0 .. q : Seen(k)' = Seen(k)
    BY <1>3, <1>4, <2>2
  <2>4. q \in 0 .. q
    BY <1>4
  <2> QED BY <1>3, <2>1, <2>2, <2>3, <2>4 DEF Chain, SeenUpTo
<1>6. BrowseTypeOK'
  <2>1. \A q \in Page : asked'[q].at \in {"quiet", "sent", "read"}
    BY <1>2, BrowseTypes DEF BrowseTypeOK
  <2> QED BY <1>1, <2>1, BrowseTypes DEF BrowseTypeOK, Contents
<1>7. BrowseTyped'
  BY <1>1, <1>2, BrowseTypes DEF BrowseTyped, Contents
<1>8. SeenOrBehind'
  BY <1>1, <1>5, BrowseTypes DEF Ordered, SeenOrBehind
<1>9. SeenAll'
  BY <1>1, <1>5, BrowseTypes DEF Ordered, SeenAll
<1> QED BY <1>6, <1>7, <1>8, <1>9 DEF BrowseInv

LEMMA BrowseStep == BrowseInv /\ [BrowseNext]_browseVars => BrowseInv'
<1> SUFFICES ASSUME BrowseInv, [BrowseNext]_browseVars PROVE BrowseInv'
  OBVIOUS
<1>1. CASE \E i \in 1 .. Len(listing) + 1 : RowInserted(i)
  BY <1>1, InsertStep
<1>2. CASE \E i \in DOMAIN listing : RowDeleted(i)
  BY <1>2, DeleteRowStep
<1>6. CASE \E i \in DOMAIN listing, j \in DOMAIN listing : RowUpdated(i, j)
  BY <1>6, UpdateRowStep
<1>3. CASE SelectTable \/ NextPage \/ PreviousPage \/ AskPage \/ UNCHANGED browseVars
  BY <1>3, AskStep
<1>4. ASSUME NEW p \in Page, FetchPage(p) PROVE BrowseInv'
  <2>1. asked[p] = Sent \/ asked[p].at = "read"
    BY <1>4 DEF FetchPage
  <2> QED BY <1>4, <2>1, ReadStep, AnswerStep
<1>5. ASSUME NEW p \in Page, FetchFails(p) PROVE BrowseInv'
  BY <1>5, FailStep
<1> QED BY <1>1, <1>2, <1>3, <1>4, <1>5, <1>6 DEF BrowseNext

LEMMA BrowseStart == BrowseInit => BrowseInv
<1> SUFFICES ASSUME BrowseInit PROVE BrowseInv
  OBVIOUS
<1>1. listing \in [1 .. PageSize -> 1 .. PageSize] /\ born = PageSize
  BY DEF BrowseInit
<1>2. listing \in Seq(1 .. born) /\ Len(listing) = born /\ DOMAIN listing = 1 .. PageSize
  BY <1>1, PagesTyped
<1>3. Contents(listing) \subseteq RowNo
  BY <1>1, <1>2, PagesTyped DEF Contents, RowNo
<1>4. pages \in [Page -> Answer]
  <2>1. NotRead \in Answer
    BY PagesTyped DEF NotRead, Answer
  <2> QED BY <2>1 DEF BrowseInit
<1>5. asked \in [Page -> PageRequest] /\ \A p \in Page : asked[p].at = "quiet"
  BY DEF BrowseInit, PageRequest, Quiet
<1>6. BrowseTypeOK
  <2>1. disturbed \subseteq {"deleted", "moved"}
    BY DEF BrowseInit
  <2>2. born \in 0 .. MaxRows /\ at \in Page /\ chained \subseteq Page /\ since \subseteq RowNo
    BY <1>1, PagesTyped DEF BrowseInit
  <2> QED BY <1>3, <1>4, <1>5, <2>1, <2>2 DEF BrowseTypeOK
<1>7. BrowseTyped
  BY <1>1, <1>2, <1>5, PagesTyped DEF BrowseInit, BrowseTyped
<1>8. \A p \in Page : ~Chain(p)
  BY UpTo DEF BrowseInit, Chain
<1> QED BY <1>6, <1>7, <1>8 DEF BrowseInv, SeenOrBehind, SeenAll

(* The table, the pages and the requests for them keep their types. *)
THEOREM BrowseTypeCorrect == BrowseSpec => []BrowseTypeOK
<1>1. BrowseInv => BrowseTypeOK
  BY DEF BrowseInv
<1> QED BY <1>1, BrowseStart, BrowseStep, PTL DEF BrowseSpec

(* For any size of a page and any number of rows: who turns the pages to the *)
(* last one has seen every row that was there all the time.                  *)
THEOREM PagesWholeHolds == BrowseSpec => []PagesWhole
<1>1. BrowseInv => PagesWhole
  <2> SUFFICES ASSUME BrowseInv, disturbed = {}, Ordered, \A p \in Page : asked[p] = Quiet,
                      NEW p \in Page, 0 .. p \subseteq chained, pages[p].total <= (p + 1) * PageSize
               PROVE  since \subseteq UNION {pages[q].rows : q \in 0 .. p}
    BY DEF PagesWhole, SeesAll
  <2>1. \A q \in Page : asked[q].at # "read" /\ Seen(q) = pages[q].rows
    BY DEF Quiet, Seen
  <2>2. since \subseteq SeenUpTo(p)
    BY <2>1, BrowseTypes DEF SeenAll, Chain
  <2> QED BY <2>1, <2>2, UpTo DEF SeenUpTo
<1> QED BY <1>1, BrowseStart, BrowseStep, PTL DEF BrowseSpec

-----------------------------------------------------------------------------
(* The parts together. *)

\* The steps of one part leave the state of the others alone, so what the parts do
\* together is what each of them may do by itself.
THEOREM PartsImplementEach ==
  MCSpec => TransferSpec /\ FeedSpec /\ MetricsSpec /\ AccountsSpec /\ BrowseSpec
<1> DEFINE vars == <<focus, transferVars, feedVars, metricsVars, accountVars, browseVars>>
<1>1. MCInit => TransferInit /\ FeedInit /\ MetricsInit /\ AccountsInit /\ BrowseInit
  BY DEF MCInit
<1>2. [MCNext]_vars => [TransferNext]_transferVars
  BY DEF MCNext
<1>3. [MCNext]_vars => [FeedNext]_feedVars
  BY DEF MCNext
<1>4. [MCNext]_vars => [MetricsNext]_metricsVars
  BY DEF MCNext
<1>5. [MCNext]_vars => [AccountsNext]_accountVars
  BY DEF MCNext
<1>6. [MCNext]_vars => [BrowseNext]_browseVars
  BY DEF MCNext
<1> QED BY <1>1, <1>2, <1>3, <1>4, <1>5, <1>6, PTL
        DEF MCSpec, TransferSpec, FeedSpec, MetricsSpec, AccountsSpec, BrowseSpec

\* All parts keep their types, whatever is done beside them.
THEOREM PartsTypeCorrect == MCSpec => []MCTypeOK
<1>1. TransferTypeOK /\ FeedTypeOK /\ MetricsTypeOK /\ AccountsTypeOK /\ BrowseTypeOK => MCTypeOK
  BY DEF MCTypeOK
<1> QED BY <1>1, PartsImplementEach, TransferTypeCorrect, FeedTypeCorrect, MetricsTypeCorrect,
           AccountsTypeCorrect, BrowseTypeCorrect, PTL
=============================================================================
