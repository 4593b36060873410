---------------------------- MODULE MongoMonitor ----------------------------
(***************************************************************************)
(* The requests that look at one MongoDB connection: they share a pooled   *)
(* client (lib/mongo.ts), the snapshot cache and the last opcounters       *)
(* (monitor.service.ts), while the connection may be deleted.              *)
(***************************************************************************)
EXTENDS Integers, FiniteSets

CONSTANTS Request,     \* requests that can be in flight at the same time
          Ttl,         \* how long a snapshot is served again (3 s in the code)
          MaxTime, MaxOps, MaxClients  \* bounds: the clock, the server's counter, clients

ASSUME MongoMonitorAssumption ==
  Ttl \in Nat /\ MaxTime \in Nat /\ MaxOps \in Nat /\ MaxClients \in Nat

VARIABLES
  now, ops,   \* the clock; the server's cumulative opcounter
  exists,     \* the Connection row
  pool,       \* the pooled client, 0 when there is none
  client,     \* every MongoClient made for the connection
  cache,      \* snapshotCache
  last,       \* lastOpcounters: the counter, -1 when there is none
  req,        \* the requests in flight
  closing,    \* the client that deleteConnection is closing
  deleting,   \* deleteConnection: "no", "close", "drop", "done"
  counted,    \* history: the first counter and the operations reported since
  reordered,  \* history: an older serverStatus was used after a newer one
  crossed     \* history: a first use crossed another one, or the deletion

monitorVars == <<now, ops, exists, pool, client, cache, last, req, closing, deleting,
                 counted, reordered, crossed>>

Client == 1..MaxClients
\* at: the Date.now() of its request; read: when serverStatus was answered.
Snapshot == [at : -1..MaxTime, read : -1..MaxTime]
NoSnapshot == [at |-> -1, read |-> -1]

MonitorSteps == {"idle", "client", "connect", "status", "process", "rest"}
MonitorReq == [step : MonitorSteps, query : BOOLEAN, client : {0} \cup Client,
               at : -1..MaxTime, ops : -1..MaxOps, read : -1..MaxTime]
NoReq == [step |-> "idle", query |-> FALSE, client |-> 0, at |-> -1, ops |-> -1, read |-> -1]

MonitorTypeOK ==
  /\ now \in 0..MaxTime /\ ops \in 0..MaxOps /\ exists \in BOOLEAN
  /\ pool \in {0} \cup Client /\ client \in [Client -> {"none", "connecting", "open", "closed"}]
  /\ cache \in Snapshot /\ last \in -1..MaxOps /\ req \in [Request -> MonitorReq]
  /\ closing \in {0} \cup Client /\ deleting \in {"no", "close", "drop", "done"}
  /\ counted \in Int /\ reordered \in BOOLEAN /\ crossed \in BOOLEAN

MonitorInit ==
  /\ now = 0 /\ ops = 0 /\ exists = TRUE /\ pool = 0
  /\ client = [c \in Client |-> "none"] /\ cache = NoSnapshot /\ last = -1
  /\ req = [r \in Request |-> NoReq] /\ closing = 0 /\ deleting = "no"
  /\ counted = -1 /\ reordered = FALSE /\ crossed = FALSE

-----------------------------------------------------------------------------
MonitorTick ==
  /\ now < MaxTime /\ now' = now + 1
  /\ UNCHANGED <<ops, exists, pool, client, cache, last, req, closing, deleting,
                 counted, reordered, crossed>>

\* An operation on the server.
ServerOp ==
  /\ ops < MaxOps /\ ops' = ops + 1
  /\ UNCHANGED <<now, exists, pool, client, cache, last, req, closing, deleting,
                 counted, reordered, crossed>>

-----------------------------------------------------------------------------
world == <<now, ops, exists, closing, deleting>>
history == <<counted, reordered, crossed>>

Fresh(at) == cache # NoSnapshot /\ at - cache.at < Ttl

\* getSnapshot: the cached snapshot is the answer, or a new one is made.
AskCached(r) == req[r] = NoReq /\ Fresh(now) /\ UNCHANGED monitorVars

\* getClientForConnection: findUniqueOrThrow, decrypt.
AskServer(r) ==
  /\ req[r] = NoReq /\ exists /\ ~Fresh(now)
  /\ req' = [req EXCEPT ![r] = [NoReq EXCEPT !.step = "client", !.at = now]]
  /\ UNCHANGED <<pool, client, cache, last, world, history>>

\* The other requests (replica set status, current operations, killOp, profiling,
\* sizes) get the same client ...
AskQuery(r) ==
  /\ req[r] = NoReq /\ exists
  /\ req' = [req EXCEPT ![r] = [NoReq EXCEPT !.step = "client", !.query = TRUE]]
  /\ UNCHANGED <<pool, client, cache, last, world, history>>

Answer(r) == req' = [req EXCEPT ![r] = NoReq]

After(r) == IF req[r].query THEN "rest" ELSE "status"
\* The client matters to its connection and to serverStatus: what comes after may fail in any case.
Hand(r, c, step) == req' = [req EXCEPT ![r] = [@ EXCEPT !.client = IF step = "rest" THEN 0 ELSE c, !.step = step]]
Connecting == {c \in Client : client[c] = "connecting"}

\* Mutant of GetClient: the client is pooled before it is connected.
GetClientEarly(r) ==
  /\ req[r].step = "client"
  /\ IF pool # 0
     THEN Hand(r, pool, After(r)) /\ UNCHANGED <<pool, client, crossed>>
     ELSE \E c \in Client :
            /\ client[c] = "none" /\ \A k \in Client : k < c => client[k] # "none"
            /\ client' = [client EXCEPT ![c] = "connecting"]
            /\ pool' = c
            /\ Hand(r, c, "connect")
            /\ crossed' = (crossed \/ Connecting # {} \/ ~exists)
  /\ UNCHANGED <<cache, last, world, counted, reordered>>

\* getMongoClient: the pooled client, or a new one that connects.
GetClient(r) ==
  /\ req[r].step = "client"
  /\ IF pool # 0
     THEN Hand(r, pool, After(r)) /\ UNCHANGED <<client, crossed>>
     ELSE \E c \in Client :
            /\ client[c] = "none" /\ \A k \in Client : k < c => client[k] # "none"
            /\ client' = [client EXCEPT ![c] = "connecting"]
            /\ Hand(r, c, "connect")
            /\ crossed' = (crossed \/ Connecting # {} \/ ~exists)
  /\ UNCHANGED <<pool, cache, last, world, counted, reordered>>

Connected(r) ==
  /\ req[r].step = "connect"
  /\ client' = [client EXCEPT ![req[r].client] = "open"]
  /\ pool' = req[r].client
  /\ Hand(r, req[r].client, After(r))
  /\ UNCHANGED <<cache, last, world, history>>

ConnectFails(r) ==
  /\ req[r].step = "connect"
  /\ client' = [client EXCEPT ![req[r].client] = "closed"]
  /\ Answer(r)
  /\ UNCHANGED <<pool, cache, last, world, history>>

\* serverStatus is answered; the answer may reach the process late.
ServerStatus(r) ==
  /\ req[r].step = "status"
  /\ IF client[req[r].client] = "open"
     THEN req' = [req EXCEPT ![r] = [@ EXCEPT !.step = "process", !.client = 0, !.ops = ops, !.read = now]]
     ELSE Answer(r)
  /\ UNCHANGED <<pool, client, cache, last, world, history>>

Increase(from, to) == IF to < from THEN 0 ELSE to - from

Report(r) ==
  /\ req[r].step = "process"
  /\ counted' = IF last = -1 THEN req[r].ops ELSE counted + Increase(last, req[r].ops)
  /\ reordered' = (reordered \/ req[r].ops < last)
  /\ req' = [req EXCEPT ![r] = [@ EXCEPT !.step = "rest", !.ops = -1]]
  /\ UNCHANGED <<pool, client, cache, world, crossed>>

\* Mutant of Process: the counters stay those of the first snapshot.
ProcessFirst(r) == Report(r) /\ last' = IF last = -1 THEN req[r].ops ELSE last

\* The rates, from the counters of the last snapshot as they are now, and what
\* becomes the last one: no await in between.
Process(r) == Report(r) /\ last' = req[r].ops

\* Mutant of Finish: the cache is dated when it is filled.
FinishNow(r) ==
  /\ req[r].step = "rest" /\ ~req[r].query
  /\ cache' = [at |-> now, read |-> req[r].read]
  /\ Answer(r)
  /\ UNCHANGED <<pool, client, last, world, history>>

\* replSetGetStatus, the count of alerts, and the cache.
Finish(r) ==
  /\ req[r].step = "rest" /\ ~req[r].query
  /\ cache' = [at |-> req[r].at, read |-> req[r].read]
  /\ Answer(r)
  /\ UNCHANGED <<pool, client, last, world, history>>

\* ... and answer with what their commands said, or the first that threw; they keep nothing.
QueryAnswers(r) ==
  /\ req[r].step = "rest" /\ req[r].query
  /\ Answer(r)
  /\ UNCHANGED <<pool, client, cache, last, world, history>>

\* serverStatus throws.
CommandFails(r) ==
  /\ req[r].step = "status"
  /\ Answer(r)
  /\ UNCHANGED <<pool, client, cache, last, world, history>>

-----------------------------------------------------------------------------
(* deleteConnection, and closeMongoClient after its transaction. *)

requests == <<now, ops, cache, last, req, counted, reordered>>

DeleteConnectionRow ==
  /\ deleting = "no"
  /\ exists' = FALSE
  /\ deleting' = "close"
  /\ crossed' = (crossed \/ Connecting # {} \/ \E r \in Request : req[r].step = "client")
  /\ UNCHANGED <<pool, client, closing, requests>>

CloseClient ==
  /\ deleting = "close"
  /\ closing' = pool
  /\ client' = IF pool = 0 THEN client ELSE [client EXCEPT ![pool] = "closed"]
  /\ deleting' = IF pool = 0 THEN "done" ELSE "drop"
  /\ UNCHANGED <<exists, pool, crossed, requests>>

DropClient ==
  /\ deleting = "drop"
  /\ pool' = 0
  /\ closing' = 0
  /\ deleting' = "done"
  /\ UNCHANGED <<exists, client, crossed, requests>>

MonitorNext ==
  \/ MonitorTick \/ ServerOp
  \/ \E r \in Request :
       \/ AskCached(r) \/ AskServer(r) \/ AskQuery(r) \/ QueryAnswers(r) \/ GetClient(r)
       \/ Connected(r) \/ ConnectFails(r) \/ ServerStatus(r) \/ Process(r)
       \/ Finish(r) \/ CommandFails(r)
  \/ DeleteConnectionRow \/ CloseClient \/ DropClient

MonitorSpec == MonitorInit /\ [][MonitorNext]_monitorVars

-----------------------------------------------------------------------------
(* A snapshot that is served again was read less than Ttl ago, however long its
   request took and whatever other requests did to the cache meanwhile. *)
ServedFresh ==
  Fresh(now) => now - cache.read < Ttl

(* The rates account for every operation once: what has been reported is what
   the counter has grown by since the first snapshot, also when requests
   overlap, as long as their answers come in the order they were made. *)
CountedOnce ==
  ~reordered => counted = last

(* The pool never holds a client that is not connected, except the one that is
   being closed, and no client outlives its place in the pool unless two first
   uses crossed, or one and the deletion. *)
PoolHoldsOpen ==
  /\ pool # 0 /\ closing = 0 => client[pool] = "open"
  /\ ~crossed => \A c \in Client : client[c] = "open" => c = pool
=============================================================================
