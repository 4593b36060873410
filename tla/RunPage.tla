------------------------------- MODULE RunPage -------------------------------
(***************************************************************************)
(* The page of a Migration V2 run: what it says of the run's phase, from the *)
(* events of a socket (useMigrationSocket.ts) and from a poll of the run's   *)
(* row (Migrate.tsx), while the worker writes the row and emits.  The        *)
(* progress and the warnings are chosen between the two in the same way.     *)
(***************************************************************************)
EXTENDS Integers, Sequences

CONSTANTS MaxDrops,       \* bound: connections that go down
          MaxPageDeaths   \* bound: API processes that die in mid-run; the first is put back

ASSUME RunPageAssumption == MaxDrops \in Nat /\ MaxPageDeaths \in {0, 1}

VARIABLES
  phase,    \* the phase in the run's row
  stage,    \* where runMigrationJob stands
  link,     \* the page's socket
  wire,     \* phase events on their way to it
  live,     \* the phase the hook holds
  polled,   \* the phase of the last row the page fetched
  poll,     \* the request for the row
  drops, pageDeaths,
  cut       \* history: a connection went down after it had told the page something, or the
            \* process with the row at an end

pageVars == <<phase, stage, link, wire, live, polled, poll, drops, pageDeaths, cut>>

\* (No run is ever "cancelled", see MigrationRun.)
Ends == {"succeeded", "partial", "failed"}
PagePhase == {"queued", "running"} \cup Ends
NoPhase == "none"

PageInit ==
  /\ phase = NoPhase /\ stage = "none"
  /\ link = "off" /\ wire = <<>> /\ live = NoPhase
  /\ polled = NoPhase /\ poll = "closed"
  /\ drops = 0 /\ pageDeaths = 0 /\ cut = FALSE

\* The page prefers what the socket said.
Shown == IF live # NoPhase THEN live ELSE IF polled # NoPhase THEN polled ELSE "queued"

-----------------------------------------------------------------------------
(* The worker: the row first, then the event. *)

clientVars == <<link, live, polled, poll, drops, pageDeaths, cut>>

\* To the sockets that are in the room.
Emit(p) == wire' = IF link = "joined" THEN Append(wire, p) ELSE wire

\* The run is created and put into its queue.
StartRun ==
  /\ stage = "none" /\ stage' = "waiting"
  /\ phase' = "queued"
  /\ UNCHANGED <<wire, clientVars>>

Mark ==
  /\ stage = "waiting" /\ stage' = "marked"
  /\ phase' = "running"
  /\ UNCHANGED <<wire, clientVars>>

EmitRunning ==
  /\ stage = "marked" /\ stage' = "running"
  /\ Emit("running")
  /\ UNCHANGED <<phase, clientVars>>

RowEnds(end) ==
  /\ stage = "running" /\ stage' = "ended"
  /\ phase' = end
  /\ UNCHANGED <<wire, clientVars>>

EmitEnd ==
  /\ stage = "ended" /\ stage' = "over"
  /\ Emit(phase)
  /\ UNCHANGED <<phase, clientVars>>

-----------------------------------------------------------------------------
(* The socket. *)

workerVars == <<phase, stage>>
pollVars == <<polled, poll>>

\* Somebody opens the page of the run, whatever has become of it by then.
OpenPage ==
  /\ poll = "closed" /\ phase # NoPhase /\ poll' = "idle"
  /\ UNCHANGED <<workerVars, link, wire, live, polled, drops, pageDeaths, cut>>

\* connect, on which the hook sends subscribe.
Connect ==
  /\ poll # "closed" /\ link = "off" /\ link' = "up"
  /\ UNCHANGED <<workerVars, wire, live, pollVars, drops, pageDeaths, cut>>

\* The server takes it into the room.
Join ==
  /\ link = "up" /\ link' = "joined"
  /\ UNCHANGED <<workerVars, wire, live, pollVars, drops, pageDeaths, cut>>

\* The hook's on('phase').
Deliver ==
  /\ wire # <<>>
  /\ live' = Head(wire) /\ wire' = Tail(wire)
  /\ UNCHANGED <<workerVars, link, pollVars, drops, pageDeaths, cut>>

\* disconnect: the hook keeps the phase it has, and the client connects again ...
Drop ==
  /\ link \in {"up", "joined"} /\ drops < MaxDrops
  /\ link' = "off" /\ wire' = <<>> /\ drops' = drops + 1
  /\ cut' = (cut \/ live # NoPhase)
  /\ UNCHANGED <<workerVars, live, pollVars, pageDeaths>>

\* ... until 30 attempts have failed.
GiveUp ==
  /\ poll # "closed" /\ link = "off" /\ link' = "gone"
  /\ UNCHANGED <<workerVars, wire, live, pollVars, drops, pageDeaths, cut>>

-----------------------------------------------------------------------------
(* The poll. *)

\* Mutant of Ask: the interval runs until there is a row.
AskOnce ==
  /\ poll = "idle" /\ polled = NoPhase
  /\ poll' = "asked"
  /\ UNCHANGED <<workerVars, link, wire, live, polled, drops, pageDeaths, cut>>

\* The refetch interval runs until the row has an end.
Ask ==
  /\ poll = "idle" /\ polled \notin Ends
  /\ poll' = "asked"
  /\ UNCHANGED <<workerVars, link, wire, live, polled, drops, pageDeaths, cut>>

\* The window gets the focus again, with a row that is stale.
Refocus ==
  /\ poll = "idle" /\ polled \in Ends
  /\ poll' = "asked"
  /\ UNCHANGED <<workerVars, link, wire, live, polled, drops, pageDeaths, cut>>

\* GET /runs/:id.
Read ==
  /\ poll = "asked" /\ poll' = phase
  /\ UNCHANGED <<workerVars, link, wire, live, polled, drops, pageDeaths, cut>>

Fetched ==
  /\ poll \in PagePhase
  /\ polled' = poll /\ poll' = "idle"
  /\ UNCHANGED <<workerVars, link, wire, live, drops, pageDeaths, cut>>

-----------------------------------------------------------------------------

\* The API process dies in mid-run, with its sockets and requests; the job is put back.
Die ==
  /\ stage \in {"marked", "running", "ended"} /\ pageDeaths < MaxPageDeaths
  /\ pageDeaths' = pageDeaths + 1 /\ stage' = "waiting"
  /\ link' = (IF link = "gone" THEN "gone" ELSE "off")
  /\ wire' = <<>> /\ poll' = (IF poll = "closed" THEN "closed" ELSE "idle")
  /\ cut' = (cut \/ live # NoPhase \/ stage = "ended")
  /\ UNCHANGED <<phase, live, polled, drops>>

PageNext ==
  \/ StartRun \/ OpenPage
  \/ Mark \/ EmitRunning \/ (\E end \in Ends : RowEnds(end)) \/ EmitEnd
  \/ Connect \/ Join \/ Deliver \/ Drop \/ GiveUp
  \/ Ask \/ Refocus \/ Read \/ Fetched
  \/ Die

\* The worker goes on, what is on the wire arrives, the interval fires and requests are
\* answered.  The window need not get the focus, and the socket need not connect.  (Nobody
\* has to start the run or to open its page.)
PageFairness ==
  /\ WF_pageVars(Mark) /\ WF_pageVars(EmitRunning) /\ WF_pageVars(EmitEnd)
  /\ WF_pageVars(\E end \in Ends : RowEnds(end))
  /\ WF_pageVars(Deliver)
  /\ WF_pageVars(Ask) /\ WF_pageVars(Read) /\ WF_pageVars(Fetched)

PageSpec == PageInit /\ [][PageNext]_pageVars

-----------------------------------------------------------------------------

\* The types of the variables.
RunPageTypeOK ==
  /\ phase \in PagePhase \cup {NoPhase}
  /\ stage \in {"none", "waiting", "marked", "running", "ended", "over"}
  /\ link \in {"off", "up", "joined", "gone"} /\ wire \in Seq(PagePhase)
  /\ live \in PagePhase \cup {NoPhase} /\ polled \in PagePhase \cup {NoPhase}
  /\ poll \in PagePhase \cup {"closed", "idle", "asked"}
  /\ drops \in 0 .. MaxDrops /\ pageDeaths \in 0 .. MaxPageDeaths /\ cut \in BOOLEAN

\* An end that the page shows is the end in the run's row: the row is written before the
\* event goes out (worker.ts), whatever the poll and the socket bring in which order.  Not so
\* when the process dies between the two: the run starts again, and the poll has stopped.
EndIsRows == Shown \in Ends /\ ~cut => Shown = phase

\* A run whose page is open is over some time and shown with its end, also by a page whose
\* socket connects late, not at all, or again: the poll covers what the socket misses
\* (Migrate.tsx).  Not so after `cut': the hook keeps the phase it was told when its
\* connection goes down, and the page prefers it.
EndShown == poll # "closed" ~> (stage = "over" /\ Shown = phase) \/ cut

(* What the page says of a run follows the row, by whichever way it comes. *)
PageFollowsRow == []EndIsRows /\ EndShown
=============================================================================
