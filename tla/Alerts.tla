------------------------------- MODULE Alerts -------------------------------
(***************************************************************************)
(* One alert rule and its events.  Evaluations of the rule are started by  *)
(* every snapshot request (without waiting for them) and by the sweep of   *)
(* the scheduler, so several can be under way; the routes change the rule  *)
(* and acknowledge its events meanwhile.                                   *)
(*                                                                         *)
(* Time is kept as ages, in ticks of some minutes: how long ago a timestamp *)
(* was taken, up to the age that matters.  The writes of one evaluation,    *)
(* which take seconds, fall between two ticks.                              *)
(***************************************************************************)
EXTENDS Integers, FiniteSets

CONSTANTS Evaluation,  \* evaluations that can be under way at the same time
          Duration,    \* durationMinutes of the rule
          Cooldown,    \* NOTIFY_COOLDOWN_MS
          MaxEvents,   \* bound: event rows that are still looked at
          MaxDisruptions  \* bound: failing calls and PATCHes of enabled

ASSUME AlertsAssumption ==
  /\ Duration \in Nat /\ Cooldown \in Nat
  /\ MaxEvents \in Nat /\ MaxDisruptions \in Nat

VARIABLES
  metric,     \* what the metric says now of the rule's condition
  rule,       \* the AlertRule row
  event,      \* the AlertEvent rows of the rule
  evals,      \* the evaluations under way
  patch,      \* the PATCH in flight
  ack,        \* the event an acknowledge request has read as firing
  disruptions,
  disturbed,  \* history: what evaluations have met so far, see Disturbance
  lapsed,     \* history: an evaluation found the condition unmet since the clock started
  sent        \* history: age of the last message

alertVars == <<metric, rule, event, evals, patch, ack, disruptions, disturbed, lapsed, sent>>

Never == -1
\* "absent": the snapshot has no value for it (no replica set, no cache size).
Reading == {"met", "unmet", "absent"}
Age(limit) == {Never} \cup 0..limit
Older(a, limit) == IF a \in {Never, limit} THEN a ELSE a + 1

EventRow == 1..MaxEvents
Rule == [exists : BOOLEAN, enabled : BOOLEAN, status : {"ok", "firing", "paused"},
         clock : Age(Duration), notified : Age(Cooldown + 1)]
NoRule == [exists |-> FALSE, enabled |-> FALSE, status |-> "ok", clock |-> Never, notified |-> Never]
Event == [status : {"none", "firing", "resolved", "acknowledged"}, notified : BOOLEAN]
NoEvent == [status |-> "none", notified |-> FALSE]

Steps == {"idle", "start", "fire", "create", "notify", "mark", "flag",
          "resolve", "clear", "reset"}
Eval == [step : Steps, quiet : BOOLEAN, event : {0} \cup EventRow]
NoEval == [step |-> "idle", quiet |-> FALSE, event |-> 0]
Patch == [pending : BOOLEAN, on : BOOLEAN, was : BOOLEAN]
\* Nothing; only failed calls; evaluations that overlapped, or a PATCH that took effect.
Disturbance == {"none", "fault", "mixed"}
NoPatch == [pending |-> FALSE, on |-> FALSE, was |-> FALSE]

AlertTypeOK ==
  /\ metric \in Reading
  /\ rule \in Rule /\ event \in [EventRow -> Event]
  /\ evals \in [Evaluation -> Eval]
  /\ patch \in Patch /\ ack \in {0} \cup EventRow
  /\ disruptions \in Nat
  /\ disturbed \in Disturbance
  /\ lapsed \in BOOLEAN /\ sent \in Age(Cooldown + 1)

\* POST /rules.
AlertInit ==
  /\ metric \in Reading
  /\ \E on \in BOOLEAN :
       rule = [exists |-> TRUE, enabled |-> on, status |-> "ok", clock |-> Never, notified |-> Never]
  /\ event = [n \in EventRow |-> NoEvent]
  /\ evals = [e \in Evaluation |-> NoEval]
  /\ patch = NoPatch /\ ack = 0 /\ disruptions = 0
  /\ disturbed = "none" /\ lapsed = FALSE /\ sent = Never

-----------------------------------------------------------------------------
(* The environment. *)

MetricMoves ==
  /\ metric' \in Reading \ {metric}
  /\ UNCHANGED <<rule, event, evals, patch, ack, disruptions, disturbed, lapsed, sent>>

Writing(e) == evals[e].step # "idle"

Tick ==
  /\ \A e \in Evaluation : ~Writing(e)
  /\ rule' = [rule EXCEPT !.clock = Older(@, Duration), !.notified = Older(@, Cooldown + 1)]
  /\ sent' = Older(sent, Cooldown + 1)
  /\ UNCHANGED <<metric, event, evals, patch, ack, disruptions, disturbed, lapsed>>

-----------------------------------------------------------------------------
(* evaluateAlerts, from the snapshot it is given.                            *)

routeVars == <<metric, patch, ack, disruptions>>

Done(e) == evals' = [evals EXCEPT ![e] = NoEval]
To(e, step) == IF step = "idle" THEN Done(e) ELSE evals' = [evals EXCEPT ![e].step = step]

Due == rule.clock = Duration
Quiet == rule.notified = Never \/ rule.notified > Cooldown

\* A rule whose metric has no value is skipped, its clock and status kept.
Branch ==
  CASE metric = "met" /\ rule.clock = Never                -> "start"
    [] metric = "met" /\ Due /\ rule.status # "firing"     -> "fire"
    [] metric = "unmet" /\ rule.status = "firing"          -> "resolve"
    [] metric = "unmet" /\ rule.status # "firing" /\ rule.clock # Never -> "reset"
    [] OTHER                                               -> "idle"   \* at most lastEvaluatedAt

\* The snapshot and findMany, and now; what is read here is what the rest of the
\* evaluation uses.  (The snapshot is some seconds older than the rule; the
\* metric moves freely, so this loses no order of values.)
FindRules(e) ==
  /\ evals[e].step = "idle"
  /\ LET step == IF rule.exists /\ rule.enabled /\ rule.status # "paused"
                 THEN Branch ELSE "idle" IN
     /\ evals' = [evals EXCEPT ![e] = [NoEval EXCEPT !.step = step, !.quiet = step = "fire" /\ Quiet]]
     /\ disturbed' = IF step # "idle" /\ \E d \in Evaluation \ {e} : Writing(d)
                     THEN "mixed" ELSE disturbed
  /\ lapsed' = (rule.clock # Never /\ (lapsed \/ metric = "unmet"))
  /\ UNCHANGED <<rule, event, sent, routeVars>>

\* prisma.alertRule.update: throws when the row is gone.
Update(e, r, next) ==
  IF rule.exists THEN rule' = r /\ To(e, next) ELSE Done(e) /\ UNCHANGED rule

StartClock(e) ==
  /\ evals[e].step = "start"
  /\ Update(e, [rule EXCEPT !.clock = 0], "idle")
  /\ lapsed' = FALSE
  /\ UNCHANGED <<event, disturbed, sent, routeVars>>

FireRule(e) ==
  /\ evals[e].step = "fire"
  /\ Update(e, [rule EXCEPT !.status = "firing"], "create")
  /\ UNCHANGED <<event, disturbed, lapsed, sent, routeVars>>

\* A row that nobody will look at again is taken for the new one.
Free(n) == /\ event[n].status # "firing" /\ ack # n
           /\ \A e \in Evaluation : evals[e].event # n

\* create() throws when the rule is gone (foreign key).
CreateEvent(e) ==
  /\ evals[e].step = "create"
  /\ IF rule.exists
     THEN \E n \in EventRow :
            /\ Free(n) /\ \A k \in EventRow : k < n => ~Free(k)
            /\ event' = [event EXCEPT ![n] = [status |-> "firing", notified |-> FALSE]]
            /\ IF evals[e].quiet
               THEN evals' = [evals EXCEPT ![e] = [@ EXCEPT !.step = "notify", !.event = n]]
               ELSE Done(e)
     ELSE Done(e) /\ UNCHANGED event
  /\ UNCHANGED <<rule, disturbed, lapsed, sent, routeVars>>

\* The e-mail and the webhook; what throws after the first is Fail.
Notify(e) ==
  /\ evals[e].step = "notify"
  /\ To(e, "mark")
  /\ sent' = 0
  /\ UNCHANGED <<rule, event, disturbed, lapsed, routeVars>>

\* Mutant of MarkNotified: the time is only kept when there was none.
MarkNotifiedOnce(e) ==
  /\ evals[e].step = "mark"
  /\ Update(e, IF rule.notified = Never THEN [rule EXCEPT !.notified = 0] ELSE rule, "flag")
  /\ UNCHANGED <<event, disturbed, lapsed, sent, routeVars>>

MarkNotified(e) ==
  /\ evals[e].step = "mark"
  /\ Update(e, [rule EXCEPT !.notified = 0], "flag")
  /\ UNCHANGED <<event, disturbed, lapsed, sent, routeVars>>

FlagEvent(e) ==
  /\ evals[e].step = "flag"
  /\ event' = IF rule.exists THEN [event EXCEPT ![evals[e].event].notified = TRUE] ELSE event
  /\ Done(e)
  /\ UNCHANGED <<rule, disturbed, lapsed, sent, routeVars>>

\* Mutant of ResolveEvents: only events somebody was told of are resolved.
ResolveNotified(e) ==
  /\ evals[e].step = "resolve"
  /\ event' = [n \in EventRow |-> IF event[n].status = "firing" /\ event[n].notified
                                  THEN [event[n] EXCEPT !.status = "resolved"] ELSE event[n]]
  /\ To(e, "clear")
  /\ UNCHANGED <<rule, disturbed, lapsed, sent, routeVars>>

\* Mutant of ResolveEvents: the rule is cleared first, and the events not again.
ResolveAfterClear(e) ==
  /\ evals[e].step = "resolve"
  /\ Update(e, [rule EXCEPT !.status = "ok", !.clock = Never], "idle")
  /\ UNCHANGED <<event, disturbed, lapsed, sent, routeVars>>

ResolveEvents(e) ==
  /\ evals[e].step = "resolve"
  /\ event' = [n \in EventRow |-> IF event[n].status = "firing"
                                  THEN [event[n] EXCEPT !.status = "resolved"] ELSE event[n]]
  /\ To(e, "clear")
  /\ UNCHANGED <<rule, disturbed, lapsed, sent, routeVars>>

\* Mutant of ClearRule: the status column gets the event's status.
ClearRuleResolved(e) ==
  /\ evals[e].step = "clear"
  /\ Update(e, [rule EXCEPT !.status = "resolved", !.clock = Never], "idle")
  /\ UNCHANGED <<event, disturbed, lapsed, sent, routeVars>>

ClearRule(e) ==
  /\ evals[e].step = "clear"
  /\ Update(e, [rule EXCEPT !.status = "ok", !.clock = Never], "idle")
  /\ UNCHANGED <<event, disturbed, lapsed, sent, routeVars>>

\* Mutant of ResetClock: a pending clock runs on.
ResetClockNot(e) ==
  /\ evals[e].step = "reset"
  /\ Done(e)
  /\ UNCHANGED <<rule, event, disturbed, lapsed, sent, routeVars>>

ResetClock(e) ==
  /\ evals[e].step = "reset"
  /\ Update(e, [rule EXCEPT !.clock = Never], "idle")
  /\ UNCHANGED <<event, disturbed, lapsed, sent, routeVars>>

\* A call throws, and the rule is given up until the next evaluation.
Fail(e) ==
  /\ Writing(e) /\ disruptions < MaxDisruptions
  /\ disruptions' = disruptions + 1
  /\ Done(e)
  /\ disturbed' = IF disturbed = "none" THEN "fault" ELSE disturbed
  /\ UNCHANGED <<metric, rule, event, patch, ack, lapsed, sent>>

Evaluate(e) ==
  \/ FindRules(e) \/ StartClock(e) \/ FireRule(e) \/ CreateEvent(e)
  \/ Notify(e) \/ MarkNotified(e) \/ FlagEvent(e)
  \/ ResolveEvents(e) \/ ClearRule(e) \/ ResetClock(e)

-----------------------------------------------------------------------------
(* The routes. *)

evalVars == <<metric, evals, lapsed, sent>>

\* PATCH /rules/:id with enabled: findFirst ...
PatchRead ==
  /\ ~patch.pending /\ rule.exists /\ disruptions < MaxDisruptions
  /\ \E on \in BOOLEAN : patch' = [pending |-> TRUE, on |-> on, was |-> on /\ rule.enabled]
  /\ disruptions' = disruptions + 1
  /\ UNCHANGED <<rule, event, ack, disturbed, evalVars>>

Paused == [rule EXCEPT !.enabled = FALSE, !.status = "paused", !.clock = Never]
Resumed == [rule EXCEPT !.enabled = TRUE, !.status = "ok", !.clock = Never, !.notified = Never]

\* ... and update, which throws when the rule is gone.
PatchWrite ==
  /\ patch.pending
  /\ patch' = NoPatch
  /\ rule' = CASE ~rule.exists -> rule
               [] rule.exists /\ ~patch.on -> Paused
               [] rule.exists /\ patch.on /\ ~patch.was -> Resumed
               [] OTHER -> [rule EXCEPT !.enabled = TRUE]
  /\ disturbed' = IF rule' = rule THEN disturbed ELSE "mixed"
  /\ UNCHANGED <<event, ack, disruptions, evalVars>>

\* DELETE /rules/:id, or the deletion of its connection or profile: the events go too.
DeleteRule ==
  /\ rule.exists
  /\ rule' = NoRule
  /\ event' = [n \in EventRow |-> NoEvent]
  /\ UNCHANGED <<patch, ack, disruptions, disturbed, evalVars>>

\* POST /events/:id/acknowledge: 400 unless it is firing ...
AckRead ==
  /\ ack = 0
  /\ \E n \in EventRow : event[n].status = "firing" /\ ack' = n
  /\ UNCHANGED <<rule, event, patch, disruptions, disturbed, evalVars>>

\* ... and update.
AckWrite ==
  /\ ack # 0
  /\ event' = IF rule.exists THEN [event EXCEPT ![ack].status = "acknowledged"] ELSE event
  /\ ack' = 0
  /\ UNCHANGED <<rule, patch, disruptions, disturbed, evalVars>>

Route == PatchRead \/ PatchWrite \/ DeleteRule \/ AckRead \/ AckWrite

AlertNext ==
  \/ MetricMoves \/ Tick
  \/ \E e \in Evaluation : Evaluate(e) \/ Fail(e)
  \/ Route

\* cron.schedule starts a sweep every 30 s, whose snapshots are answered, and an
\* evaluation that is under way goes on: it waits for nothing but the calls it makes.
AlertFairness ==
  /\ WF_alertVars(Tick) /\ WF_alertVars(PatchWrite) /\ WF_alertVars(AckWrite)
  /\ \A e \in Evaluation : WF_alertVars(Evaluate(e))

AlertSpec == AlertInit /\ [][AlertNext]_alertVars
AlertFairSpec == AlertSpec /\ AlertFairness

-----------------------------------------------------------------------------
Open == {n \in EventRow : event[n].status = "firing"}
AtRest == \A e \in Evaluation : ~Writing(e)

(* The rule and its events tell the same story whenever no evaluation is
   between its writes: a firing rule has one event, firing or acknowledged, and
   any other rule has none that is firing.  Two evaluations that overlap, a
   failed call and a PATCH of a firing rule each break it. *)
RuleMatchesEvents ==
  disturbed = "none" /\ AtRest /\ rule.exists =>
    IF rule.status = "firing"
    THEN /\ Cardinality(Open) <= 1
         /\ \E n \in EventRow : event[n].status \in {"firing", "acknowledged"}
    ELSE Open = {}

(* An event is created only when the clock has run for Duration and every evaluation
   since it was started found the condition met or found no value: one without a value
   neither restarts the clock nor stops it. *)
Sustained ==
  [][\A e \in Evaluation :
       evals[e].step = "create" /\ evals'[e].step # "create" /\ rule.exists /\ disturbed' = "none"
         => Due /\ ~lapsed]_alertVars

(* Two messages about a rule are more than the cooldown apart. *)
CooldownKept ==
  [][\A e \in Evaluation :
       evals[e].step = "notify" /\ evals'[e].step = "mark" /\ disturbed = "none"
         => sent = Never \/ sent > Cooldown]_alertVars

Enabled == rule.exists /\ rule.enabled

StaysMetFires == <>[](Enabled /\ metric = "met") => <>[](rule.status = "firing")
StaysUnmetResolves ==
  <>[](Enabled /\ metric = "unmet") /\ [](disturbed # "mixed") => <>[](rule.status = "ok" /\ Open = {})

(* A condition that stays met ends in a firing rule, whatever overlapped, failed
   or was patched before; one that stays unmet ends with the rule ok and its
   events closed, failed calls included.  While the metric has no value nothing is
   promised: a firing rule stays firing. *)
RuleFollowsMetric == StaysMetFires /\ StaysUnmetResolves
=============================================================================
