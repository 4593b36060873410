-------------------------- MODULE MonitoringProofs --------------------------
(***************************************************************************)
(* Until evaluations overlap, a call fails or a PATCH takes effect, an alert *)
(* rule and its events tell one story, an event needs a condition that was   *)
(* met all along, and messages keep the cooldown: for any number of          *)
(* evaluations, durations and event rows.  A cached snapshot is as young as  *)
(* it claims, the rates count every operation once, and the pool keeps its   *)
(* clients open and leaves none behind, for any number of requests and       *)
(* clients.                                                                  *)
(***************************************************************************)
EXTENDS MCMonitoring, FiniteSetTheorems, TLAPS

-----------------------------------------------------------------------------
(* The alert rule. *)

\* The event an evaluation goes on with is a row.
EvalRows == \A e \in Evaluation : evals[e].step \in {"notify", "mark", "flag"} => evals[e].event \in EventRow

\* Nobody else writes.
OneEvaluation == disturbed = "none" => \A d, e \in Evaluation : Writing(d) /\ Writing(e) => d = e

\* The rule remembers the last message, but between sending and marking.
MessageInv ==
  disturbed = "none" =>
    /\ \A e \in Evaluation :
         /\ evals[e].step = "notify" => evals[e].quiet
         /\ evals[e].step \in {"fire", "create", "notify"} /\ evals[e].quiet => sent = Never \/ sent > Cooldown
         /\ evals[e].step = "mark" => sent = 0
    /\ rule.exists /\ (\A e \in Evaluation : evals[e].step # "mark") => rule.notified = sent

\* A clock that runs has seen the condition met, or an evaluation is about to stop it.
ClockInv ==
  disturbed = "none" /\ rule.exists =>
    /\ rule.status # "paused"
    /\ rule.clock # Never \/ ~AtRest => rule.enabled
    /\ rule.clock # Never /\ lapsed => \E e \in Evaluation : evals[e].step \in {"resolve", "clear", "reset"}
    /\ \A e \in Evaluation : evals[e].step \in {"fire", "create"} => Due /\ ~lapsed

\* The rule and its events, and what they are between the two writes of an evaluation.
Story ==
  IF rule.status = "firing"
  THEN /\ \A m, n \in Open : m = n
       /\ \E n \in EventRow : event[n].status \in {"firing", "acknowledged"}
  ELSE Open = {}

StoryInv ==
  disturbed = "none" /\ rule.exists =>
    /\ \A e \in Evaluation :
         /\ evals[e].step = "fire" => rule.status # "firing"
         /\ evals[e].step = "create" => rule.status = "firing" /\ Open = {}
         /\ evals[e].step = "clear" => Open = {}
    /\ (\A e \in Evaluation : evals[e].step \notin {"create", "clear"}) => Story

AlertInv == AlertTypeOK /\ EvalRows /\ OneEvaluation /\ MessageInv /\ ClockInv /\ StoryInv

-----------------------------------------------------------------------------
(* What the steps have in common. *)

LEMMA Truths == TRUE \in BOOLEAN /\ FALSE \in BOOLEAN
OBVIOUS

LEMMA EvalAt ==
  ASSUME evals \in [Evaluation -> Eval], NEW e \in Evaluation, NEW x \in Eval, evals' = [evals EXCEPT ![e] = x]
  PROVE  /\ evals' \in [Evaluation -> Eval] /\ evals'[e] = x
         /\ \A d \in Evaluation \ {e} : evals'[d] = evals[d]
OBVIOUS

\* The records an evaluation becomes.
LEMMA EvalTyped ==
  /\ NoEval \in Eval
  /\ \A x \in Eval, st \in Steps : /\ [x EXCEPT !.step = st] \in Eval /\ [x EXCEPT !.step = st].step = st
                                   /\ [x EXCEPT !.step = st].quiet = x.quiet
                                   /\ [x EXCEPT !.step = st].event = x.event
  /\ \A x \in Eval : x.step \in Steps /\ x.quiet \in BOOLEAN /\ x.event \in {0} \cup EventRow
<1>1. \A b \in BOOLEAN : [step |-> "idle", quiet |-> b, event |-> 0] \in Eval
  BY DEF Eval, Steps
<1>2. NoEval \in Eval
  BY <1>1, Truths DEF NoEval
<1> QED BY <1>2 DEF Eval

\* An evaluation that nobody else writes beside: what is left to show of its step.
LEMMA SoleStep ==
  ASSUME AlertTypeOK, EvalRows, NEW e \in Evaluation, NEW x \in Eval, evals' = [evals EXCEPT ![e] = x],
         UNCHANGED routeVars, rule' \in Rule, event' \in [EventRow -> Event], lapsed' \in BOOLEAN,
         sent' \in Age(Cooldown + 1), disturbed' \in Disturbance,
         x.step \in {"notify", "mark", "flag"} => x.event \in EventRow,
         disturbed' = "none" =>
           /\ \A d \in Evaluation \ {e} : evals[d].step = "idle"
           /\ x.step = "notify" => x.quiet
           /\ x.step \in {"fire", "create", "notify"} /\ x.quiet => sent' = Never \/ sent' > Cooldown
           /\ x.step = "mark" => sent' = 0
           /\ rule'.exists /\ x.step # "mark" => rule'.notified = sent'
           /\ rule'.exists =>
                /\ rule'.status # "paused"
                /\ rule'.clock # Never \/ x.step # "idle" => rule'.enabled
                /\ rule'.clock # Never /\ lapsed' => x.step \in {"resolve", "clear", "reset"}
                /\ x.step \in {"fire", "create"} => rule'.clock = Duration /\ ~lapsed'
                /\ x.step = "fire" => rule'.status # "firing"
                /\ x.step = "create" => rule'.status = "firing" /\ Open' = {}
                /\ x.step = "clear" => Open' = {}
                /\ x.step \notin {"create", "clear"} => Story'
  PROVE  AlertInv'
<1>1. /\ evals' \in [Evaluation -> Eval] /\ evals'[e] = x
      /\ \A d \in Evaluation \ {e} : evals'[d] = evals[d]
  BY EvalAt DEF AlertTypeOK
<1>2. AlertTypeOK'
  BY <1>1 DEF AlertTypeOK, routeVars
<1>3. EvalRows'
  BY <1>1 DEF EvalRows
<1>4. disturbed' = "none" => \A d \in Evaluation \ {e} : evals'[d].step = "idle"
  BY <1>1
<1>5. OneEvaluation'
  BY <1>4 DEF OneEvaluation, Writing
<1>6. MessageInv'
  BY <1>1, <1>4 DEF MessageInv
<1>7. ClockInv'
  BY <1>1, <1>4 DEF ClockInv, AtRest, Writing, Due
<1>8. StoryInv'
  BY <1>1, <1>4 DEF StoryInv
<1> QED BY <1>2, <1>3, <1>5, <1>6, <1>7, <1>8 DEF AlertInv

\* What a sole writer finds.
LEMMA SoleFacts ==
  ASSUME AlertInv, disturbed = "none", NEW e \in Evaluation, Writing(e)
  PROVE  /\ \A d \in Evaluation \ {e} : evals[d].step = "idle"
         /\ rule.exists =>
              /\ evals[e].step # "mark" => rule.notified = sent
              /\ rule.status # "paused" /\ rule.enabled
              /\ rule.clock # Never /\ lapsed => evals[e].step \in {"resolve", "clear", "reset"}
              /\ evals[e].step \in {"fire", "create"} => rule.clock = Duration /\ ~lapsed
              /\ evals[e].step = "fire" => rule.status # "firing"
              /\ evals[e].step = "create" => rule.status = "firing" /\ Open = {}
              /\ evals[e].step = "clear" => Open = {}
              /\ evals[e].step \notin {"create", "clear"} => Story
<1>1. \A d \in Evaluation \ {e} : evals[d].step = "idle"
  BY DEF AlertInv, OneEvaluation, Writing
<1>2. ~AtRest
  BY DEF AtRest
<1>3. MessageInv /\ ClockInv /\ StoryInv
  BY DEF AlertInv
<1>4. rule.exists /\ evals[e].step # "mark" => rule.notified = sent
  BY <1>1, <1>3 DEF MessageInv
<1>5. rule.exists =>
        /\ rule.status # "paused" /\ rule.enabled
        /\ rule.clock # Never /\ lapsed => evals[e].step \in {"resolve", "clear", "reset"}
        /\ evals[e].step \in {"fire", "create"} => rule.clock = Duration /\ ~lapsed
  BY <1>1, <1>2, <1>3 DEF ClockInv, Due
<1>6. rule.exists =>
        /\ evals[e].step = "fire" => rule.status # "firing"
        /\ evals[e].step = "create" => rule.status = "firing" /\ Open = {}
        /\ evals[e].step = "clear" => Open = {}
        /\ evals[e].step \notin {"create", "clear"} => Story
  BY <1>1, <1>3 DEF StoryInv
<1> QED BY <1>1, <1>4, <1>5, <1>6

LEMMA AlertTyped ==
  ASSUME AlertInv
  PROVE  /\ AlertTypeOK /\ EvalRows /\ rule \in Rule /\ event \in [EventRow -> Event] /\ lapsed \in BOOLEAN
         /\ sent \in Age(Cooldown + 1) /\ disturbed \in Disturbance /\ evals \in [Evaluation -> Eval]
BY DEF AlertInv, AlertTypeOK

\* An update of the rule by an evaluation.
LEMMA RuleUpdated ==
  ASSUME AlertInv, NEW e \in Evaluation, NEW r \in Rule, NEW next \in Steps, Update(e, r, next)
  PROVE  \E x \in Eval :
           /\ evals' = [evals EXCEPT ![e] = x] /\ x.step \in {"idle", next}
           /\ x.step # "idle" => x.quiet = evals[e].quiet /\ x.event = evals[e].event
           /\ \/ rule.exists /\ rule' = r /\ x.step = next
              \/ ~rule.exists /\ rule' = rule /\ x.step = "idle"
<1>1. evals[e] \in Eval
  BY AlertTyped
<1>2. NoEval \in Eval /\ NoEval.step = "idle"
  BY EvalTyped DEF NoEval
<1>3. PICK y \in Eval : y = [evals[e] EXCEPT !.step = next]
  BY <1>1, EvalTyped
<1>4. y.step = next /\ y.quiet = evals[e].quiet /\ y.event = evals[e].event
  BY <1>1, <1>3 DEF Eval
<1>5. next # "idle" => ([evals EXCEPT ![e].step = next] = [evals EXCEPT ![e] = y])
  BY <1>3
<1>6. CASE rule.exists /\ next # "idle"
  BY <1>3, <1>4, <1>5, <1>6 DEF Update, To
<1>7. CASE rule.exists /\ next = "idle"
  BY <1>2, <1>7 DEF Update, To, Done
<1>8. CASE ~rule.exists
  BY <1>2, <1>8 DEF Update, Done
<1> QED BY <1>6, <1>7, <1>8

\* The ages of the rule and the last message.
LEMMA Ages ==
  /\ Never \in Age(Duration) /\ 0 \in Age(Duration) /\ Duration \in Age(Duration)
  /\ Never \in Age(Cooldown + 1) /\ 0 \in Age(Cooldown + 1) /\ Never # 0 /\ Duration # Never
  /\ \A a \in Age(Duration) : Older(a, Duration) \in Age(Duration)
  /\ \A a \in Age(Cooldown + 1) : Older(a, Cooldown + 1) \in Age(Cooldown + 1)
BY AlertsAssumption DEF Age, Never, Older

-----------------------------------------------------------------------------
(* The steps of an evaluation. *)

LEMMA FindStep == ASSUME AlertInv, NEW e \in Evaluation, FindRules(e) PROVE AlertInv'
<1>1. PICK step \in Steps :
        /\ step = (IF rule.exists /\ rule.enabled /\ rule.status # "paused" THEN Branch ELSE "idle")
        /\ evals' = [evals EXCEPT ![e] = [NoEval EXCEPT !.step = step, !.quiet = step = "fire" /\ Quiet]]
        /\ disturbed' = IF step # "idle" /\ \E d \in Evaluation \ {e} : Writing(d) THEN "mixed" ELSE disturbed
  <2>1. Branch \in Steps /\ "idle" \in Steps
    BY DEF Branch, Steps
  <2> QED BY <2>1 DEF FindRules
<1>2. /\ evals[e].step = "idle" /\ lapsed' = (rule.clock # Never /\ (lapsed \/ metric = "unmet"))
      /\ UNCHANGED <<rule, event, sent, routeVars>>
  BY DEF FindRules
<1>3. PICK x \in Eval : /\ x = [NoEval EXCEPT !.step = step, !.quiet = step = "fire" /\ Quiet]
                        /\ x.step = step /\ (x.quiet <=> step = "fire" /\ Quiet)
  <2>1. (step = "fire" /\ Quiet) \in BOOLEAN
    BY DEF Quiet
  <2>2. \A b \in BOOLEAN : /\ [NoEval EXCEPT !.step = step, !.quiet = b] \in Eval
                           /\ [NoEval EXCEPT !.step = step, !.quiet = b].step = step
                           /\ [NoEval EXCEPT !.step = step, !.quiet = b].quiet = b
    BY <1>1 DEF Eval, NoEval
  <2> QED BY <2>1, <2>2
<1>4. evals' = [evals EXCEPT ![e] = x]
  BY <1>1, <1>3
<1>5. /\ step \in {"idle", "start", "fire", "resolve", "reset"}
      /\ step # "idle" => rule.exists /\ rule.enabled /\ rule.status # "paused"
      /\ step = "fire" => metric = "met" /\ Due /\ rule.status # "firing"
      /\ step = "start" => rule.clock = Never
      /\ step = "idle" /\ rule.exists /\ rule.enabled /\ rule.status # "paused" /\ metric = "unmet" => rule.clock = Never
  BY <1>1 DEF Branch
<1>6. lapsed' \in BOOLEAN /\ disturbed' \in Disturbance
  BY <1>1, <1>2, AlertTyped DEF Disturbance
<1>7. CASE step = "idle"
  <2>1. /\ evals' \in [Evaluation -> Eval] /\ evals'[e] = x
        /\ \A d \in Evaluation \ {e} : evals'[d] = evals[d]
    BY <1>4, AlertTyped, EvalAt
  <2>2. \A d \in Evaluation : evals'[d].step = evals[d].step
    BY <1>2, <1>3, <1>7, <2>1
  <2>3. \A d \in Evaluation : evals[d].step # "idle" => evals'[d] = evals[d]
    BY <1>2, <2>1
  <2>4. AlertTypeOK'
    BY <1>2, <1>6, <2>1, AlertTyped DEF AlertTypeOK, routeVars
  <2>5. disturbed' = disturbed /\ UNCHANGED <<rule, event, sent>>
    BY <1>1, <1>2, <1>7
  <2>6. EvalRows'
    BY <2>2, <2>3, AlertTyped DEF EvalRows
  <2>7. OneEvaluation'
    BY <2>2, <2>5 DEF AlertInv, OneEvaluation, Writing
  <2>8. MessageInv'
    BY <2>2, <2>3, <2>5 DEF AlertInv, MessageInv
  <2>9. StoryInv'
    <3>1. (Story' <=> Story) /\ Open' = Open
      BY <2>5 DEF Story, Open
    <3> QED BY <2>2, <2>5, <3>1 DEF AlertInv, StoryInv
  <2>10. ClockInv'
    <3> SUFFICES ASSUME disturbed = "none", rule.exists PROVE ClockInv'
      BY <2>5 DEF ClockInv
    <3>1. ClockInv /\ rule.status # "paused" /\ (rule.clock # Never => rule.enabled)
      BY DEF AlertInv, ClockInv
    <3>2. rule.clock # Never => (lapsed' <=> lapsed)
      BY <1>2, <1>5, <1>7, <3>1
    <3>3. \A d \in Evaluation : evals[d].step \in {"fire", "create"} => rule.clock # Never
      BY <3>1, Ages DEF ClockInv, Due
    <3>4. AtRest' <=> AtRest
      BY <2>2 DEF AtRest, Writing
    <3> QED BY <2>2, <2>5, <3>1, <3>2, <3>3, <3>4 DEF ClockInv, Due
  <2> QED BY <2>4, <2>6, <2>7, <2>8, <2>9, <2>10 DEF AlertInv
<1>8. CASE step # "idle"
  <2>1. disturbed' = "none" => disturbed = "none" /\ \A d \in Evaluation : evals[d].step = "idle"
    BY <1>1, <1>2, <1>8 DEF Writing
  <2>2. ASSUME disturbed' = "none"
        PROVE  /\ rule.notified = sent /\ rule.exists /\ rule.status # "paused" /\ rule.enabled
               /\ (rule.clock # Never => ~lapsed) /\ Story
    <3>1. disturbed = "none" /\ rule.exists /\ MessageInv /\ ClockInv /\ StoryInv
      BY <1>5, <1>8, <2>1, <2>2 DEF AlertInv
    <3>2. rule.notified = sent
      BY <2>1, <2>2, <3>1 DEF MessageInv
    <3>3. rule.clock # Never => ~lapsed
      BY <2>1, <2>2, <3>1 DEF ClockInv
    <3>4. Story
      BY <2>1, <2>2, <3>1 DEF StoryInv
    <3> QED BY <1>5, <1>8, <3>1, <3>2, <3>3, <3>4
  <2>3. UNCHANGED <<rule, event, sent>> /\ UNCHANGED routeVars /\ Open' = Open /\ (Story' <=> Story)
    BY <1>2 DEF Story, Open
  <2>4. disturbed' = "none" /\ step = "fire" => rule.clock = Duration /\ ~lapsed' /\ (x.quiet => sent = Never \/ sent > Cooldown)
    BY <1>2, <1>3, <1>5, <2>2, Ages DEF Due, Quiet
  <2>5. disturbed' = "none" /\ rule.clock # Never /\ lapsed' => step \in {"resolve", "reset"}
    BY <1>2, <1>5, <1>8, <2>2, <2>4
  <2> QED BY <1>3, <1>4, <1>5, <1>6, <1>8, <2>1, <2>2, <2>3, <2>4, <2>5, AlertTyped, SoleStep
<1> QED BY <1>7, <1>8

LEMMA StartStep == ASSUME AlertInv, NEW e \in Evaluation, StartClock(e) PROVE AlertInv'
<1> DEFINE r == [rule EXCEPT !.clock = 0]
<1>1. /\ r \in Rule /\ r.exists = rule.exists /\ r.enabled = rule.enabled /\ r.status = rule.status
      /\ r.notified = rule.notified
  BY AlertTyped, Ages DEF Rule
<1> HIDE DEF r
<1>2. /\ evals[e].step = "start" /\ Update(e, r, "idle") /\ lapsed' = FALSE
      /\ UNCHANGED <<event, disturbed, sent, routeVars>>
  BY DEF StartClock, r
<1>3. PICK x \in Eval :
        /\ evals' = [evals EXCEPT ![e] = x] /\ x.step = "idle"
        /\ \/ rule.exists /\ rule' = r
           \/ ~rule.exists /\ rule' = rule
  <2>1. "idle" \in Steps
    BY DEF Steps
  <2> QED BY <1>1, <1>2, <2>1, RuleUpdated
<1>4. Writing(e)
  BY <1>2 DEF Writing
<1>5. Open' = Open /\ (rule'.status = rule.status => (Story' <=> Story))
  BY <1>2 DEF Story, Open
<1>6. rule' \in Rule /\ lapsed' \in BOOLEAN /\ lapsed' = FALSE
  BY <1>1, <1>2, <1>3, AlertTyped, Truths
<1> QED BY <1>1, <1>2, <1>3, <1>4, <1>5, <1>6, AlertTyped, SoleFacts, SoleStep

LEMMA FireStep == ASSUME AlertInv, NEW e \in Evaluation, FireRule(e) PROVE AlertInv'
<1> DEFINE r == [rule EXCEPT !.status = "firing"]
<1>1. /\ r \in Rule /\ r.exists = rule.exists /\ r.enabled = rule.enabled /\ r.status = "firing"
      /\ r.notified = rule.notified /\ r.clock = rule.clock
  BY AlertTyped DEF Rule
<1> HIDE DEF r
<1>2. /\ evals[e].step = "fire" /\ Update(e, r, "create")
      /\ UNCHANGED <<event, disturbed, lapsed, sent, routeVars>>
  BY DEF FireRule, r
<1>3. PICK x \in Eval :
        /\ evals' = [evals EXCEPT ![e] = x] /\ x.step \in {"idle", "create"}
        /\ x.step # "idle" => x.quiet = evals[e].quiet
        /\ \/ rule.exists /\ rule' = r /\ x.step = "create"
           \/ ~rule.exists /\ rule' = rule /\ x.step = "idle"
  <2>1. "create" \in Steps
    BY DEF Steps
  <2> QED BY <1>1, <1>2, <2>1, RuleUpdated
<1>4. Writing(e)
  BY <1>2 DEF Writing
<1>5. Open' = Open /\ (disturbed = "none" /\ rule.exists => Open = {})
  BY <1>2, <1>4, SoleFacts DEF Story, Open
<1>6. rule' \in Rule
  BY <1>1, <1>3, AlertTyped
<1>7. disturbed = "none" /\ x.step = "create" /\ x.quiet => sent = Never \/ sent > Cooldown
  BY <1>2, <1>3 DEF AlertInv, MessageInv
<1> QED BY <1>1, <1>2, <1>3, <1>4, <1>5, <1>6, <1>7, AlertTyped, SoleFacts, SoleStep

LEMMA CreateStep == ASSUME AlertInv, NEW e \in Evaluation, CreateEvent(e) PROVE AlertInv'
<1>1. evals[e].step = "create" /\ UNCHANGED <<rule, disturbed, lapsed, sent, routeVars>> /\ Writing(e)
  BY DEF CreateEvent, Writing
<1>2. CASE rule.exists
  <2>1. PICK n \in EventRow :
          /\ event' = [event EXCEPT ![n] = [status |-> "firing", notified |-> FALSE]]
          /\ IF evals[e].quiet
             THEN evals' = [evals EXCEPT ![e] = [@ EXCEPT !.step = "notify", !.event = n]]
             ELSE Done(e)
    BY <1>2 DEF CreateEvent
  <2>2. /\ event' \in [EventRow -> Event] /\ event'[n].status = "firing"
        /\ \A k \in EventRow \ {n} : event'[k] = event[k]
    <3>1. \A b \in BOOLEAN : [status |-> "firing", notified |-> b] \in Event
      BY DEF Event
    <3>2. [status |-> "firing", notified |-> FALSE] \in Event
      BY <3>1, Truths
    <3> QED BY <2>1, <3>2, AlertTyped
  <2>3. Open = {} => Open' = {n}
    BY <2>2 DEF Open
  <2>4. PICK x \in Eval :
          /\ evals' = [evals EXCEPT ![e] = x] /\ x.step \in {"idle", "notify"}
          /\ x.step = "notify" => x.quiet /\ x.event = n /\ evals[e].quiet
    <3>1. evals[e] \in Eval /\ NoEval \in Eval /\ NoEval.step = "idle"
      BY AlertTyped, EvalTyped DEF NoEval
    <3>2. CASE evals[e].quiet
      <4> DEFINE y == [evals[e] EXCEPT !.step = "notify", !.event = n]
      <4>1. y \in Eval /\ y.step = "notify" /\ y.event = n /\ y.quiet = evals[e].quiet
        BY <3>1 DEF Eval, Steps
      <4>2. evals' = [evals EXCEPT ![e] = y]
        BY <2>1, <3>2
      <4> HIDE DEF y
      <4> QED BY <3>2, <4>1, <4>2
    <3>3. CASE ~evals[e].quiet
      BY <2>1, <3>1, <3>3 DEF Done
    <3> QED BY <3>2, <3>3
  <2>5. disturbed = "none" => Open' = {n} /\ Story'
    BY <1>1, <1>2, <2>2, <2>3, SoleFacts DEF Story
  <2>6. disturbed = "none" /\ x.quiet /\ x.step = "notify" => sent = Never \/ sent > Cooldown
    BY <1>1, <2>4 DEF AlertInv, MessageInv
  <2> QED BY <1>1, <1>2, <2>2, <2>4, <2>5, <2>6, AlertTyped, SoleFacts, SoleStep
<1>3. CASE ~rule.exists
  <2>1. NoEval \in Eval /\ NoEval.step = "idle" /\ evals' = [evals EXCEPT ![e] = NoEval] /\ event' = event
    BY <1>3, EvalTyped DEF CreateEvent, Done, NoEval
  <2> QED BY <1>1, <1>3, <2>1, AlertTyped, SoleFacts, SoleStep
<1> QED BY <1>2, <1>3

LEMMA NotifyStep == ASSUME AlertInv, NEW e \in Evaluation, Notify(e) PROVE AlertInv'
<1>1. /\ evals[e].step = "notify" /\ sent' = 0 /\ Writing(e)
      /\ UNCHANGED <<rule, event, disturbed, lapsed, routeVars>>
  BY DEF Notify, Writing
<1>2. PICK x \in Eval : evals' = [evals EXCEPT ![e] = x] /\ x.step = "mark" /\ x.event = evals[e].event
  <2>1. evals[e] \in Eval
    BY AlertTyped
  <2>2. PICK y \in Eval : y = [evals[e] EXCEPT !.step = "mark"]
    BY <2>1 DEF Eval, Steps
  <2>3. y.step = "mark" /\ y.event = evals[e].event
    BY <2>1, <2>2 DEF Eval
  <2>4. evals' = [evals EXCEPT ![e] = y]
    BY <2>2 DEF Notify, To
  <2> QED BY <2>3, <2>4
<1>3. x.event \in EventRow /\ Open' = Open /\ (Story' <=> Story)
  BY <1>1, <1>2 DEF AlertInv, EvalRows, Story, Open
<1> QED BY <1>1, <1>2, <1>3, AlertTyped, Ages, SoleFacts, SoleStep

LEMMA MarkNotifiedStep == ASSUME AlertInv, NEW e \in Evaluation, MarkNotified(e) PROVE AlertInv'
<1> DEFINE r == [rule EXCEPT !.notified = 0]
<1>1. /\ r \in Rule /\ r.exists = rule.exists /\ r.enabled = rule.enabled /\ r.status = rule.status
      /\ r.notified = 0 /\ r.clock = rule.clock
  BY AlertTyped, Ages DEF Rule
<1> HIDE DEF r
<1>2. /\ evals[e].step = "mark" /\ Update(e, r, "flag") /\ Writing(e)
      /\ UNCHANGED <<event, disturbed, lapsed, sent, routeVars>>
  BY DEF MarkNotified, r, Writing
<1>3. PICK x \in Eval :
        /\ evals' = [evals EXCEPT ![e] = x] /\ x.step \in {"idle", "flag"}
        /\ x.step # "idle" => x.event = evals[e].event
        /\ \/ rule.exists /\ rule' = r
           \/ ~rule.exists /\ rule' = rule
  <2>1. "flag" \in Steps
    BY DEF Steps
  <2> QED BY <1>1, <1>2, <2>1, RuleUpdated
<1>4. Open' = Open /\ (rule'.status = rule.status => (Story' <=> Story))
  BY <1>2 DEF Story, Open
<1>5. rule' \in Rule /\ (x.step = "flag" => x.event \in EventRow)
  BY <1>1, <1>2, <1>3, AlertTyped DEF EvalRows
<1>6. disturbed = "none" => sent = 0
  BY <1>2 DEF AlertInv, MessageInv
<1> QED BY <1>1, <1>2, <1>3, <1>4, <1>5, <1>6, AlertTyped, SoleFacts, SoleStep

LEMMA FlagStep == ASSUME AlertInv, NEW e \in Evaluation, FlagEvent(e) PROVE AlertInv'
<1>1. /\ evals[e].step = "flag" /\ evals' = [evals EXCEPT ![e] = NoEval] /\ Writing(e)
      /\ event' = (IF rule.exists THEN [event EXCEPT ![evals[e].event].notified = TRUE] ELSE event)
      /\ UNCHANGED <<rule, disturbed, lapsed, sent, routeVars>>
  BY DEF FlagEvent, Done, Writing
<1>2. NoEval \in Eval /\ NoEval.step = "idle" /\ evals[e].event \in EventRow
  BY <1>1, EvalTyped, AlertTyped DEF NoEval, EvalRows
<1>3. event' \in [EventRow -> Event] /\ \A n \in EventRow : event'[n].status = event[n].status
  <2>1. \A n \in EventRow, b \in BOOLEAN : /\ [event[n] EXCEPT !.notified = b] \in Event
                                           /\ [event[n] EXCEPT !.notified = b].status = event[n].status
    BY AlertTyped DEF Event
  <2>2. PICK n \in EventRow, b \in BOOLEAN : n = evals[e].event /\ b = TRUE
    BY <1>2, Truths
  <2>3. event' = [event EXCEPT ![n] = [event[n] EXCEPT !.notified = b]] \/ event' = event
    BY <1>1, <2>2
  <2> QED BY <2>1, <2>3, AlertTyped
<1>4. Open' = Open /\ (Story' <=> Story)
  <2>1. Open' = Open
    BY <1>3 DEF Open
  <2> QED BY <1>1, <1>3, <2>1 DEF Story
<1> QED BY <1>1, <1>2, <1>3, <1>4, AlertTyped, SoleFacts, SoleStep

LEMMA ResolveStep == ASSUME AlertInv, NEW e \in Evaluation, ResolveEvents(e) PROVE AlertInv'
<1>1. /\ evals[e].step = "resolve" /\ Writing(e) /\ UNCHANGED <<rule, disturbed, lapsed, sent, routeVars>>
      /\ event' = [n \in EventRow |-> IF event[n].status = "firing"
                                      THEN [event[n] EXCEPT !.status = "resolved"] ELSE event[n]]
  BY DEF ResolveEvents, Writing
<1>2. PICK x \in Eval : evals' = [evals EXCEPT ![e] = x] /\ x.step = "clear"
  <2>1. evals[e] \in Eval
    BY AlertTyped
  <2>2. PICK y \in Eval : y = [evals[e] EXCEPT !.step = "clear"]
    BY <2>1 DEF Eval, Steps
  <2>3. y.step = "clear"
    BY <2>1, <2>2 DEF Eval
  <2>4. evals' = [evals EXCEPT ![e] = y]
    BY <2>2 DEF ResolveEvents, To
  <2> QED BY <2>3, <2>4
<1>3. event' \in [EventRow -> Event] /\ Open' = {}
  <2>1. \A n \in EventRow : event[n] \in Event /\ [event[n] EXCEPT !.status = "resolved"] \in Event
                            /\ [event[n] EXCEPT !.status = "resolved"].status = "resolved"
    BY AlertTyped DEF Event
  <2> QED BY <1>1, <2>1 DEF Open
<1> QED BY <1>1, <1>2, <1>3, AlertTyped, SoleFacts, SoleStep

LEMMA ClearStep == ASSUME AlertInv, NEW e \in Evaluation, ClearRule(e) PROVE AlertInv'
<1> DEFINE r == [rule EXCEPT !.status = "ok", !.clock = Never]
<1>1. /\ r \in Rule /\ r.exists = rule.exists /\ r.enabled = rule.enabled /\ r.status = "ok"
      /\ r.notified = rule.notified /\ r.clock = Never
  BY AlertTyped, Ages DEF Rule
<1> HIDE DEF r
<1>2. /\ evals[e].step = "clear" /\ Update(e, r, "idle") /\ Writing(e)
      /\ UNCHANGED <<event, disturbed, lapsed, sent, routeVars>>
  BY DEF ClearRule, r, Writing
<1>3. PICK x \in Eval :
        /\ evals' = [evals EXCEPT ![e] = x] /\ x.step = "idle"
        /\ \/ rule.exists /\ rule' = r
           \/ ~rule.exists /\ rule' = rule
  <2>1. "idle" \in Steps
    BY DEF Steps
  <2> QED BY <1>1, <1>2, <2>1, RuleUpdated
<1>4. Open' = Open /\ (disturbed = "none" /\ rule.exists => Story')
  BY <1>1, <1>2, <1>3, SoleFacts DEF Story, Open
<1>5. rule' \in Rule
  BY <1>1, <1>3, AlertTyped
<1> QED BY <1>1, <1>2, <1>3, <1>4, <1>5, AlertTyped, SoleFacts, SoleStep

LEMMA ResetStep == ASSUME AlertInv, NEW e \in Evaluation, ResetClock(e) PROVE AlertInv'
<1> DEFINE r == [rule EXCEPT !.clock = Never]
<1>1. /\ r \in Rule /\ r.exists = rule.exists /\ r.enabled = rule.enabled /\ r.status = rule.status
      /\ r.notified = rule.notified /\ r.clock = Never
  BY AlertTyped, Ages DEF Rule
<1> HIDE DEF r
<1>2. /\ evals[e].step = "reset" /\ Update(e, r, "idle") /\ Writing(e)
      /\ UNCHANGED <<event, disturbed, lapsed, sent, routeVars>>
  BY DEF ResetClock, r, Writing
<1>3. PICK x \in Eval :
        /\ evals' = [evals EXCEPT ![e] = x] /\ x.step = "idle"
        /\ \/ rule.exists /\ rule' = r
           \/ ~rule.exists /\ rule' = rule
  <2>1. "idle" \in Steps
    BY DEF Steps
  <2> QED BY <1>1, <1>2, <2>1, RuleUpdated
<1>4. Open' = Open /\ (rule'.status = rule.status => (Story' <=> Story))
  BY <1>2 DEF Story, Open
<1>5. rule' \in Rule
  BY <1>1, <1>3, AlertTyped
<1> QED BY <1>1, <1>2, <1>3, <1>4, <1>5, AlertTyped, SoleFacts, SoleStep

LEMMA FailStep == ASSUME AlertInv, NEW e \in Evaluation, Fail(e) PROVE AlertInv'
<1>1. /\ evals' = [evals EXCEPT ![e] = NoEval] /\ disruptions' = disruptions + 1
      /\ disturbed' = (IF disturbed = "none" THEN "fault" ELSE disturbed)
      /\ UNCHANGED <<metric, rule, event, patch, ack, lapsed, sent>>
  BY DEF Fail, Done
<1>2. disturbed' \in Disturbance /\ disturbed' # "none"
  BY <1>1, AlertTyped DEF Disturbance
<1>3. /\ evals' \in [Evaluation -> Eval] /\ evals'[e] = NoEval /\ NoEval.step = "idle"
      /\ \A d \in Evaluation \ {e} : evals'[d] = evals[d]
  BY <1>1, AlertTyped, EvalTyped, EvalAt DEF NoEval
<1>4. AlertTypeOK'
  BY <1>1, <1>2, <1>3, AlertTyped DEF AlertTypeOK
<1>5. EvalRows'
  BY <1>3, AlertTyped DEF EvalRows
<1> QED BY <1>2, <1>4, <1>5 DEF AlertInv, OneEvaluation, MessageInv, ClockInv, StoryInv

-----------------------------------------------------------------------------
(* The environment and the routes. *)

\* A step that leaves the evaluations alone, and what they rely on.
LEMMA BesideEvals ==
  ASSUME AlertInv, UNCHANGED <<evals, lapsed>>, AlertTypeOK',
         disturbed' = "none" =>
           /\ disturbed = "none"
           /\ \/ sent' = sent /\ (rule'.exists => rule'.notified = rule.notified)
              \/ AtRest /\ (rule.notified = sent => rule'.notified = sent')
           /\ rule'.exists =>
                /\ rule.exists /\ rule'.enabled = rule.enabled /\ rule'.status = rule.status
                /\ rule'.clock = rule.clock \/ (AtRest /\ rule.clock # Never /\ rule'.clock # Never)
                /\ Open' \subseteq Open
                /\ (\E n \in EventRow : event[n].status \in {"firing", "acknowledged"}) =>
                     (\E n \in EventRow : event'[n].status \in {"firing", "acknowledged"})
  PROVE  AlertInv'
<1>1. EvalRows' /\ (AtRest' <=> AtRest)
  BY DEF AlertInv, EvalRows, AtRest, Writing
<1>2. OneEvaluation'
  BY DEF AlertInv, OneEvaluation, Writing
<1>3. MessageInv'
  <2> SUFFICES ASSUME disturbed' = "none" PROVE MessageInv'
    BY DEF MessageInv
  <2>1. CASE sent' = sent /\ (rule'.exists => rule'.notified = rule.notified)
    BY <2>1 DEF AlertInv, MessageInv
  <2>2. CASE AtRest /\ (rule.notified = sent => rule'.notified = sent')
    BY <2>2 DEF AlertInv, MessageInv, AtRest, Writing
  <2> QED BY <2>1, <2>2
<1>4. ClockInv'
  <2> SUFFICES ASSUME disturbed' = "none", rule'.exists PROVE ClockInv'
    BY DEF ClockInv
  <2>1. CASE rule'.clock = rule.clock
    BY <1>1, <2>1 DEF AlertInv, ClockInv, Due
  <2>2. CASE AtRest /\ rule.clock # Never /\ rule'.clock # Never
    BY <1>1, <2>2 DEF AlertInv, ClockInv, AtRest, Writing
  <2> QED BY <2>1, <2>2
<1>5. StoryInv'
  <2> SUFFICES ASSUME disturbed' = "none", rule'.exists PROVE StoryInv'
    BY DEF StoryInv
  <2>1. Story => Story'
    BY DEF Story
  <2> QED BY <2>1 DEF AlertInv, StoryInv
<1> QED BY <1>1, <1>2, <1>3, <1>4, <1>5 DEF AlertInv

LEMMA EnvironmentStep ==
  ASSUME AlertInv, MetricMoves \/ Tick \/ PatchRead \/ AckRead \/ UNCHANGED alertVars
  PROVE  AlertInv'
<1>1. CASE MetricMoves
  <2>1. metric' \in Reading /\ UNCHANGED <<rule, event, evals, patch, ack, disruptions, disturbed, lapsed, sent>>
    BY <1>1 DEF MetricMoves
  <2>2. AlertTypeOK' /\ Open' = Open
    BY <2>1, AlertTyped DEF AlertTypeOK, Open
  <2> QED BY <2>1, <2>2, BesideEvals
<1>2. CASE Tick
  <2>1. /\ AtRest /\ rule' = [rule EXCEPT !.clock = Older(rule.clock, Duration),
                                          !.notified = Older(rule.notified, Cooldown + 1)]
        /\ sent' = Older(sent, Cooldown + 1)
        /\ UNCHANGED <<metric, event, evals, patch, ack, disruptions, disturbed, lapsed>>
    BY <1>2 DEF Tick, AtRest
  <2>2. rule.clock \in Age(Duration) /\ rule.notified \in Age(Cooldown + 1)
    BY AlertTyped DEF Rule
  <2>3. PICK c \in Age(Duration), m \in Age(Cooldown + 1) :
          c = Older(rule.clock, Duration) /\ m = Older(rule.notified, Cooldown + 1)
    BY <2>2, Ages
  <2>4. rule' = [rule EXCEPT !.clock = c, !.notified = m]
    BY <2>1, <2>3
  <2>5. /\ rule' \in Rule /\ rule'.exists = rule.exists /\ rule'.enabled = rule.enabled
        /\ rule'.status = rule.status /\ rule'.clock = c /\ rule'.notified = m
    BY <2>4, AlertTyped DEF Rule
  <2>6. rule.clock = c \/ (rule.clock # Never /\ c # Never)
    BY <2>2, <2>3, AlertsAssumption DEF Older, Age, Never
  <2>7. sent' \in Age(Cooldown + 1) /\ (rule.notified = sent => m = sent')
    BY <2>1, <2>3, Ages, AlertTyped
  <2>8. AlertTypeOK' /\ Open' = Open
    BY <2>1, <2>5, <2>7, AlertTyped DEF AlertTypeOK, Open
  <2>9. disturbed = "none" /\ rule.exists => rule.notified = sent
    BY <2>1 DEF AlertInv, MessageInv, AtRest, Writing
  <2> QED BY <2>1, <2>5, <2>6, <2>7, <2>8, <2>9, BesideEvals
<1>3. CASE PatchRead
  <2>1. UNCHANGED <<rule, event, ack, disturbed, metric, evals, lapsed, sent>>
    BY <1>3 DEF PatchRead, evalVars
  <2>2. patch' \in Patch /\ disruptions' \in Nat
    <3>1. \A on, was \in BOOLEAN, b \in BOOLEAN : [pending |-> b, on |-> on, was |-> was] \in Patch
      BY DEF Patch
    <3>2. PICK on \in BOOLEAN : patch' = [pending |-> TRUE, on |-> on, was |-> on /\ rule.enabled]
      BY <1>3 DEF PatchRead
    <3>3. (on /\ rule.enabled) \in BOOLEAN
      OBVIOUS
    <3>4. patch' \in Patch
      BY <3>1, <3>2, <3>3, Truths
    <3> QED BY <1>3, <3>4, AlertTyped DEF PatchRead, AlertTypeOK
  <2>3. AlertTypeOK' /\ Open' = Open
    BY <2>1, <2>2, AlertTyped DEF AlertTypeOK, Open
  <2> QED BY <2>1, <2>3, BesideEvals
<1>4. CASE AckRead
  <2>1. UNCHANGED <<rule, event, patch, disruptions, disturbed, metric, evals, lapsed, sent>> /\ ack' \in EventRow
    BY <1>4 DEF AckRead, evalVars
  <2>2. AlertTypeOK' /\ Open' = Open
    BY <2>1, AlertTyped DEF AlertTypeOK, Open
  <2> QED BY <2>1, <2>2, BesideEvals
<1>5. CASE UNCHANGED alertVars
  <2>1. UNCHANGED <<metric, rule, event, evals, patch, ack, disruptions, disturbed, lapsed, sent>>
    BY <1>5 DEF alertVars
  <2>2. AlertTypeOK' /\ Open' = Open
    BY <2>1, AlertTyped DEF AlertTypeOK, Open
  <2> QED BY <2>1, <2>2, BesideEvals
<1> QED BY <1>1, <1>2, <1>3, <1>4, <1>5

LEMMA PatchStep == ASSUME AlertInv, PatchWrite PROVE AlertInv'
<1>1. /\ patch' = NoPatch /\ UNCHANGED <<event, ack, disruptions, metric, evals, lapsed, sent>>
      /\ disturbed' = (IF rule' = rule THEN disturbed ELSE "mixed")
  BY DEF PatchWrite, evalVars
<1>2. rule' \in Rule
  <2>1. rule' = rule \/ rule' = Paused \/ rule' = Resumed \/ rule' = [rule EXCEPT !.enabled = TRUE]
    BY DEF PatchWrite
  <2>2. \A b \in BOOLEAN :
          /\ [rule EXCEPT !.enabled = b, !.status = "paused", !.clock = Never] \in Rule
          /\ [rule EXCEPT !.enabled = b, !.status = "ok", !.clock = Never, !.notified = Never] \in Rule
          /\ [rule EXCEPT !.enabled = b] \in Rule
    BY AlertTyped, Ages DEF Rule
  <2>3. Paused \in Rule /\ Resumed \in Rule /\ [rule EXCEPT !.enabled = TRUE] \in Rule
    BY <2>2, Truths DEF Paused, Resumed
  <2> QED BY <2>1, <2>3, AlertTyped
<1>3. patch' \in Patch
  <2>1. \A b \in BOOLEAN : [pending |-> b, on |-> b, was |-> b] \in Patch
    BY DEF Patch
  <2> QED BY <1>1, <2>1, Truths DEF NoPatch
<1>4. disturbed' \in Disturbance /\ (disturbed' = "none" => disturbed = "none" /\ rule' = rule)
  BY <1>1, AlertTyped DEF Disturbance
<1>5. AlertTypeOK' /\ Open' = Open
  BY <1>1, <1>2, <1>3, <1>4, AlertTyped DEF AlertTypeOK, Open
<1> QED BY <1>1, <1>4, <1>5, BesideEvals

LEMMA DeleteRuleStep == ASSUME AlertInv, DeleteRule PROVE AlertInv'
<1>1. /\ rule' = NoRule /\ event' = [n \in EventRow |-> NoEvent]
      /\ UNCHANGED <<patch, ack, disruptions, disturbed, metric, evals, lapsed, sent>>
  BY DEF DeleteRule, evalVars
<1>2. rule' \in Rule /\ ~rule'.exists
  <2>1. \A b \in BOOLEAN : [exists |-> b, enabled |-> b, status |-> "ok", clock |-> Never, notified |-> Never] \in Rule
    BY Ages DEF Rule
  <2>2. NoRule \in Rule
    BY <2>1, Truths DEF NoRule
  <2> QED BY <1>1, <2>2 DEF NoRule
<1>3. event' \in [EventRow -> Event]
  <2>1. \A b \in BOOLEAN : [status |-> "none", notified |-> b] \in Event
    BY DEF Event
  <2>2. NoEvent \in Event
    BY <2>1, Truths DEF NoEvent
  <2> QED BY <1>1, <2>2
<1>4. AlertTypeOK'
  BY <1>1, <1>2, <1>3, AlertTyped DEF AlertTypeOK
<1> QED BY <1>1, <1>2, <1>4, BesideEvals

LEMMA AckStep == ASSUME AlertInv, AckWrite PROVE AlertInv'
<1>1. /\ ack # 0 /\ ack' = 0 /\ event' = (IF rule.exists THEN [event EXCEPT ![ack].status = "acknowledged"] ELSE event)
      /\ UNCHANGED <<rule, patch, disruptions, disturbed, metric, evals, lapsed, sent>>
  BY DEF AckWrite, evalVars
<1>2. PICK n \in EventRow : n = ack
  BY <1>1, AlertTyped DEF AlertTypeOK
<1>3. /\ [event[n] EXCEPT !.status = "acknowledged"] \in Event
      /\ [event[n] EXCEPT !.status = "acknowledged"].status = "acknowledged"
  BY AlertTyped DEF Event
<1>4. event' = event \/ event' = [event EXCEPT ![n] = [event[n] EXCEPT !.status = "acknowledged"]]
  BY <1>1, <1>2
<1>5. /\ event' \in [EventRow -> Event] /\ \A k \in EventRow \ {n} : event'[k] = event[k]
      /\ event'[n] = event[n] \/ event'[n].status = "acknowledged"
  BY <1>3, <1>4, AlertTyped
<1>6. AlertTypeOK'
  BY <1>1, <1>5, AlertTyped DEF AlertTypeOK
<1>7. Open' \subseteq Open
  BY <1>5 DEF Open
<1>8. (\E k \in EventRow : event[k].status \in {"firing", "acknowledged"}) =>
        (\E k \in EventRow : event'[k].status \in {"firing", "acknowledged"})
  BY <1>5
<1> QED BY <1>1, <1>6, <1>7, <1>8, BesideEvals

LEMMA AlertStep == AlertInv /\ [AlertNext]_alertVars => AlertInv'
<1> SUFFICES ASSUME AlertInv, [AlertNext]_alertVars PROVE AlertInv'
  OBVIOUS
<1>1. ASSUME NEW e \in Evaluation, Evaluate(e) \/ Fail(e) PROVE AlertInv'
  BY <1>1, FindStep, StartStep, FireStep, CreateStep, NotifyStep, MarkNotifiedStep, FlagStep, ResolveStep,
     ClearStep, ResetStep, FailStep DEF Evaluate
<1>2. CASE Route
  BY <1>2, EnvironmentStep, PatchStep, DeleteRuleStep, AckStep DEF Route
<1>3. CASE MetricMoves \/ Tick \/ UNCHANGED alertVars
  BY <1>3, EnvironmentStep
<1> QED BY <1>1, <1>2, <1>3 DEF AlertNext

LEMMA AlertStart == AlertInit => AlertInv
<1> SUFFICES ASSUME AlertInit PROVE AlertInv
  OBVIOUS
<1>1. PICK on \in BOOLEAN :
        rule = [exists |-> TRUE, enabled |-> on, status |-> "ok", clock |-> Never, notified |-> Never]
  BY DEF AlertInit
<1>2. /\ metric \in Reading /\ event = [n \in EventRow |-> NoEvent] /\ evals = [e \in Evaluation |-> NoEval]
      /\ patch = NoPatch /\ ack = 0 /\ disruptions = 0 /\ disturbed = "none" /\ lapsed = FALSE /\ sent = Never
  BY DEF AlertInit
<1>3. rule \in Rule
  <2>1. \A b \in BOOLEAN : [exists |-> b, enabled |-> on, status |-> "ok", clock |-> Never, notified |-> Never] \in Rule
    BY Ages DEF Rule
  <2> QED BY <1>1, <2>1, Truths
<1>4. NoEvent \in Event /\ NoPatch \in Patch
  <2>1. \A b \in BOOLEAN : /\ [status |-> "none", notified |-> b] \in Event
                           /\ [pending |-> b, on |-> b, was |-> b] \in Patch
    BY DEF Event, Patch
  <2> QED BY <2>1, Truths DEF NoEvent, NoPatch
<1>5. \A e \in Evaluation : evals[e] = NoEval /\ evals[e].step = "idle"
  BY <1>2 DEF NoEval
<1>6. AlertTypeOK
  <2>1. event \in [EventRow -> Event] /\ evals \in [Evaluation -> Eval]
    BY <1>2, <1>4, EvalTyped
  <2>2. lapsed \in BOOLEAN
    BY <1>2, Truths
  <2> QED BY <1>2, <1>3, <1>4, <2>1, <2>2, Ages DEF AlertTypeOK, Disturbance
<1>7. Open = {}
  BY <1>2 DEF Open, NoEvent
<1>8. EvalRows /\ OneEvaluation /\ MessageInv
  BY <1>1, <1>2, <1>5 DEF EvalRows, OneEvaluation, MessageInv, Writing
<1>9. AtRest /\ rule.clock = Never /\ rule.status = "ok" /\ Story
  BY <1>1, <1>5, <1>7 DEF AtRest, Writing, Story
<1>10. ClockInv /\ StoryInv
  BY <1>5, <1>9 DEF ClockInv, StoryInv
<1> QED BY <1>6, <1>8, <1>10 DEF AlertInv

-----------------------------------------------------------------------------

(* The rule, its events, the evaluations and the requests keep their types. *)
THEOREM AlertTypeCorrect == AlertSpec => []AlertTypeOK
<1>1. AlertInv => AlertTypeOK
  BY DEF AlertInv
<1> QED BY <1>1, AlertStart, AlertStep, PTL DEF AlertSpec

\* One story, counted.
LEMMA StoryCounted == AlertInv => RuleMatchesEvents
<1> SUFFICES ASSUME AlertInv, disturbed = "none", AtRest, rule.exists
             PROVE  IF rule.status = "firing"
                    THEN /\ Cardinality(Open) <= 1
                         /\ \E n \in EventRow : event[n].status \in {"firing", "acknowledged"}
                    ELSE Open = {}
  BY DEF RuleMatchesEvents
<1>1. Story
  BY DEF AlertInv, StoryInv, AtRest, Writing
<1>2. (\A m, n \in Open : m = n) => Cardinality(Open) <= 1
  <2> SUFFICES ASSUME \A m, n \in Open : m = n PROVE Cardinality(Open) <= 1
    OBVIOUS
  <2>1. CASE Open = {}
    BY <2>1, FS_EmptySet
  <2>2. CASE Open # {}
    <3>1. PICK n : n \in Open
      BY <2>2
    <3>2. Open = {n}
      BY <3>1
    <3>3. Cardinality({n}) = 1
      BY FS_Singleton
    <3> QED BY <3>2, <3>3
  <2> QED BY <2>1, <2>2
<1> QED BY <1>1, <1>2 DEF Story

(* Whenever no evaluation is between its writes, a firing rule has one event      *)
(* that fires or is acknowledged, and any other rule has none that fires, as long *)
(* as evaluations did not overlap, fail or meet a PATCH.                          *)
THEOREM RuleMatchesEventsHolds == AlertSpec => []RuleMatchesEvents
BY StoryCounted, AlertStart, AlertStep, PTL DEF AlertSpec

\* What disturbs stays.
LEMMA DisturbedStays == [AlertNext]_alertVars /\ disturbed' = "none" => disturbed = "none"
<1> SUFFICES ASSUME [AlertNext]_alertVars, disturbed' = "none" PROVE disturbed = "none"
  OBVIOUS
<1>1. ASSUME NEW e \in Evaluation, Evaluate(e) \/ Fail(e) PROVE disturbed = "none"
  BY <1>1 DEF Evaluate, Fail, FindRules, StartClock, FireRule, CreateEvent, Notify, MarkNotified, FlagEvent,
              ResolveEvents, ClearRule, ResetClock
<1>2. CASE Route
  BY <1>2 DEF Route, PatchRead, PatchWrite, DeleteRule, AckRead, AckWrite
<1>3. CASE MetricMoves \/ Tick \/ UNCHANGED alertVars
  BY <1>3 DEF MetricMoves, Tick, alertVars
<1> QED BY <1>1, <1>2, <1>3 DEF AlertNext

(* An event is created only when the condition was met for the whole duration, *)
(* at every evaluation since the clock was started.                            *)
THEOREM SustainedHolds == AlertSpec => Sustained
<1>1. AlertInv /\ [AlertNext]_alertVars =>
        [\A e \in Evaluation :
           evals[e].step = "create" /\ evals'[e].step # "create" /\ rule.exists /\ disturbed' = "none"
             => Due /\ ~lapsed]_alertVars
  BY DisturbedStays DEF AlertInv, ClockInv
<1> QED BY <1>1, AlertStart, AlertStep, PTL DEF AlertSpec, Sustained

(* Two messages about a rule are more than the cooldown apart, also when the *)
(* rule fires, is resolved and fires again, or is deleted in between.        *)
THEOREM CooldownKeptHolds == AlertSpec => CooldownKept
<1>1. AlertInv /\ [AlertNext]_alertVars =>
        [\A e \in Evaluation :
           evals[e].step = "notify" /\ evals'[e].step = "mark" /\ disturbed = "none"
             => sent = Never \/ sent > Cooldown]_alertVars
  BY DEF AlertInv, MessageInv
<1> QED BY <1>1, AlertStart, AlertStep, PTL DEF AlertSpec, CooldownKept

-----------------------------------------------------------------------------
(* The monitor of a MongoDB connection. *)

\* What a request carries from step to step.
RequestInv ==
  /\ \A r \in Request :
       /\ req[r].step = "connect" => req[r].client \in Client /\ client[req[r].client] = "connecting"
       /\ req[r].step # "idle" /\ ~req[r].query => req[r].at <= now
       /\ req[r].step \in {"process", "rest"} /\ ~req[r].query => req[r].at <= req[r].read
  /\ \A q, r \in Request : req[q].step = "connect" /\ req[r].step = "connect" /\ q # r => req[q].client # req[r].client

\* A snapshot was read after its request was made.
CacheInv == cache # NoSnapshot => cache.at <= cache.read

\* Whose client is connecting, and which one the deletion closes.
PoolInv ==
  /\ deleting = "no" <=> exists
  /\ closing # 0 => deleting = "drop"
  /\ ~crossed =>
       /\ \A c, d \in Connecting : c = d
       /\ Connecting # {} => pool = 0 /\ exists
       /\ deleting = "drop" => closing = pool /\ pool # 0 /\ client[pool] = "closed"

MonitorInv == MonitorTypeOK /\ RequestInv /\ CacheInv /\ PoolInv /\ CountedOnce /\ PoolHoldsOpen

-----------------------------------------------------------------------------
(* What the steps have in common. *)

LEMMA MonitorTyped ==
  ASSUME MonitorInv
  PROVE  /\ MonitorTypeOK /\ RequestInv /\ CacheInv /\ PoolInv /\ CountedOnce /\ PoolHoldsOpen
         /\ now \in 0 .. MaxTime /\ now \in Int /\ ops \in 0 .. MaxOps /\ cache \in Snapshot
         /\ req \in [Request -> MonitorReq] /\ client \in [Client -> {"none", "connecting", "open", "closed"}]
         /\ pool \in {0} \cup Client /\ last \in -1 .. MaxOps /\ counted \in Int /\ 0 \notin Client
BY MongoMonitorAssumption DEF MonitorInv, MonitorTypeOK, Client

LEMMA NoReqTyped == NoReq \in MonitorReq /\ NoReq.step = "idle"
<1>1. \A b \in BOOLEAN :
        [step |-> "idle", query |-> b, client |-> 0, at |-> -1, ops |-> -1, read |-> -1] \in MonitorReq
  BY MongoMonitorAssumption DEF MonitorReq, MonitorSteps
<1> QED BY <1>1, Truths DEF NoReq

\* The step of one request.
LEMMA RequestStep ==
  ASSUME MonitorInv, NEW r \in Request, NEW x \in MonitorReq, req' = [req EXCEPT ![r] = x], now' = now,
         x.step = "connect" =>
           /\ x.client \in Client /\ client'[x.client] = "connecting"
           /\ \A q \in Request \ {r} : req[q].step = "connect" => req[q].client # x.client,
         \A q \in Request \ {r} : req[q].step = "connect" => client'[req[q].client] = "connecting",
         x.step # "idle" /\ ~x.query => x.at <= now,
         x.step \in {"process", "rest"} /\ ~x.query => x.at <= x.read
  PROVE  RequestInv' /\ req' \in [Request -> MonitorReq]
<1>1. /\ req' \in [Request -> MonitorReq] /\ req'[r] = x
      /\ \A q \in Request \ {r} : req'[q] = req[q]
  BY MonitorTyped
<1>2. RequestInv
  BY MonitorTyped
<1>3. ASSUME NEW q \in Request
      PROVE  /\ req'[q].step = "connect" => req'[q].client \in Client /\ client'[req'[q].client] = "connecting"
             /\ req'[q].step # "idle" /\ ~req'[q].query => req'[q].at <= now'
             /\ req'[q].step \in {"process", "rest"} /\ ~req'[q].query => req'[q].at <= req'[q].read
  BY <1>1, <1>2 DEF RequestInv
<1>4. ASSUME NEW p \in Request, NEW q \in Request, req'[p].step = "connect", req'[q].step = "connect", p # q
      PROVE  req'[p].client # req'[q].client
  BY <1>1, <1>2, <1>4 DEF RequestInv
<1> QED BY <1>1, <1>3, <1>4 DEF RequestInv

\* A request that touches neither the clients nor the pool.
LEMMA RequestOnly ==
  ASSUME MonitorInv, NEW r \in Request, NEW x \in MonitorReq, req' = [req EXCEPT ![r] = x],
         UNCHANGED <<pool, client, world>>, crossed' = crossed,
         x.step # "connect",
         x.step # "idle" /\ ~x.query => x.at <= now,
         x.step \in {"process", "rest"} /\ ~x.query => x.at <= x.read,
         cache' \in Snapshot, CacheInv', last' \in -1 .. MaxOps, counted' \in Int, reordered' \in BOOLEAN, CountedOnce'
  PROVE  MonitorInv'
<1>1. UNCHANGED <<now, ops, exists, closing, deleting>>
  BY DEF world
<1>2. \A q \in Request \ {r} : req[q].step = "connect" => client'[req[q].client] = "connecting"
  BY MonitorTyped DEF RequestInv
<1>3. RequestInv' /\ req' \in [Request -> MonitorReq]
  BY <1>1, <1>2, RequestStep
<1>4. MonitorTypeOK'
  BY <1>1, <1>3, MonitorTyped DEF MonitorTypeOK
<1>5. PoolInv' /\ PoolHoldsOpen'
  BY <1>1, MonitorTyped DEF PoolInv, PoolHoldsOpen, Connecting
<1> QED BY <1>3, <1>4, <1>5 DEF MonitorInv

\* Nothing that is reported, and nothing cached.
LEMMA ReportsKept ==
  ASSUME MonitorInv, UNCHANGED <<cache, last, counted, reordered>>
  PROVE  /\ cache' \in Snapshot /\ CacheInv' /\ last' \in -1 .. MaxOps /\ counted' \in Int
         /\ reordered' \in BOOLEAN /\ CountedOnce'
BY MonitorTyped DEF MonitorTypeOK, CacheInv, CountedOnce

-----------------------------------------------------------------------------
(* The steps. *)

LEMMA AskStep == ASSUME MonitorInv, NEW r \in Request, AskServer(r) \/ AskQuery(r) PROVE MonitorInv'
<1> USE DEF history
<1>1. CASE AskServer(r)
  <2>0. now \in -1 .. MaxTime /\ now \in Int /\ now <= now
    BY MonitorTyped
  <2>1. PICK x \in MonitorReq : x = [NoReq EXCEPT !.step = "client", !.at = now]
    BY <2>0, NoReqTyped DEF MonitorReq, MonitorSteps
  <2>2. x.step = "client" /\ x.at = now /\ x.at <= now
    BY <2>0, <2>1 DEF NoReq
  <2>3. req' = [req EXCEPT ![r] = x] /\ UNCHANGED <<pool, client, cache, last, world, counted, reordered, crossed>>
    BY <1>1, <2>1 DEF AskServer
  <2> QED BY <2>2, <2>3, MonitorTyped, ReportsKept, RequestOnly
<1>2. CASE AskQuery(r)
  <2>1. \A b \in BOOLEAN : /\ [NoReq EXCEPT !.step = "client", !.query = b] \in MonitorReq
                           /\ [NoReq EXCEPT !.step = "client", !.query = b].step = "client"
                           /\ [NoReq EXCEPT !.step = "client", !.query = b].query = b
    BY NoReqTyped DEF MonitorReq, MonitorSteps
  <2>2. PICK x \in MonitorReq : x = [NoReq EXCEPT !.step = "client", !.query = TRUE] /\ x.step = "client" /\ x.query
    BY <2>1, Truths
  <2>3. req' = [req EXCEPT ![r] = x] /\ UNCHANGED <<pool, client, cache, last, world, counted, reordered, crossed>>
    BY <1>2, <2>2 DEF AskQuery
  <2> QED BY <2>2, <2>3, MonitorTyped, ReportsKept, RequestOnly
<1> QED BY <1>1, <1>2

LEMMA AnswerStep ==
  ASSUME MonitorInv, NEW r \in Request, QueryAnswers(r) \/ CommandFails(r)
  PROVE  MonitorInv'
<1>1. req' = [req EXCEPT ![r] = NoReq] /\ UNCHANGED <<pool, client, cache, last, world, counted, reordered, crossed>>
  BY DEF QueryAnswers, CommandFails, Answer, history
<1> QED BY <1>1, NoReqTyped, ReportsKept, RequestOnly

LEMMA StatusStep == ASSUME MonitorInv, NEW r \in Request, ServerStatus(r) PROVE MonitorInv'
<1>1. req[r].step = "status" /\ UNCHANGED <<pool, client, cache, last, world, counted, reordered, crossed>>
  BY DEF ServerStatus, history
<1>2. PICK x \in MonitorReq :
        /\ req' = [req EXCEPT ![r] = x] /\ x.step \in {"idle", "process"}
        /\ x.step = "process" => x.at = req[r].at /\ x.query = req[r].query /\ x.read = now
  <2>1. CASE client[req[r].client] = "open"
    <3>1. req[r] \in MonitorReq /\ ops \in -1 .. MaxOps /\ now \in -1 .. MaxTime
      BY MonitorTyped
    <3>2. PICK x \in MonitorReq : x = [req[r] EXCEPT !.step = "process", !.client = 0, !.ops = ops, !.read = now]
      BY <3>1 DEF MonitorReq, MonitorSteps
    <3>3. x.step = "process" /\ x.at = req[r].at /\ x.query = req[r].query /\ x.read = now
      BY <3>1, <3>2 DEF MonitorReq
    <3>4. req' = [req EXCEPT ![r] = x]
      BY <2>1, <3>2 DEF ServerStatus
    <3> QED BY <3>3, <3>4
  <2>2. CASE client[req[r].client] # "open"
    BY <2>2, NoReqTyped DEF ServerStatus, Answer
  <2> QED BY <2>1, <2>2
<1>3. ~req[r].query => req[r].at <= now
  BY <1>1, MonitorTyped DEF RequestInv
<1> QED BY <1>1, <1>2, <1>3, ReportsKept, RequestOnly

LEMMA ProcessStep == ASSUME MonitorInv, NEW r \in Request, Process(r) PROVE MonitorInv'
<1>1. /\ req[r].step = "process" /\ last' = req[r].ops
      /\ counted' = (IF last = -1 THEN req[r].ops ELSE counted + Increase(last, req[r].ops))
      /\ reordered' = (reordered \/ req[r].ops < last)
      /\ UNCHANGED <<pool, client, cache, world, crossed>>
  BY DEF Process, Report
<1>2. req[r] \in MonitorReq /\ req[r].ops \in -1 .. MaxOps /\ req[r].ops \in Int /\ last \in Int /\ counted \in Int
  BY MonitorTyped, MongoMonitorAssumption DEF MonitorReq
<1>3. PICK x \in MonitorReq : /\ req' = [req EXCEPT ![r] = x] /\ x.step = "rest" /\ x.at = req[r].at
                              /\ x.query = req[r].query /\ x.read = req[r].read
  <2>0. -1 \in -1 .. MaxOps
    BY MongoMonitorAssumption
  <2>1. PICK x \in MonitorReq : x = [req[r] EXCEPT !.step = "rest", !.ops = -1]
    BY <1>2, <2>0 DEF MonitorReq, MonitorSteps
  <2>2. x.step = "rest" /\ x.at = req[r].at /\ x.query = req[r].query /\ x.read = req[r].read
    BY <1>2, <2>1 DEF MonitorReq
  <2>3. req' = [req EXCEPT ![r] = x]
    BY <2>1 DEF Process, Report
  <2> QED BY <2>2, <2>3
<1>4. ~req[r].query => req[r].at <= now /\ req[r].at <= req[r].read
  BY <1>1, MonitorTyped DEF RequestInv
<1>5. last' \in -1 .. MaxOps /\ counted' \in Int /\ reordered' \in BOOLEAN
  BY <1>1, <1>2 DEF Increase
<1>6. CountedOnce'
  <2>1. CASE req[r].ops < last
    BY <1>1, <2>1 DEF CountedOnce
  <2>2. CASE ~(req[r].ops < last) /\ last = -1
    BY <1>1, <2>2 DEF CountedOnce
  <2>3. CASE ~(req[r].ops < last) /\ last # -1
    <3>1. counted' = counted + (req[r].ops - last)
      BY <1>1, <2>3 DEF Increase
    <3>2. ~reordered => counted = last
      BY MonitorTyped DEF CountedOnce
    <3>3. reordered' = reordered
      BY <1>1, <2>3, MonitorTyped DEF MonitorTypeOK
    <3> QED BY <1>1, <1>2, <3>1, <3>2, <3>3 DEF CountedOnce
  <2> QED BY <2>1, <2>2, <2>3
<1>7. cache' \in Snapshot /\ CacheInv'
  BY <1>1, MonitorTyped DEF CacheInv
<1> QED BY <1>1, <1>3, <1>4, <1>5, <1>6, <1>7, RequestOnly

LEMMA FinishStep == ASSUME MonitorInv, NEW r \in Request, Finish(r) PROVE MonitorInv'
<1>1. /\ req[r].step = "rest" /\ ~req[r].query /\ cache' = [at |-> req[r].at, read |-> req[r].read]
      /\ req' = [req EXCEPT ![r] = NoReq] /\ UNCHANGED <<pool, client, last, world, counted, reordered, crossed>>
  BY DEF Finish, Answer, history
<1>2. cache' \in Snapshot /\ cache'.at = req[r].at /\ cache'.read = req[r].read
  BY <1>1, MonitorTyped DEF Snapshot, MonitorReq
<1>3. req[r].at <= req[r].read
  BY <1>1, MonitorTyped DEF RequestInv
<1>4. CacheInv' /\ last' \in -1 .. MaxOps /\ counted' \in Int /\ reordered' \in BOOLEAN /\ CountedOnce'
  BY <1>1, <1>2, <1>3, MonitorTyped DEF CacheInv, CountedOnce, MonitorTypeOK
<1> QED BY <1>1, <1>2, <1>4, NoReqTyped, RequestOnly

\* The request once it has its client.
LEMMA HandTyped ==
  ASSUME MonitorInv, NEW r \in Request, NEW c \in Client, NEW step \in {"connect", "status", "rest"},
         step = "rest" => req[r].query, req[r].step # "idle", Hand(r, c, step)
  PROVE  \E x \in MonitorReq :
           /\ req' = [req EXCEPT ![r] = x] /\ x.step = step /\ (step # "rest" => x.client = c)
           /\ step # "rest" /\ ~x.query => x.at <= now
           /\ step = "rest" => x.query
<1>1. req[r] \in MonitorReq
  BY MonitorTyped
<1>2. PICK d \in {0} \cup Client : d = IF step = "rest" THEN 0 ELSE c
  OBVIOUS
<1>3. PICK x \in MonitorReq : x = [req[r] EXCEPT !.client = d, !.step = step]
  BY <1>1 DEF MonitorReq, MonitorSteps
<1>4. x.step = step /\ x.client = d /\ x.at = req[r].at /\ x.query = req[r].query
  BY <1>1, <1>3 DEF MonitorReq
<1>5. req' = [req EXCEPT ![r] = x]
  BY <1>2, <1>3 DEF Hand
<1>6. ~req[r].query => req[r].at <= now
  BY MonitorTyped DEF RequestInv
<1> QED BY <1>2, <1>4, <1>5, <1>6

LEMMA GetClientStep == ASSUME MonitorInv, NEW r \in Request, GetClient(r) PROVE MonitorInv'
<1>1. /\ req[r].step = "client" /\ UNCHANGED <<pool, cache, last, world, counted, reordered>>
      /\ UNCHANGED <<now, ops, exists, closing, deleting>>
  BY DEF GetClient, world
<1>2. CASE pool # 0
  <2>1. Hand(r, pool, After(r)) /\ UNCHANGED <<client, crossed>> /\ pool \in Client
    BY <1>2, MonitorTyped DEF GetClient
  <2>2. After(r) \in {"connect", "status", "rest"} /\ After(r) # "connect" /\ (After(r) = "rest" => req[r].query)
    BY DEF After
  <2>3. PICK x \in MonitorReq :
          /\ req' = [req EXCEPT ![r] = x] /\ x.step = After(r)
          /\ After(r) # "rest" /\ ~x.query => x.at <= now
          /\ After(r) = "rest" => x.query
    BY <1>1, <2>1, <2>2, HandTyped
  <2> QED BY <1>1, <2>1, <2>2, <2>3, ReportsKept, RequestOnly
<1>3. CASE pool = 0
  <2>1. PICK c \in Client : /\ client[c] = "none" /\ client' = [client EXCEPT ![c] = "connecting"]
                            /\ Hand(r, c, "connect")
                            /\ crossed' = (crossed \/ Connecting # {} \/ ~exists)
    BY <1>3 DEF GetClient
  <2>2. PICK x \in MonitorReq :
          /\ req' = [req EXCEPT ![r] = x] /\ x.step = "connect" /\ x.client = c
          /\ ~x.query => x.at <= now
    BY <1>1, <2>1, HandTyped
  <2>3. /\ client' \in [Client -> {"none", "connecting", "open", "closed"}] /\ client'[c] = "connecting"
        /\ \A d \in Client \ {c} : client'[d] = client[d]
    BY <2>1, MonitorTyped
  <2>4. \A q \in Request \ {r} : req[q].step = "connect" =>
          req[q].client # c /\ client'[req[q].client] = "connecting"
    BY <2>1, <2>3, MonitorTyped DEF RequestInv
  <2>5. RequestInv' /\ req' \in [Request -> MonitorReq]
    BY <1>1, <2>2, <2>3, <2>4, RequestStep
  <2>6. /\ cache' \in Snapshot /\ CacheInv' /\ last' \in -1 .. MaxOps /\ counted' \in Int
        /\ reordered' \in BOOLEAN /\ CountedOnce'
    BY <1>1, ReportsKept
  <2>7. MonitorTypeOK'
    BY <1>1, <2>1, <2>3, <2>5, <2>6, MonitorTyped DEF MonitorTypeOK
  <2>8. Connecting' = Connecting \cup {c}
    BY <2>3 DEF Connecting
  <2>9. PoolInv'
    BY <1>1, <1>3, <2>1, <2>8, MonitorTyped DEF PoolInv
  <2>10. PoolHoldsOpen'
    BY <1>1, <1>3, <2>1, <2>3, MonitorTyped DEF PoolHoldsOpen
  <2> QED BY <2>5, <2>6, <2>7, <2>9, <2>10 DEF MonitorInv
<1> QED BY <1>2, <1>3

\* A client that stops connecting: no other request waits for it.
LEMMA ConnectEnds ==
  ASSUME MonitorInv, NEW r \in Request, req[r].step = "connect", NEW s \in {"open", "closed"},
         client' = [client EXCEPT ![req[r].client] = s]
  PROVE  /\ req[r].client \in Client /\ client[req[r].client] = "connecting"
         /\ client' \in [Client -> {"none", "connecting", "open", "closed"}] /\ client'[req[r].client] = s
         /\ \A d \in Client \ {req[r].client} : client'[d] = client[d]
         /\ \A q \in Request \ {r} : req[q].step = "connect" => client'[req[q].client] = "connecting"
         /\ Connecting' = Connecting \ {req[r].client} /\ req[r].client \in Connecting
<1>1. req[r].client \in Client /\ client[req[r].client] = "connecting"
  BY MonitorTyped DEF RequestInv
<1>2. /\ client' \in [Client -> {"none", "connecting", "open", "closed"}] /\ client'[req[r].client] = s
      /\ \A d \in Client \ {req[r].client} : client'[d] = client[d]
  BY <1>1, MonitorTyped
<1>3. \A q \in Request \ {r} : req[q].step = "connect" => client'[req[q].client] = "connecting"
  BY <1>2, MonitorTyped DEF RequestInv
<1>4. Connecting' = Connecting \ {req[r].client}
  BY <1>1, <1>2 DEF Connecting
<1> QED BY <1>1, <1>2, <1>3, <1>4 DEF Connecting

LEMMA ConnectedStep == ASSUME MonitorInv, NEW r \in Request, Connected(r) PROVE MonitorInv'
<1>1. PICK c : c = req[r].client
  OBVIOUS
<1>2. /\ req[r].step = "connect" /\ client' = [client EXCEPT ![req[r].client] = "open"] /\ pool' = c
      /\ Hand(r, c, After(r)) /\ UNCHANGED <<cache, last, counted, reordered, crossed>>
      /\ UNCHANGED <<now, ops, exists, closing, deleting>>
  BY <1>1 DEF Connected, world, history
<1>3. /\ c \in Client /\ client[c] = "connecting" /\ client'[c] = "open"
      /\ client' \in [Client -> {"none", "connecting", "open", "closed"}]
      /\ \A d \in Client \ {c} : client'[d] = client[d]
      /\ \A q \in Request \ {r} : req[q].step = "connect" => client'[req[q].client] = "connecting"
      /\ Connecting' = Connecting \ {c} /\ c \in Connecting
  BY <1>1, <1>2, ConnectEnds
<1>4. After(r) \in {"connect", "status", "rest"} /\ After(r) # "connect" /\ (After(r) = "rest" => req[r].query)
  BY DEF After
<1>5. PICK x \in MonitorReq :
        /\ req' = [req EXCEPT ![r] = x] /\ x.step = After(r)
        /\ After(r) # "rest" /\ ~x.query => x.at <= now
        /\ After(r) = "rest" => x.query
  BY <1>2, <1>3, <1>4, HandTyped
<1>6. RequestInv' /\ req' \in [Request -> MonitorReq]
  BY <1>2, <1>3, <1>4, <1>5, RequestStep DEF After
<1>7. /\ cache' \in Snapshot /\ CacheInv' /\ last' \in -1 .. MaxOps /\ counted' \in Int
      /\ reordered' \in BOOLEAN /\ CountedOnce'
  BY <1>2, ReportsKept
<1>8. MonitorTypeOK'
  BY <1>2, <1>3, <1>6, <1>7, MonitorTyped DEF MonitorTypeOK
<1>9. ~crossed => Connecting = {c} /\ Connecting' = {} /\ pool = 0 /\ exists
  BY <1>3, MonitorTyped DEF PoolInv
<1>10. PoolInv'
  BY <1>2, <1>9, MonitorTyped DEF PoolInv
<1>11. PoolHoldsOpen'
  BY <1>2, <1>3, <1>9, MonitorTyped DEF PoolHoldsOpen
<1> QED BY <1>6, <1>7, <1>8, <1>10, <1>11 DEF MonitorInv

LEMMA ConnectFailsStep == ASSUME MonitorInv, NEW r \in Request, ConnectFails(r) PROVE MonitorInv'
<1>1. PICK c : c = req[r].client
  OBVIOUS
<1>2. /\ req[r].step = "connect" /\ client' = [client EXCEPT ![req[r].client] = "closed"]
      /\ req' = [req EXCEPT ![r] = NoReq] /\ UNCHANGED <<pool, cache, last, counted, reordered, crossed>>
      /\ UNCHANGED <<now, ops, exists, closing, deleting>>
  BY DEF ConnectFails, Answer, world, history
<1>3. /\ c \in Client /\ client[c] = "connecting" /\ client'[c] = "closed"
      /\ client' \in [Client -> {"none", "connecting", "open", "closed"}]
      /\ \A d \in Client \ {c} : client'[d] = client[d]
      /\ \A q \in Request \ {r} : req[q].step = "connect" => client'[req[q].client] = "connecting"
      /\ Connecting' = Connecting \ {c} /\ c \in Connecting
  BY <1>1, <1>2, ConnectEnds
<1>4. RequestInv' /\ req' \in [Request -> MonitorReq]
  BY <1>2, <1>3, NoReqTyped, RequestStep
<1>5. /\ cache' \in Snapshot /\ CacheInv' /\ last' \in -1 .. MaxOps /\ counted' \in Int
      /\ reordered' \in BOOLEAN /\ CountedOnce'
  BY <1>2, ReportsKept
<1>6. MonitorTypeOK'
  BY <1>2, <1>3, <1>4, <1>5, MonitorTyped DEF MonitorTypeOK
<1>7. PoolInv'
  BY <1>2, <1>3, MonitorTyped DEF PoolInv
<1>8. PoolHoldsOpen'
  BY <1>2, <1>3, MonitorTyped DEF PoolHoldsOpen
<1> QED BY <1>4, <1>5, <1>6, <1>7, <1>8 DEF MonitorInv

LEMMA DeleteConnectionStep ==
  ASSUME MonitorInv, DeleteConnectionRow \/ CloseClient \/ DropClient
  PROVE  MonitorInv'
<1>1. UNCHANGED <<now, ops, cache, last, req, counted, reordered>>
  BY DEF DeleteConnectionRow, CloseClient, DropClient, requests
<1>2. /\ cache' \in Snapshot /\ CacheInv' /\ last' \in -1 .. MaxOps /\ counted' \in Int
      /\ reordered' \in BOOLEAN /\ CountedOnce'
  BY <1>1, ReportsKept
<1>3. CASE DeleteConnectionRow
  <2>1. /\ deleting = "no" /\ exists' = FALSE /\ deleting' = "close" /\ UNCHANGED <<pool, client, closing>>
        /\ (~crossed' => ~crossed /\ Connecting = {}) /\ crossed' \in BOOLEAN /\ exists' \in BOOLEAN
    BY <1>3, Truths DEF DeleteConnectionRow
  <2>2. MonitorTypeOK'
    BY <1>1, <1>2, <2>1, MonitorTyped DEF MonitorTypeOK
  <2>3. PoolInv' /\ PoolHoldsOpen' /\ RequestInv'
    BY <1>1, <2>1, MonitorTyped DEF PoolInv, PoolHoldsOpen, RequestInv, Connecting
  <2> QED BY <1>2, <2>2, <2>3 DEF MonitorInv
<1>4. CASE CloseClient
  <2>1. /\ deleting = "close" /\ closing' = pool /\ UNCHANGED <<exists, pool, crossed>>
        /\ client' = (IF pool = 0 THEN client ELSE [client EXCEPT ![pool] = "closed"])
        /\ deleting' = (IF pool = 0 THEN "done" ELSE "drop")
    BY <1>4 DEF CloseClient
  <2>2. /\ client' \in [Client -> {"none", "connecting", "open", "closed"}] /\ (pool # 0 => client'[pool] = "closed")
        /\ \A d \in Client \ {pool} : client'[d] = client[d]
    BY <2>1, MonitorTyped
  <2>3. pool # 0 => client[pool] = "open"
    BY <2>1, MonitorTyped DEF PoolInv, PoolHoldsOpen
  <2>4. MonitorTypeOK'
    BY <1>1, <1>2, <2>1, <2>2, MonitorTyped DEF MonitorTypeOK
  <2>5. Connecting' = Connecting
    BY <2>2, <2>3, MonitorTyped DEF Connecting
  <2>6. PoolInv'
    BY <2>1, <2>2, <2>5, MonitorTyped DEF PoolInv
  <2>7. PoolHoldsOpen'
    BY <2>1, <2>2, MonitorTyped DEF PoolHoldsOpen
  <2>8. RequestInv'
    BY <1>1, <2>2, <2>3, MonitorTyped DEF RequestInv
  <2> QED BY <1>2, <2>4, <2>6, <2>7, <2>8 DEF MonitorInv
<1>5. CASE DropClient
  <2>1. /\ deleting = "drop" /\ pool' = 0 /\ closing' = 0 /\ deleting' = "done"
        /\ UNCHANGED <<exists, client, crossed>>
    BY <1>5 DEF DropClient
  <2>2. MonitorTypeOK'
    BY <1>1, <1>2, <2>1, MonitorTyped DEF MonitorTypeOK
  <2>3. PoolInv' /\ RequestInv'
    BY <1>1, <2>1, MonitorTyped DEF PoolInv, RequestInv, Connecting
  <2>4. PoolHoldsOpen'
    BY <2>1, MonitorTyped DEF PoolInv, PoolHoldsOpen
  <2> QED BY <1>2, <2>2, <2>3, <2>4 DEF MonitorInv
<1> QED BY <1>3, <1>4, <1>5

LEMMA ClockStep ==
  ASSUME MonitorInv, MonitorTick \/ ServerOp \/ UNCHANGED monitorVars
  PROVE  MonitorInv'
<1>1. /\ UNCHANGED <<exists, pool, client, cache, last, req, closing, deleting, counted, reordered, crossed>>
      /\ now' \in 0 .. MaxTime /\ now <= now' /\ ops' \in 0 .. MaxOps
  BY MonitorTyped, MongoMonitorAssumption DEF MonitorTick, ServerOp, monitorVars
<1>2. MonitorTypeOK'
  BY <1>1, MonitorTyped DEF MonitorTypeOK
<1>3. \A r \in Request : req[r].at \in Int
  BY MonitorTyped DEF MonitorReq
<1>4. RequestInv'
  BY <1>1, <1>3, MonitorTyped DEF RequestInv
<1>5. CacheInv' /\ PoolInv' /\ CountedOnce' /\ PoolHoldsOpen'
  BY <1>1, MonitorTyped DEF CacheInv, PoolInv, CountedOnce, PoolHoldsOpen, Connecting
<1> QED BY <1>2, <1>4, <1>5 DEF MonitorInv

LEMMA MonitorStep == MonitorInv /\ [MonitorNext]_monitorVars => MonitorInv'
<1> SUFFICES ASSUME MonitorInv, [MonitorNext]_monitorVars PROVE MonitorInv'
  OBVIOUS
<1>1. ASSUME NEW r \in Request,
             \/ AskCached(r) \/ AskServer(r) \/ AskQuery(r) \/ QueryAnswers(r) \/ GetClient(r)
             \/ Connected(r) \/ ConnectFails(r) \/ ServerStatus(r) \/ Process(r) \/ Finish(r) \/ CommandFails(r)
      PROVE  MonitorInv'
  <2>1. CASE AskCached(r)
    BY <2>1, ClockStep DEF AskCached
  <2> QED BY <1>1, <2>1, AskStep, AnswerStep, GetClientStep, ConnectedStep, ConnectFailsStep, StatusStep,
             ProcessStep, FinishStep
<1>2. CASE MonitorTick \/ ServerOp \/ UNCHANGED monitorVars
  BY <1>2, ClockStep
<1>3. CASE DeleteConnectionRow \/ CloseClient \/ DropClient
  BY <1>3, DeleteConnectionStep
<1> QED BY <1>1, <1>2, <1>3 DEF MonitorNext

LEMMA MonitorStart == MonitorInit => MonitorInv
<1> SUFFICES ASSUME MonitorInit PROVE MonitorInv
  OBVIOUS
<1>1. exists \in BOOLEAN /\ reordered \in BOOLEAN /\ crossed \in BOOLEAN
  BY Truths DEF MonitorInit
<1>2. cache \in Snapshot
  BY MongoMonitorAssumption DEF MonitorInit, NoSnapshot, Snapshot
<1>3. MonitorTypeOK
  BY <1>1, <1>2, NoReqTyped, MongoMonitorAssumption DEF MonitorInit, MonitorTypeOK
<1>4. \A r \in Request : req[r].step = "idle"
  BY NoReqTyped DEF MonitorInit
<1>5. Connecting = {}
  BY DEF MonitorInit, Connecting
<1>6. RequestInv /\ CacheInv /\ PoolInv /\ CountedOnce /\ PoolHoldsOpen
  BY <1>4, <1>5 DEF MonitorInit, RequestInv, CacheInv, PoolInv, CountedOnce, PoolHoldsOpen
<1> QED BY <1>3, <1>6 DEF MonitorInv

-----------------------------------------------------------------------------

(* The clients, the pool, the cache, the counters and the requests keep their types. *)
THEOREM MonitorTypeCorrect == MonitorSpec => []MonitorTypeOK
<1>1. MonitorInv => MonitorTypeOK
  BY DEF MonitorInv
<1> QED BY <1>1, MonitorStart, MonitorStep, PTL DEF MonitorSpec

(* A snapshot that is served from the cache was read less than Ttl ago, however *)
(* long its request took.                                                       *)
THEOREM ServedFreshHolds == MonitorSpec => []ServedFresh
<1>1. MonitorInv => ServedFresh
  <2> SUFFICES ASSUME MonitorInv, cache # NoSnapshot, now - cache.at < Ttl PROVE now - cache.read < Ttl
    BY DEF ServedFresh, Fresh
  <2>1. cache.at \in Int /\ cache.read \in Int /\ cache.at <= cache.read /\ now \in Int
    BY MonitorTyped DEF Snapshot, CacheInv
  <2> QED BY <2>1, MongoMonitorAssumption
<1> QED BY <1>1, MonitorStart, MonitorStep, PTL DEF MonitorSpec

(* What has been reported is what the counter has grown by since the first *)
(* snapshot, as long as the answers come in order.                         *)
THEOREM CountedOnceHolds == MonitorSpec => []CountedOnce
<1>1. MonitorInv => CountedOnce
  BY DEF MonitorInv
<1> QED BY <1>1, MonitorStart, MonitorStep, PTL DEF MonitorSpec

(* The pool holds a connected client, except the one that is being closed; and *)
(* as long as no two first uses crossed, no other client stays open.           *)
THEOREM PoolHoldsOpenHolds == MonitorSpec => []PoolHoldsOpen
<1>1. MonitorInv => PoolHoldsOpen
  BY DEF MonitorInv
<1> QED BY <1>1, MonitorStart, MonitorStep, PTL DEF MonitorSpec

-----------------------------------------------------------------------------
(* The rule and the monitor together. *)

\* An evaluation leaves the clients and the caches of the monitor alone, and a request of
\* the monitor leaves the rule and its events alone: together they do what each may do.
THEOREM MonitoringImplementsEach == MCSpec => AlertSpec /\ MonitorSpec
<1> DEFINE vars == <<focus, alertVars, monitorVars>>
<1>1. MCInit => AlertInit /\ MonitorInit
  BY DEF MCInit
<1>2. [MCNext]_vars => [AlertNext]_alertVars
  BY DEF MCNext
<1>3. [MCNext]_vars => [MonitorNext]_monitorVars
  BY DEF MCNext
<1> QED BY <1>1, <1>2, <1>3, PTL DEF MCSpec, AlertSpec, MonitorSpec

\* The rule, its events, the clients and the caches keep their types, whatever runs beside them.
THEOREM MonitoringTypeCorrect == MCSpec => []MCTypeOK
<1>1. AlertTypeOK /\ MonitorTypeOK => MCTypeOK
  BY DEF MCTypeOK
<1> QED BY <1>1, MonitoringImplementsEach, AlertTypeCorrect, MonitorTypeCorrect, PTL
=============================================================================
