---------------------------- MODULE MCMonitoring ----------------------------
(***************************************************************************)
(* The alert rules and the monitor of one connection share no state that    *)
(* either decides on, so a behaviour looks at one of them.                  *)
(***************************************************************************)
EXTENDS Alerts, MongoMonitor

CONSTANTS v1, v2

VARIABLE focus

MCEvaluation == {v1, v2}
MCRequest == {v1, v2}

MCInit ==
  /\ focus \in {"alerts", "monitor"}
  /\ AlertInit /\ MonitorInit
  /\ focus = "monitor" => metric = "met" /\ rule.enabled

MCNext ==
  \/ focus = "alerts" /\ AlertNext /\ UNCHANGED <<focus, monitorVars>>
  \/ focus = "monitor" /\ MonitorNext /\ UNCHANGED <<focus, alertVars>>

MCSpec == MCInit /\ [][MCNext]_<<focus, alertVars, monitorVars>> /\ AlertFairness

MCTypeOK == AlertTypeOK /\ MonitorTypeOK
=============================================================================
