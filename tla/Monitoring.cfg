SPECIFICATION MCSpec
CONSTANTS
  v1 = v1
  v2 = v2
  Evaluation <- MCEvaluation
  Duration = 1
  Cooldown = 1
  MaxEvents = 2
  MaxDisruptions = 1
  Request <- MCRequest
  Ttl = 1
  MaxTime = 1
  MaxOps = 2
  MaxClients = 2
INVARIANTS MCTypeOK RuleMatchesEvents ServedFresh PoolHoldsOpen
PROPERTIES Sustained CooldownKept RuleFollowsMetric
CHECK_DEADLOCK FALSE
