SPECIFICATION FairSpec
CONSTANTS
  Retries = {r1, r2}
  Requests = {q1}
  Codes = {k1, k2, k3}
  TrialCode = TrialCode
  NoCode = NoCode
  NoMeta = NoMeta
  Repeats = {"same", "refused"}
  Faults = {"lost", "restart", "refuse", "rerun"}
  MaxFaults = 1
INVARIANTS
  PaidNotExpired
  CanceledNotCharged
  CompleteIsLinked
  ActiveRenewsOrEnds
PROPERTIES
  TrialEnds
  ScheduledResolves
CHECK_DEADLOCK FALSE
