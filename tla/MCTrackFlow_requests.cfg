CONSTANTS
  Features <- MCFeatures
  Offers <- MCOffers
  Deltas = {1}
  InitialUses = {0}
  MaxAge = 1
  MaxUsage = 9
  MaxCrashes = 0
  Unlimited = Unlimited
  NoState = NoState
  NoConfig = NoConfig
  NoAlarm = NoAlarm
  Requests = {r1, r2}
  Feature = "feature"
  Plans <- MCPlans
  Values = {1, 3}
  Prior = 2
  Credits0 = 3
  Addon0 = 1
  Bonus0 = 1
  MaxFaults = 3
SPECIFICATION TrackFairSpec
INVARIANTS CreditsConserved PlanWithinLimit
PROPERTY ServedIsRecorded
CHECK_DEADLOCK FALSE
