CONSTANTS
  Features <- MCFeatures
  Offers <- MCOffers
  Deltas = {1}
  InitialUses = {1}
  MaxAge = 2
  MaxUsage = 3
  MaxCrashes = 1
  Unlimited = Unlimited
  NoState = NoState
  NoConfig = NoConfig
  NoAlarm = NoAlarm
SPECIFICATION FairSpec
INVARIANTS ConsumedWithinGrant AlarmCovers
PROPERTIES DueIsReset QuotaKept
