SPECIFICATION FairSpec
CONSTANTS
  r1 = r1
  r2 = r2
  r3 = r3
  r4 = r4
  emails = emails
  tokens = tokens
  Records = {r1}
  Features = {emails}
  FeatureOf <- RecordFeature
  PricingOf <- VolumePrices
  Manual = {m1}
  PeriodEnd = {}
  Threshold = {t1}
  NoInvoice = NoInvoice
  NoBlock = NoBlock
  Punctual = FALSE
  Releases = TRUE
  Faults = {"create", "item", "ledger", "retry", "run", "abort"}
  MaxFaults = 3
  MaxTries = 2
INVARIANTS
  TypeOK
PROPERTIES
  StampStays
  LockGivenUp
