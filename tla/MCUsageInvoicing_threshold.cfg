SPECIFICATION Spec
CONSTANTS
  r1 = r1
  r2 = r2
  r3 = r3
  r4 = r4
  emails = emails
  tokens = tokens
  Records = {r1, r2, r3, r4}
  Features = {emails, tokens}
  FeatureOf <- RecordFeature
  PricingOf <- Prices
  Manual = {}
  PeriodEnd = {}
  Threshold = {t1, t2}
  NoInvoice = NoInvoice
  NoBlock = NoBlock
  Punctual = TRUE
  Releases = FALSE
  Faults = {"item", "retry"}
  MaxFaults = 2
  MaxTries = 3
SYMMETRY Interchangeable
INVARIANTS
  NeverOverBilled
  StampedIsBilled
  TotalIsLines
  OneThresholdInstance
