SPECIFICATION FairSpec
CONSTANTS
  Invoices = {i1}
  Workflows = {w1, w2}
  ThresholdWorkflows = {w1}
  Requests = {r1}
  NoBlock = NoBlock
  DedupesReference = FALSE
  HostedCheckout = TRUE
  MinimumMayRise = FALSE
  Faults = {"timeout", "throw", "retry"}
  MaxFaults = 2
  r1 = r1
  w1 = w1
  w2 = w2
  i1 = i1
INVARIANTS
  SettledNeverRecharged
PROPERTIES
  CollectingResolves
  CollectsAsPromised
