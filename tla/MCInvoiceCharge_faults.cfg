SPECIFICATION Spec
CONSTANTS
  Invoices = {i1}
  Workflows = {w1, w2}
  ThresholdWorkflows = {w1}
  Requests = {r1, r2}
  NoBlock = NoBlock
  DedupesReference = FALSE
  HostedCheckout = TRUE
  MinimumMayRise = TRUE
  Faults = {"timeout", "throw", "retry", "lost", "giveup", "abort", "swallow"}
  MaxFaults = 1
  r1 = r1
  r2 = r2
  w1 = w1
  w2 = w2
  i1 = i1
SYMMETRY ProcessSymmetry
INVARIANTS
  PaidIsBacked
  ChargedOnceUnlessFaulted
PROPERTIES
  PaidStaysSettled
