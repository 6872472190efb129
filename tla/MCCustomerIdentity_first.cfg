SPECIFICATION Spec
CONSTANTS
  ann = ann
  Ann = Ann
  Mails = {ann, Ann}
  Lower <- MCLower
  Externals = {x1}
  None = None
  Requests = {q1, q2}
  MaxRequests = 3
  MaxDeletes = 1
  MaxFaults = 1
INVARIANTS OneCustomer PlansOnce ServesOwner
SYMMETRY Alike
CHECK_DEADLOCK FALSE
