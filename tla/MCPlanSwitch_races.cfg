SPECIFICATION Spec
CONSTANTS
  Customers = {"c1"}
  Rows = {"r1", "r2", "r3", "r4"}
  Codes = {"k1", "k2", "k3"}
  Actors = {a1, a2}
  Plans = {"free", "basic", "pro"}
  Free = "free"
  Rank <- Prices
  NoRow = NoRow
  NoPlan = NoPlan
  NoCode = NoCode
  MaxRequests = 2
  MaxDeliveries = 2
  Faults = {"die", "refuse"}
  MaxFaults = 1
  a1 = a1
  a2 = a2
CONSTRAINT InOrder
SYMMETRY Symmetry
INVARIANTS
  OneFreePerCancellation
  PlanNeverLost
  EntitledWasHeld
CHECK_DEADLOCK FALSE
