SPECIFICATION FairSpec
CONSTANTS
  MaxRows = 2
  Handlers = {1, 2}
  Keys = {"code", "session", "reference"}
  Period = 2
  Fallback = 3
  Stale = 1
  Grace = 2
  Window = 1
  MaxDelay = 1
  Horizon = 14
  MaxMoves = 3
  Faults = {"late", "again", "lost"}
  MaxFaults = 1
INVARIANTS
  NoFreePeriod
  FollowsProvider
CHECK_DEADLOCK FALSE
PROPERTY
  AccessEnds
