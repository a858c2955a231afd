SPECIFICATION FairSpec
CONSTANTS
  r1 = r1  r2 = r2
  Reqs = {r1, r2}
INVARIANTS InflightIsExact ExitLeavesNothing
PROPERTIES IdleSparesRequests SleepIsForgiven SupervisorHeals FollowsItsParent
CHECK_DEADLOCK FALSE
