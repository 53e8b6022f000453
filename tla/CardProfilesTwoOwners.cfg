SPECIFICATION Spec
CONSTANTS
  NumCards = 2
  Profiles <- MCProfiles
  NodeCount <- MCNodeCount
  None = none
  RequestDuringStart = TRUE
  hifi = hifi
  off = off
  Starts <- MCReturns
INVARIANT OneTransitionAtATime
CHECK_DEADLOCK FALSE
