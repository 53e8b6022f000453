SPECIFICATION CardsAndWindowSpec
CONSTANTS
  NumCards = 2
  Profiles <- MCProfiles
  NodeCount <- MCNodeCount
  None = none
  RequestDuringStart = FALSE
  hifi = hifi
  off = off
  Starts <- MCStarts
  Scalars <- MCScalars
  Values = {0, 1}
  StartValue = 1
  DefaultValue = 0
  NoValue = NoValue
  Connections = {1, 2, 3}
  MaxEvents = 1
  Disturbances <- MCDisturbances
INVARIANTS
  CardsAndWindowTypeOK
  
PROPERTIES
  RollbackIsAccounted
  
  RestorationEnds
  ClosesAfterRollback
  DraftIsNotResubmitted
  CancelCloses
