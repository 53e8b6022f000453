SPECIFICATION SetupSpec
CONSTANTS
  PolicyFiles = {f1, f2}
  Overrides = {o1, o2}
  StartupPresets = {preset}
  NumProcesses = 4
  SetupBounds <- MCBounds
INVARIANTS
  UnsetupLasts
CHECK_DEADLOCK FALSE
