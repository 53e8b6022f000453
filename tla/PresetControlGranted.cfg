CHECK_DEADLOCK FALSE
SPECIFICATION Spec
CONSTANTS
  Presets = {a}
  Backends = {scalar, simd}
  Rates = {r44, r48}
  Automatic = Automatic
  None = None
  Clients = {c1}
  Monitor = monitor
  Publisher = publisher
  MainLoop = mainLoop
  HasSubscriber = TRUE
  BadVersions = {}
  MaxVersion = 0
  Workloads <- MCGranted
INVARIANTS
  GrantedRateIsApplied
