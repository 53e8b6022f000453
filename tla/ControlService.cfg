CHECK_DEADLOCK FALSE
SPECIFICATION ServiceSpec
CONSTANTS
  Presets = {a, b}
  Backends = {scalar, simd}
  Rates = {r44, r48}
  Automatic = Automatic
  None = None
  Clients = {c1, c2}
  Monitor = monitor
  Publisher = publisher
  MainLoop = mainLoop
  HasSubscriber = TRUE
  BadVersions = {2}
  MaxVersion = 3
  Workloads <- MCCommands
  s1 = s1
  s2 = s2
  s3 = s3
  Sessions <- MCSessions
  SlowSessions = {s1}
  MaxJobs = 2
  MaxSubscribers = 1
  MaxStatus = 3
  ServerWorkloads <- MCPlans
INVARIANTS
  PipelineMatchesConfiguration
  PendingMarkerHasOwner
  ServerTypeOK
PROPERTIES
  ReloadSupersedesNobody
  LoneEditIsLoaded
  DeferredReloadIsRetried
  RateRequestIsAnswered
  RequestIsAnswered
  SubscriberCatchesUp
  StopCompletes
