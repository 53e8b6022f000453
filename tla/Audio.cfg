SPECIFICATION AudioSpec
CONSTANTS
  Pipelines = {p1, p2, p3, p4}
  NoPipeline = NoPipeline
  Mutators = {control}
  UnlockedReaders = {control}
  NoThread = NoThread
  MaxActivations = 3
  Timeouts = {0, 1, 3}
  SampleRates = {1000, 1500}
  FadeMilliseconds = 2
  BlockSizes = {1, 2, 4}
  MaxGeneration = 2
  Capacity = 3
  MaxBlock = 2
  Generations = {1, 2}
  MaxOffered = 6
INVARIANTS
  AudioTypeOK
  SelectedPipelineIsLive
  PipelinesAreAccounted
  FadeIgnoresBlocks
  SleepsCleanAfterFade
  ReportedActivityIsCurrent
  CellsHaveOneOwner
PROPERTIES
  RollbackTargetKept
  ImplementsContract
  CallGetsPipeline
  ImplementsQueue
