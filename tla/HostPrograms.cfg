CHECK_DEADLOCK FALSE
SPECIFICATION HostSpec
CONSTANTS
  stereo = stereo
  renamed = renamed
  surround = surround
  quad = quad
  Outputs = {stereo, renamed, surround}
  StartOutputs = {stereo}
  StartRates = {r44}
  Width <- MCWidth
  Arguments <- MCArguments
  Presets = {quad}
  PresetWidth <- MCPresetWidth
  InferChannels = TRUE
  Rates = {r44, r48}
  Clients = {c1, c2}
  Keep = Keep
  None = None
  StatusDuringChange = FALSE
  MaxCommands = 2
  PolicyFiles = {f1, f2}
  Overrides = {o1, o2}
  StartupPresets = {preset}
  NumProcesses = 4
  SetupBounds <- MCBounds
  first = first
  second = second
  usual = usual
  other = other
  Commands = {first, second}
  FieldValues = {usual, other}
  DefaultChoice = usual
  Plans <- MCPlans
  MaxLives = 1
INVARIANTS
  HostTypeOK
  LayoutFits
  AnswerTellsTheOutcome
  StagedChangeIsExclusive
  NamedRevisionWasSeen
  ReportIsTrue
  OverrideIsKept
  FailedSetupIsUndone
  SuccessIsComplete
PROPERTIES
  OutputRequestIsAnswered
  UndoOverwritesNobody
