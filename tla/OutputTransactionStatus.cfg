CHECK_DEADLOCK FALSE
SPECIFICATION Spec
CONSTANTS
  stereo = stereo
  renamed = renamed
  surround = surround
  quad = quad
  Outputs = {stereo, renamed, surround}
  StartOutputs = {stereo}
  StartRates = {r44}
  Width <- MCWidth
  Arguments <- MCArguments
  Presets = {quad}
  PresetWidth <- MCPresetWidth
  InferChannels = TRUE
  Rates = {r44, r48}
  Clients = {c1, c2}
  Keep = Keep
  None = None
  StatusDuringChange = TRUE
  MaxCommands = 2
SYMMETRY OutputSymmetry
INVARIANTS
  NamedRevisionWasSeen
