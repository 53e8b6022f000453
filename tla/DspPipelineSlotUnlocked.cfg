SPECIFICATION SlotSpec
CONSTANTS
  Pipelines = {p1, p2, p3, p4}
  NoPipeline = NoPipeline
  Mutators = {mainLoop, control}
  UnlockedReaders = {control}
  NoThread = NoThread
  MaxActivations = 3
SYMMETRY AddressSymmetry
INVARIANTS
  UnlockedReadIsLive
