CHECK_DEADLOCK FALSE
SPECIFICATION CommandsSpec
CONSTANTS
  first = first
  second = second
  usual = usual
  other = other
  Commands = {first, second}
  FieldValues = {usual, other}
  DefaultChoice = usual
  Plans <- MCPlans
  MaxLives = 1
INVARIANTS
  SavedForNextStart
