SPECIFICATION Spec
CONSTANTS
  Names <- MCNames
  MaxNesting = 0
  MaxCollect = 1
  MaxExtra = 1
  CountLimit = 64
  Commands <- LimitCommands
  Conditions = {}
  Functions <- LimitFunctions
  Quiet <- HookedQuiet
  Faults = {"arguments"}
  Signals = {"a"}
  LineFuel = 4
INVARIANTS
  AutofunctionOnce
  ListsNested
  NestingBounded
