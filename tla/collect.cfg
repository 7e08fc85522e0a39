SPECIFICATION Spec
CONSTANTS
  Names <- MCNames
  MaxNesting = 4
  MaxCollect = 1
  MaxExtra = 1
  CountLimit = 64
  Commands <- CollectCommands
  Conditions = {}
  Functions <- CollectFunctions
  Quiet <- QuietHooks
  Faults = {"undefined"}
  Signals = {}
  LineFuel = 7
INVARIANTS
  CountMatches
  HandlerFlagSound
  ExcessReportedOnce
  CollectedWithinLimit
