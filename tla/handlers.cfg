SPECIFICATION Spec
CONSTANTS
  Names <- MCNames
  MaxNesting = 4
  MaxCollect = 1
  MaxExtra = 1
  CountLimit = 64
  Commands <- HandlerCommands
  Conditions = {}
  Functions <- HookedFunctions
  Quiet <- HookedQuiet
  Faults = {"arguments", "undefined", "substitution", "unused", "malformed", "incomplete"}
  Signals = {}
  LineFuel = 6
INVARIANTS
  PromptClean
  NoErrorIgnored
  HandlerFlagComplete
  FailureNoticed
PROPERTIES
  NothingDropped
  HandlersGetOn
