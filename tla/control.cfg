SPECIFICATION Spec
CONSTANTS
  Names <- MCNames
  MaxNesting = 4
  MaxCollect = 1
  MaxExtra = 1
  CountLimit = 64
  Commands <- ControlCommands
  Conditions <- ControlCommands
  Functions = {"f"}
  Quiet <- ControlQuiet
  Faults = {"arguments", "undefined", "unused"}
  Signals = {}
  LineFuel = 6
INVARIANTS
  UnwindHasCause
  NoErrorIgnored
  NoChainLeftOpen
