SPECIFICATION FairSpec
CONSTANTS
  None = None
  MaxLevels = 2
  MaxPieces = 4
  MaxTries = 3
  PipeSize = 1
CHECK_DEADLOCK FALSE
INVARIANTS
  SubstitutionExact
  TerminalExact
  NothingLeftOpen
PROPERTIES
  WaitReturns
