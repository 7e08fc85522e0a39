SPECIFICATION HistorySpec
CONSTANTS
  Names <- MCNames
  Values = {a, b}
  None = None
  Flags <- MCFlags
  LocalNames <- MCLocalNames
  Prototypes <- MCPrototypes
  MaxMaps = 3
  MaxSteps = 4
  Absent = Absent
  Undefined = Undefined
  Done = Done
  Refused = Refused
VIEW View
SYMMETRY ValueSymmetry
INVARIANTS
  Judged
PROPERTIES
  ScopesImplemented
  InitialValueHeard
  InterruptedUntouched
  UnusedReported
