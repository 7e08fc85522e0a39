SPECIFICATION Spec
CONSTANTS
  Parameters <- MCParameters
  Flags = {"-x"}
  Plain = "word"
  Groups <- DashGroups
  MaxGroups = 3
  MaxWords = 4
CHECK_DEADLOCK FALSE
PROPERTIES
  DashDashEnds
