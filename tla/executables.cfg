SPECIFICATION Spec
CONSTANTS
  Names = {"f", "autofunction", "function_not_found"}
  BuiltinNames = {"nop"}
  Autofunction = "autofunction"
  FunctionNotFound = "function_not_found"
  Objects = {o1, o2, o3, o4, o5, o6}
  None = None
  MaxDepth = 4
SYMMETRY Places
INVARIANTS
  RunningCounted
  NamesOwn
  NothingLost
PROPERTIES
  LivesAsLongAsReferred
