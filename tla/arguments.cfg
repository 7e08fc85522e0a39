SPECIFICATION Spec
CONSTANTS
  Programs <- AllScripts
  Functions = {"f", "g"}
  None = None
  MaxDepth = 9
CHECK_DEADLOCK FALSE
INVARIANTS
  EvaluatedByItsStatement
  NeverEnds
  NotSoonEnough
