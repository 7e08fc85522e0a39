SPECIFICATION Spec
CONSTANTS
  Programs <- Scripts
  Functions = {"f", "g"}
  None = None
  MaxDepth = 9
CHECK_DEADLOCK FALSE
INVARIANTS
  SoonsDone
