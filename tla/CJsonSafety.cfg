SPECIFICATION Spec
CONSTANTS
  MaxItems = 5
  Keys = {"a", "A"}
  NoKey = NoKey
  Fold <- MCFold
  Docs <- MCDocs
  NestingLimit = 2
  MaxCount = 2
  MaxBudget = 6
  MaxCalls = 4
CHECK_DEADLOCK FALSE
INVARIANTS Consistent Owned
PROPERTIES Implements
