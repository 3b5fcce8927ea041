SPECIFICATION Spec
CONSTANTS
  Docs <- MCDocs
  Height <- MCHeight
  Sizes <- MCSizes
  Default = 8
  IntMax = 40
CHECK_DEADLOCK FALSE
INVARIANTS Consistent Whole
