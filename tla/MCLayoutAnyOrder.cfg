CONSTANTS
  NumClasses = 4
  NumParams = 2
  MaxLists = 2
  Hierarchies <- Shapes
SPECIFICATION Spec
CHECK_DEADLOCK FALSE
INVARIANTS
  EveryOrderWorks
