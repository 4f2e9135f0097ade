CONSTANTS
  NumClasses = 4
  MaxLists = 2
  Hierarchies <- AllHierarchies
SPECIFICATION Spec
CHECK_DEADLOCK FALSE
INVARIANTS
  TypeOK
  BasesAreSound
  DerivedIsExact
  NoDirectBaseIsMissed
  BasesFirstIsExact
