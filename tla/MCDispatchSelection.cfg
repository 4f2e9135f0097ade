CONSTANTS
  NumClasses = 5
  Arity = 2
  NumOverriders = 3
  Programs <- Crossed
SPECIFICATION Spec
INVARIANT SelectionIsDocumented
