CONSTANTS
  NumClasses = 4
  Arity = 2
  NumOverriders = 3
  Programs <- AllPrograms
SPECIFICATION Spec
INVARIANTS
  TypeOK
  DocumentedInTrees
  NeverOutranked
  N2216Resolves
  NextInTrees
  ReportIsExact
