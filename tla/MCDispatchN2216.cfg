CONSTANTS
  NumClasses = 4
  Arity = 2
  NumOverriders = 3
  Programs <- Ambiguities
SPECIFICATION Spec
INVARIANT N2216Picks
