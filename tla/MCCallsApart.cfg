CONSTANTS
  NumClasses = 4
  NumParams = 3
  Programs <- ApartPrograms
SPECIFICATION Spec
INVARIANT EveryCallGetsItsCell
