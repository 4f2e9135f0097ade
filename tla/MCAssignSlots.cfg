CONSTANTS
  NumClasses = 4
  NumParams = 3
SPECIFICATION Spec
INVARIANTS
  TypeOK
  NoSharedSlot
  SlotsInsideVtables
  VtablesAreTight
PROPERTIES
  AllAllocated
  ImplementsAllocation
