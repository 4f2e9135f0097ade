CONSTANTS
  NumClasses = 4
  NumParams = 3
  Programs <- AdjacentPrograms
SPECIFICATION Spec
INVARIANTS
  TypeOK
  FitsInDispatchData
  ContiguousCallsGetTheirCell
  EntriesInsideVtables
