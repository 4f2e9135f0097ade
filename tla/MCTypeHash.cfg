CONSTANTS
  Width = 6
  MaxAttempts = 2
  MaxInits = 2
  Multipliers <- SomeMultipliers
  Programs <- SmallPrograms
SPECIFICATION Spec
CHECK_DEADLOCK FALSE
INVARIANTS
  TypeOK
  RegisteredAreFound
  ChecksAreExact
  RoomForAll
PROPERTIES
  SearchEnds
