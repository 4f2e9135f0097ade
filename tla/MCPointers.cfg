CONSTANTS
  Class <- Classes
  NoClass = 0
  Bases <- Hierarchy
  main = main
  derived = derived
  more = more
  m1 = m1
  m2 = m2
  d1 = d1
  k5 = k5
  o2 = o2
  o5 = o5
  Library = {derived, more}
  Main = main
  Lists <- ListsOf
  Overrider = {m1, m2, d1, k5}
  UnitOf <- Units
  OverriddenClass <- Overridden
  MethodClass = 1
  NotImplemented = NotImplemented
  Ambiguous = Ambiguous
  NoFunction = NoFunction
  Configs <- Registries
  MaxInits = 2
  ObjectClass = 5
  Object = {o2, o5}
  ClassOf <- Objects
  NoObject = NoObject
  p = p
  q = q
  Ptr = {p, q}
SYMMETRY Symmetry
SPECIFICATION Spec
INVARIANTS
  TypeOK
  PublishedTogether
  NextLeadsOn
  EmbeddedFollowsBody
  FreshPointersWork
  IndirectPointersLast
  NeverAnotherClass
