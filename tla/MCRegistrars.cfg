CONSTANTS
  prog = prog
  plugin = plugin
  other = other
  c1 = c1
  c2 = c2
  m1 = m1
  m2 = m2
  o1 = o1
  o2 = o2
  o3 = o3
  a = a
  b = b
  c = c
  d = d
  e = e
  classes = classes
  methods = methods
  own = own
  Null = Null
  Unit <- Units
  Program = prog
  Needs <- NeedsDef
  ClassInfo <- ClassInfos
  Method <- Methods
  Overrider <- Overriders
  UnitOf <- UnitOfDef
  MethodOf <- MethodOfDef
  Own <- Owns
  Node <- Nodes
  List <- Lists
SYMMETRY Alike
SPECIFICATION Spec
INVARIANTS
  TypeOK
  LinkedIffListed
  RegisteredWhileAlive
PROPERTIES
  ImplementsList
