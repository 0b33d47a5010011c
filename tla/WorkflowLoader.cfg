SPECIFICATION Spec
CONSTANTS
  m = m
  n = n
  c1 = c1
  c2 = c2
  c3 = c3
  bad = bad
  slot = slot
  Paths = 2
  Name = {m, n}
  Content = {c1, c2, c3, bad}
  NameIn <- NameInDef
  SlotIn <- SlotInDef
  Parses = {c1, c2, c3, bad}
  Valid = {c1, c2, c3}
  Compiles = {c1, c2}
  PathOf <- PathOfDef
  None = None
  MaxEdits = 4
INVARIANTS TypeOK RegistryIsConsistent
PROPERTY CatchesUp
