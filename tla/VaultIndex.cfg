SPECIFICATION Spec
CONSTANTS
  u = u
  v = v
  Id = {u, v}
  UserContent = {u, v}
  Link <- LinkDef
  Handler = {h}
  Guarded = TRUE
  None = None
  MaxStamp = 2
  MaxRaces = 1
INVARIANTS TypeOK FullPassRebuilds IncrementalPassRepairs
CHECK_DEADLOCK FALSE
