\* Two calls at a time, up to three fetches under way, one wait that times out on a runner that gets on.
SPECIFICATION FairSpec
CONSTANTS
  brass = brass
  lanc = lanc
  ann = ann
  day = day
  mail = mail
  thing = thing
  None = None
  Label = {brass, lanc}
  Plain = {ann, day}
  Lazy = {day}
  Source = {mail, thing}
  Present = {ann, mail}
  EdgeType = {"link"}
  Client = {c1, c2}
  Fetch = {f1, f2, f3}
  Request <- RequestDef
  Upstream <- UpstreamDef
  MaxSlow = 1
  MaxCalls = 2
INVARIANTS TypeOK DispatchLeavesTrace
PROPERTIES GateHolds CallsEnd
CHECK_DEADLOCK FALSE
