\* Three calls by anyone, in any interleaving, any write of which may fail.
SPECIFICATION FairSpec
CONSTANTS
  ent1 = ent1
  ent2 = ent2
  page = page
  h1 = h1
  h2 = h2
  ref = ref
  wgap = wgap
  ann = ann
  bob = bob
  para = para
  None = None
  Entity = {ent1, ent2, page}
  Page = {page}
  Gap = {ref, wgap}
  Heading = {h1, h2}
  Operator = {ann, bob}
  Paragraph = {para}
  ConfigGap = {ref}
  EdgeGap = {ref}
  AgentGap = {}
  OnDisk = {ent1}
  Request <- RequestDef
  MaxCalls = 3
  MaxInFlight = 2
  MaxFaults = 1
INVARIANTS TypeOK AnsweredEditsStand MirrorFollowsFile
PROPERTY EveryCallEnds
\* Clients stop after MaxCalls.
CHECK_DEADLOCK FALSE
