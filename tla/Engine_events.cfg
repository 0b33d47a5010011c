SPECIFICATION FairSpec
CONSTANTS
  Workflow = {"reg1", "reg2", "any", "person", "people", "both", "ring2", "ring3"}
  Def <- EventsDef
  Entity = {"p", "g"}
  Kind = {"person", "game"}
  KindOf <- KindDef
  Dispatcher = {}
  Worker = worker
  NoTarget = NoTarget
  NoWorkflow = NoWorkflow
  NoDecision = NoDecision
  Capacity = 8
  RingSize = 2
  MaxPublish = 2
  Inputs <- CreatedInputs
  Reloads <- Reloadings
INVARIANTS TypeOK HandlingOrder NoSelfCascade
PROPERTIES CascadeEnds
CHECK_DEADLOCK FALSE
