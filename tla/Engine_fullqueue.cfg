\* The same queue, running: publishers take the slot the worker freed.
SPECIFICATION FairSpec
CONSTANTS
  Workflow = {"w1"}
  Def <- FloodDef
  Entity = {"p"}
  Kind = {"person", "game"}
  KindOf <- KindDef
  Dispatcher = {}
  Worker = worker
  NoTarget = NoTarget
  NoWorkflow = NoWorkflow
  NoDecision = NoDecision
  Capacity = 2
  RingSize = 1
  MaxPublish = 4
  Inputs <- CreatedInputs
  Reloads <- LoadAll
PROPERTIES HandlerReturns
CHECK_DEADLOCK FALSE
