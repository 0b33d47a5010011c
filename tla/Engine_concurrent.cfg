\* The worker and a dispatch evaluate the same workflows and wait for ingests
\* while the queue is full; the engine may be shut down at any time.
SPECIFICATION FairSpec
CONSTANTS
  Workflow = {"event", "manual"}
  Def <- ConcurrentDef
  Entity = {"p", "g"}
  Kind = {"person", "game"}
  KindOf <- KindDef
  Dispatcher = {d1}
  Worker = worker
  NoTarget = NoTarget
  NoWorkflow = NoWorkflow
  NoDecision = NoDecision
  Capacity = 1
  RingSize = 1
  MaxPublish = 2
  Inputs <- CreatedInputs
  Reloads <- LoadAll
INVARIANTS SkipDispatchesOnce
PROPERTIES BlockedCallsEnd
CHECK_DEADLOCK FALSE
