SPECIFICATION Spec
CONSTANTS
  job = job
  opt1 = opt1
  opt2 = opt2
  Absent = Absent
  None = None
  Task = {job}
  Option = {opt1, opt2}
  Path <- PathDef
  Before <- ArchivedBefore
  MaxCalls = 3
  MaxInFlight = 2
  MaxFaults = 1
INVARIANTS TypeOK AnswersStand QuietIsCommitted
PROPERTY ArchivedIsMoved
SYMMETRY EitherOption
CHECK_DEADLOCK FALSE
