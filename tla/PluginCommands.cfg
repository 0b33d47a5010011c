SPECIFICATION FairSpec
CONSTANTS
  home = home
  work = work
  broken = broken
  off = off
  a = a
  b = b
  bad = bad
  c = c
  None = None
  Bare = bare
  Request = {q1, q2}
  Mail = {a, b, bad, c}
  Malformed = {bad}
  Configured <- ConfiguredDef
  Enabled = {home, broken, work}
  EnvFails = {broken}
  Box <- BoxDef
  MaxTroubles = 1
INVARIANTS TypeOK MailIsKept AnswersAreOwn
PROPERTIES RequestsEnd
CHECK_DEADLOCK FALSE
