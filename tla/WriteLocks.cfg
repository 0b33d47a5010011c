\* Two callers that may nest two locks (a source and its link target), on two
\* artifacts: contention, double releases, timeouts and cancelled waits.
SPECIFICATION LocksFairSpec
CONSTANTS
  Caller = {c1, c2}
  Artifact = {a1, a2}
  Entry = {e1, e2, e3, e4}
  NoEntry = NoEntry
  NoClosure = NoClosure
  MaxPolls = 2
  MaxHeld = 2
INVARIANTS Inv
PROPERTIES CallReturns LeaseSpec
