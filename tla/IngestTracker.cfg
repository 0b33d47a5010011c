\* Two requests, for a game or for a label that the game points at; the system
\* stops when both streams have ended.
SPECIFICATION FairSpec
CONSTANTS
  Request = {q1, q2}
  u1 = u1
  u2 = u2
  game = game
  label = label
  Url = {u1, u2}
  Entity = {game, label}
  None = None
  Resolves <- TwoUrls
  Label = {label}
  MaxEnvelopes = 2
INVARIANTS TypeOK SettlesOnce FullRowHasFile EveryRowIsTold
PROPERTIES NoLostProvenance RecordSettles
CHECK_DEADLOCK FALSE
