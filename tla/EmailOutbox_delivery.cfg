SPECIFICATION Spec
CONSTANTS
  Worker = {w1, w2}
  Request = {r1, r2}
  RetryLimit = 2
  BackoffCap = 1
  Lifetime = 2
  Cooldown = 1
  MaxIntents = 2
  None = None
SYMMETRY Peers
INVARIANTS
  TypeOK
  AtMostOneMessage
  OutcomeTrue
  OneOpenIntent
PROPERTIES
  ImplementsMail
