CONSTANTS
  Searchers = {g1, g2}
  Tokens = {s1, s2, s3, s4}
  MaxExpiries = 1
  NoSession = NoSession
  None = None
SPECIFICATION Spec
SYMMETRY Symmetry
INVARIANT RetryFailsOnlyOnExpiredSession
CHECK_DEADLOCK FALSE
