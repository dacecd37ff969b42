CONSTANTS
  Searchers = {g1, g2}
  Tokens = {s1, s2, s3, s4}
  MaxExpiries = 2
  NoSession = NoSession
  None = None
SPECIFICATION Spec
INVARIANT TypeOK
INVARIANT HandshakesBounded
INVARIANT RetryBounded
INVARIANT ResultsFollowAnswer
PROPERTY AllSearchesReturn
CHECK_DEADLOCK FALSE
