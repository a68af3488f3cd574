\* Two versions, two rewrites, one death, two attempts, two connections.
SPECIFICATION FairSpec
CONSTANTS
  Conns = {c1, c2}
  None = None
  Fallback = TRUE
  Versions = {v1, v2}
  Torn = Torn
  NoPending = NoPending
  MaxAttempts = 2
  MaxRewrites = 2
  MaxDeaths = 1
INVARIANTS
  TypeOK
  NoConnectionForgotten
  StopLeavesNothingOpen
  ServedPairMatches
PROPERTIES
  CallsEnd
  RestartsForAWholeRenewal
  RenewalIsServed
