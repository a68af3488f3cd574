\* Liveness of the IDENT engine: one bay, two requests, one crash.
SPECIFICATION FairSpec
CONSTANTS
  s1 = s1
  s2 = s2
  e1 = e1
  Slots <- MCOneSlot
  Encl <- MCEncl
  EnclOf <- MCEnclOf
  Reqs = {r1, r2}
  Timer = Timer
  None = None
  Dark = Dark
  External = External
  MaxAttempts = 2
  OtherErrors = FALSE
  MaxCrashes = 1
PROPERTIES
  RequestsReturn
  ExpiredRecordsGo
  TimedLedsGoOut
