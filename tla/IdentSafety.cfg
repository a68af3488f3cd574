\* Safety of the IDENT engine: two bays, two requests, one crash.
SPECIFICATION Spec
CONSTANTS
  s1 = s1
  s2 = s2
  e1 = e1
  Slots <- MCSlots
  Encl <- MCEncl
  EnclOf <- MCEnclOf
  Reqs = {r1, r2}
  Timer = Timer
  None = None
  Dark = Dark
  External = External
  MaxAttempts = 2
  OtherErrors = TRUE
  MaxCrashes = 1
SYMMETRY Symmetry
INVARIANTS
  TypeOK
  OneWriterPerEnclosure
  Attributed
  Durable
  ReconcileClearsOnlyExpired
