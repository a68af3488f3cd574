\* A restart whose first poll does not see the shelf.
SPECIFICATION Spec
CONSTANTS
  s1 = s1
  s2 = s2
  e1 = e1
  Slots <- MCOneSlot
  Encl <- MCEncl
  EnclOf <- MCEnclOf
  Reqs = {r1}
  Timer = Timer
  None = None
  Dark = Dark
  External = External
  MaxAttempts = 2
  OtherErrors = FALSE
  MaxCrashes = 1
INVARIANT TimersSurviveRestart
