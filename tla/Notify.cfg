\* Two bays announced together, one process death.
SPECIFICATION FairSpec
CONSTANTS
  Bays = {b1, b2}
  Health = {ok, failed}
  Bad = {failed}
  None = None
  MaxCrashes = 1
INVARIANTS
  TypeOK
  LastIsTold
PROPERTIES
  NeverRepeats
  AlertsArrive
