\* A recovery that is announced and not recorded.
SPECIFICATION FairSpec
CONSTANTS
  Bays = {b1}
  Health = {ok, warning, failed}
  Bad = {warning, failed}
  None = None
  MaxCrashes = 1
PROPERTY NoBadBayIsSilent
