\* Two enclosures.
SPECIFICATION ChassisSpec
CONSTANTS
  Enclosures = {e1, e2}
  Missing = Missing
INVARIANT NothingOldPassesForNew
CHECK_DEADLOCK FALSE
