\* The bay list: one slot, two overlapping polls, one reading thread.
SPECIFICATION Spec
CONSTANTS
  Slots = {s1}
  Pollers = {p1, p2}
  Readers = {t1}
  Dark = Dark
  App = App
  External = External
  Poll = Poll
INVARIANTS
  TypeOK
  CacheNeverBlamesOthers
  FalseExternalNeedsOverlap
PROPERTY ShownSettles
