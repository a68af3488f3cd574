\* Six parts side by side, each with its own bounds.
SPECIFICATION ServicesSpec
CONSTANTS
  \* the lock: a writer in the helper, one in the web process, a sweep, one bay
  Writers = {w1, w2}
  Sweepers = {r1}
  Helpers = {w1}
  Slots = {s1}
  None = None
  MaxCrashes = 1
  \* the slot map: four shelves of three elements or four
  Shelves <- MCShelves
  SlotNumbers = {1, 2}
  SparseLists = {TRUE, FALSE}
  Nothing = Nothing
  \* the chassis poll: two enclosures
  Enclosures = {e1, e2}
  Missing = Missing
  \* the accounts: two requests at once, three in all, one death
  Workers = {t1, t2}
  Users = {u1}
  Passwords = {p1, p2}
  Inodes = {1, 2, 3, 4}
  Empty = Empty
  Garbage = Garbage
  Absent = Absent
  MaxOps = 3
  MaxDeaths = 1
  \* the audit log: generations of two lines, five entries
  Recorders = {q1, q2}
  Viewers = {v1}
  Full = 2
  Limit = 2
  MaxEntries = 5
  NoFile = NoFile
  \* the limiter: two threads, two addresses, two windows
  Callers = {c1, c2}
  Addresses = {a1, a2}
  Attempts = 1
  Window = 3
  Delay = 1
  MaxClock = 6
  NotNow = NotNow
INVARIANTS
  ServicesTypeOK
  NothingHeldOutside
  WrongBayNeedsSilentShift
  AddressIsTheSlots
  OldNeedsAnExcuse
  OldMapIsOfTheUnlisted
  LoneChangesHold
  TailShowsTheLatest
  OnlyOldEntriesGo
  LimiterHolds
PROPERTIES
  ImplementsExclusiveShelf
  EveryoneGetsThrough
  GateStaysShut
CHECK_DEADLOCK FALSE
