\* One shelf, all of whose bays' descriptors are sent.
SPECIFICATION slotmap_Spec
CONSTANTS
  Shelves <- MCOmitting
  SlotNumbers = {1, 2}
  SparseLists = {FALSE}
  Nothing = Nothing
INVARIANT NeverTheWrongBay
CHECK_DEADLOCK FALSE
