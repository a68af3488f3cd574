\* One bay, one block name that every occupant gets in turn, a swap between two
\* drives, and pools that may list the one that left.
SPECIFICATION FairSpec
CONSTANTS
  d1 = d1
  d2 = d2
  Drives <- MCDrives
  Bays = {b1}
  Names = {n1}
  None = None
  Unreadable = Unreadable
  Sysfs <- MCSysfs
  DiskQuery <- MCDiskQuery
  MaxSwaps = 1
INVARIANTS
  TypeOK
  WrongPoolNeedsStraddle
  
PROPERTY JoinSettles
