SPECIFICATION Spec
CONSTANTS
  d1 = d1
  d2 = d2
  Disks = {d1, d2}
  Numbers = {1, 2}
  Names = {x}
  NoName = NoName
  None = None
  DiskSize <- MCDiskSize
  VGs = {v1, v2}
  LVs = {l1, l2}
  Mapped = {m}
  Sizes = {1, 2}
  MaxList = 2
  MaxThings = 4
  Lists <- MCLists
CONSTRAINT MCBound
SYMMETRY MCSymmetry
INVARIANTS
  OneOwner
  NoOversell
  OpenIsEncrypted
PROPERTIES
  LostByError
  BooksKept
  OwnedOnce
