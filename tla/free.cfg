SPECIFICATION Spec
CONSTANTS
  MiB = 2
  Reserve = 1
  Word = 32
  MBRBytes = 11
  TinySizes = {0, 1}
  RoomySize = 9
  LastByte = 9
  MaxParts = 2
  Disks <- MCDisks
  MinSize = 1
CHECK_DEADLOCK FALSE
INVARIANTS
  GapsExact
  FreeUsable
PROPERTIES
  OnlyLastCut
