SPECIFICATION Spec
CONSTANTS
  None = None
  Torn = Torn
  c1 = c1
  c2 = c2
  Clients <- MCOne
  Slots = {1, 2}
  LastBlock = 2
  MBRSlots = {1, 2}
  MBRLast = 2
  Types = {"t"}
  Extents <- MCShortExtents
  Ops = {"create"}
  UpdateTypes = {"t"}
  MaxBatch = 1
  Reuse = TRUE
  Careful = TRUE
  IsDevice = TRUE
  InitKind = "mbr"
  InitTable <- MCTable
  MaxFaults = 0
INVARIANT CreatedInMBR
