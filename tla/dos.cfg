SPECIFICATION Spec
CONSTANTS
  None = None
  Torn = Torn
  c1 = c1
  c2 = c2
  Clients <- MCOne
  Slots = {1, 2}
  LastBlock = 5
  MBRSlots = {1}
  MBRLast = 7
  Types = {"t"}
  Extents <- MCBadExtents
  Ops = {"create", "update", "delete", "wipe"}
  UpdateTypes = {"t"}
  MaxBatch = 1
  Reuse = TRUE
  Careful = FALSE
  IsDevice = TRUE
  InitKind = "mbr"
  InitTable <- MCFirst
  MaxFaults = 1
INVARIANTS
  CreatedOverBlank
PROPERTIES
  OthersKept
  WipedStaysWiped
