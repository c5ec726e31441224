SPECIFICATION Spec
CONSTANTS
  None = None
  Torn = Torn
  c1 = c1
  c2 = c2
  Clients <- MCTwo
  Slots = {1, 2}
  LastBlock = 2
  MBRSlots = {1, 2}
  MBRLast = 2
  Types = {"t", "u"}
  Extents <- MCLongExtent
  Ops = {"create", "update", "delete"}
  UpdateTypes = {"u"}
  MaxBatch = 1
  Reuse = FALSE
  Careful = FALSE
  IsDevice = FALSE
  InitKind = "gpt"
  InitTable <- MCTable
  MaxFaults = 1
SYMMETRY MCSymmetry
INVARIANTS
  LockHolder
  HolderAgrees
PROPERTIES
  NoLostUpdate
  AtomicCalls
