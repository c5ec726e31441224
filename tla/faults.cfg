SPECIFICATION FairSpec
CONSTANTS
  None = None
  Torn = Torn
  c1 = c1
  c2 = c2
  Clients <- MCTwo
  Slots = {1, 2}
  LastBlock = 3
  MBRSlots = {1, 2}
  MBRLast = 3
  Types = {"t"}
  Extents <- MCLongExtent
  Ops = {"create", "delete"}
  UpdateTypes = {"t"}
  MaxBatch = 1
  Reuse = FALSE
  Careful = TRUE
  IsDevice = TRUE
  InitKind = "gpt"
  InitTable <- MCTable
  MaxFaults = 1
INVARIANTS
  TypeOK
  SuccessIsDone
  KernelMatches
  NoSilentOverlap
  OneCopySurvives
  ZeroedBeforeVisible
PROPERTIES
  CallsEnd
