SPECIFICATION Spec
CONSTANTS
  Ctrls = {0, 1}
  Slots = {0, 1}
  Groups = {0, 1}
  Drives = {1, 2, 3}
  Paths = {"sdb", "sdc"}
  NoPath = "none"
  Machines <- MCTwoArrays
  Callers = {k1, k2}
  Kinds = {"smartpqi"}
  Plain = {"serialSSD", "flash", "nvme", "unreadable", "rotating"}
  TTL = 1
  QueryTime = 1
  None = None
  MaxMoves = 0
  MaxCached = 1
  MaxTime = 3
CONSTRAINT MCBound
ACTION_CONSTRAINT MCPrompt
SYMMETRY MCSymmetry
INVARIANTS
  OwnerType
