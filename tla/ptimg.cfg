SPECIFICATION Spec
CONSTANTS
  Runs = {r, q}
  Images = {raw, qcow}
  Raw = {raw}
  Loops = {100}
  Nbds = {0, 1}
  Options <- MCOptions
  Nums = {1, 2, 3}
  LastUnit = 9
  MinSize = 2
  MaxSize = 3
  SfdiskEnd = 2
  Polls = 2
  MaxKills = 1
  None = None
CONSTRAINT MCBound
CHECK_DEADLOCK FALSE
INVARIANTS
  OwnDevice
  CopyKept
  Released
PROPERTIES
  OthersKept
  Ends
