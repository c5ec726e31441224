SPECIFICATION Spec
CONSTANTS
  Devs = {d1, d2}
  VGs = {v, w}
  LVs = {l, k}
  Mapped = {m}
  DevSize = 4
  MetaSize = 1
  None = None
  NoVG = NoVG
  ExtentSize = 2
  Sizes = {2, 3, 4}
  Types = {"thick", "thin", "pool"}
  MaxOthers = 1
  MaxThings = 5
CONSTRAINT MCBound
SYMMETRY MCSymmetry
INVARIANTS
  ScanExact
  FreshIsPlain
  ResizedWithLV
