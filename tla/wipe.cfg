SPECIFICATION Spec
CONSTANTS
  MiB = 3
  Magic = 1
  Int63 = 20
  Sizes = {1, 3, 4, 6, 7, 8, 13}
  Starts = {1, 3, 7, 9, 14, 30, 39}
  Lengths = {1, 2, 4, 5, 7, 8, 10}
  MaxParts = 2
  Disks <- MCDisks
CHECK_DEADLOCK FALSE
INVARIANTS
  InsideDisk
  EndsGone
  OnlyEnds
PROPERTIES
  TableFirst
