----------------------------- MODULE MCMockLVM ----------------------------
(* A small mock machine: a disk with room for two small volumes, a smaller  *)
(* disk, and one name for partitions, which may be physical volumes too.    *)
EXTENDS MockLVM, TLC

CONSTANTS
  d1, d2,   \* the disks
  MaxList,    \* the most physical volumes in one call
  MaxThings   \* the most partitions, PVs, VGs and LVs at a time

MCDiskSize == d1 :> 2 @@ d2 :> 1
MCLists == UNION {[1 .. n -> PVNames] : n \in 0 .. MaxList}
MCThings ==
  Cardinality(pvs) + Cardinality(vgs)
    + Cardinality({x \in Disks \X Numbers : parts[x[1]][x[2]] # None})
    + Cardinality({x \in VGs \X LVs : lvs[x[1]][x[2]] # None})
MCBound == MCThings <= MaxThings
MCSymmetry == Permutations(VGs) \union Permutations(LVs)
=============================================================================
