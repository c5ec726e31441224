---------------------------- MODULE MCLinuxLVM ----------------------------
(* Two small devices, two groups, two names for volumes.                    *)
EXTENDS LinuxLVM, TLC

CONSTANT MaxThings   \* the most physical and logical volumes and open devices at a time

MCBound ==
  Cardinality({d \in Devs : world.label[d] # None})
    + Cardinality({x \in VGs \X LVs : There(world, x[1], x[2])})
    + Cardinality({x \in VGs \X LVs : IsOpen(world, x[1], x[2])}) <= MaxThings
MCSymmetry == Permutations(VGs) \union Permutations(LVs) \union Permutations(Devs)
=============================================================================
