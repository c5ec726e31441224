---------------------------- MODULE MCWipeDisk ----------------------------
(* Small disks for WipeDisk: sizes on both sides of every case that         *)
(* zeroStartEnd tells apart, and one or two partitions in any order, which  *)
(* may overlap, may reach or lie past the end of the disk, may wrap around   *)
(* the end of a uint64 and may start where an int64 is negative.             *)
EXTENDS WipeDisk

CONSTANTS
  Sizes,      \* the sizes of the disks
  Starts,     \* where a partition may start
  Lengths,    \* how many bytes it may have
  MaxParts    \* the most partitions on a disk

MCParts == {[start |-> s, last |-> (s + n - 1) % (2 * Int63)] : s \in Starts, n \in Lengths}
MCDisks == {[size |-> z, parts |-> p] :
              z \in Sizes, p \in UNION {[1 .. n -> MCParts] : n \in 0 .. MaxParts}}
=============================================================================
