--------------------------- MODULE MCFreeSpaces ---------------------------
(* Small disks for FreeSpaces, with every sequence of partitions, also ones *)
(* that overlap, reach past the end, lie in the first MiB or have no length.*)
EXTENDS FreeSpaces

CONSTANTS
  TinySizes,   \* sizes of disks too small to hold a backup GPT
  RoomySize,   \* size of the disks with room to use
  LastByte,    \* the highest end of a partition
  MaxParts     \* the most partitions on a roomy disk

MCRanges == {g \in [start : 0 .. LastByte, last : 0 .. LastByte] : g.last >= g.start - 1}
Upto(n) == UNION {[1 .. m -> MCRanges] : m \in 0 .. n}
MCDisks ==
  {[size |-> z, table |-> "gpt", parts |-> p] : z \in TinySizes, p \in Upto(1)} \cup
  {[size |-> RoomySize, table |-> t, parts |-> p] : t \in {"gpt", "mbr"}, p \in Upto(MaxParts)}
=============================================================================
