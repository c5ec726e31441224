----------------------------- MODULE MCDiskOps -----------------------------
(* Values of DiskOps' constants for TLC. *)
EXTENDS DiskOpsRefinement, TLC

CONSTANTS c1, c2

MCTwo == {c1, c2}
MCOne == {c1}
MCSymmetry == Permutations(MCTwo)

\* a short one, one long enough for the writes at 1 and 2 MiB, one that only zeroStartEnd
\* refuses; one that reaches the backup GPT, two that leave the disk
MCBadExtents == {<<1, 1>>, <<3, 5>>, <<2, 1>>, <<1, 6>>, <<4, 7>>, <<7, 7>>}

MCShortExtents == {<<1, 1>>, <<2, 2>>}
\* the whole disk: it overlaps what the table has at first
MCLongExtent == {<<1, 2>>}

Part(a, b) == [start |-> a, last |-> b, type |-> "t"]
MCTable == [s \in Slots |-> IF s = 2 THEN Part(LastBlock, LastBlock) ELSE None]
MCFirst == [s \in Slots |-> IF s = 1 THEN Part(LastBlock, LastBlock) ELSE None]
=============================================================================
