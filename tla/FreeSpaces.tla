---------------------------- MODULE FreeSpaces ----------------------------
(***************************************************************************)
(* Disk.FreeSpacesWithMin (disk.go) and findRangeGaps (util.go): the parts *)
(* of a disk no partition uses, found by cutting every used range out of   *)
(* the whole.  The cutting works on a Go slice in place, so what an append *)
(* does to the array under the slice is part of the model.                 *)
(***************************************************************************)
EXTENDS Integers, Sequences, Functions

CONSTANTS
  MiB,      \* bytes in a MiB
  Reserve,  \* 33 sectors: room for the backup GPT
  Word,     \* 2^64
  MBRBytes, \* 2^32 - 1 sectors: what an MBR can address
  Disks,    \* the disks to look at: size, kind of table, ranges of the partitions
  MinSize   \* smallest free space wanted

Ranges == [start : 0 .. Word - 1, last : 0 .. Word - 1]

ASSUME SizesAssumption == /\ {MiB, Reserve, Word, MBRBytes, MinSize} \subseteq Nat
                          /\ 0 < Reserve /\ Reserve < MiB /\ MiB < Word
                          /\ MBRBytes < Word
ASSUME DisksAssumption ==
  \A d \in Disks : /\ d.size \in 0 .. Word - 2 /\ d.table \in {"gpt", "mbr"}
                   /\ d.parts \in Seq(Ranges)

VARIABLES
  d,      \* the disk
  used,   \* the used ranges, sorted
  k,      \* position of the outer loop, in used
  ret,    \* the gaps so far
  r       \* position of the inner loop, in ret

vars == <<d, used, k, ret, r>>

Size(g) == (g.last - g.start + 1) % Word
In(x, g) == g.start <= x /\ x <= g.last

\* where the backup GPT's room starts, rounded down to a MiB; the subtraction
\* wraps around on a disk of less than 33 sectors
RoundedEnd(size) == (((size - Reserve) % Word) \div MiB) * MiB
End(disk) == RoundedEnd(disk.size)

\* the range rangeCheckParts lets a partition of this disk have
Accepted(disk, g) ==
  /\ g.start >= MiB
  /\ g.last < RoundedEnd(IF disk.table = "mbr" THEN MBRBytes ELSE disk.size)

\* wrong, for comparison: one byte of the room at the end is offered
UsedListHigh(disk) ==
  <<[start |-> 0, last |-> MiB - 1], [start |-> End(disk) + 1, last |-> disk.size]>> \o disk.parts

UsedList(disk) ==
  <<[start |-> 0, last |-> MiB - 1], [start |-> End(disk), last |-> disk.size]>> \o disk.parts

\* wrong, for comparison: no sorting
Unsorted(s) == {s}

\* sort.Sort is not stable: ranges with the same start may come in any order
Sorted(s) ==
  {t \in {[n \in DOMAIN s |-> s[p[n]]] : p \in Bijection(DOMAIN s, DOMAIN s)} :
     \A m, n \in DOMAIN s : m < n => t[m].start <= t[n].start}

\* append(ret[:n-1], ret[n:]...)
Without(s, n) == SubSeq(s, 1, n - 1) \o SubSeq(s, n + 1, Len(s))

\* append(append(ret[:n], x), ret[n:]...): when s[n] is not the last element,
\* the inner append writes x over the element the outer one is to keep
Inserted(s, n, x) ==
  IF n = Len(s) THEN Append(s, x)
                ELSE SubSeq(s, 1, n) \o <<x, x>> \o SubSeq(s, n + 2, Len(s))

Init ==
  /\ d \in Disks
  /\ used \in Sorted(UsedList(d))
  /\ k = 1
  /\ ret = <<[start |-> 0, last |-> d.size]>>
  /\ r = 1

AtWork == k <= Len(used) /\ r <= Len(ret)
i == used[k]
gap == ret[r]

\* the five cases of the inner loop, in the order the code tries them
Apart    == i.start > gap.last \/ i.last < gap.start
Superset == ~Apart /\ i.start <= gap.start /\ i.last >= gap.last
Inside   == ~Apart /\ i.start > gap.start /\ i.last < gap.last
LeftEdge == ~Apart /\ ~Superset /\ ~Inside /\ i.start <= gap.start
RightEdge == ~Apart /\ ~Superset /\ ~Inside /\ ~LeftEdge

Skip ==
  /\ AtWork /\ Apart
  /\ r' = r + 1
  /\ UNCHANGED <<d, used, k, ret>>

Remove ==
  /\ AtWork /\ Superset
  /\ ret' = Without(ret, r)
  /\ UNCHANGED <<d, used, k, r>>

\* the new entry lies behind i, so the loop steps over it
Split ==
  /\ AtWork /\ Inside
  /\ ret' = [Inserted(ret, r, [start |-> (i.last + 1) % Word, last |-> gap.last])
               EXCEPT ![r].last = i.start - 1]
  /\ r' = r + 2
  /\ UNCHANGED <<d, used, k>>

\* wrong, for comparison: the last byte of the range stays in the gap
CutLeftShort ==
  /\ AtWork /\ LeftEdge
  /\ ret' = [ret EXCEPT ![r].start = i.last]
  /\ r' = r + 1
  /\ UNCHANGED <<d, used, k>>

CutLeft ==
  /\ AtWork /\ LeftEdge
  /\ ret' = [ret EXCEPT ![r].start = (i.last + 1) % Word]
  /\ r' = r + 1
  /\ UNCHANGED <<d, used, k>>

CutRight ==
  /\ AtWork /\ RightEdge
  /\ ret' = [ret EXCEPT ![r].last = i.start - 1]
  /\ r' = r + 1
  /\ UNCHANGED <<d, used, k>>

NextRange ==
  /\ k <= Len(used) /\ r > Len(ret)
  /\ k' = k + 1
  /\ r' = 1
  /\ UNCHANGED <<d, used, ret>>

Next == Skip \/ Remove \/ Split \/ CutLeft \/ CutRight \/ NextRange
Spec == Init /\ [][Next]_vars

Finished == k > Len(used)
\* what FreeSpacesWithMin returns, as a set
Free == {g \in {ret[n] : n \in DOMAIN ret} : Size(g) >= MinSize}
-----------------------------------------------------------------------------
(* Properties. *)

\* The cutting loop keeps gaps that are never empty and in ascending order; when it has
\* gone over them with one more range, a byte is in some gap exactly when no range so
\* far has it, whatever overlaps, repeats or has no length.
GapsExact ==
  /\ \A n \in DOMAIN ret : ret[n].start <= ret[n].last
  /\ \A m, n \in DOMAIN ret : m < n => ret[m].last < ret[n].start
  /\ k <= Len(used) /\ r > Len(ret) => \A x \in 0 .. d.size :
       (\E n \in DOMAIN ret : In(x, ret[n])) <=> (\A m \in 1 .. k : ~In(x, used[m]))

\* Only the last gap is ever cut or removed, thanks to the sorting: the append
\* that would overwrite a later gap never has one to overwrite.
OnlyLastCut == [][ret' # ret => r = Len(ret)]_vars

\* "These slots can be used to create new partitions" (comment of FreeSpaces): the
\* library takes a partition that fills a free space, and such a partition touches no
\* other and nothing the table needs, not the first MiB, not the room of the backup GPT.
FreeUsable ==
  Finished => \A g \in Free :
    /\ Accepted(d, g)
    /\ g.start >= MiB /\ g.last < End(d)
    /\ \A n \in DOMAIN d.parts : \A x \in g.start .. g.last : ~In(x, d.parts[n])
=============================================================================
