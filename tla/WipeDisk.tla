----------------------------- MODULE WipeDisk -----------------------------
(***************************************************************************)
(* wipeDisk and zeroStartEnd (linux/disk.go), byte by byte: which bytes of *)
(* a disk a Wipe zeroes, in which order, and how it ends.  DiskOps looks   *)
(* at the same code as one of several operations on a shared disk, with    *)
(* blocks of a MiB; here the question is what happens at the edges.        *)
(***************************************************************************)
EXTENDS Integers, Sequences, FiniteSetsExt

CONSTANTS
  MiB,     \* bytes in a MiB
  Magic,   \* 4 bytes: what identifies a VMFS volume
  Int63,   \* 2^63: an int64 lies in -Int63 .. Int63 - 1
  Disks    \* the disks to wipe: size, and the partitions a scan found on it

ASSUME BytesAssumption == MiB \in Nat /\ Magic \in Nat /\ 0 < Magic /\ Magic < MiB
Uint64 == 0 .. 2 * Int63 - 1
ASSUME DisksAssumption ==
  /\ Int63 \in Nat
  /\ \A d \in Disks :
       /\ d.size \in Nat /\ d.size < Int63
       /\ d.parts \in Seq([start : Uint64, last : Uint64])

VARIABLES
  disk,     \* the disk
  todo,     \* partitions whose ends are still to be zeroed, in order
  writes,   \* the writes zeroStartEnd has planned and not done
  zeroed,   \* the bytes zeroed so far
  outcome   \* "running", "ok", "range": zeroStartEnd refused, "failed": a seek or a write

vars == <<disk, todo, writes, zeroed, outcome>>

Bytes(w) == w.start .. w.start + w.size - 1

\* wrong, for comparison: a whole MiB whatever there is, ...
PlannedWhole(start, last) ==
  <<[start |-> start, size |-> MiB]>>
    \o (IF last > 2 * MiB THEN <<[start |-> last - MiB, size |-> MiB]>> ELSE <<>>)
\* ... and the start only
PlannedStart(start, last) ==
  <<[start |-> start, size |-> IF start + MiB >= last THEN last - start ELSE MiB]>>

\* zeroStartEnd(start, last): the writes it plans when last > start
Planned(start, last) ==
  IF start + MiB >= last
    THEN <<[start |-> start, size |-> last - start]>>
  ELSE IF start + MiB >= last - MiB
    THEN <<[start |-> start, size |-> MiB],
           [start |-> start + MiB, size |-> last - (start + MiB)]>>
  ELSE <<[start |-> start, size |-> MiB]>>
    \o (IF last > MiB + Magic THEN <<[start |-> MiB, size |-> Magic]>> ELSE <<>>)
    \o (IF last > 2 * MiB + Magic THEN <<[start |-> 2 * MiB, size |-> Magic]>> ELSE <<>>)
    \o <<[start |-> last - MiB, size |-> MiB]>>

\* the first seek is to start: one that is negative fails before anything is written
ZeroStartEnd(start, last) ==
  \/ last <= start /\ outcome' = "range" /\ UNCHANGED writes
  \/ start < last /\ start < 0 /\ outcome' = "failed" /\ UNCHANGED writes
  \/ start < last /\ 0 <= start /\ writes' = Planned(start, last) /\ UNCHANGED outcome

\* int64(x) of a uint64
Signed(x) == IF x < Int63 THEN x ELSE x - 2 * Int63

Init ==
  /\ disk \in Disks
  /\ todo = disk.parts
  /\ zeroed = {}
  /\ LET refused == disk.size <= 0
     IN  /\ outcome = IF refused THEN "range" ELSE "running"
         /\ writes = IF refused THEN <<>> ELSE Planned(0, disk.size)

\* one seek and one write; a write ends at the end of the device
Write ==
  /\ outcome = "running" /\ writes # <<>>
  /\ \/ /\ Bytes(Head(writes)) \subseteq 0 .. disk.size - 1
        /\ zeroed' = zeroed \union Bytes(Head(writes))
        /\ UNCHANGED outcome
     \/ /\ \E n \in 0 .. Head(writes).size - 1 :
             zeroed' = zeroed \union
               {x \in Bytes(Head(writes)) : x < Head(writes).start + n /\ x < disk.size}
        /\ outcome' = "failed"
  /\ writes' = Tail(writes)
  /\ UNCHANGED <<disk, todo>>

\* wrong, for comparison: what the table says of the end is believed, ...
NextPartUnclipped ==
  /\ outcome = "running" /\ writes = <<>> /\ todo # <<>>
  /\ ZeroStartEnd(Signed(Head(todo).start), Signed(Head(todo).last))
  /\ todo' = Tail(todo)
  /\ UNCHANGED <<disk, zeroed>>
\* ... and the partitions come before the tables
NextPartEarly ==
  /\ outcome = "running" /\ todo # <<>>
  /\ Head(todo).start < disk.size /\ Head(todo).start < Head(todo).last
  /\ writes' = Planned(Head(todo).start, Min({Head(todo).last, disk.size})) \o writes
  /\ todo' = Tail(todo)
  /\ UNCHANGED <<disk, zeroed, outcome>>

NextPart ==
  /\ outcome = "running" /\ writes = <<>> /\ todo # <<>>
  /\ LET p == Head(todo)
         end == IF p.last > disk.size THEN disk.size ELSE p.last
     IN  ZeroStartEnd(Signed(p.start), Signed(end))
  /\ todo' = Tail(todo)
  /\ UNCHANGED <<disk, zeroed>>

Finish ==
  /\ outcome = "running" /\ writes = <<>> /\ todo = <<>>
  /\ outcome' = "ok"
  /\ UNCHANGED <<disk, todo, writes, zeroed>>

Next == Write \/ NextPart \/ Finish
Spec == Init /\ [][Next]_vars
-----------------------------------------------------------------------------
(* Properties. *)

\* the first and the last MiB of the bytes from first up to but not including end
Ends(first, end) ==
  (first .. Min({first + MiB, end}) - 1) \union (Max({first, end - MiB}) .. end - 1)

VMFS == (MiB .. MiB + Magic - 1) \union (2 * MiB .. 2 * MiB + Magic - 1)

\* No write that zeroStartEnd plans is empty or reaches past the end of the disk,
\* however far past it a bad partition table says that a partition reaches.
InsideDisk ==
  \A n \in DOMAIN writes : Bytes(writes[n]) # {} /\ Bytes(writes[n]) \subseteq 0 .. disk.size - 1

\* A Wipe that reports success has zeroed the first and last MiB of the disk, where the
\* tables are, the two places where a VMFS volume is recognised, and the ends of every
\* partition except for the partition's last byte; a start that is no int64 is no success.
EndsGone ==
  outcome = "ok" =>
    /\ Ends(0, disk.size) \subseteq zeroed
    /\ disk.size > 2 * MiB + Magic => VMFS \subseteq zeroed
    /\ \A n \in DOMAIN disk.parts :
         Ends(disk.parts[n].start, Min({disk.parts[n].last, disk.size})) \subseteq zeroed

\* Nothing but the ends of the disk and its partitions and the VMFS marks is
\* ever zeroed: a short partition is not an excuse to zero what lies behind it.
OnlyEnds ==
  zeroed \subseteq Ends(0, disk.size) \union VMFS \union
    UNION {Ends(disk.parts[n].start, Min({disk.parts[n].last, disk.size})) :
             n \in DOMAIN disk.parts}

\* The table is gone before the first partition is touched: a Wipe that stops
\* half way leaves no table that still points at partitions already zeroed.
TableFirst == [][todo' # todo => Ends(0, disk.size) \subseteq zeroed]_vars
=============================================================================
