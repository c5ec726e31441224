------------------------------ MODULE DiskOps ------------------------------
(***************************************************************************)
(* Processes that use disko's linuxSystem on one disk at the same time:    *)
(* ScanDisk, CreatePartition(s), UpdatePartition(s), DeletePartition and   *)
(* Wipe (linux/system.go, linux/disk.go).                                  *)
(*                                                                         *)
(* Every write of the disk, every kernel call and every step on the lock   *)
(* is a step of its own, so calls of different processes interleave, fail  *)
(* half way and die half way as they can in the code.                      *)
(*                                                                         *)
(* Offsets are counted in blocks of 1 MiB.  Block 0 holds the MBR and the  *)
(* primary GPT, blocks 1..LastBlock can belong to partitions, the backup   *)
(* GPT lies behind them, in block LastBlock + 1.  Sectors have 512 bytes.  *)
(* Of a partition's GUID, type and name one attribute is kept, "type": it  *)
(* is the one that decides whether a GPT entry is in use.                  *)
(***************************************************************************)
EXTENDS Naturals, FiniteSets

CONSTANTS
  Clients,      \* processes using the library on the disk
  Slots,        \* partition numbers
  LastBlock,    \* last block FreeSpaces may offer and rangeCheckParts accepts
  MBRSlots,     \* the partition numbers an MBR has room for
  MBRLast,      \* last block rangeCheckParts accepts on a Disk with an MBR
  Types,        \* partition types, without the empty type
  Extents,      \* <<start, last>> pairs callers ask for
  Ops,          \* calls the clients make
  UpdateTypes,  \* types callers pass to UpdatePartition
  MaxBatch,     \* most partitions in one CreatePartitions
  Reuse,        \* TRUE: callers keep a Disk for further calls, FALSE: they scan anew
  Careful,      \* TRUE: callers ask only for what their scan shows as free
  IsDevice,     \* TRUE: a block device, FALSE: an image file
  InitKind,     \* what the disk holds at first: "none", "gpt" or "mbr"
  InitTable,    \* its partitions at first
  MaxFaults,    \* bound on I/O errors and crashes together
  None, Torn

EmptyType == "empty"
Parts  == [start : Nat, last : Nat, type : Types \cup {EmptyType, "protective"}]
Tables == [Slots -> Parts \cup {None}]
Kinds  == {"none", "gpt", "mbr"}
Halves == {"hdr", "ents"}
Blocks == 1..LastBlock
EmptyTable == [s \in Slots |-> None]

ASSUME ClientsAssumption == None \notin Clients
ASSUME SlotsAssumption == 1 \in Slots /\ IsFiniteSet(Slots)
ASSUME NoneAssumption == None \notin Parts /\ None \notin Tables /\ None # Torn
                         /\ None \notin [kind : Kinds, parts : Tables]
ASSUME TornAssumption == Torn \notin Tables
ASSUME TypesAssumption == EmptyType \notin Types
ASSUME ExtentsAssumption == Extents \subseteq Nat \X Nat /\ LastBlock \in Nat
ASSUME MBRAssumption == MBRSlots \subseteq Slots /\ 1 \in MBRSlots /\ MBRLast \in Nat
ASSUME OpsAssumption == /\ Ops \subseteq {"create", "update", "delete", "wipe"}
                        /\ UpdateTypes \subseteq Types \cup {EmptyType}
                        /\ MaxBatch \in Nat /\ MaxFaults \in Nat
                        /\ {Careful, Reuse} \subseteq BOOLEAN /\ IsDevice \in BOOLEAN
ASSUME InitAssumption == InitKind \in Kinds /\ InitTable \in Tables
                         /\ (InitKind = "mbr" => \A s \in Slots \ MBRSlots : InitTable[s] = None)

VARIABLES
  mbr,        \* table in sector 0, None without the boot signature
  pri, bak,   \* the two GPT copies: header (its checksum of a table) and entries
  data,       \* block -> "old", "zero", "dented" (a few bytes zeroed)
  kern,       \* slot -> extent the kernel has a device for, or None
  lock,       \* holder of the flock on the disk, or None
  pc, op, req,\* client -> where its call is, which call, its PartitionSet
  snap,       \* client -> the Disk it last scanned
  mem,        \* client -> the table it has read and modified in memory
  todo, left, \* client -> slots, and halves of a GPT copy, its loop has to do
  fresh,      \* client -> it is inside writeNewGPTTable
  res,        \* client -> how its last call ended
  faults,     \* I/O errors and crashes so far
  committed,  \* history: the table the primary GPT last showed a reader
  doubt       \* history: slots published and not yet confirmed by the kernel

disk   == <<mbr, pri, bak, data>>
client == <<pc, op, req, snap, mem, todo, left, fresh, res>>
hist   == <<committed, doubt>>
vars   == <<disk, kern, lock, client, faults, hist>>
-----------------------------------------------------------------------------
(* What a reader makes of the disk. *)

\* gpt.ReadTable: no signature, no table; a checksum that does not fit, an error
ReadCopy(copy) == CASE copy.hdr = None      -> None
                    [] copy.hdr = copy.ents -> copy.ents
                    [] OTHER                -> Torn

NoTable == {None, Torn}
NoCopy  == [hdr |-> None, ents |-> None]

\* findPartitions: a GPT wins, then whatever MBR carries the signature
Found ==
  CASE ReadCopy(pri) # None               -> [kind |-> "gpt", parts |-> pri.ents]
    [] ReadCopy(pri) = None /\ mbr # None -> [kind |-> "mbr", parts |-> mbr]
    [] OTHER                              -> [kind |-> "none", parts |-> EmptyTable]

\* newProtectiveMBR: one entry that spans the disk
ProtectiveMBR ==
  [EmptyTable EXCEPT ![1] = [start |-> 0, last |-> LastBlock + 1, type |-> "protective"]]

\* gpt.Partition.IsEmpty looks at the type only
Entry(p) == IF p = None \/ p.type = EmptyType THEN None ELSE p

Extent(p) == IF p = None THEN None ELSE [start |-> p.start, last |-> p.last]
Overlap(e, f) == e # None /\ f # None /\ e.start <= f.last /\ f.start <= e.last
At(table, s) == IF table \in NoTable THEN None ELSE table[s]

\* zeroStartEnd: the first and the last block, ...
ZeroedBlocks(p) == {p.start, p.last}
\* ... and, from three blocks on, four bytes at 1 MiB and at 2 MiB of the disk
DentedBlocks(p) == IF p.last >= p.start + 2 THEN {1, 2} ELSE {}
\* wrong, for comparison: the end of the partition is forgotten
ZeroedStart(p) == [b \in Blocks |-> IF b = p.start THEN "zero" ELSE data[b]]

\* wrong, for comparison: last is taken for the first block behind the partition
ZeroedPast(p) ==
  [b \in Blocks |-> IF b \in {p.start, p.last + 1} THEN "zero" ELSE data[b]]

Zeroed(p) == [b \in Blocks |->
               CASE b \in ZeroedBlocks(p)                    -> "zero"
                 [] b \in DentedBlocks(p) \ ZeroedBlocks(p)
                      /\ data[b] = "old"                     -> "dented"
                 [] OTHER                                    -> data[b]]

\* a partition that reaches the end of the disk: the zeroes reach the backup GPT
BackupAfter(p) == IF LastBlock + 1 \in ZeroedBlocks(p) THEN NoCopy ELSE bak
-----------------------------------------------------------------------------
(* What callers pass. *)

NewParts == [start : {e[1] : e \in Extents}, last : {e[2] : e \in Extents}, type : Types]
Batches(S) == {B \in SUBSET Slots : B # {} /\ Cardinality(B) <= MaxBatch /\ B \subseteq S}

\* FreeSpaces of the scanned disk, and a number it does not use
FreeIn(d, r) ==
  \A s \in DOMAIN r :
    /\ d.parts[s] = None /\ r[s].last <= LastBlock
    /\ \A t \in Slots : ~Overlap(Extent(r[s]), Extent(d.parts[t]))
    /\ \A t \in DOMAIN r \ {s} : ~Overlap(Extent(r[s]), Extent(r[t]))

Requests(o, d) ==
  CASE o = "create" -> {r \in UNION {[B -> {p \in NewParts : <<p.start, p.last>> \in Extents}]
                                      : B \in Batches(Slots)} : Careful => FreeIn(d, r)}
    [] o = "update" -> UNION {[B -> {[start |-> 0, last |-> 0, type |-> t] : t \in UpdateTypes}]
                               : B \in Batches(Slots)}
    [] o = "delete" -> {[s \in {n} |-> None] : n \in Slots}
    [] OTHER        -> {[s \in {} |-> None]}

\* rangeCheckParts: no look at the order of Start and Last, nor at what is in use;
\* with an MBR the end is the one 32 bits can address, wherever the disk ends
RangeCheck(d, r) ==
  \A s \in DOMAIN r :
    /\ r[s].start >= 1
    /\ IF d.kind = "mbr" THEN s \in MBRSlots /\ r[s].last <= MBRLast ELSE r[s].last <= LastBlock
-----------------------------------------------------------------------------
Init ==
  /\ mbr = CASE InitKind = "none" -> None
             [] InitKind = "gpt"  -> ProtectiveMBR
             [] OTHER             -> InitTable
  /\ pri = LET t == IF InitKind = "gpt" THEN InitTable ELSE None
           IN  [hdr |-> t, ents |-> t]
  /\ bak = pri
  /\ data = [b \in Blocks |-> "old"]
  /\ kern = [s \in Slots |-> IF IsDevice /\ InitKind # "none" THEN Extent(InitTable[s]) ELSE None]
  /\ lock = None
  /\ pc = [c \in Clients |-> "idle"]
  /\ op = [c \in Clients |-> "none"]
  /\ req = [c \in Clients |-> [s \in {} |-> None]]
  /\ snap = [c \in Clients |-> None]
  /\ mem = [c \in Clients |-> EmptyTable]
  /\ todo = [c \in Clients |-> {}]
  /\ left = [c \in Clients |-> {}]
  /\ fresh = [c \in Clients |-> FALSE]
  /\ res = [c \in Clients |-> "none"]
  /\ faults = 0
  /\ committed = ReadCopy(pri)
  /\ doubt = {}
-----------------------------------------------------------------------------
(* How a call ends: fp.Close() gives up the lock. *)

\* wrong, for comparison: a call that fails keeps the disk open
EndOpen(c, result) ==
  /\ pc' = [pc EXCEPT ![c] = "idle"]
  /\ op' = [op EXCEPT ![c] = "none"]
  /\ req' = [req EXCEPT ![c] = [s \in {} |-> None]]
  /\ mem' = [mem EXCEPT ![c] = EmptyTable]
  /\ todo' = [todo EXCEPT ![c] = {}]
  /\ left' = [left EXCEPT ![c] = {}]
  /\ fresh' = [fresh EXCEPT ![c] = FALSE]
  /\ res' = [res EXCEPT ![c] = result]
  /\ snap' = IF Reuse THEN snap ELSE [snap EXCEPT ![c] = None]
  /\ lock' = IF lock = c /\ result = "ok" THEN None ELSE lock

End(c, result) ==
  /\ pc' = [pc EXCEPT ![c] = "idle"]
  /\ op' = [op EXCEPT ![c] = "none"]
  /\ req' = [req EXCEPT ![c] = [s \in {} |-> None]]
  /\ mem' = [mem EXCEPT ![c] = EmptyTable]
  /\ todo' = [todo EXCEPT ![c] = {}]
  /\ left' = [left EXCEPT ![c] = {}]
  /\ fresh' = [fresh EXCEPT ![c] = FALSE]
  /\ res' = [res EXCEPT ![c] = result]
  /\ snap' = IF Reuse THEN snap ELSE [snap EXCEPT ![c] = None]
  /\ lock' = IF lock = c THEN None ELSE lock

Fail(c) == End(c, "err") /\ UNCHANGED <<kern, faults, hist, disk>>

\* the call goes on at label l, with the loop over S ahead of it
GoTo(c, l, S) ==
  /\ pc' = [pc EXCEPT ![c] = l]
  /\ todo' = [todo EXCEPT ![c] = S]

\* writeGPTTable: protective MBR, primary copy, backup copy, read back
WriteGPT(c, table, new) ==
  /\ mem' = [mem EXCEPT ![c] = table]
  /\ fresh' = [fresh EXCEPT ![c] = new]
  /\ GoTo(c, "mbr", {})

\* a loop over a PartitionSet visits the map in any order
Loop(c, s, next) == IF todo[c] = {s} THEN GoTo(c, next, {}) ELSE GoTo(c, pc[c], todo[c] \ {s})

\* where a call goes when its table is on the disk: an image file has no kernel
\* partitions, and an update tells the kernel nothing
KernelLabel(c) == IF IsDevice /\ op[c] # "update" THEN "kernel" ELSE "sync"

\* the caller's Disk says MBR
InMBR(c) == snap[c].kind = "mbr"
-----------------------------------------------------------------------------
(* Before the lock. *)

\* ScanDisk takes no lock; a checksum error gives the caller no disk
Scan(c) ==
  /\ pc[c] = "idle"
  /\ \/ /\ ReadCopy(pri) = Torn
        /\ res' = [res EXCEPT ![c] = "err"]
        /\ UNCHANGED snap
     \/ /\ ReadCopy(pri) # Torn
        /\ res' = [res EXCEPT ![c] = "none"]
        /\ snap' = [snap EXCEPT ![c] = Found]
  /\ UNCHANGED <<disk, kern, lock, pc, op, req, mem, todo, left, fresh, faults, hist>>

\* a caller may use a Disk it scanned long ago
Call(c) ==
  /\ pc[c] = "idle" /\ snap[c] # None
  /\ \E o \in Ops : \E r \in Requests(o, snap[c]) :
       /\ o = "create" => RangeCheck(snap[c], r)
       /\ op' = [op EXCEPT ![c] = o]
       /\ req' = [req EXCEPT ![c] = r]
       /\ pc' = [pc EXCEPT ![c] = IF o = "wipe" THEN "wipe" ELSE "lock"]
  /\ res' = [res EXCEPT ![c] = "none"]
  /\ UNCHANGED <<disk, kern, lock, snap, mem, todo, left, fresh, faults, hist>>

\* rangeCheckParts in addPartitionSet refuses the request
Reject(c) ==
  /\ pc[c] = "idle" /\ snap[c] # None
  /\ "create" \in Ops
  /\ \E r \in Requests("create", snap[c]) : ~RangeCheck(snap[c], r)
  /\ res' = [res EXCEPT ![c] = "err"]
  /\ UNCHANGED <<disk, kern, lock, pc, op, req, snap, mem, todo, left, fresh, faults, hist>>

\* wrong, for comparison: flock(LOCK_SH)
AcquireShared(c) ==
  /\ pc[c] = "lock"
  /\ lock' = c
  /\ pc' = [pc EXCEPT ![c] = op[c]]
  /\ UNCHANGED <<disk, kern, op, req, snap, mem, todo, left, fresh, res, faults, hist>>

\* withLockedFile: flock(LOCK_EX) blocks until the holder closes the file
Acquire(c) ==
  /\ pc[c] = "lock" /\ lock = None
  /\ lock' = c
  /\ pc' = [pc EXCEPT ![c] = op[c]]
  /\ UNCHANGED <<disk, kern, op, req, snap, mem, todo, left, fresh, res, faults, hist>>
-----------------------------------------------------------------------------
(* Under the lock: read the table and decide.  ReadTable is what the        *)
(* handlers take the table from: a fresh read of the primary copy.          *)

\* wrong, for comparison: the table the caller scanned before the lock
ReadScanned(c) == IF snap[c].kind = "gpt" THEN snap[c].parts ELSE None

ReadTable(c) == ReadCopy(pri)

\* addPartitionSetGPT
AddGPT(c) ==
  /\ pc[c] = "create" /\ ~InMBR(c)
  /\ \/ /\ ReadTable(c) = Torn
        /\ Fail(c)
     \/ /\ ReadTable(c) = None
        /\ WriteGPT(c, EmptyTable, TRUE)
        /\ UNCHANGED <<disk, kern, lock, op, req, snap, left, res, faults, hist>>
     \/ /\ ReadTable(c) \notin NoTable
        /\ mem' = [mem EXCEPT ![c] = ReadTable(c)]
        /\ GoTo(c, "zero", DOMAIN req[c])
        /\ UNCHANGED <<disk, kern, lock, op, req, snap, left, fresh, res, faults, hist>>

\* addPartitionSetMBR: returns mbr.Read's nil error, with nothing done, when
\* the sector holds a valid MBR; goes on only when the signature was missing
AddMBR(c) ==
  /\ pc[c] = "create" /\ InMBR(c)
  /\ \/ /\ mbr # None
        /\ GoTo(c, KernelLabel(c), DOMAIN req[c])
     \/ /\ mbr = None
        /\ GoTo(c, "zero", DOMAIN req[c])
  /\ UNCHANGED <<disk, kern, lock, op, req, snap, mem, left, fresh, res, faults, hist>>

\* the table with the entries of the PartitionSet p in their slots
Merge(table, p) == [s \in Slots |-> IF s \in DOMAIN p THEN Entry(p[s]) ELSE table[s]]

\* wrong, for comparison: the caller's partition as a whole
RetypeWhole(table, p) == p

\* updatePartitionSetGPT: the type is taken from the caller, even an empty one
Retype(table, p) ==
  [s \in DOMAIN p |-> [start |-> table[s].start, last |-> table[s].last, type |-> p[s].type]]

Update(c) ==
  /\ pc[c] = "update"
  /\ \/ /\ \/ snap[c].kind # "gpt"
           \/ \E s \in DOMAIN req[c] : At(ReadTable(c), s) = None
        /\ Fail(c)
     \/ /\ snap[c].kind = "gpt"
        /\ ReadTable(c) \notin NoTable
        /\ \A s \in DOMAIN req[c] : At(ReadTable(c), s) # None
        /\ WriteGPT(c, Merge(ReadTable(c), Retype(ReadTable(c), req[c])), FALSE)
        /\ UNCHANGED <<disk, kern, lock, op, req, snap, left, res, faults, hist>>

\* deletePartitionSetGPT; a slot that is empty already is no error
DeleteGPT(c) ==
  /\ pc[c] = "delete" /\ ~InMBR(c)
  /\ \/ /\ ReadTable(c) \in NoTable
        /\ Fail(c)
     \/ /\ ReadTable(c) \notin NoTable
        /\ WriteGPT(c, Merge(ReadTable(c), req[c]), FALSE)
        /\ UNCHANGED <<disk, kern, lock, op, req, snap, left, res, faults, hist>>

\* deletePartitionSetMBR reads the MBR, whatever the disk holds by now, and empties
\* the entries in memory
DeleteMBR(c) ==
  /\ pc[c] = "delete" /\ InMBR(c)
  /\ \/ /\ mbr = None \/ ~(DOMAIN req[c] \subseteq MBRSlots)
        /\ Fail(c)
     \/ /\ mbr # None /\ DOMAIN req[c] \subseteq MBRSlots
        /\ mem' = [mem EXCEPT ![c] = Merge(mbr, req[c])]
        /\ GoTo(c, "behind", {})
        /\ UNCHANGED <<disk, kern, lock, op, req, snap, left, fresh, res, faults, hist>>

\* the loop of addPartitionSetGPT (and MBR): one partition into its slot,
\* whatever the slot held, and its ends zeroed; zeroStartEnd refuses Last <= Start,
\* and a device has nothing behind its end: what comes before is zeroed by then
Zero(c) ==
  /\ pc[c] = "zero"
  /\ \E s \in todo[c] :
       \/ /\ \/ req[c][s].last < req[c][s].start
             \/ IsDevice /\ req[c][s].start > LastBlock + 1
          /\ Fail(c)
       \/ /\ IsDevice /\ req[c][s].start <= LastBlock + 1 /\ req[c][s].last > LastBlock + 1
          /\ data' = Zeroed(req[c][s])
          /\ bak' = BackupAfter(req[c][s])
          /\ End(c, "err")
          /\ UNCHANGED <<mbr, pri, kern, faults, hist>>
       \/ /\ req[c][s].last >= req[c][s].start
          /\ IsDevice => req[c][s].last <= LastBlock + 1
          /\ mem' = [mem EXCEPT ![c] = Merge(@, [t \in {s} |-> req[c][t]])]
          /\ data' = Zeroed(req[c][s])
          /\ bak' = BackupAfter(req[c][s])
          /\ Loop(c, s, IF InMBR(c) THEN "dos" ELSE "mbr")
          /\ UNCHANGED <<mbr, pri, kern, lock, op, req, snap, left, fresh, res, faults, hist>>
-----------------------------------------------------------------------------
(* Under the lock: write. *)

\* wrong, for comparison: no Seek before the write, as in WriteBehind
WriteDosBehind(c) ==
  /\ pc[c] = "dos"
  /\ pri' = [pri EXCEPT !.hdr = None]
  /\ committed' = None
  /\ GoTo(c, KernelLabel(c), DOMAIN req[c])
  /\ UNCHANGED <<mbr, bak, data, kern, lock, op, req, snap, mem, left, fresh, res, faults, doubt>>

\* mbrTable.Write of addPartitionSetMBR, which seeks to sector 0 first
WriteDos(c) ==
  /\ pc[c] = "dos"
  /\ mbr' = mem[c]
  /\ GoTo(c, KernelLabel(c), DOMAIN req[c])
  /\ UNCHANGED <<pri, bak, data, kern, lock, op, req, snap, mem, left, fresh, res, faults, hist>>

\* mbrTable.Write of deletePartitionSetMBR: mbr.Read has left the file behind sector 0
\* and nothing seeks back, so the image goes to sector 1, where the header of a primary
\* GPT is, and sector 0 stays as it was
WriteBehind(c) ==
  /\ pc[c] = "behind"
  /\ pri' = [pri EXCEPT !.hdr = None]
  /\ committed' = None
  /\ GoTo(c, KernelLabel(c), DOMAIN req[c])
  /\ UNCHANGED <<mbr, bak, data, kern, lock, op, req, snap, mem, left, fresh, res, faults, doubt>>

\* writeProtectiveMBR
WriteProtectiveMBR(c) ==
  /\ pc[c] = "mbr"
  /\ mbr' = ProtectiveMBR
  /\ GoTo(c, "pri", {})
  /\ left' = [left EXCEPT ![c] = Halves]
  /\ UNCHANGED <<pri, bak, data, kern, lock, op, req, snap, mem, fresh, res, faults, hist>>

\* the halves of a GPT copy go to different places of the disk, one after the other
HalfDone(c, h, next) ==
  /\ GoTo(c, IF left[c] = {h} THEN next ELSE pc[c], {})
  /\ left' = [left EXCEPT ![c] = IF @ = {h} /\ next = "bak" THEN Halves ELSE @ \ {h}]

\* wrong, for comparison: each half goes to both copies before the other half
WriteBothCopies(c) ==
  /\ pc[c] = "pri"
  /\ \E h \in left[c] :
       /\ pri' = [pri EXCEPT ![h] = mem[c]]
       /\ bak' = [bak EXCEPT ![h] = mem[c]]
       /\ HalfDone(c, h, "check")
       /\ doubt' = IF left[c] = {h} /\ ~fresh[c] /\ op[c] # "update"
                   THEN doubt \cup DOMAIN req[c] ELSE doubt
  /\ committed' = IF ReadCopy(pri') = Torn THEN committed ELSE ReadCopy(pri')
  /\ UNCHANGED <<mbr, data, kern, lock, op, req, snap, mem, fresh, res, faults>>

\* table.Write of the primary copy: with its second half the table is published
WritePrimary(c) ==
  /\ pc[c] = "pri"
  /\ \E h \in left[c] :
       /\ pri' = [pri EXCEPT ![h] = mem[c]]
       /\ HalfDone(c, h, "bak")
       /\ doubt' = IF left[c] = {h} /\ ~fresh[c] /\ op[c] # "update"
                   THEN doubt \cup DOMAIN req[c] ELSE doubt
  /\ committed' = IF ReadCopy(pri') = Torn THEN committed ELSE ReadCopy(pri')
  /\ UNCHANGED <<mbr, bak, data, kern, lock, op, req, snap, mem, fresh, res, faults>>

\* CreateOtherSideTable().Write
WriteBackup(c) ==
  /\ pc[c] = "bak"
  /\ \E h \in left[c] :
       /\ bak' = [bak EXCEPT ![h] = mem[c]]
       /\ HalfDone(c, h, "check")
  /\ UNCHANGED <<mbr, pri, data, kern, lock, op, req, snap, mem, fresh, res, faults, hist>>

\* wrong, for comparison: the kernel is told of every partition number
CheckAll(c) ==
  /\ pc[c] = "check" /\ ReadCopy(pri) \notin NoTable /\ ~fresh[c]
  /\ GoTo(c, KernelLabel(c), Slots)
  /\ UNCHANGED <<disk, kern, lock, op, req, snap, mem, left, fresh, res, faults, hist>>

\* writeGPTTable ends by reading the primary copy back; what it read is what
\* addPartitionSetGPT goes on with after writeNewGPTTable
Check(c) ==
  /\ pc[c] = "check"
  /\ \/ /\ ReadCopy(pri) \in NoTable
        /\ Fail(c)
     \/ /\ ReadCopy(pri) \notin NoTable /\ fresh[c]
        /\ mem' = [mem EXCEPT ![c] = ReadCopy(pri)]
        /\ fresh' = [fresh EXCEPT ![c] = FALSE]
        /\ GoTo(c, "zero", DOMAIN req[c])
        /\ UNCHANGED <<disk, kern, lock, op, req, snap, left, res, faults, hist>>
     \/ /\ ReadCopy(pri) \notin NoTable /\ ~fresh[c]
        /\ GoTo(c, KernelLabel(c), DOMAIN req[c])
        /\ UNCHANGED <<disk, kern, lock, op, req, snap, mem, left, fresh, res, faults, hist>>

\* the kernel (BLKPG) adds no partition whose number or sectors are in use
KernelTakes(s, e) == kern[s] = None /\ \A t \in Slots : ~Overlap(kern[t], e)

\* wrong, for comparison: addpart's failure is not looked at
AddPartAnyway(c) ==
  /\ pc[c] = "kernel" /\ op[c] = "create"
  /\ \E s \in todo[c] :
       /\ kern' = IF KernelTakes(s, Extent(req[c][s]))
                  THEN [kern EXCEPT ![s] = Extent(req[c][s])] ELSE kern
       /\ Loop(c, s, "sync")
  /\ UNCHANGED <<disk, lock, op, req, snap, mem, left, fresh, res, faults, hist>>

\* kernelAddParts: the first addpart that fails ends the call, table written; a kernel
\* may refuse a partition that ends behind the device, too
AddPart(c) ==
  /\ pc[c] = "kernel" /\ op[c] = "create"
  /\ \E s \in todo[c] :
       \/ /\ ~KernelTakes(s, Extent(req[c][s])) \/ req[c][s].last > LastBlock + 1
          /\ Fail(c)
       \/ /\ KernelTakes(s, Extent(req[c][s]))
          /\ kern' = [kern EXCEPT ![s] = Extent(req[c][s])]
          /\ Loop(c, s, "sync")
          /\ UNCHANGED <<disk, lock, op, req, snap, mem, left, fresh, res, faults, hist>>

\* wrong, for comparison: delpart's failure is not looked at
DelPartAnyway(c) ==
  /\ pc[c] = "kernel" /\ op[c] = "delete"
  /\ \E s \in todo[c] :
       /\ \E e \in {kern[s], None} : kern' = [kern EXCEPT ![s] = e]
       /\ Loop(c, s, "sync")
  /\ UNCHANGED <<disk, lock, op, req, snap, mem, left, fresh, res, faults, hist>>

\* kernelDelParts: delpart fails on a partition somebody has open
DelPart(c) ==
  /\ pc[c] = "kernel" /\ op[c] = "delete"
  /\ \E s \in todo[c] :
       \/ /\ kern[s] # None
          /\ Fail(c)
       \/ /\ kern' = [kern EXCEPT ![s] = None]
          /\ Loop(c, s, "sync")
          /\ UNCHANGED <<disk, lock, op, req, snap, mem, left, fresh, res, faults, hist>>

\* fp.Sync and the deferred Close, which releases the flock
Sync(c) ==
  /\ pc[c] = "sync"
  /\ doubt' = IF op[c] = "update" THEN doubt ELSE doubt \ DOMAIN req[c]
  /\ \/ /\ IsDevice /\ op[c] # "delete"
        /\ lock' = None
        /\ GoTo(c, "uevent", DOMAIN req[c])
        /\ UNCHANGED <<op, req, snap, mem, left, fresh, res>>
     \/ /\ ~(IsDevice /\ op[c] # "delete")
        /\ End(c, "ok")
  /\ UNCHANGED <<disk, kern, faults, committed>>

\* genPartChangeUEvent, after the lock is gone: the partition's sysfs
\* directory is there only while the kernel has the partition
Uevent(c) ==
  /\ pc[c] = "uevent"
  /\ \E s \in todo[c] :
       \/ /\ kern[s] = None
          /\ Fail(c)
       \/ /\ kern[s] # None
          /\ IF todo[c] = {s}
             THEN End(c, "ok")
             ELSE /\ GoTo(c, "uevent", todo[c] \ {s})
                  /\ UNCHANGED <<lock, op, req, snap, mem, left, fresh, res>>
          /\ UNCHANGED <<disk, kern, faults, hist>>
-----------------------------------------------------------------------------
(* Wipe: wipeDisk opens the disk without the lock and tells the kernel      *)
(* nothing.                                                                 *)

\* zeroStartEnd(fp, 0, Size) overwrites the first MiB, ...
WipeFirst(c) ==
  /\ pc[c] = "wipe"
  /\ mbr' = None
  /\ pri' = NoCopy
  /\ data' = [b \in Blocks |-> IF b \in {1, 2} /\ data[b] = "old" THEN "dented" ELSE data[b]]
  /\ committed' = None
  /\ GoTo(c, "wipelast", {})
  /\ UNCHANGED <<bak, kern, lock, op, req, snap, mem, left, fresh, res, faults, doubt>>

\* ... and the last one
WipeLast(c) ==
  /\ pc[c] = "wipelast"
  /\ bak' = NoCopy
  /\ GoTo(c, "wipeparts", {s \in Slots : snap[c].parts[s] # None})
  /\ UNCHANGED <<mbr, pri, data, kern, lock, op, req, snap, mem, left, fresh, res, faults, hist>>

\* wipeDisk clips a partition at the end of the disk
Clipped(p) ==
  [start |-> p.start, last |-> IF p.last > LastBlock + 1 THEN LastBlock + 1 ELSE p.last]

\* the partitions of the scanned Disk one by one, in any order; the entry of a protective
\* MBR is the whole disk
WipePart(c) ==
  /\ pc[c] = "wipeparts"
  /\ \/ /\ todo[c] = {}
        /\ End(c, "ok")
        /\ UNCHANGED <<kern, faults, hist, disk>>
     \/ \E s \in todo[c] : LET p == Clipped(snap[c].parts[s]) IN
          \/ /\ p.last < p.start
             /\ Fail(c)
          \/ /\ p.last >= p.start
             /\ data' = Zeroed(p)
             /\ bak' = BackupAfter(p)
             /\ IF p.start = 0 THEN mbr' = None /\ pri' = NoCopy /\ committed' = None
                               ELSE UNCHANGED <<mbr, pri, committed>>
             /\ GoTo(c, "wipeparts", todo[c] \ {s})
             /\ UNCHANGED <<kern, lock, op, req, snap, mem, left, fresh, res, faults, doubt>>
-----------------------------------------------------------------------------
(* What the environment does to a call. *)

\* a read, write, fsync or command of the call fails: the call returns the
\* error, which looks from outside as if the process had died at that step
Fault(c) ==
  /\ pc[c] # "idle" /\ faults < MaxFaults
  /\ faults' = faults + 1
  /\ End(c, "err")
  /\ UNCHANGED <<disk, kern, hist>>

-----------------------------------------------------------------------------
Step(c) ==
  \/ AddGPT(c) \/ AddMBR(c) \/ Update(c) \/ DeleteGPT(c) \/ DeleteMBR(c) \/ Zero(c)
  \/ WriteDos(c) \/ WriteBehind(c) \/ WriteProtectiveMBR(c) \/ WritePrimary(c) \/ WriteBackup(c) \/ Check(c)
  \/ AddPart(c) \/ DelPart(c) \/ Sync(c) \/ Uevent(c)
  \/ WipeFirst(c) \/ WipeLast(c) \/ WipePart(c)

Next == \E c \in Clients :
  \/ Scan(c) \/ Call(c) \/ Reject(c) \/ Acquire(c) \/ Step(c) \/ Fault(c)

Spec == Init /\ [][Next]_vars

\* A running process takes its next step (the scheduler, and commands that end);
\* a process that waits for the flock gets it if it is released again and again
\* (the kernel serves waiters in order).
Fairness == \A c \in Clients : WF_vars(Step(c)) /\ SF_vars(Acquire(c))
FairSpec == Spec /\ Fairness
-----------------------------------------------------------------------------
(* Properties. *)

Locked == {"create", "update", "delete", "zero", "dos", "behind", "mbr", "pri", "bak",
           "check", "kernel", "sync"}
Labels == Locked \cup {"idle", "lock", "uevent", "wipe", "wipelast", "wipeparts"}
Copies == [hdr : Tables \cup {None}, ents : Tables \cup {None}]
IsPartitionSet(r) == DOMAIN r \subseteq Slots /\ r \in [DOMAIN r -> Parts \cup {None}]
Extended == [start : Nat, last : Nat]

DiskType ==
  /\ mbr \in Tables \cup {None}
  /\ pri \in Copies /\ bak \in Copies
  /\ data \in [Blocks -> {"old", "zero", "dented"}]
  /\ committed \in Tables \cup {None}
KernelType ==
  /\ kern \in [Slots -> Extended \cup {None}]
  /\ doubt \in SUBSET Slots
  /\ lock \in Clients \cup {None}
  /\ faults \in 0..MaxFaults
CallType ==
  /\ pc \in [Clients -> Labels]
  /\ op \in [Clients -> Ops \cup {"none"}]
  /\ DOMAIN req = Clients
  /\ \A c \in Clients :
       /\ IsPartitionSet(req[c])
       /\ op[c] # "delete" => \A s \in DOMAIN req[c] : req[c][s] # None
WorkType ==
  /\ snap \in [Clients -> [kind : Kinds, parts : Tables] \cup {None}]
  /\ mem \in [Clients -> Tables]
  /\ todo \in [Clients -> SUBSET Slots]
  /\ left \in [Clients -> SUBSET Halves]
  /\ fresh \in [Clients -> BOOLEAN]
  /\ res \in [Clients -> {"none", "ok", "err"}]

ControlType ==
  \A c \in Clients :
    /\ pc[c] = "lock" => op[c] \in {"create", "update", "delete"}
    /\ pc[c] \in {"create", "update", "delete"} => op[c] = pc[c]
    /\ pc[c] \in {"zero", "kernel", "uevent"} => todo[c] \subseteq DOMAIN req[c]

\* Every variable has its type, and a call is at a place of its own handler.
TypeOK == DiskType /\ KernelType /\ CallType /\ WorkType /\ ControlType

\* withLockedFile: whoever is between flock and close holds the lock, so no two
\* calls are ever there at once, and nobody holds it who is not there: every
\* early return, error and death of a call gives it up.
LockHolder == \A c \in Clients : lock = c <=> pc[c] \in Locked

\* The table a call is about to write differs from the one on the disk only in
\* the slots of its own request: what it read under the lock is still there.
Agrees(c) == \A s \in Slots \ DOMAIN req[c] : mem[c][s] = At(committed, s)
HolderAgrees ==
  \A c \in Clients : pc[c] \in {"zero", "mbr", "pri"} /\ ~InMBR(c) => Agrees(c)

\* HolderAgrees is inductive together with where the lock is and what is on the
\* disk at each place of a call, as long as nobody wipes the disk.
NotTorn == ReadCopy(pri) # Torn => committed = ReadCopy(pri)
AtWork(c) ==
  /\ pc[c] \in {"mbr", "pri", "bak", "check"} => ~InMBR(c)
  /\ fresh[c] => pc[c] \in {"mbr", "pri", "bak", "check"}
  /\ fresh[c] /\ pc[c] \in {"mbr", "pri"} => mem[c] = EmptyTable /\ committed \in {None, EmptyTable}
  /\ ~fresh[c] /\ pc[c] \in {"zero", "mbr", "pri"} /\ ~InMBR(c) => committed # None /\ Agrees(c)
  /\ pc[c] \notin {"wipe", "wipelast", "wipeparts"}
WriteInv == LockHolder /\ NotTorn /\ \A c \in Clients : AtWork(c)

\* No call undoes another one's: a partition appears, changes or goes only when
\* a call that names its number holds the lock and writes the table.
NoLostUpdate ==
  [][\A s \in Slots : At(committed', s) # At(committed, s) =>
       \E c \in Clients : lock = c /\ pc[c] = "pri" /\ s \in DOMAIN req[c]]_vars

\* CreatePartition that is about to return success has its partitions in the
\* table any reader finds, with the type and offsets it was given.
Visible(c) == \A s \in DOMAIN req[c] : Found.parts[s] = req[c][s]
CreatedIsVisible ==
  \A c \in Clients : pc[c] = "sync" /\ op[c] = "create" /\ ~InMBR(c) => Visible(c)

\* The same on a disk with an MBR (comment of CreatePartition: "creates a
\* partition ... with the specified partition number, type and disk offsets").
CreatedInMBR ==
  \A c \in Clients : pc[c] = "sync" /\ op[c] = "create" /\ InMBR(c) => Visible(c)

\* CreatedIsVisible on a disk that was wiped, before or after it was scanned: the first
\* create writes an empty GPT and then its own; on a Disk with an MBR that has lost its
\* signature since, the branch for the MBR does write.
CreatedOverBlank ==
  \A c \in Clients :
    pc[c] = "sync" /\ op[c] = "create" /\ (InMBR(c) => mem[c] # EmptyTable) => Visible(c)

\* DeletePartition that is about to return success has left no such partition,
\* neither in the table nor in the kernel.
Deleted(c) == \A s \in DOMAIN req[c] : Found.parts[s] = None /\ (IsDevice => kern[s] = None)
DeletedIsGone ==
  \A c \in Clients : pc[c] = "sync" /\ op[c] = "delete" /\ ~InMBR(c) => Deleted(c)

\* The same on a disk with an MBR (comment of DeletePartition: "deletes the specified
\* partition").
DeletedFromMBR ==
  \A c \in Clients : pc[c] = "sync" /\ op[c] = "delete" /\ InMBR(c) => Deleted(c)

\* Success means it is done: in both calls, for all that meets them, on a disk that was
\* scanned with a GPT or blank.
SuccessIsDone == CreatedIsVisible /\ DeletedIsGone

\* The kernel's devices are those of the table, except for numbers whose last
\* create or delete wrote the table and then failed or died (or still runs).
KernelMatches ==
  IsDevice => \A s \in Slots \ doubt : kern[s] = Extent(At(committed, s))

\* Clients that race for the same free space both get the lock and both write
\* their table, for slots and overlaps are never checked again; but the kernel
\* refuses the second, so two overlapping partitions are never both confirmed.
NoSilentOverlap ==
  \A s, t \in Slots \ doubt :
    s # t => ~Overlap(Extent(At(committed, s)), Extent(At(committed, t)))

\* One copy of the table is written after the other: after one failure, at any
\* point, one of the two copies still is the table readers last saw.
OneCopySurvives ==
  lock = None /\ faults <= 1 => committed \in {ReadCopy(pri), ReadCopy(bak)}

\* What the disk held is not found in a partition again: the ends of every
\* partition that was not there at first are zero by the time it is visible.
ZeroedBeforeVisible ==
  committed # None => \A s \in Slots :
    LET p == committed[s] IN
    Extent(p) \notin {None} \cup {Extent(InitTable[t]) : t \in Slots} =>
      \A b \in ZeroedBlocks(p) : data[b] = "zero"

\* Short of a Wipe the contents of other partitions stay, except for the four bytes
\* at 1 MiB and at 2 MiB that a new partition of three MiB and more costs them.
OthersKept ==
  [][\A b \in Blocks : data'[b] # data[b] =>
       \E c \in Clients :
         \/ op[c] = "wipe"
         \/ /\ op[c] = "create"
            /\ \E s \in DOMAIN req[c] :
                 \/ b >= req[c][s].start /\ b <= req[c][s].last
                 \/ b \in {1, 2} /\ data'[b] = "dented" /\ req[c][s].last >= req[c][s].start + 2]_vars

\* What a Wipe has removed stays removed, also when the next caller has a Disk that
\* was scanned before: a partition shows up on the disk only when a call creates it.
WipedStaysWiped ==
  [][\A s \in Slots : (At(committed, s) = None /\ At(committed', s) # None) =>
       \E c \in Clients : op[c] = "create" /\ s \in DOMAIN req[c]]_vars

\* Every call ends: nobody waits for the lock for ever and no holder keeps it.
CallsEnd == \A c \in Clients : pc[c] # "idle" ~> pc[c] = "idle"
=============================================================================
