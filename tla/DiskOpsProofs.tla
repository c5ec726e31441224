--------------------------- MODULE DiskOpsProofs ---------------------------
(***************************************************************************)
(* Theorems about DiskOps, for any number of clients, any partition        *)
(* numbers, disk size, types, requests and number of faults.               *)
(***************************************************************************)
EXTENDS DiskOps, TLAPS

USE DEF NoTable

\* A copy of the table, when it can be read, is a table.
LEMMA ReadCopyType ==
  ASSUME NEW copy \in Copies
  PROVE  /\ ReadCopy(copy) \in Tables \cup {None, Torn}
         /\ ReadCopy(copy) \notin NoTable => ReadCopy(copy) \in Tables
         /\ ReadCopy(copy) \notin NoTable => ReadCopy(copy) = copy.ents
  BY NoneAssumption, TornAssumption DEF ReadCopy, Copies

\* The table of a new GPT is a table.
LEMMA EmptyTableType == EmptyTable \in Tables
  BY DEF EmptyTable, Tables

\* The table of a protective MBR is a table.
LEMMA ProtectiveType == ProtectiveMBR \in Tables
  BY SlotsAssumption, ExtentsAssumption DEF ProtectiveMBR, EmptyTable, Tables, Parts

\* What zeroing leaves of the data is well typed.
LEMMA ZeroedType ==
  ASSUME DiskType, NEW p
  PROVE  Zeroed(p) \in [Blocks -> {"old", "zero", "dented"}]
  BY DEF Zeroed, DiskType

\* Zeroes behind the last block leave a backup copy or none.
LEMMA BackupAfterType ==
  ASSUME DiskType, NEW p
  PROVE  BackupAfter(p) \in Copies
  BY NoneAssumption DEF BackupAfter, NoCopy, DiskType, Copies

\* What a scan that succeeds returns is a Disk.
LEMMA FoundType ==
  ASSUME TypeOK, ReadCopy(pri) # Torn
  PROVE  Found \in [kind : Kinds, parts : Tables]
<1>1. EmptyTable \in Tables
  BY DEF EmptyTable, Tables
<1>2. ReadCopy(pri) # None => pri.ents \in Tables
  BY ReadCopyType DEF TypeOK, DiskType
<1>3. QED
  BY <1>1, <1>2 DEF Found, Kinds, TypeOK, DiskType

\* Filling the slots of a PartitionSet into a table gives a table.
LEMMA MergeType ==
  ASSUME NEW t \in Tables, NEW p, IsPartitionSet(p)
  PROVE  Merge(t, p) \in Tables
  BY DEF Merge, Entry, Tables, IsPartitionSet

\* The PartitionSet an update writes is one.
LEMMA RetypeType ==
  ASSUME NEW t \in Tables, NEW p, IsPartitionSet(p),
         \A s \in DOMAIN p : p[s] # None,
         \A s \in DOMAIN p : t[s] # None
  PROVE  IsPartitionSet(Retype(t, p)) /\ DOMAIN Retype(t, p) = DOMAIN p
  BY DEF Retype, IsPartitionSet, Tables, Parts

\* Whatever a caller passes is a PartitionSet, and only DeletePartition's has
\* no partitions in it.
LEMMA RequestsType ==
  ASSUME NEW o \in Ops, NEW d, NEW r \in Requests(o, d)
  PROVE  /\ IsPartitionSet(r)
         /\ o # "delete" => \A s \in DOMAIN r : r[s] # None
<1>1. CASE o = "create"
  <2>1. PICK B \in SUBSET Slots : r \in [B -> {p \in NewParts : <<p.start, p.last>> \in Extents}]
    BY <1>1 DEF Requests, Batches
  <2>2. NewParts \subseteq Parts
    BY ExtentsAssumption DEF NewParts, Parts
  <2>3. QED
    BY <1>1, <2>1, <2>2, NoneAssumption DEF IsPartitionSet
<1>2. CASE o = "update"
  <2>1. PICK B \in SUBSET Slots :
          r \in [B -> {[start |-> 0, last |-> 0, type |-> t] : t \in UpdateTypes}]
    BY <1>2 DEF Requests, Batches
  <2>2. \A t \in UpdateTypes : [start |-> 0, last |-> 0, type |-> t] \in Parts
    BY OpsAssumption DEF Parts
  <2>3. QED
    BY <1>2, <2>1, <2>2, NoneAssumption DEF IsPartitionSet
<1>3. CASE o = "delete"
  BY <1>3 DEF Requests, IsPartitionSet
<1>4. CASE o \notin {"create", "update", "delete"}
  BY <1>4 DEF Requests, IsPartitionSet
<1>5. QED
  BY <1>1, <1>2, <1>3, <1>4

\* A call that ends leaves its client's variables and the lock well typed.
LEMMA EndType ==
  ASSUME TypeOK, NEW c \in Clients, NEW r \in {"ok", "err"}, End(c, r)
  PROVE  CallType' /\ WorkType' /\ ControlType' /\ lock' \in Clients \cup {None}
<1>1. CallType'
  BY DEF End, TypeOK, CallType, Labels, IsPartitionSet
<1>2. WorkType'
  BY EmptyTableType DEF End, TypeOK, WorkType
<1>3. lock' \in Clients \cup {None}
  BY DEF End, TypeOK, KernelType
<1>4. ControlType'
  BY DEF End, TypeOK, CallType, WorkType, ControlType
<1>5. QED
  BY <1>1, <1>2, <1>3, <1>4

\* ScanDisk keeps the types: it changes its caller's Disk and result only.
LEMMA ScanTyped == ASSUME TypeOK, NEW c \in Clients, Scan(c) PROVE TypeOK'
<1> USE DEF Scan, disk, hist, GoTo, Fail, Loop, HalfDone, WriteGPT, KernelLabel
<1>1. DiskType'
  BY EndType DEF TypeOK, DiskType
<1>2. KernelType'
  BY EndType DEF TypeOK, KernelType
<1>3. CallType'
  BY EndType DEF TypeOK, CallType, Labels, Locked
<1>4. WorkType'
  BY FoundType DEF TypeOK, WorkType
<1>5. ControlType'
  BY EndType DEF TypeOK, CallType, WorkType, ControlType, Locked
<1>6. QED
  BY <1>1, <1>2, <1>3, <1>4, <1>5 DEF TypeOK

\* A call starts well typed, with a PartitionSet of the kind its handler takes.
LEMMA CallTyped == ASSUME TypeOK, NEW c \in Clients, Call(c) PROVE TypeOK'
<1> USE DEF Call, disk, hist, GoTo, Fail, Loop, HalfDone, WriteGPT, KernelLabel
<1>1. DiskType'
  BY EndType DEF TypeOK, DiskType
<1>2. KernelType'
  BY EndType DEF TypeOK, KernelType
<1>3. CallType'
  <2>1. PICK o \in Ops : \E r \in Requests(o, snap[c]) :
          /\ op' = [op EXCEPT ![c] = o]
          /\ req' = [req EXCEPT ![c] = r]
          /\ pc' = [pc EXCEPT ![c] = IF o = "wipe" THEN "wipe" ELSE "lock"]
    OBVIOUS
  <2>2. PICK r \in Requests(o, snap[c]) :
          /\ op' = [op EXCEPT ![c] = o]
          /\ req' = [req EXCEPT ![c] = r]
          /\ pc' = [pc EXCEPT ![c] = IF o = "wipe" THEN "wipe" ELSE "lock"]
    BY <2>1
  <2>3. IsPartitionSet(r) /\ (o # "delete" => \A s \in DOMAIN r : r[s] # None)
    BY RequestsType
  <2>4. QED
    BY <2>2, <2>3 DEF TypeOK, CallType, Labels, IsPartitionSet
<1>4. WorkType'
  BY EndType DEF TypeOK, WorkType
<1>5. ControlType'
  BY OpsAssumption DEF TypeOK, CallType, WorkType, ControlType
<1>6. QED
  BY <1>1, <1>2, <1>3, <1>4, <1>5 DEF TypeOK

\* A request that rangeCheckParts refuses changes the caller's result only.
LEMMA RejectTyped == ASSUME TypeOK, NEW c \in Clients, Reject(c) PROVE TypeOK'
<1> USE DEF Reject, disk, hist, GoTo, Fail, Loop, HalfDone, WriteGPT, KernelLabel
<1>1. DiskType'
  BY EndType DEF TypeOK, DiskType
<1>2. KernelType'
  BY EndType DEF TypeOK, KernelType
<1>3. CallType'
  BY EndType DEF TypeOK, CallType, Labels, Locked
<1>4. WorkType'
  BY EndType DEF TypeOK, WorkType
<1>5. ControlType'
  BY EndType DEF TypeOK, CallType, WorkType, ControlType, Locked
<1>6. QED
  BY <1>1, <1>2, <1>3, <1>4, <1>5 DEF TypeOK

\* Getting the flock takes a call to its own handler.
LEMMA AcquireTyped == ASSUME TypeOK, NEW c \in Clients, Acquire(c) PROVE TypeOK'
<1> USE DEF Acquire, disk, hist, GoTo, Fail, Loop, HalfDone, WriteGPT, KernelLabel
<1>1. DiskType'
  BY EndType DEF TypeOK, DiskType
<1>2. KernelType'
  BY EndType DEF TypeOK, KernelType
<1>3. CallType'
  <2>1. op[c] \in {"create", "update", "delete"}
    BY DEF TypeOK, ControlType
  <2>2. QED
    BY <2>1 DEF TypeOK, CallType, Labels, Locked
<1>4. WorkType'
  BY EndType DEF TypeOK, WorkType
<1>5. ControlType'
  BY EndType DEF TypeOK, CallType, WorkType, ControlType, Locked
<1>6. QED
  BY <1>1, <1>2, <1>3, <1>4, <1>5 DEF TypeOK

\* addPartitionSetGPT's reading of the table keeps the types.
LEMMA AddGPTTyped == ASSUME TypeOK, NEW c \in Clients, AddGPT(c) PROVE TypeOK'
<1> USE DEF AddGPT, disk, hist, GoTo, Fail, Loop, HalfDone, WriteGPT, KernelLabel
<1>1. DiskType'
  BY EndType DEF TypeOK, DiskType
<1>2. KernelType'
  BY EndType DEF TypeOK, KernelType
<1>3. CallType'
  BY EndType DEF TypeOK, CallType, Labels, Locked
<1>4. WorkType'
  <2>1. ReadTable(c) \notin NoTable => ReadTable(c) \in Tables
    BY ReadCopyType DEF TypeOK, DiskType, ReadTable
  <2>2. DOMAIN req[c] \subseteq Slots
    BY DEF TypeOK, CallType, IsPartitionSet
  <2>3. QED
    BY <2>1, <2>2, EndType, EmptyTableType DEF TypeOK, WorkType
<1>5. ControlType'
  BY EndType DEF TypeOK, CallType, WorkType, ControlType, Locked
<1>6. QED
  BY <1>1, <1>2, <1>3, <1>4, <1>5 DEF TypeOK

\* addPartitionSetMBR's reading of the MBR keeps the types.
LEMMA AddMBRTyped == ASSUME TypeOK, NEW c \in Clients, AddMBR(c) PROVE TypeOK'
<1> USE DEF AddMBR, disk, hist, GoTo, Fail, Loop, HalfDone, WriteGPT, KernelLabel
<1>1. DiskType'
  BY EndType DEF TypeOK, DiskType
<1>2. KernelType'
  BY EndType DEF TypeOK, KernelType
<1>3. CallType'
  BY EndType DEF TypeOK, CallType, Labels, Locked
<1>4. WorkType'
  <2>1. DOMAIN req[c] \subseteq Slots /\ IsPartitionSet(req[c])
    BY DEF TypeOK, CallType, IsPartitionSet
  <2>2. QED
    BY <2>1 DEF TypeOK, WorkType
<1>5. ControlType'
  BY EndType DEF TypeOK, CallType, WorkType, ControlType, Locked
<1>6. QED
  BY <1>1, <1>2, <1>3, <1>4, <1>5 DEF TypeOK

\* updatePartitionSetGPT changes the types of entries that exist, so what it writes is a table.
LEMMA UpdateTyped == ASSUME TypeOK, NEW c \in Clients, Update(c) PROVE TypeOK'
<1> USE DEF Update, disk, hist, GoTo, Fail, Loop, HalfDone, WriteGPT, KernelLabel
<1>1. DiskType'
  BY EndType DEF TypeOK, DiskType
<1>2. KernelType'
  BY EndType DEF TypeOK, KernelType
<1>3. CallType'
  BY EndType DEF TypeOK, CallType, Labels, Locked
<1>4. WorkType'
  <2>1. ReadTable(c) \notin NoTable => ReadTable(c) \in Tables
    BY ReadCopyType DEF TypeOK, DiskType, ReadTable
  <2>2. DOMAIN req[c] \subseteq Slots /\ IsPartitionSet(req[c])
    BY DEF TypeOK, CallType, IsPartitionSet
  <2>3. CASE End(c, "err")
    BY <2>3, EndType DEF TypeOK
  <2>4. CASE /\ \A s \in DOMAIN req[c] : At(ReadTable(c), s) # None
             /\ ReadTable(c) \notin NoTable
             /\ mem' = [mem EXCEPT ![c] = Merge(ReadTable(c), Retype(ReadTable(c), req[c]))]
             /\ fresh' = [fresh EXCEPT ![c] = FALSE]
             /\ todo' = [todo EXCEPT ![c] = {}]
             /\ UNCHANGED <<snap, left, res>>
    <3>1. op[c] = "update"
      BY DEF TypeOK, ControlType
    <3>2. \A s \in DOMAIN req[c] : ReadTable(c)[s] # None
      BY <2>4 DEF At
    <3>3. Merge(ReadTable(c), Retype(ReadTable(c), req[c])) \in Tables
      <4>1. \A s \in DOMAIN req[c] : req[c][s] # None
        BY <3>1 DEF TypeOK, CallType
      <4>2. IsPartitionSet(Retype(ReadTable(c), req[c]))
        BY <2>1, <2>2, <2>4, <3>2, <4>1, RetypeType
      <4>3. QED
        BY <2>1, <2>4, <4>2, MergeType
    <3>4. QED
      BY <2>4, <3>3 DEF TypeOK, WorkType
  <2>5. QED
    BY <2>3, <2>4
<1>5. ControlType'
  BY EndType DEF TypeOK, CallType, WorkType, ControlType, Locked
<1>6. QED
  BY <1>1, <1>2, <1>3, <1>4, <1>5 DEF TypeOK

\* deletePartitionSetGPT makes a table of the one it read.
LEMMA DeleteGPTTyped == ASSUME TypeOK, NEW c \in Clients, DeleteGPT(c) PROVE TypeOK'
<1> USE DEF DeleteGPT, disk, hist, GoTo, Fail, Loop, HalfDone, WriteGPT, KernelLabel
<1>1. DiskType'
  BY EndType DEF TypeOK, DiskType
<1>2. KernelType'
  BY EndType DEF TypeOK, KernelType
<1>3. CallType'
  BY EndType DEF TypeOK, CallType, Labels, Locked
<1>4. WorkType'
  <2>1. ReadTable(c) \notin NoTable => ReadTable(c) \in Tables
    BY ReadCopyType DEF TypeOK, DiskType, ReadTable
  <2>2. DOMAIN req[c] \subseteq Slots /\ IsPartitionSet(req[c])
    BY DEF TypeOK, CallType, IsPartitionSet
  <2>3. ReadTable(c) \notin NoTable => Merge(ReadTable(c), req[c]) \in Tables
    BY <2>1, <2>2, MergeType
  <2>4. QED
    BY <2>3, EndType DEF TypeOK, WorkType
<1>5. ControlType'
  BY EndType DEF TypeOK, CallType, WorkType, ControlType, Locked
<1>6. QED
  BY <1>1, <1>2, <1>3, <1>4, <1>5 DEF TypeOK

\* deletePartitionSetMBR makes a table of the one it read.
LEMMA DeleteMBRTyped == ASSUME TypeOK, NEW c \in Clients, DeleteMBR(c) PROVE TypeOK'
<1> USE DEF DeleteMBR, disk, hist, GoTo, Fail, Loop, HalfDone, WriteGPT, KernelLabel
<1>1. DiskType'
  BY EndType DEF TypeOK, DiskType
<1>2. KernelType'
  BY EndType DEF TypeOK, KernelType
<1>3. CallType'
  BY EndType DEF TypeOK, CallType, Labels, Locked
<1>4. WorkType'
  <2>1. DOMAIN req[c] \subseteq Slots /\ IsPartitionSet(req[c])
    BY DEF TypeOK, CallType, IsPartitionSet
  <2>2. mbr # None => Merge(mbr, req[c]) \in Tables
    BY <2>1, MergeType DEF TypeOK, DiskType
  <2>3. QED
    BY <2>2, EndType DEF TypeOK, WorkType
<1>5. ControlType'
  BY EndType DEF TypeOK, CallType, WorkType, ControlType, Locked
<1>6. QED
  BY <1>1, <1>2, <1>3, <1>4, <1>5 DEF TypeOK

\* The loop that zeroes and enters new partitions stays inside its request.
LEMMA ZeroTyped == ASSUME TypeOK, NEW c \in Clients, Zero(c) PROVE TypeOK'
<1> USE DEF Zero, disk, hist, GoTo, Fail, Loop, HalfDone, WriteGPT, KernelLabel
<1>1. DiskType'
  BY ZeroedType, BackupAfterType DEF TypeOK, DiskType
<1>2. KernelType'
  BY EndType DEF TypeOK, KernelType
<1>3. CallType'
  BY EndType DEF TypeOK, CallType, Labels, Locked
<1>4. WorkType'
  <2>1. CASE End(c, "err")
    BY <2>1, EndType DEF TypeOK, WorkType
  <2>2. CASE ~End(c, "err")
    <3>1. PICK s \in todo[c] :
            /\ mem' = [mem EXCEPT ![c] = Merge(@, [t \in {s} |-> req[c][t]])]
            /\ todo' = [todo EXCEPT ![c] = IF todo[c] = {s} THEN {} ELSE todo[c] \ {s}]
            /\ UNCHANGED <<snap, left, fresh, res>>
      BY <2>2
    <3>2. IsPartitionSet([t \in {s} |-> req[c][t]])
      BY DEF TypeOK, CallType, WorkType, ControlType, IsPartitionSet
    <3>3. Merge(mem[c], [t \in {s} |-> req[c][t]]) \in Tables
      BY <3>2, MergeType DEF TypeOK, WorkType
    <3>4. QED
      BY <3>1, <3>3 DEF TypeOK, WorkType
  <2>3. QED
    BY <2>1, <2>2
<1>5. ControlType'
  BY EndType DEF TypeOK, CallType, WorkType, ControlType, Locked
<1>6. QED
  BY <1>1, <1>2, <1>3, <1>4, <1>5 DEF TypeOK

\* Writing the MBR writes a table.
LEMMA WriteDosTyped == ASSUME TypeOK, NEW c \in Clients, WriteDos(c) PROVE TypeOK'
<1> USE DEF WriteDos, disk, hist, GoTo, Fail, Loop, HalfDone, WriteGPT, KernelLabel
<1>1. DiskType'
  BY DEF TypeOK, DiskType, WorkType
<1>2. KernelType'
  BY EndType DEF TypeOK, KernelType
<1>3. CallType'
  BY EndType DEF TypeOK, CallType, Labels, Locked
<1>4. WorkType'
  <2>1. DOMAIN req[c] \subseteq Slots /\ IsPartitionSet(req[c])
    BY DEF TypeOK, CallType, IsPartitionSet
  <2>2. QED
    BY <2>1 DEF TypeOK, WorkType
<1>5. ControlType'
  BY EndType DEF TypeOK, CallType, WorkType, ControlType, Locked
<1>6. QED
  BY <1>1, <1>2, <1>3, <1>4, <1>5 DEF TypeOK

\* Writing behind the MBR takes the header of the primary copy.
LEMMA WriteBehindTyped == ASSUME TypeOK, NEW c \in Clients, WriteBehind(c) PROVE TypeOK'
<1> USE DEF WriteBehind, disk, hist, GoTo, Fail, Loop, HalfDone, WriteGPT, KernelLabel
<1>1. DiskType'
  BY DEF TypeOK, DiskType, Copies
<1>2. KernelType'
  BY EndType DEF TypeOK, KernelType
<1>3. CallType'
  BY EndType DEF TypeOK, CallType, Labels, Locked
<1>4. WorkType'
  <2>1. DOMAIN req[c] \subseteq Slots /\ IsPartitionSet(req[c])
    BY DEF TypeOK, CallType, IsPartitionSet
  <2>2. QED
    BY <2>1 DEF TypeOK, WorkType
<1>5. ControlType'
  BY EndType DEF TypeOK, CallType, WorkType, ControlType, Locked
<1>6. QED
  BY <1>1, <1>2, <1>3, <1>4, <1>5 DEF TypeOK

\* Writing the protective MBR writes a table.
LEMMA WriteProtectiveMBRTyped == ASSUME TypeOK, NEW c \in Clients, WriteProtectiveMBR(c) PROVE TypeOK'
<1> USE DEF WriteProtectiveMBR, disk, hist, GoTo, Fail, Loop, HalfDone, WriteGPT, KernelLabel
<1>1. DiskType'
  BY ProtectiveType DEF TypeOK, DiskType
<1>2. KernelType'
  BY EndType DEF TypeOK, KernelType
<1>3. CallType'
  BY EndType DEF TypeOK, CallType, Labels, Locked
<1>4. WorkType'
  BY EndType DEF TypeOK, WorkType
<1>5. ControlType'
  BY EndType DEF TypeOK, CallType, WorkType, ControlType, Locked
<1>6. QED
  BY <1>1, <1>2, <1>3, <1>4, <1>5 DEF TypeOK

\* Writing half a primary copy leaves both halves tables, and committed one.
LEMMA WritePrimaryTyped == ASSUME TypeOK, NEW c \in Clients, WritePrimary(c) PROVE TypeOK'
<1> USE DEF WritePrimary, disk, hist, GoTo, Fail, Loop, HalfDone, WriteGPT, KernelLabel
<1>1. DiskType'
  <2>1. pri' \in Copies
    BY DEF TypeOK, DiskType, WorkType, Copies, Halves
  <2>2. committed' \in Tables \cup {None}
    <3>1. ReadCopy(pri') \in Tables \cup {None, Torn}
      BY <2>1, ReadCopyType
    <3>2. QED
      BY <3>1, TornAssumption DEF TypeOK, DiskType
  <2>3. QED
    BY <2>1, <2>2 DEF TypeOK, DiskType
<1>2. KernelType'
  <2>1. DOMAIN req[c] \subseteq Slots /\ IsPartitionSet(req[c])
    BY DEF TypeOK, CallType, IsPartitionSet
  <2>2. QED
    BY <2>1 DEF TypeOK, KernelType
<1>3. CallType'
  BY EndType DEF TypeOK, CallType, Labels, Locked
<1>4. WorkType'
  BY EndType DEF TypeOK, WorkType
<1>5. ControlType'
  BY EndType DEF TypeOK, CallType, WorkType, ControlType, Locked
<1>6. QED
  BY <1>1, <1>2, <1>3, <1>4, <1>5 DEF TypeOK

\* Writing half a backup copy leaves both halves tables.
LEMMA WriteBackupTyped == ASSUME TypeOK, NEW c \in Clients, WriteBackup(c) PROVE TypeOK'
<1> USE DEF WriteBackup, disk, hist, GoTo, Fail, Loop, HalfDone, WriteGPT, KernelLabel
<1>1. DiskType'
  <2>1. bak' \in Copies
    BY DEF TypeOK, DiskType, WorkType, Copies, Halves
  <2>2. QED
    BY <2>1 DEF TypeOK, DiskType
<1>2. KernelType'
  BY EndType DEF TypeOK, KernelType
<1>3. CallType'
  BY EndType DEF TypeOK, CallType, Labels, Locked
<1>4. WorkType'
  BY EndType DEF TypeOK, WorkType
<1>5. ControlType'
  BY EndType DEF TypeOK, CallType, WorkType, ControlType, Locked
<1>6. QED
  BY <1>1, <1>2, <1>3, <1>4, <1>5 DEF TypeOK

\* What writeGPTTable reads back to go on with is a table.
LEMMA CheckTyped == ASSUME TypeOK, NEW c \in Clients, Check(c) PROVE TypeOK'
<1> USE DEF Check, disk, hist, GoTo, Fail, Loop, HalfDone, WriteGPT, KernelLabel
<1>1. DiskType'
  BY EndType DEF TypeOK, DiskType
<1>2. KernelType'
  BY EndType DEF TypeOK, KernelType
<1>3. CallType'
  BY EndType DEF TypeOK, CallType, Labels, Locked
<1>4. WorkType'
  <2>1. ReadCopy(pri) \notin NoTable => ReadCopy(pri) \in Tables
    BY ReadCopyType DEF TypeOK, DiskType
  <2>2. DOMAIN req[c] \subseteq Slots /\ IsPartitionSet(req[c])
    BY DEF TypeOK, CallType, IsPartitionSet
  <2>3. QED
    BY <2>1, <2>2, EndType DEF TypeOK, WorkType
<1>5. ControlType'
  BY EndType DEF TypeOK, CallType, WorkType, ControlType, Locked
<1>6. QED
  BY <1>1, <1>2, <1>3, <1>4, <1>5 DEF TypeOK

\* addpart gives the kernel an extent.
LEMMA AddPartTyped == ASSUME TypeOK, NEW c \in Clients, AddPart(c) PROVE TypeOK'
<1> USE DEF AddPart, disk, hist, GoTo, Fail, Loop, HalfDone, WriteGPT, KernelLabel
<1>1. DiskType'
  BY EndType DEF TypeOK, DiskType
<1>2. KernelType'
  <2>1. \A s \in todo[c] : Extent(req[c][s]) \in Extended \cup {None}
    BY DEF TypeOK, CallType, WorkType, ControlType, IsPartitionSet, Extent, Extended, Parts
  <2>2. QED
    BY <2>1, EndType DEF TypeOK, KernelType
<1>3. CallType'
  BY EndType DEF TypeOK, CallType, Labels, Locked
<1>4. WorkType'
  BY EndType DEF TypeOK, WorkType
<1>5. ControlType'
  BY EndType DEF TypeOK, CallType, WorkType, ControlType, Locked
<1>6. QED
  BY <1>1, <1>2, <1>3, <1>4, <1>5 DEF TypeOK

\* delpart takes one away.
LEMMA DelPartTyped == ASSUME TypeOK, NEW c \in Clients, DelPart(c) PROVE TypeOK'
<1> USE DEF DelPart, disk, hist, GoTo, Fail, Loop, HalfDone, WriteGPT, KernelLabel
<1>1. DiskType'
  BY EndType DEF TypeOK, DiskType
<1>2. KernelType'
  BY EndType DEF TypeOK, KernelType
<1>3. CallType'
  BY EndType DEF TypeOK, CallType, Labels, Locked
<1>4. WorkType'
  BY EndType DEF TypeOK, WorkType
<1>5. ControlType'
  BY EndType DEF TypeOK, CallType, WorkType, ControlType, Locked
<1>6. QED
  BY <1>1, <1>2, <1>3, <1>4, <1>5 DEF TypeOK

\* fsync and close keep the types.
LEMMA SyncTyped == ASSUME TypeOK, NEW c \in Clients, Sync(c) PROVE TypeOK'
<1> USE DEF Sync, disk, hist, GoTo, Fail, Loop, HalfDone, WriteGPT, KernelLabel
<1>1. DiskType'
  BY EndType DEF TypeOK, DiskType
<1>2. KernelType'
  BY EndType DEF TypeOK, KernelType
<1>3. CallType'
  BY EndType DEF TypeOK, CallType, Labels, Locked
<1>4. WorkType'
  <2>1. DOMAIN req[c] \subseteq Slots /\ IsPartitionSet(req[c])
    BY DEF TypeOK, CallType, IsPartitionSet
  <2>2. QED
    BY <2>1, EndType DEF TypeOK, WorkType
<1>5. ControlType'
  BY EndType DEF TypeOK, CallType, WorkType, ControlType, Locked
<1>6. QED
  BY <1>1, <1>2, <1>3, <1>4, <1>5 DEF TypeOK

\* The change events keep the types.
LEMMA UeventTyped == ASSUME TypeOK, NEW c \in Clients, Uevent(c) PROVE TypeOK'
<1> USE DEF Uevent, disk, hist, GoTo, Fail, Loop, HalfDone, WriteGPT, KernelLabel
<1>1. DiskType'
  BY EndType DEF TypeOK, DiskType
<1>2. KernelType'
  BY EndType DEF TypeOK, KernelType
<1>3. CallType'
  BY EndType DEF TypeOK, CallType, Labels, Locked
<1>4. WorkType'
  BY EndType DEF TypeOK, WorkType
<1>5. ControlType'
  BY EndType DEF TypeOK, CallType, WorkType, ControlType, Locked
<1>6. QED
  BY <1>1, <1>2, <1>3, <1>4, <1>5 DEF TypeOK

\* Zeroing the first MiB keeps the types.
LEMMA WipeFirstTyped == ASSUME TypeOK, NEW c \in Clients, WipeFirst(c) PROVE TypeOK'
<1> USE DEF WipeFirst, disk, hist, GoTo, Fail, Loop, HalfDone, WriteGPT, KernelLabel
<1>1. DiskType'
  BY NoneAssumption DEF TypeOK, DiskType, Copies, NoCopy
<1>2. KernelType'
  BY EndType DEF TypeOK, KernelType
<1>3. CallType'
  BY EndType DEF TypeOK, CallType, Labels, Locked
<1>4. WorkType'
  BY EndType DEF TypeOK, WorkType
<1>5. ControlType'
  BY EndType DEF TypeOK, CallType, WorkType, ControlType, Locked
<1>6. QED
  BY <1>1, <1>2, <1>3, <1>4, <1>5 DEF TypeOK

\* Zeroing the last MiB keeps the types.
LEMMA WipeLastTyped == ASSUME TypeOK, NEW c \in Clients, WipeLast(c) PROVE TypeOK'
<1> USE DEF WipeLast, disk, hist, GoTo, Fail, Loop, HalfDone, WriteGPT, KernelLabel
<1>1. DiskType'
  BY NoneAssumption DEF TypeOK, DiskType, Copies, NoCopy
<1>2. KernelType'
  BY EndType DEF TypeOK, KernelType
<1>3. CallType'
  BY EndType DEF TypeOK, CallType, Labels, Locked
<1>4. WorkType'
  BY EndType DEF TypeOK, WorkType
<1>5. ControlType'
  BY EndType DEF TypeOK, CallType, WorkType, ControlType, Locked
<1>6. QED
  BY <1>1, <1>2, <1>3, <1>4, <1>5 DEF TypeOK

\* Zeroing a partition of the scanned Disk keeps the types.
LEMMA WipePartTyped == ASSUME TypeOK, NEW c \in Clients, WipePart(c) PROVE TypeOK'
<1> USE DEF WipePart, disk, hist, GoTo, Fail, Loop, HalfDone, WriteGPT, KernelLabel
<1>1. DiskType'
  <2>1. NoCopy \in Copies
    BY DEF NoCopy, Copies
  <2>2. QED
    BY <2>1, ZeroedType, BackupAfterType DEF TypeOK, DiskType
<1>2. KernelType'
  BY EndType DEF TypeOK, KernelType
<1>3. CallType'
  BY EndType DEF TypeOK, CallType, Labels, Locked
<1>4. WorkType'
  BY EndType DEF TypeOK, WorkType
<1>5. ControlType'
  BY EndType DEF TypeOK, CallType, WorkType, ControlType, Locked
<1>6. QED
  BY <1>1, <1>2, <1>3, <1>4, <1>5 DEF TypeOK

\* A failure or death of a call keeps the types.
LEMMA FaultTyped == ASSUME TypeOK, NEW c \in Clients, Fault(c) PROVE TypeOK'
<1> USE DEF Fault, disk, hist, GoTo, Fail, Loop, HalfDone, WriteGPT, KernelLabel
<1>1. DiskType'
  BY EndType DEF TypeOK, DiskType
<1>2. KernelType'
  BY EndType, OpsAssumption DEF TypeOK, KernelType
<1>3. CallType'
  BY EndType DEF TypeOK, CallType, Labels, Locked
<1>4. WorkType'
  BY EndType DEF TypeOK, WorkType
<1>5. ControlType'
  BY EndType DEF TypeOK, CallType, WorkType, ControlType, Locked
<1>6. QED
  BY <1>1, <1>2, <1>3, <1>4, <1>5 DEF TypeOK

\* The disk and the processes start well typed.
LEMMA TypeInit == Init => TypeOK
<1> SUFFICES ASSUME Init PROVE TypeOK
  OBVIOUS
<1> USE EmptyTableType, ProtectiveType, InitAssumption
<1>1. pri \in Copies /\ bak \in Copies
  BY DEF Init, Copies
<1>2. committed \in Tables \cup {None}
  BY <1>1, ReadCopyType, NoneAssumption DEF Init, ReadCopy
<1>3. DiskType
  BY <1>1, <1>2 DEF Init, DiskType
<1>4. KernelType
  <2>1. \A s \in Slots : Extent(InitTable[s]) \in Extended \cup {None}
    BY DEF Extent, Extended, Tables, Parts
  <2>2. QED
    BY <2>1, OpsAssumption DEF Init, KernelType
<1>5. CallType /\ WorkType /\ ControlType
  BY DEF Init, CallType, WorkType, ControlType, Labels, IsPartitionSet
<1>6. QED
  BY <1>3, <1>4, <1>5 DEF TypeOK

\* Every variable keeps its type, whatever the calls and their interleaving.
THEOREM TypeCorrect == Spec => []TypeOK
<1>1. TypeOK /\ [Next]_vars => TypeOK'
  <2>1. ASSUME TypeOK, UNCHANGED vars PROVE TypeOK'
    BY <2>1 DEF TypeOK, DiskType, KernelType, CallType, WorkType, ControlType, vars, disk,
       client, hist
  <2>2. ASSUME TypeOK, NEW c \in Clients, Step(c) PROVE TypeOK'
    BY <2>2, AddGPTTyped, AddMBRTyped, UpdateTyped, DeleteGPTTyped, DeleteMBRTyped,
       ZeroTyped, WriteDosTyped, WriteBehindTyped, WriteProtectiveMBRTyped, WritePrimaryTyped,
       WriteBackupTyped, CheckTyped, AddPartTyped, DelPartTyped, SyncTyped, UeventTyped,
       WipeFirstTyped, WipeLastTyped, WipePartTyped DEF Step
  <2>3. QED
    BY <2>1, <2>2, ScanTyped, CallTyped, RejectTyped, AcquireTyped, FaultTyped DEF Next
<1>2. QED
  BY <1>1, TypeInit, PTL DEF Spec

\* No step takes the lock from its holder, gives it to a second call, or leaves
\* it behind: one case per action.
LEMMA LockStep == TypeOK /\ LockHolder /\ [Next]_vars => LockHolder'
<1> SUFFICES ASSUME TypeOK, LockHolder, [Next]_vars PROVE LockHolder'
  OBVIOUS
<1> USE DEF TypeOK, KernelType, CallType, ControlType, LockHolder, Locked, Labels, disk, hist,
            GoTo, End, Fail, Loop, HalfDone, WriteGPT, KernelLabel
<1>1. CASE UNCHANGED vars
  BY <1>1 DEF vars, client
<1>2. ASSUME NEW c \in Clients, Scan(c) PROVE LockHolder'
  BY <1>2, ClientsAssumption DEF Scan
<1>3. ASSUME NEW c \in Clients, Call(c) PROVE LockHolder'
  BY <1>3, ClientsAssumption DEF Call
<1>4. ASSUME NEW c \in Clients, Reject(c) PROVE LockHolder'
  BY <1>4, ClientsAssumption DEF Reject
<1>5. ASSUME NEW c \in Clients, Acquire(c) PROVE LockHolder'
  BY <1>5, ClientsAssumption DEF Acquire
<1>6. ASSUME NEW c \in Clients, AddGPT(c) PROVE LockHolder'
  BY <1>6, ClientsAssumption DEF AddGPT
<1>7. ASSUME NEW c \in Clients, AddMBR(c) PROVE LockHolder'
  BY <1>7, ClientsAssumption DEF AddMBR
<1>8. ASSUME NEW c \in Clients, Update(c) PROVE LockHolder'
  BY <1>8, ClientsAssumption DEF Update
<1>9. ASSUME NEW c \in Clients, DeleteGPT(c) PROVE LockHolder'
  BY <1>9, ClientsAssumption DEF DeleteGPT
<1>10. ASSUME NEW c \in Clients, DeleteMBR(c) PROVE LockHolder'
  BY <1>10, ClientsAssumption DEF DeleteMBR
<1>11. ASSUME NEW c \in Clients, Zero(c) PROVE LockHolder'
  BY <1>11, ClientsAssumption DEF Zero
<1>12. ASSUME NEW c \in Clients, WriteDos(c) PROVE LockHolder'
  BY <1>12, ClientsAssumption DEF WriteDos
<1>13. ASSUME NEW c \in Clients, WriteProtectiveMBR(c) PROVE LockHolder'
  BY <1>13, ClientsAssumption DEF WriteProtectiveMBR
<1>14. ASSUME NEW c \in Clients, WritePrimary(c) PROVE LockHolder'
  BY <1>14, ClientsAssumption DEF WritePrimary
<1>15. ASSUME NEW c \in Clients, WriteBackup(c) PROVE LockHolder'
  BY <1>15, ClientsAssumption DEF WriteBackup
<1>16. ASSUME NEW c \in Clients, Check(c) PROVE LockHolder'
  BY <1>16, ClientsAssumption DEF Check
<1>17. ASSUME NEW c \in Clients, AddPart(c) PROVE LockHolder'
  BY <1>17, ClientsAssumption DEF AddPart
<1>18. ASSUME NEW c \in Clients, DelPart(c) PROVE LockHolder'
  BY <1>18, ClientsAssumption DEF DelPart
<1>19. ASSUME NEW c \in Clients, Sync(c) PROVE LockHolder'
  BY <1>19, ClientsAssumption DEF Sync
<1>20. ASSUME NEW c \in Clients, Uevent(c) PROVE LockHolder'
  BY <1>20, ClientsAssumption DEF Uevent
<1>21. ASSUME NEW c \in Clients, WipeFirst(c) PROVE LockHolder'
  BY <1>21, ClientsAssumption DEF WipeFirst
<1>22. ASSUME NEW c \in Clients, WipeLast(c) PROVE LockHolder'
  BY <1>22, ClientsAssumption DEF WipeLast
<1>23. ASSUME NEW c \in Clients, WipePart(c) PROVE LockHolder'
  BY <1>23, ClientsAssumption DEF WipePart
<1>24. ASSUME NEW c \in Clients, Fault(c) PROVE LockHolder'
  BY <1>24, ClientsAssumption DEF Fault
<1>25. ASSUME NEW c \in Clients, WriteBehind(c) PROVE LockHolder'
  BY <1>25, ClientsAssumption DEF WriteBehind
<1>26. QED
  BY <1>1, <1>2, <1>3, <1>4, <1>5, <1>6, <1>7, <1>8, <1>9, <1>10, <1>11, <1>12, <1>13,
     <1>14, <1>15, <1>16, <1>17, <1>18, <1>19, <1>20, <1>21, <1>22, <1>23, <1>24, <1>25 DEF
     Next, Step

\* A copy one half of which is table t reads as t, as torn, or, when there was
\* no header before either, as no table.
LEMMA HalfWritten ==
  ASSUME NEW copy \in Copies, NEW t \in Tables, NEW h \in Halves
  PROVE  LET after == ReadCopy([copy EXCEPT ![h] = t])
         IN  after \in {None, Torn, t} /\ (after = None => ReadCopy(copy) = None)
  BY NoneAssumption DEF ReadCopy, Copies, Halves

\* The inductive step of WriteInv: one case per action. The interesting ones are
\* those that read the table (AddGPT, Update, DeleteGPT, Check), change it in
\* memory (Zero) and publish it (WritePrimary).
LEMMA WriteStep ==
  ASSUME "wipe" \notin Ops, TypeOK, WriteInv, [Next]_vars
  PROVE  WriteInv'
<1> USE DEF TypeOK, KernelType, CallType, WorkType, ControlType, LockHolder, Locked, Labels, disk, hist,
            GoTo, End, Fail, Loop, HalfDone, WriteGPT, KernelLabel, AtWork, Agrees, InMBR
<1>0. LockHolder' BY LockStep DEF WriteInv
<1>1. CASE UNCHANGED vars
  BY <1>1 DEF vars, client, WriteInv, NotTorn, ReadCopy
<1>2. ASSUME NEW c \in Clients, Scan(c) PROVE NotTorn' /\ \A d \in Clients : AtWork(d)'
  <2>1. NotTorn'
    BY <1>2 DEF Scan, WriteInv, NotTorn, ReadCopy
  <2>2. ASSUME NEW d \in Clients PROVE AtWork(d)'
    BY <1>2, <2>2, ClientsAssumption DEF Scan, WriteInv
  <2>3. QED
    BY <2>1, <2>2
<1>3. ASSUME NEW c \in Clients, Call(c) PROVE NotTorn' /\ \A d \in Clients : AtWork(d)'
  <2>1. NotTorn'
    BY <1>3 DEF Call, WriteInv, NotTorn, ReadCopy
  <2>2. ASSUME NEW d \in Clients PROVE AtWork(d)'
    BY <1>3, <2>2, ClientsAssumption DEF Call, WriteInv
  <2>3. QED
    BY <2>1, <2>2
<1>4. ASSUME NEW c \in Clients, Reject(c) PROVE NotTorn' /\ \A d \in Clients : AtWork(d)'
  <2>1. NotTorn'
    BY <1>4 DEF Reject, WriteInv, NotTorn, ReadCopy
  <2>2. ASSUME NEW d \in Clients PROVE AtWork(d)'
    BY <1>4, <2>2, ClientsAssumption DEF Reject, WriteInv
  <2>3. QED
    BY <2>1, <2>2
<1>5. ASSUME NEW c \in Clients, Acquire(c) PROVE NotTorn' /\ \A d \in Clients : AtWork(d)'
  <2>1. NotTorn'
    BY <1>5 DEF Acquire, WriteInv, NotTorn, ReadCopy
  <2>2. ASSUME NEW d \in Clients PROVE AtWork(d)'
    BY <1>5, <2>2, ClientsAssumption DEF Acquire, WriteInv
  <2>3. QED
    BY <2>1, <2>2
<1>6. ASSUME NEW c \in Clients, AddGPT(c) PROVE NotTorn' /\ \A d \in Clients : AtWork(d)'
  <2>1. NotTorn'
    BY <1>6 DEF AddGPT, WriteInv, NotTorn, ReadCopy
  <2>2. ASSUME NEW d \in Clients PROVE AtWork(d)'
    <3>1. CASE d # c
      BY <1>6, <3>1, ClientsAssumption DEF AddGPT, WriteInv
    <3>2. CASE d = c
      <4>1. CASE ReadTable(c) = Torn
        BY <1>6, <3>2, <4>1, NoneAssumption, ClientsAssumption DEF AddGPT, WriteInv
      <4>2. CASE ReadTable(c) = None
        BY <1>6, <3>2, <4>2, NoneAssumption DEF AddGPT, WriteInv, NotTorn, ReadTable
      <4>3. CASE ReadTable(c) \notin NoTable
        BY <1>6, <3>2, <4>3 DEF AddGPT, WriteInv, NotTorn, ReadTable, At
      <4>4. QED
        BY <4>1, <4>2, <4>3
    <3>3. QED
      BY <3>1, <3>2
  <2>3. QED
    BY <2>1, <2>2
<1>7. ASSUME NEW c \in Clients, AddMBR(c) PROVE NotTorn' /\ \A d \in Clients : AtWork(d)'
  <2>1. NotTorn'
    BY <1>7 DEF AddMBR, WriteInv, NotTorn, ReadCopy
  <2>2. ASSUME NEW d \in Clients PROVE AtWork(d)'
    BY <1>7, <2>2, ClientsAssumption DEF AddMBR, WriteInv
  <2>3. QED
    BY <2>1, <2>2
<1>8. ASSUME NEW c \in Clients, Update(c) PROVE NotTorn' /\ \A d \in Clients : AtWork(d)'
  <2>1. NotTorn'
    BY <1>8 DEF Update, WriteInv, NotTorn, ReadCopy
  <2>2. ASSUME NEW d \in Clients PROVE AtWork(d)'
    <3>1. CASE d # c
      BY <1>8, <3>1, ClientsAssumption DEF Update, WriteInv
    <3>2. CASE d = c
      <4>1. CASE End(c, "err")
        BY <1>8, <3>2, <4>1, ClientsAssumption DEF Update, WriteInv
      <4>2. CASE pc' = [pc EXCEPT ![c] = "mbr"]
        <5>1. /\ ReadTable(c) \notin NoTable /\ snap[c].kind = "gpt"
              /\ mem' = [mem EXCEPT ![c] = Merge(ReadTable(c), Retype(ReadTable(c), req[c]))]
              /\ fresh' = [fresh EXCEPT ![c] = FALSE]
              /\ UNCHANGED <<lock, op, req, snap, committed>>
          BY <1>8, <4>2 DEF Update
        <5>2. \A t \in Slots \ DOMAIN req[c] : mem'[c][t] = ReadTable(c)[t]
          BY <5>1 DEF Merge, Retype
        <5>3. committed = ReadTable(c)
          BY <5>1 DEF WriteInv, NotTorn, ReadTable
        <5>4. QED
          BY <3>2, <4>2, <5>1, <5>2, <5>3 DEF WriteInv, At
      <4>3. QED
        BY <1>8, <4>1, <4>2 DEF Update
    <3>3. QED
      BY <3>1, <3>2
  <2>3. QED
    BY <2>1, <2>2
<1>9. ASSUME NEW c \in Clients, DeleteGPT(c) PROVE NotTorn' /\ \A d \in Clients : AtWork(d)'
  <2>1. NotTorn'
    BY <1>9 DEF DeleteGPT, WriteInv, NotTorn, ReadCopy
  <2>2. ASSUME NEW d \in Clients PROVE AtWork(d)'
    <3>1. CASE d # c
      BY <1>9, <3>1, ClientsAssumption DEF DeleteGPT, WriteInv
    <3>2. CASE d = c
      <4>1. CASE End(c, "err")
        BY <1>9, <3>2, <4>1, ClientsAssumption DEF DeleteGPT, WriteInv
      <4>2. CASE pc' = [pc EXCEPT ![c] = "mbr"]
        BY <1>9, <3>2, <4>2 DEF DeleteGPT, WriteInv, NotTorn, ReadTable, At, Merge, Retype
      <4>3. QED
        BY <1>9, <4>1, <4>2 DEF DeleteGPT
    <3>3. QED
      BY <3>1, <3>2
  <2>3. QED
    BY <2>1, <2>2
<1>10. ASSUME NEW c \in Clients, DeleteMBR(c) PROVE NotTorn' /\ \A d \in Clients : AtWork(d)'
  <2>1. NotTorn'
    BY <1>10 DEF DeleteMBR, WriteInv, NotTorn, ReadCopy
  <2>2. ASSUME NEW d \in Clients PROVE AtWork(d)'
    BY <1>10, <2>2, ClientsAssumption DEF DeleteMBR, WriteInv
  <2>3. QED
    BY <2>1, <2>2
<1>11. ASSUME NEW c \in Clients, Zero(c) PROVE NotTorn' /\ \A d \in Clients : AtWork(d)'
  <2>1. NotTorn'
    BY <1>11 DEF Zero, WriteInv, NotTorn, ReadCopy
  <2>2. ASSUME NEW d \in Clients PROVE AtWork(d)'
    <3>1. CASE d # c
      BY <1>11, <3>1, ClientsAssumption DEF Zero, WriteInv
    <3>2. CASE d = c
      <4>1. CASE End(c, "err")
        BY <1>11, <3>2, <4>1, ClientsAssumption DEF Zero, WriteInv
      <4>2. ASSUME NEW s \in todo[c],
                   mem' = [mem EXCEPT ![c] = Merge(@, [t \in {s} |-> req[c][t]])],
                   Loop(c, s, IF InMBR(c) THEN "dos" ELSE "mbr"),
                   UNCHANGED <<lock, op, req, snap, left, fresh, committed>>
            PROVE  AtWork(c)'
        <5>1. s \in DOMAIN req[c]
          BY <1>11 DEF Zero
        <5>2. \A t \in Slots \ DOMAIN req[c] : mem'[c][t] = mem[c][t]
          BY <4>2, <5>1 DEF Merge
        <5>3. ~fresh[c]
          BY <1>11 DEF Zero, WriteInv
        <5>4. pc'[c] \in {"zero", "dos", "mbr"} /\ (pc'[c] = "mbr" => ~InMBR(c))
          BY <1>11, <4>2 DEF Zero
        <5>5. ~InMBR(c) => committed # None /\ Agrees(c)
          BY <1>11, <5>3 DEF Zero, WriteInv
        <5>6. QED
          BY <4>2, <5>2, <5>3, <5>4, <5>5
      <4>3. QED
        BY <1>11, <3>2, <4>1, <4>2 DEF Zero
    <3>3. QED
      BY <3>1, <3>2
  <2>3. QED
    BY <2>1, <2>2
<1>12. ASSUME NEW c \in Clients, WriteDos(c) PROVE NotTorn' /\ \A d \in Clients : AtWork(d)'
  <2>1. NotTorn'
    BY <1>12 DEF WriteDos, WriteInv, NotTorn, ReadCopy
  <2>2. ASSUME NEW d \in Clients PROVE AtWork(d)'
    BY <1>12, <2>2, ClientsAssumption DEF WriteDos, WriteInv
  <2>3. QED
    BY <2>1, <2>2
<1>13. ASSUME NEW c \in Clients, WriteProtectiveMBR(c) PROVE NotTorn' /\ \A d \in Clients : AtWork(d)'
  <2>1. NotTorn'
    BY <1>13 DEF WriteProtectiveMBR, WriteInv, NotTorn, ReadCopy
  <2>2. ASSUME NEW d \in Clients PROVE AtWork(d)'
    BY <1>13, <2>2, ClientsAssumption DEF WriteProtectiveMBR, WriteInv
  <2>3. QED
    BY <2>1, <2>2
<1>14. ASSUME NEW c \in Clients, WritePrimary(c) PROVE NotTorn' /\ \A d \in Clients : AtWork(d)'
  <2>1. NotTorn'
    BY <1>14 DEF WritePrimary, WriteInv, NotTorn, ReadCopy
  <2>2. ASSUME NEW d \in Clients PROVE AtWork(d)'
    <3>1. CASE d # c
      BY <1>14, <3>1, ClientsAssumption DEF WritePrimary, WriteInv
    <3>2. CASE d = c
      <4>1. PICK h \in left[c] : pri' = [pri EXCEPT ![h] = mem[c]] /\ HalfDone(c, h, "bak")
        BY <1>14 DEF WritePrimary
      <4>2. /\ ReadCopy(pri') \in {None, Torn, mem[c]}
            /\ ReadCopy(pri') = None => ReadCopy(pri) = None
        <5>1. pri \in Copies /\ mem[c] \in Tables /\ h \in Halves
          BY <4>1 DEF DiskType
        <5>2. QED
          BY <4>1, <5>1, HalfWritten
      <4>3. committed' \in {committed, mem[c]}
        BY <1>14, <4>2, NoneAssumption DEF WritePrimary, WriteInv, NotTorn
      <4>4. mem[c] \notin NoTable
        BY NoneAssumption, TornAssumption
      <4>5. pc'[c] \in {"pri", "bak"} /\ UNCHANGED <<mem, fresh, req, snap>>
        BY <1>14 DEF WritePrimary
      <4>6. QED
        <5>1. CASE fresh[c]
          BY <1>14, <3>2, <4>3, <4>5, <5>1 DEF WritePrimary, WriteInv
        <5>2. CASE ~fresh[c]
          <6>1. committed # None /\ Agrees(c) /\ ~InMBR(c)
            BY <1>14, <5>2 DEF WritePrimary, WriteInv
          <6>2. committed' # None /\ \A s \in Slots \ DOMAIN req[c] : mem[c][s] = At(committed', s)
            BY <4>3, <4>4, <6>1 DEF At
          <6>3. QED
            BY <3>2, <4>5, <5>2, <6>1, <6>2
        <5>3. QED
          BY <5>1, <5>2
    <3>3. QED
      BY <3>1, <3>2
  <2>3. QED
    BY <2>1, <2>2
<1>15. ASSUME NEW c \in Clients, WriteBackup(c) PROVE NotTorn' /\ \A d \in Clients : AtWork(d)'
  <2>1. NotTorn'
    BY <1>15 DEF WriteBackup, WriteInv, NotTorn, ReadCopy
  <2>2. ASSUME NEW d \in Clients PROVE AtWork(d)'
    BY <1>15, <2>2, ClientsAssumption DEF WriteBackup, WriteInv
  <2>3. QED
    BY <2>1, <2>2
<1>16. ASSUME NEW c \in Clients, Check(c) PROVE NotTorn' /\ \A d \in Clients : AtWork(d)'
  <2>1. NotTorn'
    BY <1>16 DEF Check, WriteInv, NotTorn, ReadCopy
  <2>2. ASSUME NEW d \in Clients PROVE AtWork(d)'
    <3>1. CASE d # c
      BY <1>16, <3>1, ClientsAssumption DEF Check, WriteInv
    <3>2. CASE d = c
      <4>1. CASE End(c, "err")
        BY <1>16, <3>2, <4>1, ClientsAssumption DEF Check, WriteInv
      <4>2. CASE ReadCopy(pri) \notin NoTable
        BY <1>16, <3>2, <4>2 DEF Check, WriteInv, NotTorn, At
      <4>3. QED
        BY <1>16, <4>1, <4>2 DEF Check
    <3>3. QED
      BY <3>1, <3>2
  <2>3. QED
    BY <2>1, <2>2
<1>17. ASSUME NEW c \in Clients, AddPart(c) PROVE NotTorn' /\ \A d \in Clients : AtWork(d)'
  <2>1. NotTorn'
    BY <1>17 DEF AddPart, WriteInv, NotTorn, ReadCopy
  <2>2. ASSUME NEW d \in Clients PROVE AtWork(d)'
    BY <1>17, <2>2, ClientsAssumption DEF AddPart, WriteInv
  <2>3. QED
    BY <2>1, <2>2
<1>18. ASSUME NEW c \in Clients, DelPart(c) PROVE NotTorn' /\ \A d \in Clients : AtWork(d)'
  <2>1. NotTorn'
    BY <1>18 DEF DelPart, WriteInv, NotTorn, ReadCopy
  <2>2. ASSUME NEW d \in Clients PROVE AtWork(d)'
    BY <1>18, <2>2, ClientsAssumption DEF DelPart, WriteInv
  <2>3. QED
    BY <2>1, <2>2
<1>19. ASSUME NEW c \in Clients, Sync(c) PROVE NotTorn' /\ \A d \in Clients : AtWork(d)'
  <2>1. NotTorn'
    BY <1>19 DEF Sync, WriteInv, NotTorn, ReadCopy
  <2>2. ASSUME NEW d \in Clients PROVE AtWork(d)'
    BY <1>19, <2>2, ClientsAssumption DEF Sync, WriteInv
  <2>3. QED
    BY <2>1, <2>2
<1>20. ASSUME NEW c \in Clients, Uevent(c) PROVE NotTorn' /\ \A d \in Clients : AtWork(d)'
  <2>1. NotTorn'
    BY <1>20 DEF Uevent, WriteInv, NotTorn, ReadCopy
  <2>2. ASSUME NEW d \in Clients PROVE AtWork(d)'
    BY <1>20, <2>2, ClientsAssumption DEF Uevent, WriteInv
  <2>3. QED
    BY <2>1, <2>2
<1>21. ASSUME NEW c \in Clients, WipeFirst(c) PROVE NotTorn' /\ \A d \in Clients : AtWork(d)'
  <2>1. NotTorn'
    BY <1>21 DEF WipeFirst, WriteInv, NotTorn, ReadCopy
  <2>2. ASSUME NEW d \in Clients PROVE AtWork(d)'
    BY <1>21, <2>2, ClientsAssumption DEF WipeFirst, WriteInv
  <2>3. QED
    BY <2>1, <2>2
<1>22. ASSUME NEW c \in Clients, WipeLast(c) PROVE NotTorn' /\ \A d \in Clients : AtWork(d)'
  <2>1. NotTorn'
    BY <1>22 DEF WipeLast, WriteInv, NotTorn, ReadCopy
  <2>2. ASSUME NEW d \in Clients PROVE AtWork(d)'
    BY <1>22, <2>2, ClientsAssumption DEF WipeLast, WriteInv
  <2>3. QED
    BY <2>1, <2>2
<1>23. ASSUME NEW c \in Clients, WipePart(c) PROVE NotTorn' /\ \A d \in Clients : AtWork(d)'
  <2>1. NotTorn'
    BY <1>23 DEF WipePart, WriteInv, NotTorn, ReadCopy
  <2>2. ASSUME NEW d \in Clients PROVE AtWork(d)'
    BY <1>23, <2>2, ClientsAssumption DEF WipePart, WriteInv
  <2>3. QED
    BY <2>1, <2>2
<1>24. ASSUME NEW c \in Clients, Fault(c) PROVE NotTorn' /\ \A d \in Clients : AtWork(d)'
  <2>1. NotTorn'
    BY <1>24 DEF Fault, WriteInv, NotTorn, ReadCopy
  <2>2. ASSUME NEW d \in Clients PROVE AtWork(d)'
    BY <1>24, <2>2, ClientsAssumption DEF Fault, WriteInv
  <2>3. QED
    BY <2>1, <2>2
<1>25. ASSUME NEW c \in Clients, WriteBehind(c) PROVE NotTorn' /\ \A d \in Clients : AtWork(d)'
  <2>1. NotTorn'
    <3>1. pri'.hdr = None
      BY <1>25 DEF WriteBehind, DiskType, Copies
    <3>2. QED
      BY <1>25, <3>1 DEF WriteBehind, NotTorn, ReadCopy
  <2>2. ASSUME NEW d \in Clients PROVE AtWork(d)'
    BY <1>25, <2>2, ClientsAssumption DEF WriteBehind, WriteInv
  <2>3. QED
    BY <2>1, <2>2
<1>26. QED
  BY <1>0, <1>1, <1>2, <1>3, <1>4, <1>5, <1>6, <1>7, <1>8, <1>9, <1>10, <1>11, <1>12, <1>13,
     <1>14, <1>15, <1>16, <1>17, <1>18, <1>19, <1>20, <1>21, <1>22, <1>23, <1>24, <1>25 DEF
     Next, Step, WriteInv

\* WriteInv holds while nobody has called anything.
LEMMA WriteInit == "wipe" \notin Ops /\ Init => WriteInv
  BY ClientsAssumption DEF Init, WriteInv, LockHolder, NotTorn, AtWork, Locked, InMBR

\* At any moment at most one call is between flock and close, and whoever holds
\* the lock is in such a call: no error path and no death leaves it locked.
THEOREM LockCorrect == Spec => []LockHolder
<1>1. Init => LockHolder
  BY ClientsAssumption DEF Init, LockHolder, Locked
<1>2. QED
  BY <1>1, LockStep, TypeCorrect, PTL DEF Spec

\* WriteInv is an invariant as long as nobody wipes the disk.
LEMMA WriteCorrect == "wipe" \notin Ops => (Spec => []WriteInv)
<1> SUFFICES ASSUME "wipe" \notin Ops PROVE Spec => []WriteInv
  OBVIOUS
<1>1. TypeOK /\ WriteInv /\ [Next]_vars => WriteInv'
  BY WriteStep
<1>2. Init => WriteInv
  BY WriteInit
<1>3. QED
  BY <1>1, <1>2, TypeCorrect, PTL DEF Spec

\* Without Wipe, what a call is about to write agrees with the disk's table in
\* every slot the call does not name: the read under the lock is never stale.
THEOREM HolderAgreesCorrect == "wipe" \notin Ops => (Spec => []HolderAgrees)
<1> SUFFICES ASSUME "wipe" \notin Ops PROVE Spec => []HolderAgrees
  OBVIOUS
<1>1. TypeOK /\ WriteInv => HolderAgrees
  <2> SUFFICES ASSUME TypeOK, WriteInv, NEW c \in Clients,
                      pc[c] \in {"zero", "mbr", "pri"}, ~InMBR(c)
               PROVE  Agrees(c)
    BY DEF HolderAgrees
  <2>1. CASE fresh[c]
    BY <2>1 DEF WriteInv, AtWork, Agrees, At, EmptyTable
  <2>2. CASE ~fresh[c]
    BY <2>2 DEF WriteInv, AtWork
  <2>3. QED
    BY <2>1, <2>2 DEF TypeOK, WorkType
<1>2. QED
  BY <1>1, TypeCorrect, WriteCorrect, PTL

\* The table changes in the step of the lock's holder that publishes it, and only
\* in slots the holder was asked for, where no delete writes behind an MBR.
LEMMA OnlyRequestedSlots ==
  ASSUME TypeOK, WriteInv, [Next]_vars, \A c \in Clients : pc[c] # "behind",
         NEW s \in Slots, At(committed', s) # At(committed, s)
  PROVE  \E c \in Clients : lock = c /\ pc[c] = "pri" /\ s \in DOMAIN req[c]
<1>1. PICK c \in Clients : WritePrimary(c)
  <2>1. committed' # committed
    OBVIOUS
  <2>2. PICK c \in Clients : Scan(c) \/ Call(c) \/ Reject(c) \/ Acquire(c) \/ Step(c) \/ Fault(c)
    BY <2>1 DEF Next, vars, hist
  <2>3. pc[c] \notin {"behind", "wipe", "wipelast", "wipeparts"}
    BY DEF WriteInv, AtWork
  <2>4. ~(WriteBehind(c) \/ WipeFirst(c) \/ WipeLast(c) \/ WipePart(c))
    BY <2>3 DEF WriteBehind, WipeFirst, WipeLast, WipePart
  <2>5. Step(c) => WritePrimary(c)
    BY <2>1, <2>4 DEF Step, disk, hist, AddGPT, AddMBR, Update, DeleteGPT, DeleteMBR, Zero, WriteDos,
       WriteProtectiveMBR, WriteBackup, Check, AddPart, DelPart, Sync, Uevent, Fail, End
  <2>6. QED
    BY <2>1, <2>2, <2>5 DEF hist, Scan, Call, Reject, Acquire, Fault
<1>2. pc[c] = "pri" /\ lock = c
  BY <1>1 DEF WritePrimary, WriteInv, LockHolder, Locked
<1>3. committed' \in {committed, mem[c]}
  <2>1. PICK h \in left[c] : pri' = [pri EXCEPT ![h] = mem[c]]
    BY <1>1 DEF WritePrimary
  <2>2. pri \in Copies /\ mem[c] \in Tables /\ h \in Halves
    BY DEF TypeOK, DiskType, WorkType
  <2>3. ReadCopy(pri') \in {None, Torn, mem[c]} /\ (ReadCopy(pri') = None => ReadCopy(pri) = None)
    BY <2>1, <2>2, HalfWritten
  <2>4. QED
    BY <1>1, <2>3, NoneAssumption DEF WritePrimary, WriteInv, NotTorn
<1>4. mem[c] \in Tables /\ mem[c] \notin NoTable
  BY NoneAssumption, TornAssumption DEF TypeOK, WorkType
<1>5. CASE fresh[c]
  BY <1>2, <1>3, <1>4, <1>5 DEF WriteInv, AtWork, At, EmptyTable
<1>6. CASE ~fresh[c]
  <2>1. Agrees(c)
    BY <1>2, <1>6 DEF WriteInv, AtWork
  <2>2. QED
    BY <1>2, <1>3, <1>4, <2>1 DEF Agrees, At
<1>7. QED
  BY <1>5, <1>6 DEF TypeOK, WorkType
=============================================================================
