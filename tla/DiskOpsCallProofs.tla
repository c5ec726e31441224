-------------------------- MODULE DiskOpsCallProofs -------------------------
(***************************************************************************)
(* More theorems about DiskOps, for any number of clients, any partition   *)
(* numbers, disk size, types, requests and number of faults.  The first    *)
(* part is about what a call leaves of the disk's contents and of the two  *)
(* copies of the table.  The second is about a disk that has a table at    *)
(* first and that nobody wipes: success means it is done, the kernel's     *)
(* partitions are those of the table, and calls look as if each had worked *)
(* on the table in one piece.                                              *)
(***************************************************************************)
EXTENDS DiskOpsProofs, DiskOpsRefinement

USE DEF NoTable

\* the steps of one client
Turn(c) == Scan(c) \/ Call(c) \/ Reject(c) \/ Acquire(c) \/ Step(c) \/ Fault(c)

\* client d is where it was
Same(d) ==
  /\ pc'[d] = pc[d] /\ op'[d] = op[d] /\ req'[d] = req[d]
  /\ snap'[d] = snap[d] /\ mem'[d] = mem[d] /\ todo'[d] = todo[d]
  /\ left'[d] = left[d] /\ fresh'[d] = fresh[d] /\ res'[d] = res[d]

Wiping == {"wipe", "wipelast", "wipeparts"}

\* A client's step changes nothing of another client.
LEMMA Frame ==
  ASSUME TypeOK, NEW c \in Clients, Turn(c), NEW d \in Clients, d # c
  PROVE  Same(d)
<1> USE DEF TypeOK, CallType, WorkType, Same, End, Fail, GoTo, Loop, HalfDone, WriteGPT
<1>1. CASE Scan(c)
  BY <1>1 DEF Scan
<1>2. CASE Call(c)
  BY <1>2 DEF Call
<1>3. CASE Reject(c)
  BY <1>3 DEF Reject
<1>4. CASE Acquire(c)
  BY <1>4 DEF Acquire
<1>5. CASE AddGPT(c)
  BY <1>5 DEF AddGPT
<1>6. CASE AddMBR(c)
  BY <1>6 DEF AddMBR
<1>7. CASE Update(c)
  BY <1>7 DEF Update
<1>8. CASE DeleteGPT(c)
  BY <1>8 DEF DeleteGPT
<1>9. CASE DeleteMBR(c)
  BY <1>9 DEF DeleteMBR
<1>10. CASE Zero(c)
  BY <1>10 DEF Zero
<1>11. CASE WriteDos(c)
  BY <1>11 DEF WriteDos
<1>12. CASE WriteProtectiveMBR(c)
  BY <1>12 DEF WriteProtectiveMBR
<1>24. CASE WriteBehind(c)
  BY <1>24 DEF WriteBehind
<1>13. CASE WritePrimary(c)
  BY <1>13 DEF WritePrimary
<1>14. CASE WriteBackup(c)
  BY <1>14 DEF WriteBackup
<1>15. CASE Check(c)
  BY <1>15 DEF Check
<1>16. CASE AddPart(c)
  BY <1>16 DEF AddPart
<1>17. CASE DelPart(c)
  BY <1>17 DEF DelPart
<1>18. CASE Sync(c)
  BY <1>18 DEF Sync
<1>19. CASE Uevent(c)
  BY <1>19 DEF Uevent
<1>20. CASE WipeFirst(c)
  BY <1>20 DEF WipeFirst
<1>21. CASE WipeLast(c)
  BY <1>21 DEF WipeLast
<1>22. CASE WipePart(c)
  BY <1>22 DEF WipePart
<1>23. CASE Fault(c)
  BY <1>23 DEF Fault
<1> QED
  BY <1>1, <1>2, <1>3, <1>4, <1>5, <1>6, <1>7, <1>8, <1>9, <1>10, <1>11, <1>12, <1>13, <1>14,
     <1>15, <1>16, <1>17, <1>18, <1>19, <1>20, <1>21, <1>22, <1>23, <1>24 DEF Turn, Step

\* Only who holds the lock, or wipes, changes the disk, the kernel's partitions or
\* what they are compared with.
LEMMA OutsideLock ==
  ASSUME TypeOK, NEW c \in Clients, Turn(c), pc[c] \notin Locked, pc[c] \notin Wiping
  PROVE  UNCHANGED <<disk, kern, hist>>
<1> USE DEF disk, hist, Locked, Wiping, Fail
<1>1. CASE Scan(c) \/ Call(c) \/ Reject(c) \/ Acquire(c) \/ Fault(c)
  BY <1>1 DEF Scan, Call, Reject, Acquire, Fault
<1>2. CASE Uevent(c)
  BY <1>2 DEF Uevent, End
<1> QED
  BY <1>1, <1>2 DEF Turn, Step, AddGPT, AddMBR, Update, DeleteGPT, DeleteMBR, Zero, WriteDos, WriteBehind,
     WriteProtectiveMBR, WritePrimary, WriteBackup, Check, AddPart, DelPart, Sync, WipeFirst,
     WipeLast, WipePart

\* While a client holds the lock the others leave the disk and the kernel alone,
\* unless one of them wipes.
LEMMA Undisturbed ==
  ASSUME TypeOK, LockHolder, NEW c \in Clients, Turn(c), pc[c] \notin Wiping,
         NEW d \in Clients, d # c, pc[d] \in Locked
  PROVE  Same(d) /\ UNCHANGED <<disk, kern, hist>>
<1>1. pc[c] \notin Locked
  BY DEF LockHolder
<1> QED
  BY <1>1, Frame, OutsideLock

\* Nobody touches the kernel's partitions without the lock, not even a Wipe.
LEMMA KernelOutsideLock ==
  ASSUME TypeOK, NEW c \in Clients, Turn(c), pc[c] \notin Locked
  PROVE  UNCHANGED kern
<1>1. CASE pc[c] \in Wiping
  BY <1>1 DEF Turn, Step, Locked, Wiping, Scan, Call, Reject, Acquire, Fault, AddGPT, AddMBR,
     Update, DeleteGPT, DeleteMBR, Zero, WriteDos, WriteBehind, WriteProtectiveMBR, WritePrimary,
     WriteBackup, Check, AddPart, DelPart, Sync, Uevent, WipeFirst, WipeLast, WipePart, Fail
<1> QED
  BY <1>1, OutsideLock
-----------------------------------------------------------------------------
(* What a call is doing where: TypeOK's ControlType in full. *)

\* what a client has asked for
Asked(c) ==
  /\ op[c] = "create" => \A s \in DOMAIN req[c] :
       /\ req[c][s].type \in Types /\ req[c][s].start >= 1
       /\ InMBR(c) \/ req[c][s].last <= LastBlock
  /\ op[c] = "update" => \A s \in DOMAIN req[c] : req[c][s].type \in UpdateTypes
  /\ op[c] = "delete" => \A s \in DOMAIN req[c] : req[c][s] = None

\* which calls can be at which place
Placed(c) ==
  /\ pc[c] = "idle" => op[c] = "none"
  /\ pc[c] # "idle" => snap[c] # None
  /\ pc[c] = "zero" => op[c] = "create"
  /\ pc[c] = "dos" => op[c] = "create"
  /\ pc[c] = "behind" => op[c] = "delete"
  /\ pc[c] \in {"mbr", "pri", "bak", "check", "sync"} => op[c] \in {"create", "update", "delete"}
  /\ pc[c] = "kernel" => IsDevice /\ op[c] \in {"create", "delete"}
  /\ pc[c] = "uevent" => IsDevice /\ op[c] \in {"create", "update"}
  /\ pc[c] \in Wiping => op[c] = "wipe"
  /\ fresh[c] => op[c] = "create"

\* the partitions whose change a call has told the kernel
Told(c) == CASE pc[c] = "kernel"                                    -> DOMAIN req[c] \ todo[c]
             [] pc[c] = "sync" /\ IsDevice /\ op[c] # "update" -> DOMAIN req[c]
             [] OTHER                                               -> {}
Knows(c) ==
  \A s \in Told(c) : kern[s] = IF op[c] = "create" THEN Extent(req[c][s]) ELSE None

PlaceInv == \A c \in Clients : Asked(c) /\ Placed(c) /\ Knows(c)

\* What callers pass has the form of its call.
LEMMA RequestsAsked ==
  ASSUME NEW o \in Ops, NEW d, NEW r \in Requests(o, d)
  PROVE  /\ o = "create" => \A s \in DOMAIN r : r[s].type \in Types
         /\ o = "update" => \A s \in DOMAIN r : r[s].type \in UpdateTypes
         /\ o = "delete" => \A s \in DOMAIN r : r[s] = None
<1>1. CASE o = "create"
  BY <1>1 DEF Requests, NewParts
<1>2. CASE o = "update"
  BY <1>2 DEF Requests
<1>3. CASE o = "delete"
  BY <1>3 DEF Requests
<1> QED
  BY <1>1, <1>2, <1>3

\* A call that ends is nowhere.
LEMMA EndPlaced ==
  ASSUME TypeOK, NEW c \in Clients, NEW r, End(c, r)
  PROVE  Asked(c)' /\ Placed(c)' /\ Knows(c)'
  BY DEF TypeOK, CallType, WorkType, End, Asked, Placed, Knows, Told, Wiping, InMBR

\* A client that takes a step is at a place of its own call afterwards: one case per action.
LEMMA PlacedStep ==
  ASSUME TypeOK, LockHolder, PlaceInv, NEW c \in Clients, Turn(c)
  PROVE  Asked(c)' /\ Placed(c)' /\ Knows(c)'
<1> USE EndPlaced DEF TypeOK, CallType, WorkType, KernelType, ControlType, PlaceInv, Asked, Placed,
        Knows, Told, Wiping, Fail, GoTo, Loop, HalfDone, WriteGPT, KernelLabel, InMBR
<1>1. CASE Scan(c)
  BY <1>1 DEF Scan
<1>2. CASE Call(c)
  <2>1. PICK o \in Ops : \E r \in Requests(o, snap[c]) :
          /\ o = "create" => RangeCheck(snap[c], r)
          /\ op' = [op EXCEPT ![c] = o]
          /\ req' = [req EXCEPT ![c] = r]
          /\ pc' = [pc EXCEPT ![c] = IF o = "wipe" THEN "wipe" ELSE "lock"]
    BY <1>2 DEF Call
  <2>2. PICK r \in Requests(o, snap[c]) :
          (o = "create" => RangeCheck(snap[c], r)) /\ op'[c] = o /\ req'[c] = r
    BY <2>1
  <2>3. Asked(c)'
    BY <1>2, <2>2, RequestsAsked DEF RangeCheck, Call
  <2>4. Placed(c)' /\ Knows(c)'
    BY <1>2, <2>1 DEF Call
  <2> QED
    BY <2>3, <2>4
<1>3. CASE Reject(c)
  BY <1>3 DEF Reject
<1>4. CASE Acquire(c)
  BY <1>4 DEF Acquire
<1>5. CASE AddGPT(c)
  BY <1>5 DEF AddGPT
<1>6. CASE AddMBR(c)
  BY <1>6 DEF AddMBR
<1>7. CASE Update(c)
  BY <1>7 DEF Update
<1>8. CASE DeleteGPT(c)
  BY <1>8 DEF DeleteGPT
<1>9. CASE DeleteMBR(c)
  BY <1>9 DEF DeleteMBR
<1>10. CASE Zero(c)
  BY <1>10 DEF Zero
<1>11. CASE WriteDos(c)
  BY <1>11 DEF WriteDos
<1>24. CASE WriteBehind(c)
  BY <1>24 DEF WriteBehind
<1>12. CASE WriteProtectiveMBR(c)
  BY <1>12 DEF WriteProtectiveMBR
<1>13. CASE WritePrimary(c)
  BY <1>13 DEF WritePrimary
<1>14. CASE WriteBackup(c)
  BY <1>14 DEF WriteBackup
<1>15. CASE Check(c)
  BY <1>15 DEF Check
<1>16. CASE AddPart(c)
  <2>1. CASE End(c, "err")
    BY <2>1
  <2>2. ASSUME NEW s \in todo[c], kern' = [kern EXCEPT ![s] = Extent(req[c][s])], Loop(c, s, "sync"),
               UNCHANGED <<op, req, snap, fresh>>
        PROVE  Asked(c)' /\ Placed(c)' /\ Knows(c)'
    <3>1. Asked(c)' /\ Placed(c)'
      BY <1>16, <2>2 DEF AddPart
    <3>2. \A t \in DOMAIN req[c] \ (todo[c] \ {s}) : kern'[t] =
            IF op[c] = "create" THEN Extent(req[c][t]) ELSE None
      BY <1>16, <2>2 DEF AddPart, IsPartitionSet
    <3> QED
      BY <1>16, <2>2, <3>1, <3>2 DEF AddPart
  <2> QED
    BY <1>16, <2>1, <2>2 DEF AddPart
<1>17. CASE DelPart(c)
  <2>1. CASE End(c, "err")
    BY <2>1
  <2>2. ASSUME NEW s \in todo[c], kern' = [kern EXCEPT ![s] = None], Loop(c, s, "sync"),
               UNCHANGED <<op, req, snap, fresh>>
        PROVE  Asked(c)' /\ Placed(c)' /\ Knows(c)'
    <3>1. Asked(c)' /\ Placed(c)'
      BY <1>17, <2>2 DEF DelPart
    <3>2. \A t \in DOMAIN req[c] \ (todo[c] \ {s}) : kern'[t] =
            IF op[c] = "create" THEN Extent(req[c][t]) ELSE None
      BY <1>17, <2>2 DEF DelPart, IsPartitionSet
    <3> QED
      BY <1>17, <2>2, <3>1, <3>2 DEF DelPart
  <2> QED
    BY <1>17, <2>1, <2>2 DEF DelPart
<1>18. CASE Sync(c)
  BY <1>18 DEF Sync
<1>19. CASE Uevent(c)
  BY <1>19 DEF Uevent
<1>20. CASE WipeFirst(c)
  BY <1>20 DEF WipeFirst
<1>21. CASE WipeLast(c)
  BY <1>21 DEF WipeLast
<1>22. CASE WipePart(c)
  BY <1>22 DEF WipePart
<1>23. CASE Fault(c)
  BY <1>23 DEF Fault
<1> QED
  BY <1>1, <1>2, <1>3, <1>4, <1>5, <1>6, <1>7, <1>8, <1>9, <1>10, <1>11, <1>12, <1>13, <1>14,
     <1>15, <1>16, <1>17, <1>18, <1>19, <1>20, <1>21, <1>22, <1>23, <1>24 DEF Turn, Step

\* Every call is at a place of its own, asks for what it may ask for, and has told the
\* kernel what it thinks it has.
LEMMA PlaceCorrect == Spec => []PlaceInv
<1>1. Init => PlaceInv
  BY DEF Init, PlaceInv, Asked, Placed, Knows, Told, Wiping
<1>2. TypeOK /\ LockHolder /\ PlaceInv /\ [Next]_vars => PlaceInv'
  <2> SUFFICES ASSUME TypeOK, LockHolder, PlaceInv, [Next]_vars, NEW d \in Clients
               PROVE  Asked(d)' /\ Placed(d)' /\ Knows(d)'
    BY DEF PlaceInv
  <2>1. CASE UNCHANGED vars
    BY <2>1 DEF PlaceInv, Asked, Placed, Knows, Told, InMBR, vars, client
  <2>2. ASSUME NEW c \in Clients, Turn(c), d # c
        PROVE  Asked(d)' /\ Placed(d)' /\ Knows(d)'
    <3>1. Same(d)
      BY <2>2, Frame
    <3>2. pc[d] \in {"kernel", "sync"} => UNCHANGED kern
      BY <2>2, KernelOutsideLock DEF LockHolder, Locked
    <3>3. Asked(d)' /\ Placed(d)'
      BY <3>1 DEF PlaceInv, Asked, Placed, InMBR, Same
    <3>4. Knows(d)'
      BY <3>1, <3>2 DEF PlaceInv, Knows, Told, Same
    <3> QED
      BY <3>3, <3>4
  <2>3. ASSUME NEW c \in Clients, Turn(c) PROVE Asked(d)' /\ Placed(d)' /\ Knows(d)'
    BY <2>2, <2>3, PlacedStep
  <2> QED
    BY <2>1, <2>3 DEF Next, Turn
<1> QED
  BY <1>1, <1>2, TypeCorrect, LockCorrect, PTL DEF Spec
-----------------------------------------------------------------------------
(* The contents of the disk. *)

\* A byte range that zeroStartEnd has zeroed stays zero.
LEMMA ZeroStays ==
  ASSUME TypeOK, NEW c \in Clients, Turn(c), NEW b \in Blocks, data[b] = "zero"
  PROVE  data'[b] = "zero"
<1>1. CASE Zero(c)
  BY <1>1 DEF Zero, Fail, disk, Zeroed
<1>2. CASE WipeFirst(c)
  BY <1>2 DEF WipeFirst
<1>3. CASE WipePart(c)
  BY <1>3 DEF WipePart, Fail, disk, Zeroed
<1>4. CASE ~(Zero(c) \/ WipeFirst(c) \/ WipePart(c))
  <2>1. UNCHANGED data
    BY <1>4 DEF Turn, Step, Scan, Call, Reject, Acquire, Fault, AddGPT, AddMBR, Update, DeleteGPT,
       DeleteMBR, WriteDos, WriteBehind, WriteProtectiveMBR, WritePrimary, WriteBackup, Check, AddPart,
       DelPart, Sync, Uevent, WipeLast, Fail, disk
  <2> QED
    BY <2>1
<1> QED
  BY <1>1, <1>2, <1>3, <1>4

\* an entry that was there at first, or whose ends are zero in the data d
CleanEntry(p, d) ==
  \/ Extent(p) \in {None} \cup {Extent(InitTable[u]) : u \in Slots}
  \/ \A b \in ZeroedBlocks(p) : b \in Blocks /\ d[b] = "zero"
Clean(t, d) == t # None => \A s \in Slots : CleanEntry(t[s], d)

\* Everything on the way to the primary copy is clean, in the order the code zeroes
\* and writes.
CleanInv ==
  /\ Clean(committed, data) /\ Clean(pri.hdr, data) /\ Clean(pri.ents, data)
  /\ \A c \in Clients :
       /\ pc[c] = "zero" /\ ~InMBR(c) => Clean(mem[c], data)
       /\ pc[c] \in {"mbr", "pri"} => Clean(mem[c], data)

\* What is clean stays clean.
LEMMA CleanStays ==
  ASSUME TypeOK, NEW c \in Clients, Turn(c)
  PROVE  /\ \A p : CleanEntry(p, data) => CleanEntry(p, data')
         /\ \A t : Clean(t, data) => Clean(t, data')
<1>1. \A p : CleanEntry(p, data) => CleanEntry(p, data')
  BY ZeroStays DEF CleanEntry
<1> QED
  BY <1>1 DEF Clean

\* The next client state of whoever takes a step keeps CleanInv: one case per action.
LEMMA CleanOwn ==
  ASSUME TypeOK, PlaceInv, CleanInv, NEW c \in Clients, Turn(c)
  PROVE  /\ pc'[c] = "zero" /\ ~InMBR(c)' => Clean(mem'[c], data')
         /\ pc'[c] \in {"mbr", "pri"} => Clean(mem'[c], data')
<1>1. Clean(mem[c], data) /\ mem'[c] = mem[c] => Clean(mem'[c], data')
  BY CleanStays
<1>2. mem'[c] = EmptyTable => Clean(mem'[c], data')
  BY DEF Clean, CleanEntry, EmptyTable, Extent
<1>3. mem'[c] = ReadCopy(pri) /\ ReadCopy(pri) \notin NoTable => Clean(mem'[c], data')
  BY CleanStays DEF CleanInv, ReadCopy
<1> USE <1>1, <1>2, <1>3 DEF TypeOK, CallType, WorkType, KernelType, CleanInv, InMBR, End, Fail, GoTo, Loop,
        HalfDone, WriteGPT, KernelLabel
<1>11. CASE Scan(c)
  BY <1>11 DEF Scan
<1>12. CASE Call(c)
  BY <1>12 DEF Call
<1>13. CASE Reject(c)
  BY <1>13 DEF Reject
<1>14. CASE Acquire(c)
  BY <1>14 DEF Acquire, ControlType
<1>15. CASE AddGPT(c)
  BY <1>15 DEF AddGPT, ReadTable
<1>16. CASE AddMBR(c)
  BY <1>16 DEF AddMBR
<1>17. CASE Update(c)
  <2>1. CASE pc'[c] = "mbr"
    <3> DEFINE table == ReadTable(c)
               set   == Retype(table, req[c])
    <3>1. /\ table \notin NoTable /\ mem'[c] = Merge(table, set)
      BY <1>17, <2>1 DEF Update
    <3>2. table = pri.ents /\ table # None
      BY <3>1 DEF ReadTable, ReadCopy
    <3>3. ASSUME NEW s \in Slots PROVE CleanEntry(mem'[c][s], data')
      <4>1. CleanEntry(table[s], data')
        BY <3>2, CleanStays DEF Clean
      <4>2. \/ mem'[c][s] = None
            \/ mem'[c][s].start = table[s].start /\ mem'[c][s].last = table[s].last
               /\ table[s] # None /\ mem'[c][s] # None
            \/ mem'[c][s] = table[s]
        <5>1. CASE s \in DOMAIN req[c]
          <6>1. table[s] # None
            BY <1>17, <2>1, <3>1, <5>1 DEF Update, At
          <6>2. mem'[c][s] = Entry([start |-> table[s].start, last |-> table[s].last,
                                     type |-> req[c][s].type])
            BY <3>1, <5>1 DEF Merge, Retype
          <6> QED
            BY <6>1, <6>2 DEF Entry
        <5>2. CASE s \notin DOMAIN req[c]
          BY <3>1, <5>2 DEF Merge, Retype
        <5> QED
          BY <5>1, <5>2
      <4> QED
        BY <4>1, <4>2 DEF CleanEntry, Extent, ZeroedBlocks
    <3> QED
      BY <3>3 DEF Clean
  <2>2. CASE pc'[c] # "mbr"
    BY <1>17, <2>2 DEF Update
  <2> QED
    BY <2>1, <2>2
<1>18. CASE DeleteGPT(c)
  <2>1. CASE pc'[c] = "mbr"
    <3>1. /\ ReadTable(c) \notin NoTable /\ mem'[c] = Merge(ReadTable(c), req[c])
          /\ \A s \in DOMAIN req[c] : req[c][s] = None
      BY <1>18, <2>1 DEF DeleteGPT, PlaceInv, Asked, ControlType
    <3>2. ReadTable(c) = pri.ents /\ ReadTable(c) # None
      BY <3>1 DEF ReadTable, ReadCopy
    <3>3. ASSUME NEW s \in Slots PROVE CleanEntry(mem'[c][s], data')
      <4>1. CleanEntry(ReadTable(c)[s], data')
        BY <3>2, CleanStays DEF Clean
      <4>2. mem'[c][s] = None \/ mem'[c][s] = ReadTable(c)[s]
        BY <3>1 DEF Merge, Entry
      <4> QED
        BY <4>1, <4>2 DEF CleanEntry, Extent
    <3> QED
      BY <3>3 DEF Clean
  <2>2. CASE pc'[c] # "mbr"
    BY <1>18, <2>2 DEF DeleteGPT
  <2> QED
    BY <2>1, <2>2
<1>19. CASE DeleteMBR(c)
  BY <1>19 DEF DeleteMBR
<1>20. CASE Zero(c)
  <2>0. CASE End(c, "err")
    BY <2>0
  <2>1. ASSUME NEW n \in todo[c], ~InMBR(c), req[c][n].last >= req[c][n].start,
               mem' = [mem EXCEPT ![c] = Merge(@, [u \in {n} |-> req[c][u]])],
               data' = Zeroed(req[c][n])
        PROVE  Clean(mem'[c], data')
    <3>1. ASSUME NEW s \in Slots PROVE CleanEntry(mem'[c][s], data')
      <4>1. CASE s # n
        <5>1. mem'[c][s] = mem[c][s] /\ mem[c] # None
          BY <2>1, <4>1, NoneAssumption DEF Merge
        <5>2. CleanEntry(mem[c][s], data)
          BY <1>20, <2>1, <5>1 DEF Zero, Clean
        <5> QED
          BY <5>1, <5>2, CleanStays
      <4>2. CASE s = n
        <5>1. mem'[c][s] \in {None, req[c][n]}
          BY <2>1, <4>2 DEF Merge, Entry
        <5>2. /\ req[c][n] \in Parts /\ req[c][n].start >= 1
              /\ req[c][n].last <= LastBlock
          BY <1>20, <2>1, NoneAssumption DEF Zero, PlaceInv, Asked, Placed, ControlType, IsPartitionSet
        <5>3. \A b \in ZeroedBlocks(req[c][n]) : b \in Blocks /\ data'[b] = "zero"
          <6>1. ZeroedBlocks(req[c][n]) \subseteq Blocks
            <7>1. req[c][n].start \in Nat /\ req[c][n].last \in Nat /\ LastBlock \in Nat
              BY <5>2, ExtentsAssumption DEF Parts
            <7>2. req[c][n].start \in 1..LastBlock /\ req[c][n].last \in 1..LastBlock
              BY <2>1, <5>2, <7>1
            <7> QED
              BY <7>2 DEF ZeroedBlocks, Blocks
          <6> QED
            BY <2>1, <6>1 DEF Zeroed
        <5> QED
          BY <5>1, <5>3 DEF CleanEntry, Extent, ZeroedBlocks
      <4> QED
        BY <4>1, <4>2
    <3> QED
      BY <3>1 DEF Clean
  <2> QED
    BY <1>20, <2>0, <2>1 DEF Zero
<1>21. CASE WriteDos(c)
  BY <1>21 DEF WriteDos
<1>34. CASE WriteBehind(c)
  BY <1>34 DEF WriteBehind
<1>22. CASE WriteProtectiveMBR(c)
  BY <1>22 DEF WriteProtectiveMBR
<1>23. CASE WritePrimary(c)
  BY <1>23 DEF WritePrimary
<1>24. CASE WriteBackup(c)
  BY <1>24 DEF WriteBackup
<1>25. CASE Check(c)
  BY <1>25 DEF Check
<1>26. CASE AddPart(c)
  BY <1>26 DEF AddPart
<1>27. CASE DelPart(c)
  BY <1>27 DEF DelPart
<1>28. CASE Sync(c)
  BY <1>28 DEF Sync
<1>29. CASE Uevent(c)
  BY <1>29 DEF Uevent
<1>30. CASE WipeFirst(c)
  BY <1>30 DEF WipeFirst
<1>31. CASE WipeLast(c)
  BY <1>31 DEF WipeLast
<1>32. CASE WipePart(c)
  BY <1>32 DEF WipePart
<1>33. CASE Fault(c)
  BY <1>33 DEF Fault
<1> QED
  BY <1>11, <1>12, <1>13, <1>14, <1>15, <1>16, <1>17, <1>18, <1>19, <1>20, <1>21, <1>22, <1>23, <1>24, <1>25, <1>26, <1>27, <1>28, <1>29, <1>30, <1>31, <1>32, <1>33,
     <1>34 DEF Turn, Step

\* Nobody but writeGPTTable writes to the primary copy, except to take it away: a Wipe does,
\* and a delete on an MBR does without meaning to.
LEMMA Erased ==
  ASSUME TypeOK, NEW c \in Clients, Turn(c), ~WritePrimary(c), ~UNCHANGED <<pri, committed>>
  PROVE  /\ committed' = None /\ pri'.hdr = None /\ pri'.ents \in {None, pri.ents}
         /\ pc[c] \in {"wipe", "wipeparts", "behind"}
<1>1. WipeFirst(c) \/ WipePart(c) \/ WriteBehind(c)
  <2>1. ~Zero(c)
    BY DEF Zero, Fail, disk, hist
  <2>2. ~Check(c) /\ ~AddPart(c) /\ ~DelPart(c)
    <3>1. ~Check(c)
      BY DEF Check, Fail, disk, hist
    <3>2. ~AddPart(c)
      BY DEF AddPart, Fail, disk, hist
    <3>3. ~DelPart(c)
      BY DEF DelPart, Fail, disk, hist
    <3> QED
      BY <3>1, <3>2, <3>3
  <2>4. ~Sync(c)
    BY DEF Sync, disk
  <2>5. ~Uevent(c)
    <3>1. Uevent(c) => UNCHANGED <<disk, hist>>
      BY DEF Uevent, Fail
    <3> QED
      BY <3>1 DEF disk, hist
  <2>6. ~(Scan(c) \/ Call(c) \/ Reject(c) \/ Acquire(c) \/ Fault(c))
    <3>1. Scan(c) \/ Call(c) \/ Reject(c) \/ Acquire(c) \/ Fault(c) => UNCHANGED <<disk, hist>>
      BY DEF Scan, Call, Reject, Acquire, Fault
    <3> QED
      BY <3>1 DEF disk, hist
  <2>7. ~WriteDos(c) /\ ~WriteProtectiveMBR(c) /\ ~WriteBackup(c) /\ ~WipeLast(c)
    BY DEF WriteDos, WriteProtectiveMBR, WriteBackup, WipeLast, hist
  <2>3. ~(AddGPT(c) \/ AddMBR(c) \/ Update(c) \/ DeleteGPT(c) \/ DeleteMBR(c))
    BY DEF AddGPT, AddMBR, Update, DeleteGPT, DeleteMBR, Fail, disk, hist
  <2> QED
    BY <2>1, <2>2, <2>3, <2>4, <2>5, <2>6, <2>7 DEF Turn, Step
<1>2. CASE WipeFirst(c) \/ WipePart(c)
  <2>1. pc[c] \in {"wipe", "wipeparts"}
    BY <1>2 DEF WipeFirst, WipePart
  <2>2. pri' = NoCopy /\ committed' = None
    <3>1. CASE WipeFirst(c)
      BY <3>1 DEF WipeFirst
    <3>2. CASE WipePart(c)
      <4>1. ~(Fail(c) \/ UNCHANGED <<kern, faults, hist, disk>>)
        BY DEF Fail, hist, disk
      <4> QED
        BY <3>2, <4>1 DEF WipePart
    <3> QED
      BY <1>2, <3>1, <3>2
  <2> QED
    BY <2>1, <2>2 DEF NoCopy
<1>3. CASE WriteBehind(c)
  BY <1>3 DEF WriteBehind, TypeOK, DiskType, Copies
<1> QED
  BY <1>1, <1>2, <1>3

\* The disk's own part of CleanInv: a half of the primary copy is written from a table
\* that is clean.
LEMMA CleanDisk ==
  ASSUME TypeOK, CleanInv, NEW c \in Clients, Turn(c)
  PROVE  Clean(committed', data') /\ Clean(pri'.hdr, data') /\ Clean(pri'.ents, data')
<1>0. pri \in Copies /\ mem[c] \in Tables
  BY DEF TypeOK, DiskType, WorkType
<1>1. CASE WritePrimary(c)
  <2>1. PICK h \in left[c] : pri' = [pri EXCEPT ![h] = mem[c]]
    BY <1>1 DEF WritePrimary
  <2>2. Clean(pri'.hdr, data') /\ Clean(pri'.ents, data')
    BY <1>0, <1>1, <2>1, CleanStays DEF WritePrimary, CleanInv, Copies, TypeOK, WorkType, Halves
  <2>3. committed' \in {committed, None, pri'.ents}
    BY <1>1 DEF WritePrimary, ReadCopy
  <2> QED
    BY <2>2, <2>3, CleanStays DEF CleanInv, Clean
<1>2. CASE UNCHANGED <<pri, committed>>
  BY <1>2, CleanStays DEF CleanInv
<1>3. CASE ~WritePrimary(c) /\ ~UNCHANGED <<pri, committed>>
  <2>1. committed' = None /\ pri'.hdr = None /\ pri'.ents \in {None, pri.ents}
    BY <1>0, <1>3, Erased DEF Copies
  <2> QED
    BY <2>1, CleanStays DEF CleanInv, Clean
<1> QED
  BY <1>1, <1>2, <1>3

\* CleanInv is an invariant, whatever fails and whoever wipes.
LEMMA CleanCorrect == Spec => []CleanInv
<1>1. Init => CleanInv
  <2> SUFFICES ASSUME Init PROVE CleanInv
    OBVIOUS
  <2>1. Clean(InitTable, data) /\ Clean(None, data)
    BY DEF Clean, CleanEntry
  <2>2. pri.hdr \in {InitTable, None} /\ pri.ents \in {InitTable, None}
    BY DEF Init
  <2>3. committed \in {InitTable, None}
    BY <2>2 DEF Init, ReadCopy
  <2> QED
    BY <2>1, <2>2, <2>3 DEF Init, CleanInv
<1>2. TypeOK /\ PlaceInv /\ CleanInv /\ [Next]_vars => CleanInv'
  <2> SUFFICES ASSUME TypeOK, PlaceInv, CleanInv, [Next]_vars PROVE CleanInv'
    OBVIOUS
  <2>1. CASE UNCHANGED vars
    BY <2>1 DEF CleanInv, Clean, CleanEntry, InMBR, vars, client, disk, hist
  <2>2. ASSUME NEW c \in Clients, Turn(c) PROVE CleanInv'
    <3>1. ASSUME NEW d \in Clients, d # c
          PROVE  /\ pc'[d] = "zero" /\ ~InMBR(d)' => Clean(mem'[d], data')
                 /\ pc'[d] \in {"mbr", "pri"} => Clean(mem'[d], data')
      BY <2>2, <3>1, Frame, CleanStays DEF Same, CleanInv, InMBR
    <3> QED
      BY <2>2, <3>1, CleanDisk, CleanOwn DEF CleanInv
  <2> QED
    BY <2>1, <2>2 DEF Next, Turn
<1> QED
  BY <1>1, <1>2, TypeCorrect, PlaceCorrect, PTL DEF Spec

\* A partition that readers see, other than those of the first table, had its first and
\* last block zeroed before: in every interleaving, after every failure, next to a Wipe.
THEOREM ZeroedBeforeVisibleCorrect == Spec => []ZeroedBeforeVisible
<1>1. CleanInv => ZeroedBeforeVisible
  BY DEF CleanInv, Clean, CleanEntry, ZeroedBeforeVisible
<1> QED
  BY <1>1, CleanCorrect, PTL

\* The blocks whose contents a step changes belong to what its call is about.
THEOREM OthersKeptCorrect == Spec => OthersKept
<1>1. TypeOK /\ PlaceInv /\ [Next]_vars =>
        [\A b \in Blocks : data'[b] # data[b] =>
           \E c \in Clients :
             \/ op[c] = "wipe"
             \/ /\ op[c] = "create"
                /\ \E s \in DOMAIN req[c] :
                     \/ b >= req[c][s].start /\ b <= req[c][s].last
                     \/ b \in {1, 2} /\ data'[b] = "dented" /\ req[c][s].last >= req[c][s].start + 2]_vars
  <2> SUFFICES ASSUME TypeOK, PlaceInv, NEW c \in Clients, Turn(c), NEW b \in Blocks, data'[b] # data[b]
               PROVE  \/ op[c] = "wipe"
                      \/ /\ op[c] = "create"
                         /\ \E s \in DOMAIN req[c] :
                              \/ b >= req[c][s].start /\ b <= req[c][s].last
                              \/ b \in {1, 2} /\ data'[b] = "dented"
                                   /\ req[c][s].last >= req[c][s].start + 2
    BY DEF Next, Turn
  <2>1. CASE pc[c] \in Wiping
    BY <2>1 DEF PlaceInv, Placed
  <2>2. CASE pc[c] \notin Wiping
    <3>1. Zero(c)
      BY <2>2 DEF Turn, Step, Scan, Call, Reject, Acquire, Fault, AddGPT, AddMBR, Update, DeleteGPT,
         DeleteMBR, WriteDos, WriteBehind, WriteProtectiveMBR, WritePrimary, WriteBackup, Check, AddPart,
         DelPart, Sync, Uevent, WipeFirst, WipeLast, WipePart, Fail, disk, Wiping
    <3>2. PICK s \in todo[c] : data' = Zeroed(req[c][s])
                               /\ \/ req[c][s].last >= req[c][s].start
                                  \/ /\ req[c][s].start <= LastBlock + 1
                                     /\ req[c][s].last > LastBlock + 1
      BY <3>1 DEF Zero, Fail, disk
    <3>3. op[c] = "create" /\ s \in DOMAIN req[c] /\ req[c][s] \in Parts
      BY <3>1, NoneAssumption DEF Zero, PlaceInv, Placed, TypeOK, ControlType, CallType, IsPartitionSet
    <3>4. \/ b \in ZeroedBlocks(req[c][s])
          \/ b \in DentedBlocks(req[c][s]) /\ data'[b] = "dented"
      BY <3>2 DEF Zeroed
    <3>5. req[c][s].start \in Nat /\ req[c][s].last \in Nat
      BY <3>3 DEF Parts
    <3> QED
      BY <3>2, <3>3, <3>4, <3>5, ExtentsAssumption DEF ZeroedBlocks, DentedBlocks
  <2> QED
    BY <2>1, <2>2
<1> QED
  BY <1>1, TypeCorrect, PlaceCorrect, PTL DEF Spec, OthersKept
-----------------------------------------------------------------------------
(* The two copies of the table. *)

\* a copy that holds t and can be read
Both(t) == [hdr |-> t, ents |-> t]

\* what a call that writes the copies has written of them so far
Copied(c) ==
  /\ pc[c] = "pri" =>
       /\ left[c] # {}
       /\ \A h \in Halves \ left[c] : pri[h] = mem[c]
       /\ faults = 0 => \A h \in left[c] : pri[h] = committed
  /\ pc[c] = "bak" =>
       /\ left[c] # {} /\ pri = Both(mem[c]) /\ committed = mem[c]
       /\ \A h \in Halves \ left[c] : bak[h] = mem[c]
  /\ pc[c] = "check" => pri = Both(mem[c]) /\ bak = Both(mem[c]) /\ committed = mem[c]

\* Up to the first failure both copies are whole while nobody writes, and the backup
\* is while the primary copy is written; after it one of them is.
CopiesInv ==
  faults <= 1 =>
    /\ \A c \in Clients : Copied(c)
    /\ (\A c \in Clients : pc[c] \notin {"pri", "bak"}) => committed \in {ReadCopy(pri), ReadCopy(bak)}
    /\ faults = 0 /\ (\A c \in Clients : pc[c] # "bak") => bak = Both(committed)
    /\ faults = 0 /\ (\A c \in Clients : pc[c] # "pri") => pri = Both(committed)

\* A step of a client that neither holds the lock nor wipes.
LEMMA CopiesOutside ==
  ASSUME TypeOK, CopiesInv, NEW c \in Clients, Turn(c), pc[c] \notin Locked, pc[c] \notin Wiping
  PROVE  CopiesInv'
<1>1. UNCHANGED <<pri, bak, committed>>
  BY OutsideLock DEF disk, hist
<1>2. pc'[c] \notin {"pri", "bak", "check"}
  BY DEF Turn, Step, Locked, Wiping, Scan, Call, Reject, Acquire, Fault, AddGPT, AddMBR,
     Update, DeleteGPT, DeleteMBR, Zero, WriteDos, WriteBehind, WriteProtectiveMBR, WritePrimary,
     WriteBackup, Check, AddPart, DelPart, Sync, Uevent, WipeFirst, WipeLast, WipePart,
     GoTo, End, Fail, TypeOK, CallType, ControlType
<1>3. faults' \in Nat /\ faults \in Nat /\ faults <= faults'
  <2>1. faults \in Nat
    BY OpsAssumption DEF TypeOK, KernelType
  <2>2. faults' = faults \/ faults' = faults + 1
    BY DEF Turn, Step, Locked, Wiping, Scan, Call, Reject, Acquire, Fault, AddGPT, AddMBR,
       Update, DeleteGPT, DeleteMBR, Zero, WriteDos, WriteBehind, WriteProtectiveMBR, WritePrimary,
       WriteBackup, Check, AddPart, DelPart, Sync, Uevent, WipeFirst, WipeLast, WipePart, Fail
  <2> QED
    BY <2>1, <2>2
<1>4. \A d \in Clients : pc'[d] \in {"pri", "bak", "check"} => d # c /\ Same(d)
  BY <1>2, Frame
<1>5. \A d \in Clients : pc[d] \in {"pri", "bak", "check"} => d # c /\ Same(d)
  BY Frame DEF Locked
<1> QED
  BY <1>1, <1>3, <1>4, <1>5 DEF CopiesInv, Copied, Same, ReadCopy

\* A step of the lock's holder that does not write the copies.
LEMMA CopiesUnwritten ==
  ASSUME TypeOK, LockHolder, CopiesInv, NEW c \in Clients, Turn(c), pc[c] \in Locked,
         UNCHANGED <<pri, bak, committed, faults>>, pc[c] \notin {"pri", "bak"},
         pc'[c] \notin {"pri", "bak", "check"}
  PROVE  CopiesInv'
<1>1. \A d \in Clients : d # c => pc[d] \notin Locked /\ Same(d)
  BY Frame DEF LockHolder
<1>2. \A d \in Clients : pc[d] \notin {"pri", "bak"} /\ pc'[d] \notin {"pri", "bak", "check"}
  BY <1>1 DEF Same, Locked
<1> QED
  BY <1>2 DEF CopiesInv, Copied, ReadCopy

\* Half a primary copy is written.
LEMMA CopiesPrimary ==
  ASSUME TypeOK, WriteInv, CopiesInv, NEW c \in Clients, WritePrimary(c)
  PROVE  CopiesInv'
<1> SUFFICES ASSUME faults <= 1 PROVE CopiesInv'
  BY DEF CopiesInv, WritePrimary
<1>1. Turn(c) /\ pc[c] = "pri"
  BY DEF Turn, Step, WritePrimary
<1>2. \A d \in Clients : d # c => pc[d] \notin Locked /\ Same(d)
  BY <1>1, Frame DEF WriteInv, LockHolder, Locked
<1>3. PICK h \in left[c] : pri' = [pri EXCEPT ![h] = mem[c]] /\ HalfDone(c, h, "bak")
  BY DEF WritePrimary
<1>4. /\ pri \in Copies /\ mem[c] \in Tables /\ h \in Halves /\ left[c] \subseteq Halves
      /\ mem[c] # None /\ mem[c] # Torn /\ committed # Torn
  <2>1. pri \in Copies /\ mem[c] \in Tables /\ committed \in Tables \cup {None}
    BY DEF TypeOK, DiskType, WorkType
  <2>2. left[c] \subseteq Halves /\ h \in left[c]
    BY <1>3 DEF TypeOK, WorkType
  <2> QED
    BY <2>1, <2>2, NoneAssumption, TornAssumption
<1>5. UNCHANGED <<bak, faults, mem>>
  BY DEF WritePrimary
<1>6. Copied(c)
  BY DEF CopiesInv
<1>7. CASE left[c] = {h}
  <2>1. pri' = Both(mem[c])
    BY <1>1, <1>3, <1>4, <1>6, <1>7 DEF Copied, Copies, Both, Halves
  <2>2. committed' = mem[c]
    BY <1>4, <2>1 DEF WritePrimary, ReadCopy, Both
  <2>3. pc'[c] = "bak" /\ left'[c] = Halves
    BY <1>3, <1>7 DEF HalfDone, GoTo, TypeOK, CallType, WorkType
  <2>4. \A d \in Clients : Copied(d)'
    BY <1>2, <1>5, <2>1, <2>2, <2>3 DEF Copied, Same, Locked, Halves
  <2>5. \A d \in Clients : pc'[d] # "pri"
    BY <1>2, <2>3 DEF Same, Locked
  <2> QED
    BY <2>1, <2>2, <2>3, <2>4, <2>5, <1>5 DEF CopiesInv
<1>8. CASE left[c] # {h}
  <2>1. pc'[c] = "pri" /\ left'[c] = left[c] \ {h} /\ left'[c] # {}
    BY <1>1, <1>3, <1>8 DEF HalfDone, GoTo, TypeOK, CallType, WorkType
  <2>2. \A k \in Halves \ {h} : pri'[k] = pri[k]
    BY <1>3, <1>4 DEF Copies, Halves
  <2>3. pri'[h] = mem[c]
    BY <1>3, <1>4 DEF Copies, Halves
  <2>4. faults = 0 => committed' = committed
    <3> SUFFICES ASSUME faults = 0 PROVE committed' = committed
      OBVIOUS
    <3>1. PICK k \in Halves \ {h} : k \in left[c] /\ pri[k] = committed
      BY <1>1, <1>4, <1>6, <1>8, <1>3 DEF Copied, Halves
    <3>2. pri'[k] = committed /\ pri'[h] = mem[c]
      BY <2>2, <2>3, <3>1
    <3>3. CASE h = "hdr"
      BY <1>4, <3>1, <3>2, <3>3 DEF WritePrimary, ReadCopy, Halves
    <3>4. CASE h = "ents"
      BY <1>4, <3>1, <3>2, <3>4 DEF WritePrimary, ReadCopy, Halves
    <3> QED
      BY <1>4, <3>3, <3>4 DEF Halves
  <2>5. Copied(c)'
    <3>1. \A k \in Halves \ left'[c] : pri'[k] = mem'[c]
      BY <1>1, <1>5, <1>6, <2>1, <2>2, <2>3 DEF Copied
    <3>2. faults' = 0 => \A k \in left'[c] : pri'[k] = committed'
      BY <1>1, <1>4, <1>5, <1>6, <2>1, <2>2, <2>4 DEF Copied
    <3> QED
      BY <2>1, <3>1, <3>2 DEF Copied
  <2>6. \A d \in Clients : Copied(d)'
    BY <1>2, <2>5 DEF Copied, Same, Locked
  <2>7. faults = 0 => bak' = Both(committed')
    BY <1>1, <1>2, <1>5, <2>4 DEF CopiesInv, Locked
  <2> QED
    BY <1>5, <2>1, <2>6, <2>7 DEF CopiesInv
<1> QED
  BY <1>7, <1>8

\* Half a backup copy is written.
LEMMA CopiesBackup ==
  ASSUME TypeOK, LockHolder, CopiesInv, NEW c \in Clients, WriteBackup(c)
  PROVE  CopiesInv'
<1> SUFFICES ASSUME faults <= 1 PROVE CopiesInv'
  BY DEF CopiesInv, WriteBackup
<1>1. Turn(c) /\ pc[c] = "bak"
  BY DEF Turn, Step, WriteBackup
<1>2. \A d \in Clients : d # c => pc[d] \notin Locked /\ Same(d)
  BY <1>1, Frame DEF LockHolder, Locked
<1>3. PICK h \in left[c] : bak' = [bak EXCEPT ![h] = mem[c]] /\ HalfDone(c, h, "check")
  BY DEF WriteBackup
<1>4. bak \in Copies /\ h \in Halves /\ left[c] \subseteq Halves
  BY <1>3 DEF TypeOK, DiskType, WorkType
<1>5. UNCHANGED <<pri, committed, faults, mem>>
  BY DEF WriteBackup, hist
<1>6. Copied(c)
  BY DEF CopiesInv
<1>7. pri' = Both(mem'[c]) /\ committed' = mem'[c]
  BY <1>1, <1>5, <1>6 DEF Copied
<1>8. bak'[h] = mem[c] /\ \A k \in Halves \ {h} : bak'[k] = bak[k]
  BY <1>3, <1>4 DEF Copies, Halves
<1>9. CASE left[c] = {h}
  <2>1. pc'[c] = "check"
    BY <1>3, <1>9 DEF HalfDone, GoTo, TypeOK, CallType
  <2>2. bak' = Both(mem'[c])
    BY <1>1, <1>3, <1>4, <1>5, <1>6, <1>8, <1>9 DEF Copied, Copies, Both, Halves
  <2>3. \A d \in Clients : Copied(d)'
    BY <1>2, <1>7, <2>1, <2>2 DEF Copied, Same, Locked
  <2>4. committed' = ReadCopy(pri)'
    BY <1>7 DEF Both, ReadCopy
  <2> QED
    BY <1>7, <2>2, <2>3, <2>4 DEF CopiesInv
<1>10. CASE left[c] # {h}
  <2>1. pc'[c] = "bak" /\ left'[c] = left[c] \ {h} /\ left'[c] # {}
    BY <1>1, <1>3, <1>10 DEF HalfDone, GoTo, TypeOK, CallType, WorkType
  <2>2. Copied(c)'
    BY <1>1, <1>5, <1>6, <1>7, <1>8, <2>1 DEF Copied
  <2>3. \A d \in Clients : Copied(d)'
    BY <1>2, <2>2 DEF Copied, Same, Locked
  <2>4. faults = 0 => pri' = Both(committed')
    BY <1>7
  <2> QED
    BY <1>5, <1>7, <2>1, <2>3, <2>4 DEF CopiesInv
<1> QED
  BY <1>9, <1>10

\* The lock's holder fails or dies.
LEMMA CopiesFault ==
  ASSUME TypeOK, LockHolder, CopiesInv, NEW c \in Clients, Fault(c), pc[c] \in Locked
  PROVE  CopiesInv'
<1> SUFFICES ASSUME faults = 0 PROVE CopiesInv'
  <2>1. faults' = faults + 1 /\ faults \in Nat
    BY OpsAssumption DEF Fault, TypeOK, KernelType
  <2> QED
    BY <2>1 DEF CopiesInv
<1>1. UNCHANGED <<pri, bak, committed>> /\ faults' = 1 /\ pc'[c] = "idle"
  BY DEF Fault, End, disk, hist, TypeOK, CallType
<1>2. \A d \in Clients : d # c => pc[d] \notin Locked /\ Same(d)
  BY Frame DEF LockHolder, Turn
<1>3. \A d \in Clients : pc'[d] \notin {"pri", "bak", "check"}
  BY <1>1, <1>2 DEF Same, Locked
<1>4. committed \in {ReadCopy(pri), ReadCopy(bak)}
  <2>1. CASE pc[c] = "pri"
    <3>1. bak = Both(committed)
      BY <1>2, <2>1 DEF CopiesInv, Locked
    <3> QED
      BY <3>1 DEF Both, ReadCopy
  <2>2. CASE pc[c] # "pri"
    <3>1. pri = Both(committed)
      BY <1>2, <2>2 DEF CopiesInv, Locked
    <3> QED
      BY <3>1 DEF Both, ReadCopy
  <2> QED
    BY <2>1, <2>2
<1>5. (committed \in {ReadCopy(pri), ReadCopy(bak)})'
  BY <1>1, <1>4 DEF ReadCopy
<1>6. \A d \in Clients : Copied(d)'
  BY <1>3 DEF Copied
<1> QED
  BY <1>1, <1>5, <1>6 DEF CopiesInv

\* A table in memory is complete: its writing begins.
LEMMA CopiesBegin ==
  ASSUME TypeOK, LockHolder, CopiesInv, NEW c \in Clients, WriteProtectiveMBR(c)
  PROVE  CopiesInv'
<1> SUFFICES ASSUME faults <= 1 PROVE CopiesInv'
  BY DEF CopiesInv, WriteProtectiveMBR
<1>1. Turn(c) /\ pc[c] = "mbr"
  BY DEF Turn, Step, WriteProtectiveMBR
<1>2. \A d \in Clients : d # c => pc[d] \notin Locked /\ Same(d)
  BY <1>1, Frame DEF LockHolder, Locked
<1>3. UNCHANGED <<pri, bak, committed, faults>> /\ pc'[c] = "pri" /\ left'[c] = Halves
  BY DEF WriteProtectiveMBR, GoTo, hist, TypeOK, CallType, WorkType
<1>4. faults = 0 => pri = Both(committed) /\ bak = Both(committed)
  BY <1>1, <1>2 DEF CopiesInv, Locked
<1>5. Copied(c)'
  BY <1>3, <1>4 DEF Copied, Halves, Both
<1>6. \A d \in Clients : Copied(d)'
  BY <1>2, <1>5 DEF Copied, Same, Locked
<1>7. faults = 0 => bak' = Both(committed')
  BY <1>3, <1>4 DEF Both
<1> QED
  BY <1>3, <1>6, <1>7 DEF CopiesInv

\* Both copies are written and the primary one is read back.
LEMMA CopiesChecked ==
  ASSUME TypeOK, LockHolder, CopiesInv, NEW c \in Clients, Check(c)
  PROVE  CopiesInv'
<1>1. Turn(c) /\ pc[c] = "check"
  BY DEF Turn, Step, Check
<1>2. UNCHANGED <<pri, bak, committed, faults>>
  BY DEF Check, Fail, disk, hist
<1>3. pc'[c] \notin {"pri", "bak", "check"}
  BY DEF Check, Fail, End, GoTo, KernelLabel, TypeOK, CallType
<1> QED
  BY <1>1, <1>2, <1>3, CopiesUnwritten DEF Locked

-----------------------------------------------------------------------------
(* What a Wipe has removed. *)

\* every partition of a table in memory is on the disk, or the call's own
Only(c) ==
  \A s \in Slots : mem[c][s] # None =>
    At(committed, s) # None \/ (op[c] = "create" /\ s \in DOMAIN req[c])

OnlyInv ==
  /\ NotTorn
  /\ \A c \in Clients : pc[c] \in {"mbr", "pri"} \/ (pc[c] = "zero" /\ ~InMBR(c)) => Only(c)

\* What can be read of the primary copy after a step.
LEMMA ReadAfter ==
  ASSUME TypeOK, NotTorn, NEW c \in Clients, Turn(c)
  PROVE  /\ NotTorn'
         /\ \/ UNCHANGED committed
            \/ pc[c] \in {"wipe", "wipeparts", "behind"} /\ committed' = None
            \/ pc[c] = "pri" /\ committed' = mem[c] /\ UNCHANGED mem
<1>1. CASE WritePrimary(c)
  <2>1. PICK h \in left[c] : pri' = [pri EXCEPT ![h] = mem[c]]
    BY <1>1 DEF WritePrimary
  <2>2. pri \in Copies /\ mem[c] \in Tables /\ h \in Halves
    BY <2>1 DEF TypeOK, DiskType, WorkType
  <2>3. ReadCopy(pri') \in {None, Torn, mem[c]} /\ (ReadCopy(pri') = None => ReadCopy(pri) = None)
    BY <2>1, <2>2, HalfWritten
  <2>4. committed' = IF ReadCopy(pri') = Torn THEN committed ELSE ReadCopy(pri')
    BY <1>1 DEF WritePrimary
  <2>5. ReadCopy(pri') = None => committed' = committed
    BY <2>3, <2>4, NoneAssumption DEF NotTorn
  <2>6. NotTorn'
    BY <2>4 DEF NotTorn
  <2> QED
    BY <1>1, <2>3, <2>4, <2>5, <2>6 DEF WritePrimary
<1>2. CASE UNCHANGED <<pri, committed>>
  BY <1>2 DEF NotTorn, ReadCopy
<1>3. CASE ~WritePrimary(c) /\ ~UNCHANGED <<pri, committed>>
  BY <1>3, Erased DEF NotTorn, ReadCopy
<1> QED
  BY <1>1, <1>2, <1>3

\* A client's own step keeps what it has in memory among what is on the disk.
LEMMA OnlyOwn ==
  ASSUME TypeOK, PlaceInv, OnlyInv, NEW c \in Clients, Turn(c),
         pc'[c] \in {"mbr", "pri"} \/ (pc'[c] = "zero" /\ ~InMBR(c)')
  PROVE  Only(c)'
<1> USE DEF TypeOK, CallType, WorkType, GoTo, End, Fail
<1>0. mem[c] \in Tables /\ DOMAIN req[c] \subseteq Slots
  BY DEF IsPartitionSet
<1>1. ReadCopy(pri) \notin NoTable => committed = ReadCopy(pri) /\ \A s \in Slots : At(committed, s) = committed[s]
  BY DEF OnlyInv, NotTorn, At
<1>2. CASE AddGPT(c)
  <2>1. \/ mem'[c] = EmptyTable
        \/ ReadCopy(pri) \notin NoTable /\ mem'[c] = ReadCopy(pri)
    BY <1>2 DEF AddGPT, WriteGPT, ReadTable
  <2>2. UNCHANGED committed
    BY <1>2 DEF AddGPT, hist
  <2> QED
    BY <1>1, <2>1, <2>2 DEF Only, EmptyTable
<1>3. CASE Update(c)
  <2>1. /\ ReadCopy(pri) \notin NoTable
        /\ mem'[c] = Merge(ReadCopy(pri), Retype(ReadCopy(pri), req[c]))
        /\ \A s \in DOMAIN req[c] : At(ReadCopy(pri), s) # None
        /\ UNCHANGED committed
    BY <1>3 DEF Update, WriteGPT, ReadTable, hist
  <2>2. \A s \in Slots : mem'[c][s] # None => committed[s] # None
    BY <1>1, <2>1 DEF Merge, Retype, Entry, At
  <2> QED
    BY <1>1, <2>1, <2>2 DEF Only
<1>4. CASE DeleteGPT(c)
  <2>1. /\ ReadCopy(pri) \notin NoTable /\ mem'[c] = Merge(ReadCopy(pri), req[c])
        /\ \A s \in DOMAIN req[c] : req[c][s] = None
        /\ UNCHANGED committed
    BY <1>4 DEF DeleteGPT, WriteGPT, ReadTable, hist, ControlType, PlaceInv, Asked
  <2>2. \A s \in Slots : mem'[c][s] # None => committed[s] # None
    BY <1>1, <2>1 DEF Merge, Entry
  <2> QED
    BY <1>1, <2>1, <2>2 DEF Only
<1>5. CASE Zero(c)
  <2>1. PICK n \in todo[c] : mem'[c] = Merge(mem[c], [t \in {n} |-> req[c][t]])
                             /\ UNCHANGED <<op, req, committed, snap>>
    BY <1>5 DEF Zero, hist
  <2>2. n \in DOMAIN req[c] /\ op[c] = "create" /\ UNCHANGED <<op, req, committed, snap>>
    BY <1>5, <2>1 DEF Zero, ControlType, PlaceInv, Placed
  <2>3. \A s \in Slots \ {n} : mem'[c][s] = mem[c][s]
    BY <2>1 DEF Merge
  <2>4. CASE ~InMBR(c)
    BY <1>5, <2>2, <2>3, <2>4 DEF Zero, OnlyInv, Only
  <2>5. ~InMBR(c)
    BY <1>5, <2>2 DEF Zero, Loop, InMBR
  <2> QED
    BY <2>4, <2>5
<1>6. CASE WriteProtectiveMBR(c)
  BY <1>6 DEF WriteProtectiveMBR, OnlyInv, Only, hist
<1>7. CASE WritePrimary(c)
  <2>1. pc[c] = "pri" /\ UNCHANGED <<mem, op, req>> /\ Only(c)
    BY <1>7 DEF WritePrimary, OnlyInv
  <2>2. committed' \in {committed, mem[c]}
    BY <2>1, ReadAfter DEF OnlyInv
  <2>3. \A s \in Slots : At(mem[c], s) = mem[c][s]
    BY <1>0, NoneAssumption, TornAssumption DEF At
  <2> QED
    BY <2>1, <2>2, <2>3 DEF Only
<1>8. CASE Check(c)
  <2>1. ReadCopy(pri) \notin NoTable /\ mem'[c] = ReadCopy(pri) /\ UNCHANGED committed
    BY <1>8 DEF Check, hist, KernelLabel
  <2> QED
    BY <1>1, <2>1 DEF Only
<1>9. CASE ~(AddGPT(c) \/ Update(c) \/ DeleteGPT(c) \/ Zero(c) \/ WriteProtectiveMBR(c)
             \/ WritePrimary(c) \/ Check(c))
  <2>1. AddMBR(c) /\ pc[c] = "create" /\ InMBR(c) /\ UNCHANGED snap
    BY <1>9 DEF Turn, Step, Scan, Call, Reject, Acquire, Fault, AddMBR, DeleteMBR, WriteDos, WriteBehind,
       WriteBackup, AddPart, DelPart, Sync, Uevent, WipeFirst, WipeLast, WipePart, Loop,
       HalfDone, KernelLabel, ControlType
  <2> QED
    BY <2>1 DEF AddMBR, KernelLabel, InMBR
<1> QED
  BY <1>2, <1>3, <1>4, <1>5, <1>6, <1>7, <1>8, <1>9

\* What a Wipe has removed stays removed, for one process and however old its Disk is.
\* With two it does not: a Wipe takes no lock, and a call that has read the table
\* before writes it back.
THEOREM WipedStaysWipedCorrect ==
  (\A c, d \in Clients : c = d) => (Spec => WipedStaysWiped)
<1> SUFFICES ASSUME \A c, d \in Clients : c = d PROVE Spec => WipedStaysWiped
  OBVIOUS
<1>1. Init => OnlyInv
  BY DEF Init, OnlyInv, NotTorn
<1>2. TypeOK /\ PlaceInv /\ OnlyInv /\ [Next]_vars => OnlyInv'
  <2> SUFFICES ASSUME TypeOK, PlaceInv, OnlyInv, [Next]_vars PROVE OnlyInv'
    OBVIOUS
  <2>1. CASE UNCHANGED vars
    BY <2>1 DEF OnlyInv, NotTorn, Only, ReadCopy, InMBR, vars, client, disk, hist
  <2>2. ASSUME NEW c \in Clients, Turn(c) PROVE OnlyInv'
    <3>1. NotTorn'
      BY <2>2, ReadAfter DEF OnlyInv
    <3>2. ASSUME NEW d \in Clients, pc'[d] \in {"mbr", "pri"} \/ (pc'[d] = "zero" /\ ~InMBR(d)')
          PROVE  Only(d)'
      BY <2>2, <3>2, OnlyOwn
    <3> QED
      BY <3>1, <3>2 DEF OnlyInv
  <2> QED
    BY <2>1, <2>2 DEF Next, Turn
<1>3. TypeOK /\ PlaceInv /\ OnlyInv /\ [Next]_vars =>
        [\A s \in Slots : (At(committed, s) = None /\ At(committed', s) # None) =>
           \E c \in Clients : op[c] = "create" /\ s \in DOMAIN req[c]]_vars
  <2> SUFFICES ASSUME TypeOK, OnlyInv, NEW c \in Clients, Turn(c), NEW s \in Slots,
                      At(committed, s) = None, At(committed', s) # None
               PROVE  op[c] = "create" /\ s \in DOMAIN req[c]
    BY DEF Next, Turn
  <2>1. pc[c] = "pri" /\ committed' = mem[c]
    BY ReadAfter DEF OnlyInv, At
  <2>2. Only(c) /\ mem[c][s] # None
    BY <2>1 DEF OnlyInv, At
  <2> QED
    BY <2>2 DEF Only
<1> QED
  BY <1>1, <1>2, <1>3, TypeCorrect, PlaceCorrect, PTL DEF Spec, WipedStaysWiped

-----------------------------------------------------------------------------
\* the table that call o with PartitionSet r writes when it has read t
Wanted(o, r, t) == Merge(t, IF o = "update" THEN Retype(t, r) ELSE r)

\* where a call is, what it has read, and what it has written of it
GptPlace(c) ==
  /\ ~fresh[c]
  /\ snap[c] # None => snap[c].kind = "gpt"
  /\ pc[c] \notin {"dos", "behind"} \cup Wiping
  /\ pc[c] \in {"zero", "mbr", "bak", "check", "kernel", "sync"} => pri = Both(committed)
  /\ pc[c] = "zero" =>
       mem[c] = [s \in Slots |-> IF s \in DOMAIN req[c] \ todo[c] THEN req[c][s] ELSE committed[s]]
  /\ pc[c] \in {"mbr", "pri"} =>
       /\ mem[c] = Wanted(op[c], req[c], committed)
       /\ op[c] = "update" => \A s \in DOMAIN req[c] : committed[s] # None
  /\ pc[c] = "pri" =>
       /\ left[c] # {}
       /\ \A h \in left[c] : pri[h] = committed
       /\ \A h \in Halves \ left[c] : pri[h] = mem[c]
  /\ pc[c] \in {"bak", "check", "kernel", "sync"} =>
       /\ op[c] = "create" => \A s \in DOMAIN req[c] : committed[s] = req[c][s]
       /\ op[c] = "delete" => \A s \in DOMAIN req[c] : committed[s] = None
       /\ op[c] # "update" => DOMAIN req[c] \subseteq doubt

\* The disk keeps its table, and whoever has the lock works on it.
GptInv ==
  /\ committed # None /\ pri.hdr # None
  /\ \A c \in Clients : GptPlace(c)

\* A copy that can be read is the table, in both halves.
LEMMA ReadWhole ==
  ASSUME TypeOK, WriteInv, pri.hdr # None, ReadCopy(pri) # Torn
  PROVE  /\ ReadCopy(pri) = committed /\ pri = Both(committed) /\ committed \in Tables
         /\ committed \notin NoTable
<1>1. pri \in Copies
  BY DEF TypeOK, DiskType
<1>2. pri.hdr = pri.ents /\ ReadCopy(pri) = pri.ents
  BY DEF ReadCopy
<1>3. committed = pri.ents
  BY <1>2 DEF WriteInv, NotTorn
<1>4. pri = [hdr |-> pri.hdr, ents |-> pri.ents]
  BY <1>1 DEF Copies
<1>5. pri.ents \in Tables
  BY <1>1, <1>2 DEF Copies
<1> QED
  BY <1>2, <1>3, <1>4, <1>5, TornAssumption DEF Both

\* What two copies of one table are read as.
LEMMA ReadBoth ==
  ASSUME NEW t, t # None
  PROVE  ReadCopy(Both(t)) = t
  BY DEF ReadCopy, Both

\* What callers ask to create is an entry in use as it stands.
LEMMA AskedEntry ==
  ASSUME PlaceInv, NEW c \in Clients, op[c] \in {"create", "delete"}, NEW s \in DOMAIN req[c]
  PROVE  Entry(req[c][s]) = req[c][s]
  BY TypesAssumption DEF PlaceInv, Asked, Entry

\* A call that has the whole of its PartitionSet in its table is ready to write it.
LEMMA ZeroedWanted ==
  ASSUME PlaceInv, NEW c \in Clients, op[c] = "create", committed \in Tables
  PROVE  [s \in Slots |-> IF s \in DOMAIN req[c] THEN req[c][s] ELSE committed[s]]
           = Wanted("create", req[c], committed)
<1>1. \A s \in DOMAIN req[c] : Entry(req[c][s]) = req[c][s]
  BY AskedEntry
<1> QED
  BY <1>1 DEF Wanted, Merge

\* The second half of the primary copy publishes the table in memory, the first half
\* publishes nothing.
LEMMA HalfPublished ==
  ASSUME TypeOK, GptInv, NEW c \in Clients, WritePrimary(c)
  PROVE  \E h \in left[c] :
           \/ /\ left[c] = {h} /\ pc'[c] = "bak"
              /\ pri' = Both(mem[c]) /\ committed' = mem[c]
              /\ doubt' = IF op[c] = "update" THEN doubt ELSE doubt \cup DOMAIN req[c]
           \/ /\ left[c] # {h} /\ pc'[c] = "pri" /\ left'[c] = left[c] \ {h} /\ left'[c] # {}
              /\ \A k \in left'[c] : pri'[k] = committed
              /\ \A k \in Halves \ left'[c] : pri'[k] = mem[c]
              /\ committed' = committed /\ doubt' = doubt
<1>1. PICK h \in left[c] : /\ pri' = [pri EXCEPT ![h] = mem[c]]
                           /\ HalfDone(c, h, "bak")
                           /\ doubt' = IF left[c] = {h} /\ ~fresh[c] /\ op[c] # "update"
                                       THEN doubt \cup DOMAIN req[c] ELSE doubt
  BY DEF WritePrimary
<1>2. pc[c] = "pri" /\ committed' = IF ReadCopy(pri') = Torn THEN committed ELSE ReadCopy(pri')
  BY DEF WritePrimary
<1>3. pri \in Copies /\ mem[c] \in Tables /\ h \in Halves /\ left[c] \subseteq Halves
  BY <1>1 DEF TypeOK, DiskType, WorkType
<1>4. mem[c] # None /\ mem[c] # Torn
  BY <1>3, NoneAssumption, TornAssumption
<1>5. /\ ~fresh[c]
      /\ \A k \in left[c] : pri[k] = committed
      /\ \A k \in Halves \ left[c] : pri[k] = mem[c]
  BY <1>2 DEF GptInv, GptPlace
<1>6. pri'[h] = mem[c] /\ \A k \in Halves \ {h} : pri'[k] = pri[k]
  BY <1>1, <1>3 DEF Copies, Halves
<1>7. CASE left[c] = {h}
  <2>1. pri' = Both(mem[c])
    BY <1>1, <1>3, <1>5, <1>7 DEF Both, Copies, Halves
  <2>2. committed' = mem[c]
    BY <1>2, <1>4, <2>1, ReadBoth
  <2>3. pc'[c] = "bak" /\ doubt' = IF op[c] = "update" THEN doubt ELSE doubt \cup DOMAIN req[c]
    BY <1>1, <1>5, <1>7 DEF HalfDone, GoTo, TypeOK, CallType
  <2> QED
    BY <1>7, <2>1, <2>2, <2>3
<1>8. CASE left[c] # {h}
  <2>1. pc'[c] = "pri" /\ left'[c] = left[c] \ {h} /\ doubt' = doubt
    BY <1>1, <1>2, <1>8 DEF HalfDone, GoTo, TypeOK, CallType, WorkType
  <2>2. left'[c] # {} /\ left[c] = Halves
    BY <1>1, <1>3, <1>8, <2>1 DEF Halves
  <2>3. \A k \in left'[c] : pri'[k] = committed
    BY <1>3, <1>5, <1>6, <2>1
  <2>4. \A k \in Halves \ left'[c] : pri'[k] = mem[c]
    BY <1>6, <2>1, <2>2
  <2>5. pri'.hdr \in {committed, mem[c]} /\ pri'.ents \in {committed, mem[c]}
        /\ committed \in {pri'.hdr, pri'.ents}
    BY <1>3, <2>1, <2>2, <2>3, <2>4 DEF Halves
  <2>6. committed' = committed
    BY <1>2, <1>4, <2>5 DEF GptInv, ReadCopy
  <2> QED
    BY <1>8, <2>1, <2>2, <2>3, <2>4, <2>6
<1> QED
  BY <1>7, <1>8

\* A call that ends is nowhere.
LEMMA EndGpt ==
  ASSUME TypeOK, NEW c \in Clients, GptPlace(c), NEW r, End(c, r)
  PROVE  GptPlace(c)'
  BY DEF TypeOK, CallType, WorkType, End, GptPlace, Wiping

\* A call under the lock reads the table and decides.
LEMMA GptDecides ==
  ASSUME TypeOK, WriteInv, PlaceInv, GptInv, NEW c \in Clients,
         AddGPT(c) \/ AddMBR(c) \/ Update(c) \/ DeleteGPT(c) \/ DeleteMBR(c)
  PROVE  GptPlace(c)'
<1>1. GptPlace(c) /\ committed # None /\ pri.hdr # None
  BY DEF GptInv
<1>2. ~InMBR(c)
  BY <1>1 DEF AddGPT, AddMBR, Update, DeleteGPT, DeleteMBR, PlaceInv, Placed, GptPlace, InMBR
<1>3. CASE Fail(c)
  BY <1>1, <1>3, EndGpt DEF Fail
<1>4. CASE ~Fail(c)
  <2>1. ReadTable(c) # Torn /\ ReadTable(c) # None
    <3>1. ReadTable(c) # None
      BY <1>1, NoneAssumption DEF ReadTable, ReadCopy
    <3>2. CASE AddGPT(c)
      BY <1>4, <3>1, <3>2 DEF AddGPT
    <3>3. CASE Update(c)
      BY <1>4, <3>1, <3>3 DEF Update
    <3>4. CASE DeleteGPT(c)
      BY <1>4, <3>1, <3>4 DEF DeleteGPT
    <3>5. ~AddMBR(c) /\ ~DeleteMBR(c)
      BY <1>2 DEF AddMBR, DeleteMBR
    <3> QED
      BY <3>1, <3>2, <3>3, <3>4, <3>5
  <2>2. /\ ReadTable(c) = committed /\ pri = Both(committed) /\ committed \in Tables
    BY <1>1, <2>1, ReadWhole DEF ReadTable
  <2>3. UNCHANGED <<pri, committed, snap, req, op>>
    BY <1>2, <1>4, <2>1 DEF AddGPT, AddMBR, Update, DeleteGPT, DeleteMBR, disk, hist
  <2>4. (pri = Both(committed))'
    BY <2>2, <2>3 DEF Both
  <2>5. CASE AddGPT(c)
    <3>1. pc'[c] = "zero" /\ todo'[c] = DOMAIN req[c] /\ mem'[c] = committed /\ ~fresh'[c]
      BY <1>1, <1>4, <2>1, <2>2, <2>5 DEF AddGPT, GoTo, TypeOK, CallType, WorkType, GptPlace
    <3>2. committed = [s \in Slots |-> IF s \in {} THEN req[c][s] ELSE committed[s]]
      BY <2>2 DEF Tables
    <3>3. mem'[c] = [s \in Slots |-> IF s \in DOMAIN req'[c] \ todo'[c] THEN req'[c][s]
                                      ELSE committed'[s]]
      BY <2>3, <3>1, <3>2
    <3> QED
      BY <1>1, <2>3, <2>4, <3>1, <3>3 DEF GptPlace, Wiping
  <2>6. CASE Update(c)
    <3>1. /\ pc'[c] = "mbr" /\ mem'[c] = Merge(committed, Retype(committed, req[c])) /\ ~fresh'[c]
          /\ op[c] = "update" /\ \A s \in DOMAIN req[c] : committed[s] # None
      BY <1>1, <1>4, <2>1, <2>2, <2>6 DEF Update, WriteGPT, GoTo, TypeOK, CallType, WorkType,
         ControlType, At
    <3> QED
      BY <1>1, <2>3, <2>4, <3>1 DEF GptPlace, Wanted, Wiping
  <2>7. CASE DeleteGPT(c)
    <3>1. /\ pc'[c] = "mbr" /\ mem'[c] = Merge(committed, req[c]) /\ ~fresh'[c]
          /\ op[c] = "delete"
      BY <1>1, <1>4, <2>1, <2>2, <2>7 DEF DeleteGPT, WriteGPT, GoTo, TypeOK, CallType, WorkType,
         ControlType
    <3> QED
      BY <1>1, <2>3, <2>4, <3>1 DEF GptPlace, Wanted, Wiping
  <2> QED
    BY <1>2, <2>5, <2>6, <2>7 DEF AddMBR, DeleteMBR
<1> QED
  BY <1>3, <1>4

\* A partition goes into its slot.
LEMMA GptZeroes ==
  ASSUME TypeOK, WriteInv, PlaceInv, GptInv, NEW c \in Clients, Zero(c)
  PROVE  GptPlace(c)'
<1>1. GptPlace(c) /\ pc[c] = "zero" /\ op[c] = "create" /\ snap[c] # None
  BY DEF Zero, GptInv, PlaceInv, Placed
<1>2. CASE End(c, "err")
  BY <1>1, <1>2, EndGpt
<1>3. CASE ~End(c, "err")
  <2>1. PICK n \in todo[c] : /\ mem' = [mem EXCEPT ![c] = Merge(@, [u \in {n} |-> req[c][u]])]
                             /\ Loop(c, n, "mbr")
                             /\ UNCHANGED <<pri, committed, op, req, snap, fresh, left>>
    BY <1>1, <1>3 DEF Zero, Fail, hist, GptPlace, InMBR
  <2>2. todo[c] \subseteq DOMAIN req[c] /\ DOMAIN req[c] \subseteq Slots
    BY <1>1 DEF TypeOK, ControlType, CallType, IsPartitionSet
  <2>3. pri = Both(committed)
    BY <1>1 DEF GptPlace
  <2>4. committed \in Tables /\ committed # None
    BY DEF TypeOK, DiskType, GptInv
  <2>5. mem'[c] = [s \in Slots |-> IF s \in DOMAIN req[c] \ (todo[c] \ {n}) THEN req[c][s]
                                   ELSE committed[s]]
    <3>1. mem'[c] = Merge(mem[c], [u \in {n} |-> req[c][u]])
      BY <2>1 DEF TypeOK, WorkType
    <3>2. Entry(req[c][n]) = req[c][n]
      BY <1>1, <2>2, AskedEntry
    <3>3. mem[c] = [s \in Slots |-> IF s \in DOMAIN req[c] \ todo[c] THEN req[c][s] ELSE committed[s]]
      BY <1>1 DEF GptPlace
    <3>4. \A s \in Slots : Merge(mem[c], [u \in {n} |-> req[c][u]])[s]
                            = IF s = n THEN req[c][n] ELSE mem[c][s]
      BY <3>2 DEF Merge
    <3>5. \A s \in Slots : mem'[c][s] = IF s \in DOMAIN req[c] \ (todo[c] \ {n}) THEN req[c][s]
                                         ELSE committed[s]
      BY <2>1, <2>2, <3>1, <3>3, <3>4
    <3> QED
      BY <3>1, <3>5 DEF Merge
  <2>6. (pri = Both(committed))'
    BY <2>1, <2>3 DEF Both
  <2>7. CASE todo[c] = {n}
    <3>1. pc'[c] = "mbr"
      BY <2>1, <2>7 DEF Loop, GoTo, TypeOK, CallType
    <3>2. mem'[c] = [s \in Slots |-> IF s \in DOMAIN req[c] THEN req[c][s] ELSE committed[s]]
      BY <2>5, <2>7
    <3>3. mem'[c] = Wanted(op[c], req[c], committed)
      BY <1>1, <2>4, <3>2, ZeroedWanted
    <3> QED
      BY <1>1, <2>1, <2>6, <3>1, <3>3 DEF GptPlace, Wanted, Wiping
  <2>8. CASE todo[c] # {n}
    <3>1. pc'[c] = "zero" /\ todo'[c] = todo[c] \ {n}
      BY <1>1, <2>1, <2>8 DEF Loop, GoTo, TypeOK, CallType, WorkType
    <3>2. mem'[c] = [s \in Slots |-> IF s \in DOMAIN req'[c] \ todo'[c] THEN req'[c][s]
                                      ELSE committed'[s]]
      BY <2>1, <2>5, <3>1
    <3> QED
      BY <1>1, <2>1, <2>6, <3>1, <3>2 DEF GptPlace, Wiping
  <2> QED
    BY <2>7, <2>8
<1> QED
  BY <1>2, <1>3

\* The primary copy is written.
LEMMA GptWrites ==
  ASSUME TypeOK, WriteInv, PlaceInv, GptInv, NEW c \in Clients, WritePrimary(c)
  PROVE  GptPlace(c)' /\ committed' # None /\ pri'.hdr # None
<1>1. /\ GptPlace(c) /\ pc[c] = "pri" /\ mem[c] = Wanted(op[c], req[c], committed)
      /\ UNCHANGED <<op, req, snap, fresh, mem>>
  BY DEF WritePrimary, GptInv, GptPlace
<1>2. committed \in Tables /\ committed # None /\ pri.hdr # None
  BY DEF TypeOK, DiskType, GptInv
<1>3. mem[c] \in Tables /\ mem[c] # None
  BY NoneAssumption DEF TypeOK, WorkType
<1>4. op[c] \in {"create", "update", "delete"} /\ DOMAIN req[c] \subseteq Slots
  BY <1>1 DEF PlaceInv, Placed, TypeOK, CallType, IsPartitionSet
<1>5. op[c] \in {"create", "delete"} => \A s \in DOMAIN req[c] : mem[c][s] = req[c][s]
  <2> SUFFICES ASSUME op[c] \in {"create", "delete"}, NEW s \in DOMAIN req[c]
               PROVE  mem[c][s] = req[c][s]
    OBVIOUS
  <2>1. s \in Slots /\ op[c] # "update" /\ committed \in Tables
    BY <1>2, <1>4
  <2>2. Wanted(op[c], req[c], committed)[s] = Entry(req[c][s])
    BY <2>1 DEF Wanted, Merge
  <2> QED
    BY <1>1, <2>2, AskedEntry
<1>6. op[c] = "delete" => \A s \in DOMAIN req[c] : req[c][s] = None
  BY DEF PlaceInv, Asked
<1>7. PICK h \in left[c] :
           \/ /\ left[c] = {h} /\ pc'[c] = "bak"
              /\ pri' = Both(mem[c]) /\ committed' = mem[c]
              /\ doubt' = IF op[c] = "update" THEN doubt ELSE doubt \cup DOMAIN req[c]
           \/ /\ left[c] # {h} /\ pc'[c] = "pri" /\ left'[c] = left[c] \ {h} /\ left'[c] # {}
              /\ \A k \in left'[c] : pri'[k] = committed
              /\ \A k \in Halves \ left'[c] : pri'[k] = mem[c]
              /\ committed' = committed /\ doubt' = doubt
  BY HalfPublished
<1>8. CASE left[c] = {h}
  <2>1. (pri = Both(committed))'
    BY <1>7, <1>8 DEF Both
  <2> QED
    BY <1>1, <1>3, <1>5, <1>6, <1>7, <1>8, <2>1 DEF GptPlace, Wiping, Both
<1>9. CASE left[c] # {h}
  <2>1. pri'.hdr \in {committed, mem[c]}
    BY <1>7, <1>9 DEF Halves
  <2>2. mem'[c] = Wanted(op[c], req[c], committed)'
    BY <1>1, <1>7, <1>9 DEF Wanted, Merge, Retype
  <2>3. GptPlace(c)'
    BY <1>1, <1>7, <1>9, <2>2 DEF GptPlace, Wiping
  <2> QED
    BY <1>2, <1>3, <1>7, <1>9, <2>1, <2>3
<1> QED
  BY <1>8, <1>9

\* Steps that leave the table and its primary copy alone, from the first write to the
\* end of a call.
LEMMA GptGoesOn ==
  ASSUME TypeOK, GptInv, NEW c \in Clients,
         WriteProtectiveMBR(c) \/ WriteBackup(c) \/ Check(c) \/ AddPart(c) \/ DelPart(c)
           \/ Sync(c) \/ Uevent(c)
  PROVE  GptPlace(c)'
<1>1. GptPlace(c)
  BY DEF GptInv
<1> USE <1>1, EndGpt DEF GoTo, Fail, hist, disk, TypeOK, CallType, WorkType
<1>2. CASE WriteProtectiveMBR(c)
  <2>1. /\ pc[c] = "mbr" /\ pc'[c] = "pri" /\ left'[c] = Halves
        /\ UNCHANGED <<pri, committed, op, req, snap, mem, fresh>>
    BY <1>2 DEF WriteProtectiveMBR
  <2>2. left'[c] # {} /\ \A h \in left'[c] : pri'[h] = committed'
    BY <2>1 DEF GptPlace, Halves, Both
  <2>3. mem'[c] = Wanted(op[c], req[c], committed)'
    BY <2>1 DEF GptPlace, Wanted, Merge, Retype
  <2> QED
    BY <2>1, <2>2, <2>3 DEF GptPlace, Wiping
<1>3. CASE WriteBackup(c)
  <2>1. /\ pc[c] = "bak" /\ pc'[c] \in {"bak", "check"}
        /\ UNCHANGED <<pri, committed, doubt, op, req, snap, fresh>>
    BY <1>3 DEF WriteBackup, HalfDone
  <2> QED
    BY <2>1 DEF GptPlace, Wiping, Both
<1>4. CASE Check(c)
  <2>1. CASE End(c, "err")
    BY <2>1
  <2>2. CASE ~End(c, "err")
    <3>1. /\ pc[c] = "check" /\ pc'[c] \in {"kernel", "sync"}
          /\ UNCHANGED <<pri, committed, doubt, op, req, snap, fresh>>
      BY <1>4, <2>2 DEF Check, GptPlace, KernelLabel
    <3> QED
      BY <3>1 DEF GptPlace, Wiping, Both
  <2> QED
    BY <2>1, <2>2
<1>5. CASE AddPart(c) \/ DelPart(c)
  <2>1. CASE End(c, "err")
    BY <2>1
  <2>2. CASE ~End(c, "err")
    <3>1. /\ pc[c] = "kernel" /\ pc'[c] \in {"kernel", "sync"}
          /\ UNCHANGED <<pri, committed, doubt, op, req, snap, fresh>>
      BY <1>5, <2>2 DEF AddPart, DelPart, Loop
    <3> QED
      BY <3>1 DEF GptPlace, Wiping, Both
  <2> QED
    BY <2>1, <2>2
<1>6. CASE Sync(c) \/ Uevent(c)
  <2>1. CASE End(c, "err") \/ End(c, "ok")
    BY <2>1
  <2>2. CASE ~(End(c, "err") \/ End(c, "ok"))
    <3>1. pc'[c] = "uevent" /\ UNCHANGED <<snap, fresh>>
      BY <1>6, <2>2 DEF Sync, Uevent
    <3> QED
      BY <3>1 DEF GptPlace, Wiping
  <2> QED
    BY <2>1, <2>2
<1> QED
  BY <1>2, <1>3, <1>4, <1>5, <1>6

\* Steps outside the lock.
LEMMA GptOutside ==
  ASSUME TypeOK, GptInv, "wipe" \notin Ops, NEW c \in Clients,
         Scan(c) \/ Call(c) \/ Reject(c) \/ Acquire(c) \/ Fault(c)
  PROVE  GptPlace(c)'
<1>1. GptPlace(c) /\ pri.hdr # None
  BY DEF GptInv
<1> USE <1>1 DEF GptPlace, Wiping, TypeOK, CallType, WorkType
<1>2. CASE Scan(c)
  <2>1. Found.kind = "gpt"
    BY NoneAssumption DEF Found, ReadCopy
  <2> QED
    BY <1>2, <2>1 DEF Scan
<1>3. CASE Call(c)
  <2>1. pc'[c] = "lock" /\ UNCHANGED <<snap, fresh>>
    BY <1>3 DEF Call
  <2> QED
    BY <2>1
<1>4. CASE Reject(c)
  BY <1>4 DEF Reject
<1>5. CASE Acquire(c)
  BY <1>5 DEF Acquire, ControlType
<1>6. CASE Fault(c)
  BY <1>6, EndGpt DEF Fault
<1> QED
  BY <1>2, <1>3, <1>4, <1>5, <1>6

\* GptInv is inductive: one lemma per part of a call.
LEMMA GptStep ==
  ASSUME "wipe" \notin Ops, TypeOK, WriteInv, PlaceInv, GptInv, [Next]_vars
  PROVE  GptInv'
<1>1. CASE UNCHANGED vars
  <2>1. UNCHANGED <<pri, committed, doubt>>
    BY <1>1 DEF vars, disk, hist
  <2>2. \A d \in Clients : Same(d)
    BY <1>1 DEF vars, client, Same
  <2>3. ASSUME NEW d \in Clients PROVE GptPlace(d)'
    <3>1. GptPlace(d) /\ Same(d)
      BY <2>2 DEF GptInv
    <3> QED
      BY <2>1, <3>1 DEF GptPlace, Same, Wanted, Merge, Retype, Both
  <2> QED
    BY <2>1, <2>3 DEF GptInv
<1>2. ASSUME NEW c \in Clients, Turn(c) PROVE GptInv'
  <2>1. LockHolder /\ pc[c] \notin Wiping /\ GptPlace(c)
    BY DEF WriteInv, AtWork, Wiping, GptInv
  <2>2. ~WriteDos(c) /\ ~WriteBehind(c) /\ ~WipeFirst(c) /\ ~WipeLast(c) /\ ~WipePart(c)
    BY <2>1 DEF GptPlace, Wiping, WriteDos, WriteBehind, WipeFirst, WipeLast, WipePart
  <2>3. committed' # None /\ pri'.hdr # None
    <3>1. CASE WritePrimary(c)
      BY <3>1, GptWrites
    <3>2. CASE ~WritePrimary(c)
      <4>1. UNCHANGED <<pri, committed>>
        BY <1>2, <2>2, <3>2 DEF Turn, Step, Scan, Call, Reject, Acquire, Fault, AddGPT, AddMBR,
           Update, DeleteGPT, DeleteMBR, Zero, WriteProtectiveMBR, WriteBackup, Check, AddPart,
           DelPart, Sync, Uevent, Fail, disk, hist
      <4> QED
        BY <4>1 DEF GptInv
    <3> QED
      BY <3>1, <3>2
  <2>4. GptPlace(c)'
    BY <1>2, <2>2, GptDecides, GptZeroes, GptWrites, GptGoesOn, GptOutside DEF Turn, Step
  <2>5. ASSUME NEW d \in Clients, d # c PROVE GptPlace(d)'
    <3>1. Same(d) /\ GptPlace(d)
      BY <1>2, <2>5, Frame DEF GptInv
    <3>2. CASE pc[d] \in Locked
      <4>1. UNCHANGED <<disk, kern, hist>>
        BY <1>2, <2>1, <2>5, <3>2, Undisturbed
      <4>2. UNCHANGED <<pri, committed, doubt>>
        BY <4>1 DEF disk, hist
      <4> QED
        BY <3>1, <4>2 DEF GptPlace, Same, Wanted, Merge, Retype, Both
    <3>3. CASE pc[d] \notin Locked
      BY <3>1, <3>3 DEF GptPlace, Same, Locked
    <3> QED
      BY <3>2, <3>3
  <2> QED
    BY <2>3, <2>4, <2>5 DEF GptInv
<1> QED
  BY <1>1, <1>2 DEF Next, Turn

\* GptInv is an invariant on a disk that has a GPT at first and is not wiped.
LEMMA GptCorrect == "wipe" \notin Ops /\ InitKind = "gpt" => (Spec => []GptInv)
<1> SUFFICES ASSUME "wipe" \notin Ops, InitKind = "gpt" PROVE Spec => []GptInv
  OBVIOUS
<1>1. Init => GptInv
  <2> SUFFICES ASSUME Init PROVE GptInv
    OBVIOUS
  <2>1. pri = Both(InitTable) /\ InitTable # None /\ committed = ReadCopy(pri)
    BY InitAssumption, NoneAssumption DEF Init, Both
  <2>2. committed = InitTable
    BY <2>1, ReadBoth
  <2> QED
    BY <2>1, <2>2 DEF Init, GptInv, GptPlace, Wiping, Both
<1>2. TypeOK /\ WriteInv /\ PlaceInv /\ GptInv /\ [Next]_vars => GptInv'
  BY GptStep
<1> QED
  BY <1>1, <1>2, TypeCorrect, WriteCorrect, PlaceCorrect, PTL DEF Spec
-----------------------------------------------------------------------------
(* On such a disk: no lost update, and one good copy. *)

\* A call never undoes another one's: a slot of the table changes only in the step by
\* which the holder of the lock publishes a table for a request that names the slot.  The
\* disk has a GPT at first and nobody wipes it: a call that goes by an MBR it has scanned
\* may take away the header of the table.
THEOREM NoLostUpdateCorrect ==
  "wipe" \notin Ops /\ InitKind = "gpt" => (Spec => NoLostUpdate)
<1> SUFFICES ASSUME "wipe" \notin Ops, InitKind = "gpt" PROVE Spec => NoLostUpdate
  OBVIOUS
<1>1. GptInv => \A c \in Clients : pc[c] # "behind"
  BY DEF GptInv, GptPlace
<1>2. TypeOK /\ WriteInv /\ GptInv /\ [Next]_vars =>
        [\A s \in Slots : At(committed', s) # At(committed, s) =>
           \E c \in Clients : lock = c /\ pc[c] = "pri" /\ s \in DOMAIN req[c]]_vars
  BY <1>1, OnlyRequestedSlots
<1> QED
  BY <1>2, TypeCorrect, WriteCorrect, GptCorrect, PTL DEF Spec, NoLostUpdate

\* A partition that rangeCheckParts has let through for a GPT ends before the backup copy.
LEMMA ZeroKeepsBackup ==
  ASSUME TypeOK, PlaceInv, GptInv, NEW c \in Clients, Zero(c)
  PROVE  UNCHANGED bak
<1>1. ~InMBR(c) /\ op[c] = "create" /\ LastBlock \in Nat
  BY ExtentsAssumption DEF Zero, PlaceInv, Placed, GptInv, GptPlace, InMBR
<1>2. ASSUME NEW s \in todo[c]
      PROVE  /\ req[c][s].start \in Nat /\ req[c][s].last \in Nat /\ req[c][s].last <= LastBlock
  <2>1. s \in DOMAIN req[c] /\ req[c][s] \in Parts
    BY <1>1, <1>2, NoneAssumption DEF Zero, TypeOK, ControlType, CallType, IsPartitionSet
  <2> QED
    BY <1>1, <2>1 DEF PlaceInv, Asked, Parts
<1>3. ASSUME NEW s \in todo[c], req[c][s].last >= req[c][s].start
      PROVE  BackupAfter(req[c][s]) = bak
  BY <1>1, <1>2, <1>3 DEF BackupAfter, ZeroedBlocks
<1> QED
  BY <1>1, <1>2, <1>3 DEF Zero, Fail, disk

\* CopiesInv is an invariant on a disk that has a GPT at first and is not wiped.
LEMMA CopiesCorrect == "wipe" \notin Ops /\ InitKind = "gpt" => (Spec => []CopiesInv)
<1> SUFFICES ASSUME "wipe" \notin Ops, InitKind = "gpt" PROVE Spec => []CopiesInv
  OBVIOUS
<1>1. Init => CopiesInv
  <2> SUFFICES ASSUME Init PROVE CopiesInv
    OBVIOUS
  <2>1. /\ pri = Both(IF InitKind = "gpt" THEN InitTable ELSE None) /\ bak = pri
        /\ committed = ReadCopy(pri)
    BY DEF Init, Both
  <2>2. committed = ReadCopy(pri) /\ pri = Both(committed) /\ bak = Both(committed)
    BY <2>1 DEF Both, ReadCopy
  <2> QED
    BY <2>2 DEF Init, CopiesInv, Copied
<1>2. TypeOK /\ WriteInv /\ PlaceInv /\ GptInv /\ CopiesInv /\ [Next]_vars => CopiesInv'
  <2> SUFFICES ASSUME TypeOK, WriteInv, PlaceInv, GptInv, CopiesInv, [Next]_vars PROVE CopiesInv'
    OBVIOUS
  <2>1. CASE UNCHANGED vars
    BY <2>1 DEF CopiesInv, Copied, ReadCopy, vars, client, disk, hist
  <2>2. ASSUME NEW c \in Clients, Turn(c) PROVE CopiesInv'
    <3>1. LockHolder /\ pc[c] \notin Wiping
      BY DEF WriteInv, AtWork, Wiping
    <3>2. CASE pc[c] \notin Locked
      BY <2>2, <3>1, <3>2, CopiesOutside
    <3>3. CASE WritePrimary(c) \/ WriteBackup(c) \/ Fault(c) \/ WriteProtectiveMBR(c) \/ Check(c)
      BY <3>1, <3>2, <3>3, <2>2, CopiesPrimary, CopiesBackup, CopiesFault, CopiesBegin, CopiesChecked
    <3>4. CASE /\ pc[c] \in Locked
               /\ ~(WritePrimary(c) \/ WriteBackup(c) \/ Fault(c) \/ WriteProtectiveMBR(c) \/ Check(c))
      <4>1. UNCHANGED <<pri, bak, committed, faults>> /\ pc[c] \notin {"pri", "bak"}
        <5>1. CASE Zero(c)
          BY <5>1, ZeroKeepsBackup DEF Zero, Fail, disk, hist
        <5>2. CASE ~Zero(c)
          <6>1. pc[c] \notin {"dos", "behind"}
            BY DEF GptInv, GptPlace
          <6> QED
            BY <2>2, <3>4, <5>2, <6>1 DEF Turn, Step, Locked, Scan, Call, Reject, Acquire, AddGPT,
               AddMBR, Update, DeleteGPT, DeleteMBR, WriteDos, WriteBehind, AddPart, DelPart,
               Sync, Uevent, WipeFirst, WipeLast, WipePart, Fail, disk, hist
        <5> QED
          BY <5>1, <5>2
      <4>2. pc'[c] \notin {"pri", "bak", "check"}
        BY <2>2, <3>4 DEF Turn, Step, Locked, Scan, Call, Reject, Acquire, AddGPT, AddMBR,
           Update, DeleteGPT, DeleteMBR, Zero, WriteDos, WriteBehind, AddPart, DelPart, Sync, Uevent,
           WipeFirst, WipeLast, WipePart, Fail, End, GoTo, Loop, WriteGPT, KernelLabel, TypeOK,
           CallType
      <4> QED
        BY <2>2, <3>1, <3>4, <4>1, <4>2, CopiesUnwritten
    <3> QED
      BY <2>2, <3>2, <3>3, <3>4
  <2> QED
    BY <2>1, <2>2 DEF Next, Turn
<1> QED
  BY <1>1, <1>2, TypeCorrect, WriteCorrect, PlaceCorrect, GptCorrect, PTL DEF Spec

\* After one failure, at whatever point of whatever call, one of the two copies is the
\* table that readers last saw: writeGPTTable writes them one after the other.  The disk has
\* a GPT at first, so that no call writes behind the MBR or zeroes the end of the disk.
THEOREM OneCopySurvivesCorrect ==
  "wipe" \notin Ops /\ InitKind = "gpt" => (Spec => []OneCopySurvives)
<1> SUFFICES ASSUME "wipe" \notin Ops, InitKind = "gpt" PROVE Spec => []OneCopySurvives
  OBVIOUS
<1>1. LockHolder /\ CopiesInv => OneCopySurvives
  BY ClientsAssumption DEF LockHolder, Locked, CopiesInv, OneCopySurvives
<1> QED
  BY <1>1, LockCorrect, CopiesCorrect, PTL
-----------------------------------------------------------------------------
(* The table and the kernel. *)

\* An update moves no partition.
LEMMA UpdateKeepsExtents ==
  ASSUME PlaceInv, EmptyType \notin UpdateTypes, NEW c \in Clients, op[c] = "update",
         DOMAIN req[c] \subseteq Slots, committed \in Tables,
         \A s \in DOMAIN req[c] : committed[s] # None, NEW s \in Slots
  PROVE  Extent(Wanted("update", req[c], committed)[s]) = Extent(committed[s])
<1>1. CASE s \in DOMAIN req[c]
  <2> DEFINE new == [start |-> committed[s].start, last |-> committed[s].last,
                     type |-> req[c][s].type]
  <2>1. Wanted("update", req[c], committed)[s] = Entry(new)
    BY <1>1 DEF Wanted, Merge, Retype
  <2>2. new.type # EmptyType
    BY <1>1 DEF PlaceInv, Asked
  <2>3. committed[s] \in Parts /\ committed[s] # None
    BY <1>1 DEF Tables
  <2>4. new # None
    <3>1. committed[s].start \in Nat /\ committed[s].last \in Nat
      BY <2>3 DEF Parts
    <3>2. req[c][s].type \in Types
      BY <1>1, OpsAssumption DEF PlaceInv, Asked
    <3>3. new \in Parts
      BY <3>1, <3>2 DEF Parts
    <3> QED
      BY <3>3, NoneAssumption
  <2>5. Entry(new) = new
    BY <2>2, <2>4 DEF Entry
  <2> QED
    BY <2>1, <2>3, <2>4, <2>5 DEF Extent
<1>2. CASE s \notin DOMAIN req[c]
  BY <1>2 DEF Wanted, Merge, Retype
<1> QED
  BY <1>1, <1>2

\* The inductive step of KernelMatches.
LEMMA KernelStep ==
  ASSUME EmptyType \notin UpdateTypes, IsDevice, TypeOK, PlaceInv, GptInv, [Next]_vars,
         \A s \in Slots \ doubt : kern[s] = Extent(committed[s])
  PROVE  \A s \in Slots \ doubt' : kern'[s] = Extent(committed'[s])
<1>1. CASE UNCHANGED vars
  BY <1>1 DEF vars, hist
<1>2. ASSUME NEW c \in Clients, Turn(c)
      PROVE  \A s \in Slots \ doubt' : kern'[s] = Extent(committed'[s])
  <2>1. GptPlace(c) /\ pc[c] \notin Wiping /\ committed \in Tables
    BY DEF GptInv, GptPlace, TypeOK, DiskType
  <2>2. DOMAIN req[c] \subseteq Slots
    BY DEF TypeOK, CallType, IsPartitionSet
  <2>3. CASE pc[c] \notin Locked
    BY <1>2, <2>1, <2>3, OutsideLock DEF hist
  <2>4. CASE WritePrimary(c)
    <3>1. /\ UNCHANGED kern /\ pc[c] = "pri"
          /\ mem[c] = Wanted(op[c], req[c], committed)
          /\ op[c] = "update" => \A s \in DOMAIN req[c] : committed[s] # None
      BY <2>1, <2>4 DEF WritePrimary, GptPlace
    <3>2. op[c] \in {"create", "update", "delete"}
      BY <3>1 DEF PlaceInv, Placed
    <3>3. CASE committed' = mem[c] /\ doubt' = IF op[c] = "update" THEN doubt
                                               ELSE doubt \cup DOMAIN req[c]
      <4>1. CASE op[c] = "update"
        BY <2>1, <2>2, <3>1, <3>3, <4>1, UpdateKeepsExtents
      <4>2. CASE op[c] # "update"
        BY <2>1, <3>1, <3>3, <4>2 DEF Wanted, Merge
      <4> QED
        BY <4>1, <4>2
    <3>4. CASE committed' = committed /\ doubt' = doubt
      BY <3>1, <3>4
    <3> QED
      BY <2>4, <3>3, <3>4, HalfPublished
  <2>5. CASE AddPart(c) \/ DelPart(c)
    <3>1. UNCHANGED <<committed, doubt>> /\ pc[c] = "kernel" /\ op[c] # "update"
      BY <2>5 DEF AddPart, DelPart, Fail, hist
    <3>2. todo[c] \subseteq doubt
      BY <2>1, <3>1 DEF GptPlace, TypeOK, ControlType
    <3>3. \A s \in Slots \ todo[c] : kern'[s] = kern[s]
      BY <2>5 DEF AddPart, DelPart, Fail, TypeOK, KernelType
    <3> QED
      BY <3>1, <3>2, <3>3
  <2>6. CASE Sync(c)
    <3>1. /\ UNCHANGED <<committed, kern>> /\ pc[c] = "sync"
          /\ doubt' = IF op[c] = "update" THEN doubt ELSE doubt \ DOMAIN req[c]
      BY <2>6 DEF Sync
    <3>2. op[c] \in {"create", "update", "delete"}
      BY <3>1 DEF PlaceInv, Placed
    <3>3. op[c] # "update" => \A s \in DOMAIN req[c] :
            kern[s] = IF op[c] = "create" THEN Extent(req[c][s]) ELSE None
      BY <3>1 DEF PlaceInv, Knows, Told
    <3>4. op[c] = "create" => \A s \in DOMAIN req[c] : kern[s] = Extent(committed[s])
      BY <2>1, <3>1, <3>3 DEF GptPlace
    <3>5. op[c] = "delete" => \A s \in DOMAIN req[c] : kern[s] = Extent(committed[s])
      BY <2>1, <3>1, <3>3 DEF GptPlace, Extent
    <3> QED
      BY <3>1, <3>2, <3>4, <3>5
  <2>7. CASE /\ pc[c] \in Locked
             /\ ~(WritePrimary(c) \/ AddPart(c) \/ DelPart(c) \/ Sync(c))
    <3>0. pc[c] # "behind"
      BY <2>1 DEF GptPlace
    <3>1. UNCHANGED <<committed, doubt, kern>>
      BY <1>2, <2>1, <2>7, <3>0 DEF Turn, Step, Locked, Wiping, Scan, Call, Reject, Acquire, Fault,
         AddGPT, AddMBR, Update, DeleteGPT, DeleteMBR, Zero, WriteDos, WriteBehind, WriteProtectiveMBR,
         WriteBackup, Check, Uevent, WipeFirst, WipeLast, WipePart, Fail, hist
    <3> QED
      BY <3>1
  <2> QED
    BY <2>3, <2>4, <2>5, <2>6, <2>7
<1> QED
  BY <1>1, <1>2 DEF Next, Turn

\* On a block device the kernel's partitions are those of the table, other than those
\* of a call that runs or has failed: whoever does what, and wherever it fails.
THEOREM KernelMatchesCorrect ==
  "wipe" \notin Ops /\ InitKind = "gpt" /\ EmptyType \notin UpdateTypes =>
    (Spec => []KernelMatches)
<1> SUFFICES ASSUME "wipe" \notin Ops, InitKind = "gpt", EmptyType \notin UpdateTypes
             PROVE  Spec => []KernelMatches
  OBVIOUS
<1>1. GptInv /\ TypeOK => \A s \in Slots : At(committed, s) = committed[s]
  BY TornAssumption DEF GptInv, TypeOK, DiskType, At
<1>2. Init => KernelMatches
  <2> SUFFICES ASSUME Init PROVE KernelMatches
    OBVIOUS
  <2>1. pri = Both(InitTable) /\ InitTable \notin NoTable /\ committed = ReadCopy(pri)
    BY InitAssumption, NoneAssumption, TornAssumption DEF Init, Both
  <2>2. committed = InitTable
    BY <2>1, ReadBoth
  <2> QED
    BY <2>1, <2>2 DEF Init, KernelMatches, At
<1>3. TypeOK /\ PlaceInv /\ GptInv /\ TypeOK' /\ GptInv' /\ KernelMatches /\ [Next]_vars
        => KernelMatches'
  <2> SUFFICES ASSUME TypeOK, PlaceInv, GptInv, TypeOK', GptInv', KernelMatches, [Next]_vars,
                      IsDevice
               PROVE  \A s \in Slots \ doubt' : kern'[s] = Extent(At(committed', s))
    BY DEF KernelMatches
  <2>1. \A s \in Slots \ doubt : kern[s] = Extent(committed[s])
    BY <1>1 DEF KernelMatches
  <2>2. \A s \in Slots \ doubt' : kern'[s] = Extent(committed'[s])
    BY <2>1, KernelStep
  <2>3. \A s \in Slots : At(committed', s) = committed'[s]
    BY TornAssumption DEF GptInv, TypeOK, DiskType, At
  <2> QED
    BY <2>2, <2>3
<1> QED
  BY <1>2, <1>3, TypeCorrect, PlaceCorrect, GptCorrect, PTL DEF Spec

\* the kernel's partitions are apart
KernelApart == \A s, t \in Slots : s # t => ~Overlap(kern[s], kern[t])

\* BLKPG adds no partition that overlaps another one.
LEMMA KernelApartStep ==
  ASSUME TypeOK, KernelApart, [Next]_vars
  PROVE  KernelApart'
<1>1. CASE UNCHANGED kern
  BY <1>1 DEF KernelApart
<1>2. CASE \E c \in Clients : AddPart(c) /\ kern' # kern
  <2>1. PICK c \in Clients : AddPart(c) /\ kern' # kern
    BY <1>2
  <2>2. PICK n \in todo[c] : /\ KernelTakes(n, Extent(req[c][n]))
                             /\ kern' = [kern EXCEPT ![n] = Extent(req[c][n])]
    BY <2>1 DEF AddPart, Fail
  <2>3. \A s \in Slots : kern'[s] = IF s = n THEN Extent(req[c][n]) ELSE kern[s]
    BY <2>2 DEF TypeOK, KernelType
  <2>4. \A s \in Slots : ~Overlap(kern[s], Extent(req[c][n])) /\ ~Overlap(Extent(req[c][n]), kern[s])
    BY <2>2 DEF KernelTakes, Overlap
  <2> QED
    BY <2>3, <2>4 DEF KernelApart
<1>3. CASE \E c \in Clients : DelPart(c) /\ kern' # kern
  <2>1. PICK c \in Clients : DelPart(c) /\ kern' # kern
    BY <1>3
  <2>2. PICK n \in todo[c] : kern' = [kern EXCEPT ![n] = None]
    BY <2>1 DEF DelPart, Fail
  <2>3. \A s \in Slots : kern'[s] \in {None, kern[s]}
    BY <2>2 DEF TypeOK, KernelType
  <2> QED
    BY <2>3 DEF KernelApart, Overlap
<1>4. UNCHANGED kern \/ \E c \in Clients : (AddPart(c) \/ DelPart(c)) /\ kern' # kern
  <2>1. ASSUME NEW c \in Clients, Zero(c) \/ WipePart(c) PROVE UNCHANGED kern
    BY <2>1 DEF Zero, WipePart, Fail
  <2> QED
    BY <2>1 DEF Next, Step, vars, Scan, Call, Reject, Acquire, Fault, AddGPT, AddMBR, Update,
       DeleteGPT, DeleteMBR, WriteDos, WriteBehind, WriteProtectiveMBR, WritePrimary,
       WriteBackup, Check, Sync, Uevent, WipeFirst, WipeLast, Fail
<1> QED
  BY <1>1, <1>2, <1>3, <1>4

\* Two calls that race for the same free space are never both confirmed: the table may
\* hold both partitions, but then one of the two calls has not returned success.
THEOREM NoSilentOverlapCorrect ==
  /\ "wipe" \notin Ops /\ InitKind = "gpt" /\ EmptyType \notin UpdateTypes /\ IsDevice
  /\ \A s, t \in Slots : s # t => ~Overlap(Extent(InitTable[s]), Extent(InitTable[t]))
  => (Spec => []NoSilentOverlap)
<1> SUFFICES ASSUME "wipe" \notin Ops, InitKind = "gpt", EmptyType \notin UpdateTypes, IsDevice,
                    \A s, t \in Slots :
                      s # t => ~Overlap(Extent(InitTable[s]), Extent(InitTable[t]))
             PROVE  Spec => []NoSilentOverlap
  OBVIOUS
<1>1. Init => KernelApart
  BY DEF Init, KernelApart
<1>2. TypeOK /\ KernelApart /\ [Next]_vars => KernelApart'
  BY KernelApartStep
<1>3. KernelApart /\ KernelMatches => NoSilentOverlap
  BY DEF KernelApart, KernelMatches, NoSilentOverlap
<1> QED
  BY <1>1, <1>2, <1>3, TypeCorrect, KernelMatchesCorrect, PTL DEF Spec
-----------------------------------------------------------------------------
(* Success means it is done. *)

\* On a disk that has a GPT, a call that is about to return success has done it.
LEMMA DoneInGPT ==
  ASSUME TypeOK, PlaceInv, GptInv PROVE SuccessIsDone
<1> SUFFICES ASSUME NEW c \in Clients, pc[c] = "sync", NEW s \in DOMAIN req[c]
             PROVE  /\ op[c] = "create" => Found.parts[s] = req[c][s]
                    /\ op[c] = "delete" => Found.parts[s] = None /\ (IsDevice => kern[s] = None)
  BY DEF SuccessIsDone, CreatedIsVisible, DeletedIsGone, Visible, Deleted
<1>1. pri = Both(committed) /\ committed # None /\ GptPlace(c)
  BY DEF GptInv, GptPlace
<1>2. Found.parts = committed
  BY <1>1, ReadBoth DEF Found, Both
<1>3. op[c] = "delete" /\ IsDevice => kern[s] = None
  BY DEF PlaceInv, Knows, Told
<1> QED
  BY <1>1, <1>2, <1>3 DEF GptPlace

\* A call that is about to return success has done what it was asked for, on a disk that
\* has a GPT at first and that nobody wipes.
THEOREM SuccessIsDoneCorrect ==
  "wipe" \notin Ops /\ InitKind = "gpt" => (Spec => []SuccessIsDone)
<1> SUFFICES ASSUME "wipe" \notin Ops, InitKind = "gpt" PROVE Spec => []SuccessIsDone
  OBVIOUS
<1>1. TypeOK /\ PlaceInv /\ GptInv => SuccessIsDone
  BY DoneInGPT
<1> QED
  BY <1>1, TypeCorrect, PlaceCorrect, GptCorrect, PTL
-----------------------------------------------------------------------------
(* DiskOps implements PartitionTable. *)

\* Calls that go on without being published stay where they are in PartitionTable.
LEMMA GoesOn ==
  ASSUME NEW c \in Clients, \A d \in Clients : d # c => Same(d),
         pc[c] # "idle", pc'[c] # "idle", Published(c)' <=> Published(c),
         UNCHANGED <<op, req, res, committed>>
  PROVE  UNCHANGED PT!vars
<1>1. Phase' = Phase
  BY DEF Phase, Published, Same
<1>2. Calls' = Calls
  BY DEF Calls
<1> QED
  BY <1>1, <1>2 DEF PT!vars

\* Only the call of the client that takes a step changes.
LEMMA Chosen ==
  ASSUME NEW c \in Clients, \A d \in Clients : d # c => Same(d)
  PROVE  PT!Choose(c)
BY DEF PT!Choose, Calls, Same

\* The phases after a step of c.
LEMMA PhaseAfter ==
  ASSUME NEW c \in Clients, \A d \in Clients : d # c => Same(d)
  PROVE  Phase' = [Phase EXCEPT ![c] = Phase'[c]]
BY DEF Phase, Published, Same

\* A call that ends returns.
LEMMA Returns ==
  ASSUME TypeOK, NEW c \in Clients, \A d \in Clients : d # c => Same(d),
         pc[c] # "idle", NEW r \in {"ok", "err"}, End(c, r), r = "ok" => Published(c),
         UNCHANGED committed
  PROVE  PT!Return(c, r)
<1>1. Phase'[c] = "idle"
  BY DEF End, Phase, TypeOK, CallType
<1>2. Phase[c] # "idle" /\ (r = "ok" => Phase[c] = "applied")
  BY DEF Phase
<1>3. res' = [res EXCEPT ![c] = r]
  BY DEF End
<1> QED
  BY <1>1, <1>2, <1>3, Chosen, PhaseAfter DEF PT!Return

\* Without empty types, the table a call writes is the one PartitionTable says.
LEMMA WantedAfter ==
  ASSUME PlaceInv, EmptyType \notin UpdateTypes, NEW c \in Clients,
         op[c] \in {"create", "update", "delete"}, committed \in Tables,
         op[c] = "update" => \A s \in DOMAIN req[c] : committed[s] # None,
         NEW s \in Slots
  PROVE  Wanted(op[c], req[c], committed)[s]
           = PT!After([kind |-> op[c], set |-> req[c]], committed, s)
<1>1. CASE s \notin DOMAIN req[c]
  BY <1>1 DEF Wanted, Merge, Retype, PT!After
<1>2. CASE s \in DOMAIN req[c] /\ op[c] = "create"
  BY <1>2, AskedEntry DEF Wanted, Merge, PT!After
<1>3. CASE s \in DOMAIN req[c] /\ op[c] = "delete"
  BY <1>3 DEF PlaceInv, Asked, Entry, Wanted, Merge, PT!After
<1>4. CASE s \in DOMAIN req[c] /\ op[c] = "update"
  <2> DEFINE new == [start |-> committed[s].start, last |-> committed[s].last,
                     type |-> req[c][s].type]
  <2>1. Wanted("update", req[c], committed)[s] = Entry(new)
    BY <1>4 DEF Wanted, Merge, Retype
  <2>2. committed[s] \in Parts
    BY <1>4 DEF Tables
  <2>3. req[c][s].type \in Types /\ req[c][s].type # EmptyType
    BY <1>4, OpsAssumption DEF PlaceInv, Asked
  <2>4. new \in Parts
    BY <2>2, <2>3 DEF Parts
  <2>5. Entry(new) = new
    BY <2>3, <2>4, NoneAssumption DEF Entry
  <2>6. new = [committed[s] EXCEPT !.type = req[c][s].type]
    BY <2>2 DEF Parts
  <2> QED
    BY <1>4, <2>1, <2>5, <2>6 DEF PT!After
<1> QED
  BY <1>1, <1>2, <1>3, <1>4

\* The second half of the primary copy is where a call takes effect.
LEMMA Applies ==
  ASSUME EmptyType \notin UpdateTypes, TypeOK, PlaceInv, GptInv, NEW c \in Clients,
         \A d \in Clients : d # c => Same(d), WritePrimary(c)
  PROVE  PT!Apply(c) \/ UNCHANGED PT!vars
<1>1. /\ GptPlace(c) /\ pc[c] = "pri" /\ ~fresh[c]
      /\ mem[c] = Wanted(op[c], req[c], committed)
      /\ op[c] = "update" => \A s \in DOMAIN req[c] : committed[s] # None
      /\ UNCHANGED <<op, req, res, fresh>>
  BY DEF WritePrimary, GptInv, GptPlace
<1>2. committed \in Tables /\ op[c] \in {"create", "update", "delete"}
  BY <1>1 DEF TypeOK, DiskType, GptInv, PlaceInv, Placed
<1>3. CASE pc'[c] = "bak" /\ committed' = mem[c]
  <2>1. Phase[c] = "called" /\ Phase'[c] = "applied"
    BY <1>1, <1>3 DEF Phase, Published
  <2>2. Calls' = Calls /\ Calls[c] = [kind |-> op[c], set |-> req[c]]
    BY <1>1 DEF Calls
  <2>3. committed' = [s \in Slots |-> PT!After(Calls[c], committed, s)]
    <3>1. committed' = [s \in Slots |-> committed'[s]]
      BY <1>1, <1>3 DEF Wanted, Merge
    <3>2. \A s \in Slots : committed'[s] = PT!After(Calls[c], committed, s)
      BY <1>1, <1>2, <1>3, <2>2, WantedAfter
    <3> QED
      BY <3>1, <3>2
  <2>4. Calls[c].kind = op[c] /\ Calls[c].set = req[c]
    BY <2>2
  <2> QED
    BY <1>1, <2>1, <2>2, <2>3, <2>4, PhaseAfter DEF PT!Apply
<1>4. CASE pc'[c] = "pri" /\ committed' = committed
  BY <1>1, <1>4, GoesOn DEF Published
<1> QED
  BY <1>3, <1>4, HalfPublished

\* Every step of a client is one of PartitionTable or changes nothing there.
LEMMA AtomicStep ==
  ASSUME "wipe" \notin Ops, EmptyType \notin UpdateTypes, TypeOK, PlaceInv, GptInv, GptInv',
         NEW c \in Clients, Turn(c)
  PROVE  PT!Next \/ UNCHANGED PT!vars
<1>1. \A d \in Clients : d # c => Same(d)
  BY Frame
<1>2. GptPlace(c) /\ GptPlace(c)'
  BY DEF GptInv
<1>3. Fail(c) => UNCHANGED committed
  BY DEF Fail, hist
<1>4. ASSUME pc[c] # "idle", End(c, "err"), UNCHANGED committed PROVE PT!Next
  <2>2. PT!Return(c, "err")
    BY <1>1, <1>4, Returns
  <2> QED
    BY <2>2 DEF PT!Next
<1>5. ASSUME pc[c] # "idle", pc'[c] # "idle", Published(c)' <=> Published(c),
             UNCHANGED <<op, req, res, committed>>
      PROVE  UNCHANGED PT!vars
  BY <1>1, <1>5, GoesOn
<1>6. CASE Scan(c) \/ Reject(c)
  <2>1. /\ Phase[c] = "idle" /\ UNCHANGED <<committed, pc, fresh, op, req>>
        /\ \E r \in {"none", "err"} : res' = [res EXCEPT ![c] = r]
    BY <1>6 DEF Scan, Reject, Phase, hist
  <2>2. Phase' = Phase /\ Calls' = Calls
    BY <2>1 DEF Phase, Calls, Published
  <2> QED
    BY <2>1, <2>2 DEF PT!Next, PT!Look
<1>7. CASE Call(c)
  <2>1. /\ pc[c] = "idle" /\ pc'[c] = "lock" /\ UNCHANGED committed
        /\ res' = [res EXCEPT ![c] = "none"]
    BY <1>7 DEF Call, hist, TypeOK, CallType
  <2>2. Phase[c] = "idle" /\ Phase'[c] = "called"
    BY <2>1 DEF Phase, Published
  <2> QED
    BY <1>1, <2>1, <2>2, Chosen, PhaseAfter DEF PT!Next, PT!Start
<1>8. CASE Acquire(c)
  <2>1. /\ pc[c] = "lock" /\ pc'[c] \in {"create", "update", "delete"}
        /\ UNCHANGED <<op, req, res, committed>>
    BY <1>8 DEF Acquire, hist, TypeOK, CallType, ControlType
  <2> QED
    BY <1>5, <2>1 DEF Published
<1>9. CASE AddGPT(c) \/ AddMBR(c) \/ Update(c) \/ DeleteGPT(c) \/ DeleteMBR(c) \/ Zero(c)
  <2>1. CASE End(c, "err") /\ UNCHANGED committed
    BY <1>4, <1>9, <2>1 DEF AddGPT, AddMBR, Update, DeleteGPT, DeleteMBR, Zero
  <2>2. CASE ~(End(c, "err") /\ UNCHANGED committed)
    <3>1. pc[c] \in {"create", "update", "delete", "zero"} /\ ~InMBR(c)
      BY <1>2, <1>9 DEF AddGPT, AddMBR, Update, DeleteGPT, DeleteMBR, Zero, InMBR, GptPlace,
         PlaceInv, Placed
    <3>2. UNCHANGED <<op, req, res, committed>> /\ pc'[c] \in {"zero", "mbr"}
      BY <1>9, <2>2, <3>1 DEF AddGPT, AddMBR, Update, DeleteGPT, DeleteMBR, Zero, GoTo, Loop,
         WriteGPT, Fail, hist, TypeOK, CallType
    <3> QED
      BY <1>5, <3>1, <3>2 DEF Published
  <2> QED
    BY <2>1, <2>2
<1>10. CASE WriteProtectiveMBR(c)
  <2>1. pc[c] = "mbr" /\ pc'[c] = "pri" /\ UNCHANGED <<op, req, res, committed>>
    BY <1>10 DEF WriteProtectiveMBR, GoTo, hist, TypeOK, CallType
  <2> QED
    BY <1>5, <2>1 DEF Published
<1>11. CASE WritePrimary(c)
  BY <1>1, <1>11, Applies DEF PT!Next
<1>12. CASE WriteBackup(c) \/ Check(c) \/ AddPart(c) \/ DelPart(c)
  <2>1. CASE Fail(c)
    BY <1>3, <1>4, <1>12, <2>1 DEF WriteBackup, Check, AddPart, DelPart, Fail
  <2>2. CASE ~Fail(c)
    <3>1. /\ pc[c] \in {"bak", "check", "kernel"} /\ pc'[c] \in {"bak", "check", "kernel", "sync"}
          /\ UNCHANGED <<op, req, res, committed>>
      BY <1>2, <1>12, <2>2 DEF WriteBackup, Check, AddPart, DelPart, GptPlace, HalfDone, GoTo,
         Loop, KernelLabel, hist, TypeOK, CallType
    <3>2. Published(c) /\ Published(c)'
      BY <1>2, <3>1 DEF Published, GptPlace
    <3> QED
      BY <1>5, <3>1, <3>2
  <2> QED
    BY <2>1, <2>2
<1>13. CASE Sync(c) \/ Uevent(c)
  <2>1. pc[c] \in {"sync", "uevent"} /\ UNCHANGED committed
    BY <1>13 DEF Sync, Uevent, Fail, hist
  <2>2. Published(c)
    BY <1>2, <2>1 DEF Published, GptPlace
  <2>3. CASE End(c, "ok") \/ End(c, "err")
    BY <1>1, <2>1, <2>2, <2>3, Returns DEF PT!Next
  <2>4. CASE ~(End(c, "ok") \/ End(c, "err"))
    <3>1. pc'[c] = "uevent" /\ UNCHANGED <<op, req, res>>
      BY <1>13, <2>4 DEF Sync, Uevent, Fail, GoTo, TypeOK, CallType
    <3>2. Published(c)'
      BY <1>2, <3>1 DEF Published, GptPlace
    <3> QED
      BY <1>5, <2>1, <2>2, <3>1, <3>2
  <2> QED
    BY <2>3, <2>4
<1>14. CASE Fault(c)
  <2>1. pc[c] # "idle" /\ End(c, "err") /\ UNCHANGED committed
    BY <1>14 DEF Fault, hist
  <2> QED
    BY <1>1, <2>1, Returns DEF PT!Next
<1>15. ~(WriteDos(c) \/ WriteBehind(c) \/ WipeFirst(c) \/ WipeLast(c) \/ WipePart(c))
  BY <1>2 DEF GptPlace, Wiping, WriteDos, WriteBehind, WipeFirst, WipeLast, WipePart
<1> QED
  BY <1>6, <1>7, <1>8, <1>9, <1>10, <1>11, <1>12, <1>13, <1>14, <1>15 DEF Turn, Step

\* DiskOps implements PartitionTable: however calls interleave and wherever they fail,
\* each of them works on the table at one moment, as it is then, or not at all.
THEOREM AtomicCallsCorrect ==
  "wipe" \notin Ops /\ InitKind = "gpt" /\ EmptyType \notin UpdateTypes => (Spec => AtomicCalls)
<1> SUFFICES ASSUME "wipe" \notin Ops, InitKind = "gpt", EmptyType \notin UpdateTypes
             PROVE  Spec => AtomicCalls
  OBVIOUS
<1>1. Init => PT!Init
  BY DEF Init, PT!Init, Phase
<1>2. TypeOK /\ PlaceInv /\ GptInv /\ GptInv' /\ [Next]_vars => [PT!Next]_(PT!vars)
  <2> SUFFICES ASSUME TypeOK, PlaceInv, GptInv, GptInv', [Next]_vars
               PROVE  PT!Next \/ UNCHANGED PT!vars
    OBVIOUS
  <2>1. CASE UNCHANGED vars
    BY <2>1 DEF vars, client, hist, PT!vars, Phase, Published, Calls
  <2>2. ASSUME NEW c \in Clients, Turn(c) PROVE PT!Next \/ UNCHANGED PT!vars
    BY <2>2, AtomicStep
  <2> QED
    BY <2>1, <2>2 DEF Next, Turn
<1> QED
  BY <1>1, <1>2, TypeCorrect, PlaceCorrect, GptCorrect, PTL DEF Spec, AtomicCalls, PT!Spec
=============================================================================
