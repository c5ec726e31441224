------------------------------ MODULE MockLVM -----------------------------
(***************************************************************************)
(* The mock VolumeManager (mockos/lvm.go) on the mock System: physical     *)
(* volumes, volume groups and logical volumes kept in maps.  A call is one *)
(* step, because the mock has one caller.  Go's structs are copied when    *)
(* they are taken out of a map and the maps in them are not: a change of   *)
(* vg.Volumes is a change of the mock, one of vg.FreeSpace or of lv is     *)
(* lost unless it is put back.                                             *)
(***************************************************************************)
EXTENDS MockSystem

CONSTANTS
  DiskSize,   \* sizes of the disks
  VGs, LVs,   \* names of volume groups and logical volumes
  Mapped,     \* names for opened volumes
  Sizes,      \* sizes callers ask for
  Lists       \* the physical volumes callers pass in one call

PVNames == Disks \union Names

ASSUME SizesAssumption == DiskSize \in [Disks -> Nat] /\ Sizes \subseteq Nat
ASSUME ListsAssumption == Lists \subseteq Seq(PVNames)
ASSUME MappedAssumption == None \notin Mapped
ASSUME OwnersAssumption == VGs \intersect {"unknown", "free", "lost"} = {}

VARIABLES
  pvs, free,     \* lvm.PVs and lvm.freePVs, by name
  vgs,           \* the volume groups there are
  owned,         \* vg.PVs
  size, space,   \* vg.Size, vg.FreeSpace
  lvs            \* lvs[v][l]: the volume with key l in vg.Volumes, or None

books == <<size, space, lvs>>
vars == <<parts, ok, pvs, free, vgs, owned, size, space, lvs>>

\* a partition's device has the Size of the empty Disk that a failed lookup returns
PVSize(p) == IF p \in Disks THEN DiskSize[p] ELSE 0

\* The sum of the values of a function, counted unit by unit: a column of f[x] units
\* stands on each x.
Units(f) == UNION {{x} \X (1 .. f[x]) : x \in DOMAIN f}
SumOf(f) == Cardinality(Units(f))

Total(list) == SumOf([i \in DOMAIN list |-> PVSize(list[i])])

\* an LV: its size, is it encrypted, the name it is open under.  lv.Name is left out:
\* every look-up is by the key.
LV == [size : Sizes, enc : BOOLEAN, open : Mapped \union {None}]

ASSUME VolumesAssumption == IsFiniteSet(LVs) /\ None \notin LV

\* findLV finds it
HasLV(v, l) == v \in vgs /\ lvs[v][l] # None

Init ==
  /\ InitSystem /\ ok = TRUE
  /\ pvs = {} /\ free = {} /\ vgs = {}
  /\ owned = [v \in VGs |-> {}]
  /\ size = [v \in VGs |-> 0] /\ space = size
  /\ lvs = [v \in VGs |-> [l \in LVs |-> None]]

\* an early return with an error, before anything has changed
Fails == ok' = FALSE /\ UNCHANGED <<pvs, free, vgs, owned, size, space, lvs>>
-----------------------------------------------------------------------------
\* Physical volumes

CreatePV(p) ==
  IF (p \in Disks \/ HasPartition(p)) /\ p \notin pvs
    THEN /\ ok' = TRUE
         /\ pvs' = pvs \union {p} /\ free' = free \union {p}
         /\ UNCHANGED <<vgs, owned, size, space, lvs>>
    ELSE Fails

\* wrong, for comparison: a volume group's PV is deleted under it
DeletePVUsed(p) ==
  IF p \in pvs
    THEN /\ ok' = TRUE
         /\ pvs' = pvs \ {p} /\ free' = free \ {p}
         /\ UNCHANGED <<vgs, owned, size, space, lvs>>
    ELSE Fails

DeletePV(p) ==
  IF p \in pvs /\ p \in free
    THEN /\ ok' = TRUE
         /\ pvs' = pvs \ {p} /\ free' = free \ {p}
         /\ UNCHANGED <<vgs, owned, size, space, lvs>>
    ELSE Fails
-----------------------------------------------------------------------------
\* Volume groups

\* the places of a list at which CreateVG does not find the PV free
Refused(list) ==
  {i \in DOMAIN list : list[i] \notin free \ {list[j] : j \in 1 .. i - 1}}

\* the PVs that the loop of CreateVG takes out of the free ones before it stops
Taken(list) ==
  {list[j] : j \in {k \in DOMAIN list : \A i \in Refused(list) : k < i}}

CreateVG(v, list) ==
  IF v \in vgs
    THEN Fails
  ELSE IF Refused(list) # {}
    THEN ok' = FALSE /\ free' = free \ Taken(list) /\ UNCHANGED <<pvs, vgs, owned, size, space, lvs>>
  ELSE /\ ok' = TRUE
       /\ free' = free \ Taken(list)
       /\ vgs' = vgs \union {v}
       /\ owned' = [owned EXCEPT ![v] = Taken(list)]
       /\ size' = [size EXCEPT ![v] = Total(list)]
       /\ space' = [space EXCEPT ![v] = Total(list)]
       /\ lvs' = [lvs EXCEPT ![v] = [l \in LVs |-> None]]
       /\ UNCHANGED pvs

\* wrong, for comparison: the free list is not looked at
ExtendVGAny(v, list) ==
  IF v \in vgs /\ \A i \in DOMAIN list : list[i] \in pvs
    THEN /\ ok' = TRUE
         /\ free' = free \ {list[i] : i \in DOMAIN list}
         /\ owned' = [owned EXCEPT ![v] = @ \union {list[i] : i \in DOMAIN list}]
         /\ size' = [size EXCEPT ![v] = @ + Total(list)]
         /\ space' = [space EXCEPT ![v] = @ + Total(list)]
         /\ UNCHANGED <<pvs, vgs, lvs>>
    ELSE Fails

\* all are looked at before the first is taken; one named twice is counted twice
ExtendVG(v, list) ==
  IF v \in vgs /\ \A i \in DOMAIN list : list[i] \in free
    THEN /\ ok' = TRUE
         /\ free' = free \ {list[i] : i \in DOMAIN list}
         /\ owned' = [owned EXCEPT ![v] = @ \union {list[i] : i \in DOMAIN list}]
         /\ size' = [size EXCEPT ![v] = @ + Total(list)]
         /\ space' = [space EXCEPT ![v] = @ + Total(list)]
         /\ UNCHANGED <<pvs, vgs, lvs>>
    ELSE Fails

\* the entry of a volume group is gone, with everything in it
Forget(v) ==
  /\ vgs' = vgs \ {v}
  /\ owned' = [owned EXCEPT ![v] = {}]
  /\ size' = [size EXCEPT ![v] = 0] /\ space' = [space EXCEPT ![v] = 0]
  /\ lvs' = [lvs EXCEPT ![v] = [l \in LVs |-> None]]

\* wrong, for comparison: the PVs are not given back
RemoveVGOnly(v) ==
  IF v \in vgs THEN ok' = TRUE /\ Forget(v) /\ UNCHANGED <<pvs, free>>
               ELSE Fails

RemoveVG(v) ==
  IF v \in vgs THEN ok' = TRUE /\ Forget(v) /\ free' = free \union owned[v] /\ UNCHANGED pvs
               ELSE Fails
-----------------------------------------------------------------------------
\* Logical volumes

\* the volume is put into vg.Volumes and v's entry gets a new FreeSpace
Books(volumes, v, left) ==
  /\ ok' = TRUE
  /\ lvs' = [lvs EXCEPT ![v] = volumes]
  /\ space' = [space EXCEPT ![v] = left]
  /\ UNCHANGED <<pvs, free, vgs, owned, size>>

Put(v, l, volume) == [lvs[v] EXCEPT ![l] = volume]

CryptFormat(v, l) ==
  IF HasLV(v, l) THEN Books(Put(v, l, [lvs[v][l] EXCEPT !.enc = TRUE]), v, space[v])
                 ELSE Fails

\* wrong, for comparison: a plain volume can be opened too
CryptOpenAny(v, l, m) ==
  IF HasLV(v, l) THEN Books(Put(v, l, [lvs[v][l] EXCEPT !.open = m]), v, space[v])
                 ELSE Fails

CryptOpen(v, l, m) ==
  IF HasLV(v, l) /\ lvs[v][l].enc
    THEN Books(Put(v, l, [lvs[v][l] EXCEPT !.open = m]), v, space[v])
    ELSE Fails

CryptClose(v, l) ==
  IF HasLV(v, l) /\ lvs[v][l].enc /\ lvs[v][l].open # None
    THEN Books(Put(v, l, [lvs[v][l] EXCEPT !.open = None]), v, space[v])
    ELSE Fails

CreateLV(v, l, z) ==
  IF ~HasLV(v, l) /\ v \in vgs /\ space[v] >= z
    THEN Books(Put(v, l, [size |-> z, enc |-> FALSE, open |-> None]), v, space[v] - z)
    ELSE Fails

\* wrong, for comparison: the old name stays
RenameLVCopy(v, l, m) ==
  IF HasLV(v, l) THEN Books(Put(v, m, lvs[v][l]), v, space[v]) ELSE Fails

\* a volume that has the new name is replaced, and its space is in no book any more
RenameLV(v, l, m) ==
  IF HasLV(v, l)
    THEN Books([lvs[v] EXCEPT ![l] = None, ![m] = lvs[v][l]], v, space[v])
    ELSE Fails

\* wrong, for comparison: the space stays taken
RemoveLVOnly(v, l) ==
  IF HasLV(v, l) THEN Books(Put(v, l, None), v, space[v]) ELSE Fails

RemoveLV(v, l) ==
  IF HasLV(v, l) THEN Books(Put(v, l, None), v, space[v] + lvs[v][l].size) ELSE Fails

\* vg and lv are copies: what ExtendLV writes is gone when it returns
ExtendLV(v, l, z) ==
  IF HasLV(v, l) /\ z >= lvs[v][l].size /\ space[v] >= z - lvs[v][l].size
    THEN Books(lvs[v], v, space[v])
    ELSE Fails

OnVolume(v, l) ==
  \/ CryptFormat(v, l) \/ CryptClose(v, l) \/ RemoveLV(v, l)
  \/ \E m \in Mapped : CryptOpen(v, l, m)
  \/ \E z \in Sizes : CreateLV(v, l, z) \/ ExtendLV(v, l, z)
  \/ \E m \in LVs : RenameLV(v, l, m)

NextLVM ==
  \/ \E p \in PVNames : CreatePV(p) \/ DeletePV(p)
  \/ \E v \in VGs :
       \/ RemoveVG(v)
       \/ \E list \in Lists : CreateVG(v, list) \/ ExtendVG(v, list)
       \/ \E l \in LVs : OnVolume(v, l)

Next ==
  \/ NextSystem /\ UNCHANGED <<pvs, free, vgs, owned, size, space, lvs>>
  \/ NextLVM /\ UNCHANGED parts

Spec == Init /\ [][Next]_vars
-----------------------------------------------------------------------------
\* Properties

\* A physical volume that is free or in a volume group exists, and it is in one place
\* only: what the five calls that move it between three maps keep between them.
OneOwner ==
  /\ free \subseteq pvs
  /\ \A v \in VGs :
       /\ owned[v] \subseteq pvs
       /\ v \notin vgs => owned[v] = {}
       /\ owned[v] \intersect free = {}
       /\ \A w \in VGs \ {v} : owned[v] \intersect owned[w] = {}

\* The space of the volumes of a group
Spaces(volumes) == [l \in LVs |-> IF volumes[l] = None THEN 0 ELSE volumes[l].size]
LVSpace(v) == SumOf(Spaces(lvs[v]))

\* A volume group never promises more than it has: its volumes and its free space fit
\* into its size, through every create, remove, rename and extend.
NoOversell == \A v \in vgs : space[v] >= 0 /\ LVSpace(v) + space[v] <= size[v]

\* A volume is open only if it is encrypted, whatever was renamed, replaced or created
\* again under its name.
OpenIsEncrypted ==
  \A v \in vgs, l \in LVs : HasLV(v, l) /\ lvs[v][l].open # None => lvs[v][l].enc

\* The physical volumes that exist and that no call can ever use or delete again
LostPVs == {p \in pvs \ free : \A v \in VGs : p \notin owned[v]}

\* PVs get lost only in a call that reports an error (a CreateVG that took some before
\* it met one that is not free), and a lost PV stays lost.
LostByError == [][LostPVs \subseteq LostPVs' /\ (ok' => LostPVs' = LostPVs)]_vars

\* The space of the physical volumes of a group
PVSpace(v) == SumOf([p \in owned[v] |-> PVSize(p)])

\* What the books of a volume group and its contents differ by
Gap(v) == <<size[v] - PVSpace(v), size[v] - space[v] - LVSpace(v)>>

\* The books of a volume group change together with its contents, but for two calls: an
\* ExtendVG that names a PV twice, and a RenameLV to the name of another volume.
BooksKept ==
  [][\A v \in vgs \intersect vgs' :
       \/ Gap(v)' = Gap(v)
       \/ \E list \in Lists : ~IsInjective(list) /\ ExtendVG(v, list)
       \/ \E l, m \in LVs : l # m /\ HasLV(v, m) /\ RenameLV(v, l, m)]_vars

\* Who owns a PV, as the maps of the mock have it
Owner ==
  [p \in PVNames |->
    IF p \notin pvs THEN "unknown"
    ELSE IF p \in free THEN "free"
    ELSE IF p \in LostPVs THEN "lost"
    ELSE CHOOSE v \in VGs : p \in owned[v]]

\* The mock implements PVOwnership.
Ownership ==
  INSTANCE PVOwnership WITH
    PVs <- PVNames, Unknown <- "unknown", Free <- "free", Lost <- "lost", owner <- Owner

\* Every call of the mock gives, frees or loses physical volumes the way PVOwnership
\* allows: in one piece, from the free ones, and back to them only with the group.
OwnedOnce == Ownership!Spec
=============================================================================
