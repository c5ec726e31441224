--------------------------- MODULE MockLVMProofs ---------------------------
(***************************************************************************)
(* Theorems about MockLVM, for any disks, partitions, groups, volumes,     *)
(* sizes and lists of physical volumes.                                    *)
(***************************************************************************)
EXTENDS MockLVM, FiniteSetTheorems, TLAPS

\* What OneOwner needs to be inductive: the types of the variables it speaks of.
Inv ==
  /\ pvs \subseteq PVNames /\ free \subseteq PVNames /\ vgs \subseteq VGs
  /\ owned \in [VGs -> SUBSET PVNames]
  /\ OneOwner

\* the variables that Inv and LostPVs speak of
places == <<pvs, free, vgs, owned>>

\* The PVs of a list.
LEMMA ListType ==
  ASSUME NEW list \in Lists
  PROVE  /\ DOMAIN list \subseteq Nat
         /\ \A i \in DOMAIN list : list[i] \in PVNames
  BY ListsAssumption

\* What CreateVG takes, whether it goes on to the end of the list or not, was free.
LEMMA TakenFree ==
  ASSUME NEW list \in Lists
  PROVE  Taken(list) \subseteq free
<1> SUFFICES ASSUME NEW k \in DOMAIN list, \A i \in Refused(list) : k < i
             PROVE  list[k] \in free
  BY DEF Taken
<1>1. k \in Nat
  BY ListType
<1>2. k \notin Refused(list)
  BY <1>1
<1> QED
  BY <1>2 DEF Refused

\* The calls that leave the physical volumes where they are.
LEMMA StillCalls ==
  ASSUME NEW v \in VGs, NEW l \in LVs, OnVolume(v, l)
  PROVE  UNCHANGED places
<1>1. CASE CryptFormat(v, l)
  BY <1>1 DEF CryptFormat, Books, Fails, places
<1>2. CASE CryptClose(v, l)
  BY <1>2 DEF CryptClose, Books, Fails, places
<1>3. CASE RemoveLV(v, l)
  BY <1>3 DEF RemoveLV, Books, Fails, places
<1>4. CASE \E m \in Mapped : CryptOpen(v, l, m)
  BY <1>4 DEF CryptOpen, Books, Fails, places
<1>5. CASE \E z \in Sizes : CreateLV(v, l, z) \/ ExtendLV(v, l, z)
  BY <1>5 DEF CreateLV, ExtendLV, Books, Fails, places
<1>6. CASE \E m \in LVs : RenameLV(v, l, m)
  BY <1>6 DEF RenameLV, Books, Fails, places
<1> QED
  BY <1>1, <1>2, <1>3, <1>4, <1>5, <1>6 DEF OnVolume

\* What a step does to the physical volumes: one of the six calls on them, or nothing.
LEMMA Moves ==
  ASSUME [Next]_vars
  PROVE  \/ UNCHANGED places
         \/ \E p \in PVNames : CreatePV(p) \/ DeletePV(p)
         \/ \E v \in VGs : RemoveVG(v)
         \/ \E v \in VGs, list \in Lists : CreateVG(v, list) \/ ExtendVG(v, list)
<1>1. CASE NextSystem /\ UNCHANGED <<pvs, free, vgs, owned, size, space, lvs>>
  BY <1>1 DEF places
<1>2. CASE NextLVM
  BY <1>2, StillCalls DEF NextLVM
<1>3. CASE UNCHANGED vars
  BY <1>3 DEF vars, places
<1> QED
  BY <1>1, <1>2, <1>3 DEF Next
-----------------------------------------------------------------------------
LEMMA InitInv == Init => Inv
  BY DEF Init, Inv, OneOwner

LEMMA CreatePVInv ==
  ASSUME Inv, NEW p \in PVNames, CreatePV(p)
  PROVE  Inv'
  BY DEF Inv, OneOwner, CreatePV, Fails

LEMMA DeletePVInv ==
  ASSUME Inv, NEW p \in PVNames, DeletePV(p)
  PROVE  Inv'
  BY DEF Inv, OneOwner, DeletePV, Fails

LEMMA CreateVGInv ==
  ASSUME Inv, NEW v \in VGs, NEW list \in Lists, CreateVG(v, list)
  PROVE  Inv'
<1> USE TakenFree DEF Inv, OneOwner
<1>1. CASE v \in vgs
  BY <1>1 DEF CreateVG, Fails
<1>2. CASE v \notin vgs /\ Refused(list) # {}
  BY <1>2 DEF CreateVG
<1>3. CASE v \notin vgs /\ Refused(list) = {}
  BY <1>3 DEF CreateVG
<1> QED
  BY <1>1, <1>2, <1>3

LEMMA ExtendVGInv ==
  ASSUME Inv, NEW v \in VGs, NEW list \in Lists, ExtendVG(v, list)
  PROVE  Inv'
  BY DEF Inv, OneOwner, ExtendVG, Fails

LEMMA RemoveVGInv ==
  ASSUME Inv, NEW v \in VGs, RemoveVG(v)
  PROVE  Inv'
  BY DEF Inv, OneOwner, RemoveVG, Forget, Fails

LEMMA StepInv ==
  ASSUME Inv, [Next]_vars
  PROVE  Inv'
<1>1. CASE UNCHANGED places
  BY <1>1 DEF Inv, OneOwner, places
<1> QED
  BY <1>1, Moves, CreatePVInv, DeletePVInv, CreateVGInv, ExtendVGInv, RemoveVGInv

LEMMA InvCorrect == Spec => []Inv
  BY InitInv, StepInv, PTL DEF Spec

\* Whatever calls are made, a physical volume is free or in one volume group, and exists.
THEOREM OneOwnerCorrect == Spec => []OneOwner
<1>1. Inv => OneOwner
  BY DEF Inv
<1> QED
  BY <1>1, InvCorrect, PTL
-----------------------------------------------------------------------------
LEMMA CreateVGLost ==
  ASSUME Inv, NEW v \in VGs, NEW list \in Lists, CreateVG(v, list)
  PROVE  LostPVs \subseteq LostPVs' /\ (ok' => LostPVs' = LostPVs)
<1> USE TakenFree DEF Inv, OneOwner, LostPVs
<1>1. CASE v \in vgs
  BY <1>1 DEF CreateVG, Fails
<1>2. CASE v \notin vgs /\ Refused(list) # {}
  BY <1>2 DEF CreateVG
<1>3. CASE v \notin vgs /\ Refused(list) = {}
  BY <1>3 DEF CreateVG
<1> QED
  BY <1>1, <1>2, <1>3

\* The calls that lose no physical volume, whatever they answer.
LEMMA OtherLost ==
  ASSUME Inv,
         \/ UNCHANGED places
         \/ \E p \in PVNames : CreatePV(p) \/ DeletePV(p)
         \/ \E v \in VGs : RemoveVG(v) \/ \E list \in Lists : ExtendVG(v, list)
  PROVE  LostPVs' = LostPVs
<1> USE DEF Inv, OneOwner, LostPVs
<1>1. CASE UNCHANGED places
  BY <1>1 DEF places
<1>2. ASSUME NEW p \in PVNames, CreatePV(p)
      PROVE  LostPVs' = LostPVs
  BY <1>2 DEF CreatePV, Fails
<1>3. ASSUME NEW p \in PVNames, DeletePV(p)
      PROVE  LostPVs' = LostPVs
  BY <1>3 DEF DeletePV, Fails
<1>4. ASSUME NEW v \in VGs, RemoveVG(v)
      PROVE  LostPVs' = LostPVs
  BY <1>4 DEF RemoveVG, Forget, Fails
<1>5. ASSUME NEW v \in VGs, NEW list \in Lists, ExtendVG(v, list)
      PROVE  LostPVs' = LostPVs
  BY <1>5, ListType DEF ExtendVG, Fails
<1> QED
  BY <1>1, <1>2, <1>3, <1>4, <1>5

\* A physical volume gets lost only in a call that reports an error, and stays lost.
THEOREM LostByErrorCorrect == Spec => LostByError
<1>1. ASSUME Inv, [Next]_vars
      PROVE  LostPVs \subseteq LostPVs' /\ (ok' => LostPVs' = LostPVs)
  BY <1>1, Moves, CreateVGLost, OtherLost
<1> QED
  BY <1>1, InvCorrect, PTL DEF Spec, LostByError
-----------------------------------------------------------------------------
\* Who owns a physical volume, read off the four maps
Placed ==
  /\ Owner = [p \in PVNames |-> Owner[p]]
  /\ \A p \in PVNames :
       /\ Owner[p] = "unknown" <=> p \notin pvs
       /\ Owner[p] = "free" <=> p \in free
       /\ Owner[p] = "lost" <=> p \in LostPVs
       /\ \A v \in VGs : Owner[p] = v <=> p \in owned[v]

\* With one owner at most there is nothing to choose in Owner.
LEMMA OwnerPlaced == Inv => Placed
<1> SUFFICES ASSUME Inv PROVE Placed
  OBVIOUS
<1>1. Owner = [p \in PVNames |-> Owner[p]]
  BY DEF Owner
<1> SUFFICES ASSUME NEW p \in PVNames
             PROVE  /\ Owner[p] = "unknown" <=> p \notin pvs
                    /\ Owner[p] = "free" <=> p \in free
                    /\ Owner[p] = "lost" <=> p \in LostPVs
                    /\ \A v \in VGs : Owner[p] = v <=> p \in owned[v]
  BY <1>1 DEF Placed
<1> USE OwnersAssumption DEF Inv, OneOwner
<1>2. CASE p \notin pvs
  BY <1>2 DEF Owner, LostPVs
<1>3. CASE p \in free
  BY <1>3 DEF Owner, LostPVs
<1>4. CASE p \in LostPVs
  BY <1>4 DEF Owner, LostPVs
<1>5. CASE p \in pvs \ free /\ p \notin LostPVs
  <2>1. PICK v \in VGs : p \in owned[v]
    BY <1>5 DEF LostPVs
  <2>2. Owner[p] = v
    <3>1. \A w \in VGs : p \in owned[w] => w = v
      BY <2>1
    <3> QED
      BY <1>5, <2>1, <3>1 DEF Owner
  <2> QED
    BY <1>5, <2>1, <2>2
<1> QED
  BY <1>2, <1>3, <1>4, <1>5

\* A call that does not move a physical volume is a stutter of PVOwnership.
LEMMA StillOwner ==
  ASSUME UNCHANGED places
  PROVE  UNCHANGED Owner
  BY DEF places, Owner, LostPVs

LEMMA CreatePVOwner ==
  ASSUME Placed, Placed', Inv, NEW p \in PVNames, CreatePV(p), LostPVs' = LostPVs
  PROVE  UNCHANGED Owner \/ Ownership!Create(p)
<1>1. CASE Fails
  BY <1>1, StillOwner DEF Fails, places
<1>2. CASE p \notin pvs /\ pvs' = pvs \union {p} /\ free' = free \union {p} /\ owned' = owned
  <2>1. \A q \in PVNames : Owner'[q] = IF q = p THEN "free" ELSE Owner[q]
    <3> SUFFICES ASSUME NEW q \in PVNames
                 PROVE  Owner'[q] = IF q = p THEN "free" ELSE Owner[q]
      OBVIOUS
    <3>1. q \in pvs => q \in free \/ q \in LostPVs \/ \E v \in VGs : q \in owned[v]
      BY DEF LostPVs
    <3> QED
      BY <1>2, <3>1 DEF Placed
  <2>2. Owner[p] = "unknown"
    BY <1>2 DEF Placed
  <2>3. Owner' = [Owner EXCEPT ![p] = "free"]
    BY <2>1 DEF Placed
  <2> QED
    BY <2>2, <2>3 DEF Ownership!Create
<1> QED
  BY <1>1, <1>2 DEF CreatePV

LEMMA DeletePVOwner ==
  ASSUME Placed, Placed', Inv, NEW p \in PVNames, DeletePV(p), LostPVs' = LostPVs
  PROVE  UNCHANGED Owner \/ Ownership!Delete(p)
<1>1. CASE Fails
  BY <1>1, StillOwner DEF Fails, places
<1>2. CASE p \in free /\ pvs' = pvs \ {p} /\ free' = free \ {p} /\ owned' = owned
  <2>1. \A q \in PVNames : Owner'[q] = IF q = p THEN "unknown" ELSE Owner[q]
    <3> SUFFICES ASSUME NEW q \in PVNames
                 PROVE  Owner'[q] = IF q = p THEN "unknown" ELSE Owner[q]
      OBVIOUS
    <3>1. q \in pvs => q \in free \/ q \in LostPVs \/ \E v \in VGs : q \in owned[v]
      BY DEF LostPVs
    <3> QED
      BY <1>2, <3>1 DEF Placed
  <2>2. Owner[p] = "free"
    BY <1>2 DEF Placed
  <2>3. Owner' = [Owner EXCEPT ![p] = "unknown"]
    BY <2>1 DEF Placed
  <2> QED
    BY <2>2, <2>3 DEF Ownership!Delete
<1> QED
  BY <1>1, <1>2 DEF DeletePV

\* Free physical volumes that go to a group that has others already, or to one that had
\* none, are given to it.
LEMMA Given ==
  ASSUME Placed, Placed', Inv, NEW S \in SUBSET PVNames, NEW v \in VGs, S \subseteq free,
         pvs' = pvs, free' = free \ S, owned' = [owned EXCEPT ![v] = @ \union S],
         LostPVs' = LostPVs
  PROVE  Ownership!Give(S, v)
<1>1. ASSUME NEW q \in PVNames
      PROVE  Owner'[q] = IF q \in S THEN v ELSE Owner[q]
  <2>1. CASE q \in S
    <3>1. q \in owned'[v]
      BY <2>1 DEF Inv
    <3> QED
      BY <2>1, <3>1 DEF Placed
  <2>2. CASE q \notin S
    <3>1. q \in pvs => q \in free \/ q \in LostPVs \/ \E w \in VGs : q \in owned[w]
      BY DEF LostPVs
    <3>2. \A w \in VGs : q \in owned'[w] <=> q \in owned[w]
      BY <2>2 DEF Inv
    <3> QED
      BY <2>2, <3>1, <3>2 DEF Placed
  <2> QED
    BY <2>1, <2>2
<1>2. \A q \in S : Owner[q] = "free"
  BY DEF Placed
<1>3. Owner' = [q \in PVNames |-> IF q \in S THEN v ELSE Owner[q]]
  BY <1>1 DEF Placed
<1> QED
  BY <1>2, <1>3 DEF Ownership!Give

\* Free physical volumes that are nowhere after a call are given to nobody.
LEMMA GivenAway ==
  ASSUME Placed, Placed', Inv, NEW S \in SUBSET PVNames, S \subseteq free,
         pvs' = pvs, free' = free \ S, owned' = owned
  PROVE  Ownership!Give(S, "lost")
<1>1. ASSUME NEW q \in PVNames
      PROVE  Owner'[q] = IF q \in S THEN "lost" ELSE Owner[q]
  <2>1. CASE q \in S
    <3>1. q \in LostPVs'
      BY <2>1 DEF Inv, OneOwner, LostPVs
    <3> QED
      BY <2>1, <3>1 DEF Placed
  <2>2. CASE q \notin S
    <3>1. q \in pvs => q \in free \/ q \in LostPVs \/ \E w \in VGs : q \in owned[w]
      BY DEF LostPVs
    <3>2. q \in LostPVs' <=> q \in LostPVs
      BY <2>2 DEF LostPVs
    <3> QED
      BY <2>2, <3>1, <3>2 DEF Placed
  <2> QED
    BY <2>1, <2>2
<1>2. \A q \in S : Owner[q] = "free"
  BY DEF Placed
<1>3. Owner' = [q \in PVNames |-> IF q \in S THEN "lost" ELSE Owner[q]]
  BY <1>1 DEF Placed
<1> QED
  BY <1>2, <1>3 DEF Ownership!Give

LEMMA CreateVGOwner ==
  ASSUME Placed, Placed', Inv, NEW v \in VGs, NEW list \in Lists, CreateVG(v, list)
  PROVE  UNCHANGED Owner \/ \E S \in SUBSET PVNames, o \in VGs \union {"lost"} : Ownership!Give(S, o)
<1>1. Taken(list) \subseteq free /\ Taken(list) \in SUBSET PVNames
  BY TakenFree DEF Inv
<1>2. CASE v \in vgs
  BY <1>2, StillOwner DEF CreateVG, Fails, places
<1>3. CASE v \notin vgs /\ Refused(list) # {}
  BY <1>1, <1>3, GivenAway DEF CreateVG
<1>4. CASE v \notin vgs /\ Refused(list) = {}
  <2>1. owned' = [owned EXCEPT ![v] = @ \union Taken(list)]
    BY <1>4 DEF CreateVG, Inv, OneOwner
  <2>2. LostPVs' = LostPVs
    BY <1>4, CreateVGLost DEF CreateVG
  <2> QED
    BY <1>1, <1>4, <2>1, <2>2, Given DEF CreateVG
<1> QED
  BY <1>2, <1>3, <1>4

LEMMA ExtendVGOwner ==
  ASSUME Placed, Placed', Inv, NEW v \in VGs, NEW list \in Lists, ExtendVG(v, list),
         LostPVs' = LostPVs
  PROVE  UNCHANGED Owner \/ \E S \in SUBSET PVNames : Ownership!Give(S, v)
<1> DEFINE S == {list[i] : i \in DOMAIN list}
<1>1. S \in SUBSET PVNames
  BY ListType
<1>2. CASE Fails
  BY <1>2, StillOwner DEF Fails, places
<1>3. CASE S \subseteq free /\ free' = free \ S /\ pvs' = pvs
           /\ owned' = [owned EXCEPT ![v] = @ \union S]
  BY <1>1, <1>3, Given
<1> QED
  BY <1>2, <1>3 DEF ExtendVG

LEMMA RemoveVGOwner ==
  ASSUME Placed, Placed', Inv, NEW v \in VGs, RemoveVG(v), LostPVs' = LostPVs
  PROVE  UNCHANGED Owner \/ Ownership!Release(v)
<1>1. CASE Fails
  BY <1>1, StillOwner DEF Fails, places
<1>2. CASE pvs' = pvs /\ free' = free \union owned[v] /\ owned' = [owned EXCEPT ![v] = {}]
  <2>1. ASSUME NEW q \in PVNames
        PROVE  Owner'[q] = IF Owner[q] = v THEN "free" ELSE Owner[q]
    <3>1. CASE q \in owned[v]
      BY <1>2, <3>1 DEF Placed
    <3>2. CASE q \notin owned[v]
      <4>1. q \in pvs => q \in free \/ q \in LostPVs \/ \E w \in VGs : q \in owned[w]
        BY DEF LostPVs
      <4>2. \A w \in VGs : q \in owned'[w] <=> q \in owned[w]
        BY <1>2, <3>2 DEF Inv
      <4> QED
        BY <1>2, <3>2, <4>1, <4>2 DEF Placed
    <3> QED
      BY <3>1, <3>2
  <2>2. Owner' = [q \in PVNames |-> IF Owner[q] = v THEN "free" ELSE Owner[q]]
    BY <2>1 DEF Placed
  <2> QED
    BY <2>2 DEF Ownership!Release
<1> QED
  BY <1>1, <1>2 DEF RemoveVG, Forget

LEMMA StepOwner ==
  ASSUME Placed, Placed', Inv, [Next]_vars
  PROVE  [Ownership!Next]_Owner
<1> USE DEF Ownership!Next
<1>1. CASE UNCHANGED places
  BY <1>1, StillOwner
<1>2. ASSUME NEW p \in PVNames, CreatePV(p) \/ DeletePV(p)
      PROVE  [Ownership!Next]_Owner
  <2>1. LostPVs' = LostPVs
    BY <1>2, OtherLost
  <2> QED
    BY <1>2, <2>1, CreatePVOwner, DeletePVOwner
<1>3. ASSUME NEW v \in VGs, RemoveVG(v)
      PROVE  [Ownership!Next]_Owner
  <2>1. LostPVs' = LostPVs
    BY <1>3, OtherLost
  <2> QED
    BY <1>3, <2>1, RemoveVGOwner
<1>4. ASSUME NEW v \in VGs, NEW list \in Lists, CreateVG(v, list)
      PROVE  [Ownership!Next]_Owner
  BY <1>4, CreateVGOwner
<1>5. ASSUME NEW v \in VGs, NEW list \in Lists, ExtendVG(v, list)
      PROVE  [Ownership!Next]_Owner
  <2>1. LostPVs' = LostPVs
    BY <1>5, OtherLost
  <2> QED
    BY <1>5, <2>1, ExtendVGOwner
<1> QED
  BY <1>1, <1>2, <1>3, <1>4, <1>5, Moves

\* Every call of the mock moves physical volumes between owners the way the abstract
\* PVOwnership allows: created free, given, released with the group, deleted when free.
THEOREM OwnedOnceCorrect == Spec => OwnedOnce
<1>1. Init => Ownership!Init
  BY DEF Init, Ownership!Init, Owner
<1>2. ASSUME Inv, Inv', Placed, Placed', [Next]_vars
      PROVE  [Ownership!Next]_Owner
  BY <1>2, StepOwner
<1>3. Inv => Placed
  BY OwnerPlaced
<1> QED
  BY <1>1, <1>2, <1>3, InvCorrect, PTL DEF Spec, OwnedOnce, Ownership!Spec
-----------------------------------------------------------------------------
\* What OpenIsEncrypted needs to be inductive
VolumesOK ==
  /\ lvs \in [VGs -> [LVs -> LV \union {None}]]
  /\ OpenIsEncrypted

\* A call puts volumes into a group that are open only if they are encrypted.
LEMMA BooksVolumes ==
  ASSUME VolumesOK, NEW v \in VGs, NEW left,
         NEW volumes \in [LVs -> LV \union {None}], Books(volumes, v, left),
         \A l \in LVs : volumes[l] # None /\ volumes[l].open # None => volumes[l].enc
  PROVE  VolumesOK'
  BY DEF VolumesOK, OpenIsEncrypted, HasLV, Books

\* One volume of a group is put, and the others stay.
LEMMA PutVolumes ==
  ASSUME VolumesOK, NEW v \in vgs, v \in VGs, NEW l \in LVs, NEW left,
         NEW volume \in LV \union {None}, Books(Put(v, l, volume), v, left),
         volume # None /\ volume.open # None => volume.enc
  PROVE  VolumesOK'
<1> DEFINE volumes == Put(v, l, volume)
<1>1. volumes \in [LVs -> LV \union {None}]
  BY DEF VolumesOK, Put
<1>2. \A k \in LVs : volumes[k] = IF k = l THEN volume ELSE lvs[v][k]
  BY DEF VolumesOK, Put
<1>3. \A k \in LVs : volumes[k] # None /\ volumes[k].open # None => volumes[k].enc
  BY <1>2 DEF VolumesOK, OpenIsEncrypted, HasLV
<1> QED
  BY <1>1, <1>3, BooksVolumes

LEMMA OnVolumeOK ==
  ASSUME VolumesOK, NEW v \in VGs, NEW l \in LVs, OnVolume(v, l)
  PROVE  VolumesOK'
<1> DEFINE lv == lvs[v][l]
<1>0. CASE Fails
  BY <1>0 DEF Fails, VolumesOK, OpenIsEncrypted, HasLV
<1>1. HasLV(v, l) => v \in vgs /\ lv \in LV /\ (lv.open # None => lv.enc)
  BY DEF VolumesOK, OpenIsEncrypted, HasLV
<1>2. CASE CryptFormat(v, l)
  <2>1. HasLV(v, l) => [lv EXCEPT !.enc = TRUE] \in LV /\ [lv EXCEPT !.enc = TRUE].enc
    BY <1>1 DEF LV
  <2> QED
    BY <1>0, <1>1, <1>2, <2>1, PutVolumes DEF CryptFormat
<1>3. CASE CryptClose(v, l)
  <2>1. HasLV(v, l) => [lv EXCEPT !.open = None] \in LV /\ [lv EXCEPT !.open = None].open = None
    BY <1>1 DEF LV
  <2> QED
    BY <1>0, <1>1, <1>3, <2>1, PutVolumes DEF CryptClose
<1>4. CASE RemoveLV(v, l)
  BY <1>0, <1>1, <1>4, PutVolumes DEF RemoveLV
<1>5. ASSUME NEW m \in Mapped, CryptOpen(v, l, m)
      PROVE  VolumesOK'
  <2>1. HasLV(v, l) /\ lv.enc => [lv EXCEPT !.open = m] \in LV /\ [lv EXCEPT !.open = m].enc
    BY <1>1 DEF LV
  <2> QED
    BY <1>0, <1>1, <1>5, <2>1, PutVolumes DEF CryptOpen
<1>6. ASSUME NEW z \in Sizes, CreateLV(v, l, z)
      PROVE  VolumesOK'
  <2> DEFINE new == [size |-> z, enc |-> FALSE, open |-> None]
  <2>1. new \in LV /\ new.open = None
    BY DEF LV
  <2> QED
    BY <1>0, <1>6, <2>1, PutVolumes DEF CreateLV
<1>7. ASSUME NEW z \in Sizes, ExtendLV(v, l, z)
      PROVE  VolumesOK'
  <2>1. lvs[v] \in [LVs -> LV \union {None}]
    BY DEF VolumesOK
  <2>2. HasLV(v, l) => \A k \in LVs : lvs[v][k] # None /\ lvs[v][k].open # None => lvs[v][k].enc
    BY DEF VolumesOK, OpenIsEncrypted, HasLV
  <2> QED
    BY <1>0, <1>7, <2>1, <2>2, BooksVolumes DEF ExtendLV
<1>8. ASSUME NEW m \in LVs, RenameLV(v, l, m)
      PROVE  VolumesOK'
  <2> DEFINE volumes == [lvs[v] EXCEPT ![l] = None, ![m] = lvs[v][l]]
  <2>1. volumes \in [LVs -> LV \union {None}]
    BY DEF VolumesOK
  <2>2. \A k \in LVs : volumes[k] \in {lvs[v][j] : j \in LVs} \union {None}
    BY DEF VolumesOK
  <2>3. HasLV(v, l) => \A k \in LVs : volumes[k] # None /\ volumes[k].open # None => volumes[k].enc
    BY <2>2 DEF VolumesOK, OpenIsEncrypted, HasLV
  <2> QED
    BY <1>0, <1>8, <2>1, <2>3, BooksVolumes DEF RenameLV
<1> QED
  BY <1>2, <1>3, <1>4, <1>5, <1>6, <1>7, <1>8 DEF OnVolume

\* The calls on volume groups start and forget groups without volumes.
LEMMA GroupsOK ==
  ASSUME VolumesOK, NEW v \in VGs,
         RemoveVG(v) \/ \E list \in Lists : CreateVG(v, list) \/ ExtendVG(v, list)
  PROVE  VolumesOK'
<1>1. CASE UNCHANGED lvs /\ vgs' \subseteq vgs
  BY <1>1 DEF VolumesOK, OpenIsEncrypted, HasLV
<1>2. CASE lvs' = [lvs EXCEPT ![v] = [l \in LVs |-> None]] /\ vgs' \subseteq vgs \union {v}
  BY <1>2 DEF VolumesOK, OpenIsEncrypted, HasLV
<1> QED
  BY <1>1, <1>2 DEF RemoveVG, Forget, CreateVG, ExtendVG, Fails

LEMMA StepVolumes ==
  ASSUME VolumesOK, [Next]_vars
  PROVE  VolumesOK'
<1>1. CASE UNCHANGED <<vgs, lvs>>
  BY <1>1 DEF VolumesOK, OpenIsEncrypted, HasLV
<1>2. ASSUME NEW p \in PVNames, CreatePV(p) \/ DeletePV(p)
      PROVE  VolumesOK'
  BY <1>1, <1>2 DEF CreatePV, DeletePV, Fails
<1> QED
  BY <1>1, <1>2, OnVolumeOK, GroupsOK DEF Next, NextLVM, vars

\* Whatever is renamed, replaced or created again, no plain volume is ever open.
THEOREM OpenIsEncryptedCorrect == Spec => []OpenIsEncrypted
<1>1. Init => VolumesOK
  BY DEF Init, VolumesOK, OpenIsEncrypted, HasLV
<1>2. VolumesOK => OpenIsEncrypted
  BY DEF VolumesOK
<1> QED
  BY <1>1, <1>2, StepVolumes, PTL DEF Spec
-----------------------------------------------------------------------------
\* Sums

LEMMA InUnits ==
  ASSUME NEW D, NEW f \in [D -> Nat], NEW u
  PROVE  u \in Units(f) <=> \E x \in D : \E k \in 1 .. f[x] : u = <<x, k>>
<1>1. u \in Units(f) <=> \E x \in D : u \in {x} \X (1 .. f[x])
  BY DEF Units
<1>2. ASSUME NEW x \in D
      PROVE  u \in {x} \X (1 .. f[x]) <=> \E k \in 1 .. f[x] : u = <<x, k>>
  OBVIOUS
<1> QED
  BY <1>1, <1>2

LEMMA ColumnSize ==
  ASSUME NEW x, NEW n \in Nat
  PROVE  IsFiniteSet({x} \X (1 .. n)) /\ Cardinality({x} \X (1 .. n)) = n
<1>1. IsFiniteSet({x}) /\ Cardinality({x}) = 1
  BY FS_Singleton
<1>2. IsFiniteSet(1 .. n) /\ Cardinality(1 .. n) = n
  BY FS_Interval
<1>3. /\ IsFiniteSet({x} \X (1 .. n))
      /\ Cardinality({x} \X (1 .. n)) = Cardinality({x}) * Cardinality(1 .. n)
  BY <1>1, <1>2, FS_Product
<1> QED
  BY <1>1, <1>2, <1>3

LEMMA SumType ==
  ASSUME NEW D, IsFiniteSet(D), NEW f \in [D -> Nat]
  PROVE  IsFiniteSet(Units(f)) /\ SumOf(f) \in Nat
<1> DEFINE columns == {{x} \X (1 .. f[x]) : x \in D}
           column == [x \in D |-> {x} \X (1 .. f[x])]
<1>1. column \in Surjection(D, columns)
  BY DEF Surjection
<1>2. IsFiniteSet(columns)
  <2> HIDE DEF columns, column
  <2> QED
    BY <1>1, FS_Surjection
<1>3. ASSUME NEW T \in columns
      PROVE  IsFiniteSet(T)
  <2>1. PICK x \in D : T = {x} \X (1 .. f[x])
    OBVIOUS
  <2> QED
    BY <2>1, ColumnSize
<1>4. Units(f) = UNION columns
  BY DEF Units
<1>5. IsFiniteSet(Units(f))
  <2> HIDE DEF columns
  <2> QED
    BY <1>2, <1>3, <1>4, FS_UNION
<1> QED
  BY <1>5, FS_CardinalityType DEF SumOf

\* The sum over two sets that have nothing in common.
LEMMA SumJoin ==
  ASSUME NEW D, IsFiniteSet(D), NEW E, IsFiniteSet(E), D \intersect E = {},
         NEW f \in [D -> Nat], NEW g \in [E -> Nat], NEW h \in [D \union E -> Nat],
         \A x \in D : h[x] = f[x], \A x \in E : h[x] = g[x]
  PROVE  SumOf(h) = SumOf(f) + SumOf(g)
<1>1. Units(h) = Units(f) \union Units(g)
  <2>1. ASSUME NEW u
        PROVE  u \in Units(h) <=> u \in Units(f) \/ u \in Units(g)
    <3>1. u \in Units(h) <=> \E x \in D \union E : \E k \in 1 .. h[x] : u = <<x, k>>
      BY InUnits
    <3>2. u \in Units(f) <=> \E x \in D : \E k \in 1 .. f[x] : u = <<x, k>>
      BY InUnits
    <3>3. u \in Units(g) <=> \E x \in E : \E k \in 1 .. g[x] : u = <<x, k>>
      BY InUnits
    <3> QED
      BY <3>1, <3>2, <3>3
  <2> QED
    BY <2>1
<1>2. Units(f) \intersect Units(g) = {}
  <2>1. ASSUME NEW u, u \in Units(f), u \in Units(g)
        PROVE  FALSE
    <3>1. PICK x \in D : \E k \in 1 .. f[x] : u = <<x, k>>
      BY <2>1, InUnits
    <3>2. PICK y \in E : \E k \in 1 .. g[y] : u = <<y, k>>
      BY <2>1, InUnits
    <3>3. x = y
      BY <3>1, <3>2
    <3> QED
      BY <3>3
  <2> QED
    BY <2>1
<1>3. IsFiniteSet(Units(f)) /\ IsFiniteSet(Units(g)) /\ SumOf(f) \in Nat /\ SumOf(g) \in Nat
  BY SumType
<1>4. Cardinality(Units(h)) = Cardinality(Units(f)) + Cardinality(Units(g)) - Cardinality({})
  BY <1>1, <1>2, <1>3, FS_Union
<1> QED
  BY <1>3, <1>4, FS_EmptySet DEF SumOf

LEMMA SumOne ==
  ASSUME NEW x, NEW f \in [{x} -> Nat]
  PROVE  SumOf(f) = f[x]
<1>1. Units(f) = {x} \X (1 .. f[x])
  BY DEF Units
<1> QED
  BY <1>1, ColumnSize DEF SumOf

\* Of two functions that agree everywhere but at x, the sums differ by what they differ
\* by there.
LEMMA SumPut ==
  ASSUME NEW D, IsFiniteSet(D), NEW f \in [D -> Nat], NEW g \in [D -> Nat], NEW x \in D,
         \A y \in D \ {x} : g[y] = f[y]
  PROVE  SumOf(g) + f[x] = SumOf(f) + g[x]
<1> DEFINE D0 == D \ {x}
           E == {x}
           rest == [y \in D0 |-> f[y]]
           old == [y \in E |-> f[y]]
           new == [y \in E |-> g[y]]
<1>1. IsFiniteSet(D0) /\ IsFiniteSet(E) /\ D0 \intersect E = {}
  BY FS_RemoveElement, FS_Singleton
<1>2. f \in [D0 \union E -> Nat] /\ g \in [D0 \union E -> Nat]
  <2>1. D0 \union E = D
    OBVIOUS
  <2> QED
    BY <2>1
<1>3. rest \in [D0 -> Nat] /\ old \in [E -> Nat] /\ new \in [E -> Nat]
  OBVIOUS
<1>4. /\ \A y \in D0 : f[y] = rest[y]
      /\ \A y \in D0 : g[y] = rest[y]
      /\ \A y \in E : f[y] = old[y]
      /\ \A y \in E : g[y] = new[y]
      /\ old[x] = f[x] /\ new[x] = g[x]
  OBVIOUS
<1>5. SumOf(old) = f[x] /\ SumOf(new) = g[x]
  BY <1>3, <1>4, SumOne
<1> HIDE DEF D0, E, rest, old, new
<1>6. SumOf(f) = SumOf(rest) + SumOf(old)
  BY <1>1, <1>2, <1>3, <1>4, SumJoin
<1>7. SumOf(g) = SumOf(rest) + SumOf(new)
  BY <1>1, <1>2, <1>3, <1>4, SumJoin
<1>8. SumOf(rest) \in Nat
  BY <1>1, <1>3, SumType
<1> QED
  BY <1>5, <1>6, <1>7, <1>8

\* Counting things under other names does not change the sum.
LEMMA SumRenamed ==
  ASSUME NEW S, IsFiniteSet(S), NEW T, NEW b \in Bijection(S, T),
         NEW f \in [S -> Nat], NEW g \in [T -> Nat], \A s \in S : f[s] = g[b[s]]
  PROVE  SumOf(g) = SumOf(f)
<1> DEFINE name == [u \in Units(f) |-> <<b[u[1]], u[2]>>]
<1>0. /\ b \in [S -> T]
      /\ \A s, t \in S : b[s] = b[t] => s = t
      /\ \A t \in T : \E s \in S : b[s] = t
  BY DEF Bijection, Injection, Surjection, IsInjective
<1>1. ASSUME NEW u \in Units(f)
      PROVE  u[1] \in S /\ u[2] \in 1 .. f[u[1]] /\ u = <<u[1], u[2]>>
  <2>1. PICK x \in S : \E k \in 1 .. f[x] : u = <<x, k>>
    BY InUnits
  <2> QED
    BY <2>1
<1>2. ASSUME NEW u \in Units(f)
      PROVE  name[u] \in Units(g)
  <2>1. b[u[1]] \in T /\ u[2] \in 1 .. g[b[u[1]]]
    BY <1>0, <1>1
  <2> QED
    BY <2>1, InUnits
<1>3. ASSUME NEW u \in Units(f), NEW w \in Units(f), name[u] = name[w]
      PROVE  u = w
  <2>1. b[u[1]] = b[w[1]] /\ u[2] = w[2]
    BY <1>3
  <2> QED
    BY <2>1, <1>0, <1>1
<1>4. ASSUME NEW w \in Units(g)
      PROVE  \E u \in Units(f) : name[u] = w
  <2>1. PICK t \in T : \E k \in 1 .. g[t] : w = <<t, k>>
    BY InUnits
  <2>2. PICK k \in 1 .. g[t] : w = <<t, k>>
    BY <2>1
  <2>3. PICK s \in S : b[s] = t
    BY <1>0
  <2>4. <<s, k>> \in Units(f)
    BY <2>2, <2>3, InUnits
  <2>5. name[<<s, k>>] = w
    BY <2>2, <2>3, <2>4
  <2> QED
    BY <2>4, <2>5
<1>5. name \in Bijection(Units(f), Units(g))
  BY <1>2, <1>3, <1>4 DEF Bijection, Injection, Surjection, IsInjective
<1>6. IsFiniteSet(Units(f))
  BY SumType
<1> HIDE DEF name
<1> QED
  BY <1>5, <1>6, FS_Bijection DEF SumOf, ExistsBijection
-----------------------------------------------------------------------------
\* Books and contents

\* the space of one entry of vg.Volumes
Used(volume) == IF volume = None THEN 0 ELSE volume.size

\* What NoOversell needs to be inductive: what the entries are, and that there are
\* finitely many physical volumes to count.
CountsOK ==
  /\ Inv /\ VolumesOK
  /\ size \in [VGs -> Nat] /\ space \in [VGs -> Nat]
  /\ \A v \in VGs : IsFiniteSet(owned[v])
  /\ NoOversell

LEMMA UsedType ==
  ASSUME NEW volume \in LV \union {None}
  PROVE  Used(volume) \in Nat
  BY SizesAssumption DEF Used, LV

LEMMA UsedNew ==
  ASSUME NEW z, [size |-> z, enc |-> FALSE, open |-> None] \in LV
  PROVE  Used([size |-> z, enc |-> FALSE, open |-> None]) = z
  BY VolumesAssumption DEF Used

LEMMA SpacesType ==
  ASSUME NEW volumes \in [LVs -> LV \union {None}]
  PROVE  /\ Spaces(volumes) \in [LVs -> Nat]
         /\ \A l \in LVs : Spaces(volumes)[l] = Used(volumes[l])
         /\ SumOf(Spaces(volumes)) \in Nat
<1>1. \A l \in LVs : volumes[l] \in LV \union {None}
  OBVIOUS
<1>2. Spaces(volumes) = [l \in LVs |-> Used(volumes[l])]
  BY DEF Spaces, Used
<1>3. Spaces(volumes) \in [LVs -> Nat]
  BY <1>1, <1>2, UsedType
<1> QED
  BY <1>2, <1>3, SumType, VolumesAssumption

\* One entry is written, and the space of the others stays what it was.
LEMMA PutSpaces ==
  ASSUME NEW volumes \in [LVs -> LV \union {None}], NEW new \in [LVs -> LV \union {None}],
         NEW l \in LVs, \A k \in LVs \ {l} : new[k] = volumes[k]
  PROVE  SumOf(Spaces(new)) + Used(volumes[l]) = SumOf(Spaces(volumes)) + Used(new[l])
<1>1. Spaces(volumes) \in [LVs -> Nat] /\ \A k \in LVs : Spaces(volumes)[k] = Used(volumes[k])
  BY SpacesType
<1>2. Spaces(new) \in [LVs -> Nat] /\ \A k \in LVs : Spaces(new)[k] = Used(new[k])
  BY SpacesType
<1>3. \A k \in LVs \ {l} : Spaces(new)[k] = Spaces(volumes)[k]
  BY <1>1, <1>2
<1>4. SumOf(Spaces(new)) + Spaces(volumes)[l] = SumOf(Spaces(volumes)) + Spaces(new)[l]
  BY <1>1, <1>2, <1>3, SumPut, VolumesAssumption
<1> QED
  BY <1>1, <1>2, <1>4

\* A volume gets the name m: what m took before is no longer counted.
LEMMA RenameSpaces ==
  ASSUME NEW volumes \in [LVs -> LV \union {None}], NEW l \in LVs, NEW m \in LVs
  PROVE  /\ [volumes EXCEPT ![l] = None, ![m] = volumes[l]] \in [LVs -> LV \union {None}]
         /\ SumOf(Spaces([volumes EXCEPT ![l] = None, ![m] = volumes[l]]))
              + (IF m = l THEN 0 ELSE Used(volumes[m])) = SumOf(Spaces(volumes))
<1> DEFINE gone == [volumes EXCEPT ![l] = None]
           new == [gone EXCEPT ![m] = volumes[l]]
<1>1. gone \in [LVs -> LV \union {None}] /\ new \in [LVs -> LV \union {None}]
  OBVIOUS
<1>2. /\ gone[l] = None /\ new[m] = volumes[l]
      /\ gone[m] = IF m = l THEN None ELSE volumes[m]
      /\ \A k \in LVs \ {l} : gone[k] = volumes[k]
      /\ \A k \in LVs \ {m} : new[k] = gone[k]
  OBVIOUS
<1>3. volumes[l] \in LV \union {None} /\ volumes[m] \in LV \union {None}
  OBVIOUS
<1>4. [volumes EXCEPT ![l] = None, ![m] = volumes[l]] = new
  OBVIOUS
<1> HIDE DEF gone, new
<1>5. /\ SumOf(Spaces(gone)) + Used(volumes[l]) = SumOf(Spaces(volumes)) + Used(gone[l])
      /\ SumOf(Spaces(new)) + Used(gone[m]) = SumOf(Spaces(gone)) + Used(new[m])
  BY <1>1, <1>2, PutSpaces
<1>6. Used(None) = 0
  BY DEF Used
<1>7. /\ Used(volumes[l]) \in Nat /\ Used(volumes[m]) \in Nat
      /\ SumOf(Spaces(volumes)) \in Nat /\ SumOf(Spaces(gone)) \in Nat
      /\ SumOf(Spaces(new)) \in Nat
  BY <1>1, <1>3, UsedType, SpacesType
<1>8. SumOf(Spaces(new)) + (IF m = l THEN 0 ELSE Used(volumes[m])) = SumOf(Spaces(volumes))
  BY <1>1, <1>2, <1>5, <1>6, <1>7
<1> QED
  BY <1>1, <1>4, <1>8

\* A group without volumes uses no space.
LEMMA NoVolumes == SumOf(Spaces([l \in LVs |-> None])) = 0
<1> DEFINE none == [l \in LVs |-> None]
<1>1. Spaces(none) = [l \in LVs |-> 0]
  BY DEF Spaces
<1>2. ASSUME NEW u \in Units([l \in LVs |-> 0])
      PROVE  FALSE
  <2>1. [l \in LVs |-> 0] \in [LVs -> Nat]
    OBVIOUS
  <2>2. PICK l \in LVs : \E k \in 1 .. [j \in LVs |-> 0][l] : u = <<l, k>>
    BY <2>1, InUnits
  <2> QED
    BY <2>2
<1>3. Units([l \in LVs |-> 0]) = {}
  BY <1>2
<1> QED
  BY <1>1, <1>3, FS_EmptySet DEF SumOf

\* What a list of physical volumes adds up to.
LEMMA ListCounts ==
  ASSUME NEW list \in Lists
  PROVE  /\ IsFiniteSet(DOMAIN list) /\ IsFiniteSet({list[i] : i \in DOMAIN list})
         /\ [i \in DOMAIN list |-> PVSize(list[i])] \in [DOMAIN list -> Nat]
         /\ Total(list) \in Nat
<1> DEFINE I == DOMAIN list
           R == {list[i] : i \in I}
           sizes == [i \in I |-> PVSize(list[i])]
<1>1. IsFiniteSet(I)
  <2>1. list \in Seq(PVNames)
    BY ListsAssumption
  <2>2. I = 1 .. Len(list) /\ Len(list) \in Nat
    BY <2>1
  <2> QED
    BY <2>2, FS_Interval
<1>2. list \in Surjection(I, R)
  <2>1. list = [i \in I |-> list[i]]
    BY ListsAssumption
  <2>2. list \in [I -> R]
    BY <2>1
  <2> QED
    BY <2>2 DEF Surjection
<1>3. IsFiniteSet(R)
  <2> HIDE DEF I, R
  <2> QED
    BY <1>1, <1>2, FS_Surjection
<1>4. sizes \in [I -> Nat]
  BY SizesAssumption DEF PVSize
<1>5. SumOf(sizes) \in Nat
  <2> HIDE DEF I, sizes
  <2> QED
    BY <1>1, <1>4, SumType
<1> QED
  BY <1>1, <1>3, <1>4, <1>5 DEF Total

\* If it names no physical volume twice, that is the space of the volumes it names.
LEMMA ListSpace ==
  ASSUME NEW list \in Lists, IsInjective(list)
  PROVE  SumOf([p \in {list[i] : i \in DOMAIN list} |-> PVSize(p)]) = Total(list)
<1> DEFINE I == DOMAIN list
           R == {list[i] : i \in I}
           sizes == [i \in I |-> PVSize(list[i])]
           spaces == [p \in R |-> PVSize(p)]
<1>1. list \in Bijection(I, R)
  <2>1. list = [i \in I |-> list[i]]
    BY ListsAssumption
  <2>2. list \in [I -> R]
    BY <2>1
  <2> QED
    BY <2>2 DEF Bijection, Injection, Surjection
<1>2. spaces \in [R -> Nat]
  BY SizesAssumption DEF PVSize
<1>3. \A i \in I : sizes[i] = spaces[list[i]]
  OBVIOUS
<1>4. IsFiniteSet(I) /\ sizes \in [I -> Nat]
  BY ListCounts
<1>5. SumOf(spaces) = SumOf(sizes)
  <2> HIDE DEF I, R, sizes, spaces
  <2> QED
    BY <1>1, <1>2, <1>3, <1>4, SumRenamed
<1> QED
  BY <1>5 DEF Total
-----------------------------------------------------------------------------
\* A rename to the name of another volume, which takes that volume's entry
Replaces(v, l) == \E m \in LVs : l # m /\ HasLV(v, m) /\ RenameLV(v, l, m)

\* Putting the volumes of a group into its entry, with the FreeSpace that is left
Kept(v, volumes, left) ==
  /\ v \in vgs /\ volumes \in [LVs -> LV \union {None}] /\ left \in Nat
  /\ Books(volumes, v, left)

\* A call on a volume fails, or what it puts into the books takes as much from the free
\* space as it adds to the volumes; a rename onto another volume takes more.
LEMMA OnVolumeSpace ==
  ASSUME CountsOK, NEW v \in VGs, NEW l \in LVs, OnVolume(v, l)
  PROVE  \/ Fails
         \/ \E volumes, left :
              /\ Kept(v, volumes, left)
              /\ SumOf(Spaces(volumes)) + left <= LVSpace(v) + space[v]
              /\ Replaces(v, l) \/ SumOf(Spaces(volumes)) + left = LVSpace(v) + space[v]
<1> DEFINE lv == lvs[v][l]
           Space(volumes) == SumOf(Spaces(volumes))
           Goal == \/ Fails
                   \/ \E volumes, left :
                        /\ Kept(v, volumes, left)
                        /\ Space(volumes) + left <= Space(lvs[v]) + space[v]
                        /\ \/ Replaces(v, l)
                           \/ Space(volumes) + left = Space(lvs[v]) + space[v]
<1>0. lvs[v] \in [LVs -> LV \union {None}] /\ space[v] \in Nat /\ Space(lvs[v]) \in Nat
  BY SpacesType DEF CountsOK, VolumesOK
<1>1. HasLV(v, l) => v \in vgs /\ lv \in LV /\ lv # None
  BY <1>0 DEF HasLV
<1>2. HasLV(v, l) => Used(lv) = lv.size /\ lv.size \in Nat
  BY <1>1, SizesAssumption DEF Used, LV
<1>f. Fails => Goal
  OBVIOUS
<1> HIDE DEF Goal
\* the entry of one volume, with a change of the free space that makes up for it
<1>3. ASSUME NEW volume \in LV \union {None}, NEW left \in Nat, v \in vgs,
             Books(Put(v, l, volume), v, left),
             Used(volume) + left = Used(lv) + space[v]
      PROVE  Goal
  <2> DEFINE new == Put(v, l, volume)
  <2>0. /\ new \in [LVs -> LV \union {None}] /\ new[l] = volume
        /\ \A k \in LVs \ {l} : new[k] = lvs[v][k]
    BY <1>0 DEF Put
  <2>1. new \in [LVs -> LV \union {None}] /\ Space(new) + Used(lv) = Space(lvs[v]) + Used(volume)
    BY <1>0, <2>0, PutSpaces
  <2>2. Used(lv) \in Nat /\ Used(volume) \in Nat /\ Space(new) \in Nat
    BY <1>0, <2>1, UsedType, SpacesType
  <2>3. Space(new) + left = Space(lvs[v]) + space[v] /\ Space(lvs[v]) + space[v] \in Nat
    BY <1>0, <1>3, <2>1, <2>2
  <2>4. Kept(v, new, left)
    BY <1>3, <2>1 DEF Kept
  <2>5. Space(new) + left <= Space(lvs[v]) + space[v]
    BY <2>3
  <2> QED
    BY <2>3, <2>4, <2>5 DEF Goal
<1>4. ASSUME NEW volume \in LV, HasLV(v, l), volume.size = lv.size,
             Books(Put(v, l, volume), v, space[v])
      PROVE  Goal
  <2>1. Used(volume) + space[v] = Used(lv) + space[v]
    <3>1. volume # None
      BY VolumesAssumption
    <3> QED
      BY <1>1, <1>4, <3>1 DEF Used
  <2> QED
    BY <1>0, <1>1, <1>3, <1>4, <2>1
<1>5. ASSUME CryptFormat(v, l)
      PROVE  Goal
  <2> DEFINE new == [lv EXCEPT !.enc = TRUE]
  <2>1. HasLV(v, l) => new \in LV /\ new.size = lv.size
    BY <1>1 DEF LV
  <2>2. Fails \/ (HasLV(v, l) /\ Books(Put(v, l, new), v, space[v]))
    BY <1>5 DEF CryptFormat
  <2> HIDE DEF new
  <2> QED
    BY <1>f, <1>4, <2>1, <2>2
<1>6. ASSUME CryptClose(v, l)
      PROVE  Goal
  <2> DEFINE new == [lv EXCEPT !.open = None]
  <2>1. HasLV(v, l) => new \in LV /\ new.size = lv.size
    BY <1>1 DEF LV
  <2>2. Fails \/ (HasLV(v, l) /\ Books(Put(v, l, new), v, space[v]))
    BY <1>6 DEF CryptClose
  <2> HIDE DEF new
  <2> QED
    BY <1>f, <1>4, <2>1, <2>2
<1>7. ASSUME NEW m \in Mapped, CryptOpen(v, l, m)
      PROVE  Goal
  <2>1. HasLV(v, l) => /\ [lv EXCEPT !.open = m] \in LV
                       /\ [lv EXCEPT !.open = m].size = lv.size
    BY <1>1 DEF LV
  <2> QED
    BY <1>f, <1>4, <1>7, <2>1 DEF CryptOpen
<1>8. ASSUME RemoveLV(v, l)
      PROVE  Goal
  <2>1. ASSUME HasLV(v, l) /\ Books(Put(v, l, None), v, space[v] + lv.size)
        PROVE  Goal
    <3> DEFINE left == space[v] + lv.size
    <3>1. Used(None) = 0
      BY DEF Used
    <3>2. left \in Nat /\ Used(None) + left = Used(lv) + space[v]
      BY <1>0, <1>2, <2>1, <3>1
    <3>3. Books(Put(v, l, None), v, left) /\ v \in vgs /\ None \in LV \union {None}
      BY <1>1, <2>1
    <3> HIDE DEF left
    <3> QED
      BY <1>3, <3>2, <3>3
  <2> QED
    BY <1>f, <1>8, <2>1 DEF RemoveLV
<1>9. ASSUME NEW z \in Sizes, CreateLV(v, l, z)
      PROVE  Goal
  <2> DEFINE new == [size |-> z, enc |-> FALSE, open |-> None]
  <2>1. ASSUME ~HasLV(v, l) /\ v \in vgs /\ space[v] >= z,
               Books(Put(v, l, new), v, space[v] - z)
        PROVE  Goal
    <3>1. new \in LV /\ new.size = z /\ z \in Nat
      BY SizesAssumption DEF LV
    <3>2. Used(lv) = 0
      BY <2>1 DEF HasLV, Used
    <3>3. Used(new) = z
      BY <3>1, UsedNew
    <3> HIDE DEF new
    <3>4. space[v] - z \in Nat /\ Used(new) + (space[v] - z) = Used(lv) + space[v]
      BY <1>0, <2>1, <3>1, <3>2, <3>3
    <3> QED
      BY <1>3, <2>1, <3>1, <3>4
  <2> QED
    BY <1>f, <1>9, <2>1 DEF CreateLV
<1>10. ASSUME NEW z \in Sizes, ExtendLV(v, l, z)
       PROVE  Goal
  <2>1. ASSUME v \in vgs /\ Books(lvs[v], v, space[v])
        PROVE  Goal
    <3>1. Kept(v, lvs[v], space[v])
      BY <1>0, <2>1 DEF Kept
    <3>2. Space(lvs[v]) + space[v] <= Space(lvs[v]) + space[v]
      BY <1>0
    <3> QED
      BY <3>1, <3>2 DEF Goal
  <2> QED
    BY <1>f, <1>1, <1>10, <2>1 DEF ExtendLV
<1>11. ASSUME NEW m \in LVs, RenameLV(v, l, m)
       PROVE  Goal
  <2> DEFINE new == [lvs[v] EXCEPT ![l] = None, ![m] = lv]
             old == IF m = l THEN 0 ELSE Used(lvs[v][m])
  <2>1. ASSUME HasLV(v, l) /\ Books(new, v, space[v])
        PROVE  Goal
    <3>1. new \in [LVs -> LV \union {None}] /\ Space(new) + old = Space(lvs[v])
      BY <1>0, RenameSpaces
    <3>2. old \in Nat
      BY <1>0, UsedType
    <3>3. Replaces(v, l) \/ old = 0
      BY <1>1, <1>11, <2>1 DEF Replaces, HasLV, Used
    <3> HIDE DEF new, old
    <3>4. Space(new) \in Nat
      BY <3>1, SpacesType
    <3>5. /\ Space(new) + space[v] <= Space(lvs[v]) + space[v]
          /\ old = 0 => Space(new) + space[v] = Space(lvs[v]) + space[v]
      BY <1>0, <3>1, <3>2, <3>4
    <3>6. Kept(v, new, space[v])
      BY <1>0, <1>1, <2>1, <3>1 DEF Kept
    <3> QED
      BY <3>3, <3>5, <3>6 DEF Goal
  <2> QED
    BY <1>f, <1>11, <2>1 DEF RenameLV
<1> QED
  BY <1>5, <1>6, <1>7, <1>8, <1>9, <1>10, <1>11 DEF OnVolume, Goal, LVSpace

\* The calls that leave the books of all groups as they are
Quiet == UNCHANGED <<vgs, owned, size, space, lvs>>

LEMMA QuietCalls ==
  ASSUME \/ NextSystem /\ UNCHANGED <<pvs, free, vgs, owned, size, space, lvs>>
         \/ \E p \in PVNames : CreatePV(p) \/ DeletePV(p)
         \/ Fails
         \/ UNCHANGED vars
  PROVE  Quiet
  BY DEF CreatePV, DeletePV, Fails, vars, Quiet

\* A step is a call on a volume, or one of three on a group, or leaves the books alone.
LEMMA BookCalls ==
  ASSUME [Next]_vars
  PROVE  \/ Quiet
         \/ \E v \in VGs : RemoveVG(v)
         \/ \E v \in VGs, list \in Lists : CreateVG(v, list) \/ ExtendVG(v, list)
         \/ \E v \in VGs, l \in LVs : OnVolume(v, l)
  BY QuietCalls DEF Next, NextLVM

LEMMA QuietCounts ==
  ASSUME CountsOK, Inv', VolumesOK', Quiet
  PROVE  CountsOK'
  BY DEF CountsOK, Quiet, NoOversell, LVSpace

\* One group changes, and its books are in order afterwards.
LEMMA GroupCounts ==
  ASSUME CountsOK, Inv', VolumesOK', NEW v \in VGs, NEW contents, IsFiniteSet(contents),
         NEW whole \in Nat, NEW left \in Nat, NEW volumes,
         vgs' \subseteq vgs \union {v}, owned' = [owned EXCEPT ![v] = contents],
         size' = [size EXCEPT ![v] = whole], space' = [space EXCEPT ![v] = left],
         lvs' = [lvs EXCEPT ![v] = volumes], SumOf(Spaces(volumes)) + left <= whole
  PROVE  CountsOK'
<1>1. size' \in [VGs -> Nat] /\ space' \in [VGs -> Nat]
  BY DEF CountsOK
<1>2. \A w \in VGs : IsFiniteSet(owned'[w])
  BY DEF CountsOK, Inv
<1>3. ASSUME NEW w \in vgs'
      PROVE  space'[w] >= 0 /\ SumOf(Spaces(lvs'[w])) + space'[w] <= size'[w]
  <2>1. CASE w = v
    BY <2>1 DEF CountsOK, VolumesOK
  <2>2. CASE w # v
    <3>1. w \in vgs /\ w \in VGs
      BY <2>2 DEF CountsOK, Inv
    <3>2. space'[w] = space[w] /\ size'[w] = size[w] /\ lvs'[w] = lvs[w]
      BY <2>2, <3>1 DEF CountsOK, VolumesOK
    <3> QED
      BY <3>1, <3>2 DEF CountsOK, NoOversell, LVSpace
  <2> QED
    BY <2>1, <2>2
<1> QED
  BY <1>1, <1>2, <1>3 DEF CountsOK, NoOversell, LVSpace

LEMMA OnVolumeCounts ==
  ASSUME CountsOK, Inv', VolumesOK', NEW v \in VGs, NEW l \in LVs, OnVolume(v, l)
  PROVE  CountsOK'
<1>1. CASE Fails
  BY <1>1, QuietCalls, QuietCounts
<1>2. CASE ~Fails
  <2>1. PICK volumes, left :
          /\ Kept(v, volumes, left)
          /\ SumOf(Spaces(volumes)) + left <= LVSpace(v) + space[v]
    BY <1>2, OnVolumeSpace
  <2>2. /\ v \in vgs /\ left \in Nat /\ size[v] \in Nat /\ space[v] \in Nat
        /\ SumOf(Spaces(volumes)) \in Nat /\ LVSpace(v) \in Nat
        /\ LVSpace(v) + space[v] <= size[v]
    BY <2>1, SpacesType DEF CountsOK, VolumesOK, NoOversell, LVSpace, Kept
  <2>3. SumOf(Spaces(volumes)) + left <= size[v]
    BY <2>1, <2>2
  <2>4. /\ vgs' \subseteq vgs \union {v} /\ owned' = [owned EXCEPT ![v] = owned[v]]
        /\ size' = [size EXCEPT ![v] = size[v]] /\ space' = [space EXCEPT ![v] = left]
        /\ lvs' = [lvs EXCEPT ![v] = volumes]
    BY <2>1 DEF Kept, Books, CountsOK, Inv
  <2>5. IsFiniteSet(owned[v])
    BY DEF CountsOK
  <2> QED
    BY <2>2, <2>3, <2>4, <2>5, GroupCounts
<1> QED
  BY <1>1, <1>2

LEMMA CreateVGCounts ==
  ASSUME CountsOK, Inv', VolumesOK', NEW v \in VGs, NEW list \in Lists, CreateVG(v, list)
  PROVE  CountsOK'
<1>1. CASE Quiet
  BY <1>1, QuietCounts
<1>2. CASE v \notin vgs /\ Refused(list) = {}
  <2> DEFINE none == [l \in LVs |-> None]
  <2>1. IsFiniteSet(Taken(list))
    <3>1. Taken(list) \in SUBSET {list[i] : i \in DOMAIN list}
      BY DEF Taken
    <3> QED
      BY <3>1, ListCounts, FS_Subset
  <2>2. Total(list) \in Nat
    BY ListCounts
  <2>3. SumOf(Spaces(none)) + Total(list) <= Total(list)
    BY <2>2, NoVolumes
  <2>4. /\ vgs' \subseteq vgs \union {v} /\ owned' = [owned EXCEPT ![v] = Taken(list)]
        /\ size' = [size EXCEPT ![v] = Total(list)]
        /\ space' = [space EXCEPT ![v] = Total(list)]
        /\ lvs' = [lvs EXCEPT ![v] = none]
    BY <1>2 DEF CreateVG
  <2> HIDE DEF none
  <2> QED
    BY <2>1, <2>2, <2>3, <2>4, GroupCounts
<1>3. CASE v \in vgs
  BY <1>1, <1>3, QuietCalls DEF CreateVG
<1>4. CASE v \notin vgs /\ Refused(list) # {}
  BY <1>1, <1>4 DEF CreateVG, Quiet
<1> QED
  BY <1>2, <1>3, <1>4

LEMMA ExtendVGCounts ==
  ASSUME CountsOK, Inv', VolumesOK', NEW v \in VGs, NEW list \in Lists, ExtendVG(v, list)
  PROVE  CountsOK'
<1>1. CASE Fails
  BY <1>1, QuietCalls, QuietCounts
<1>2. CASE ~Fails
  <2> DEFINE R == {list[i] : i \in DOMAIN list}
             t == Total(list)
  <2>1. IsFiniteSet(owned[v] \union R)
    <3>1. IsFiniteSet(owned[v]) /\ IsFiniteSet(R)
      BY ListCounts DEF CountsOK
    <3> HIDE DEF R
    <3> QED
      BY <3>1, FS_Union
  <2>2. t \in Nat
    BY ListCounts
  <2>3. /\ v \in vgs /\ size[v] \in Nat /\ space[v] \in Nat
        /\ SumOf(Spaces(lvs[v])) + space[v] <= size[v] /\ SumOf(Spaces(lvs[v])) \in Nat
    BY <1>2, SpacesType DEF ExtendVG, CountsOK, VolumesOK, NoOversell, LVSpace
  <2>4. /\ vgs' \subseteq vgs \union {v} /\ owned' = [owned EXCEPT ![v] = owned[v] \union R]
        /\ size' = [size EXCEPT ![v] = size[v] + t]
        /\ space' = [space EXCEPT ![v] = space[v] + t]
        /\ lvs' = [lvs EXCEPT ![v] = lvs[v]]
    BY <1>2 DEF ExtendVG, CountsOK, Inv, VolumesOK
  <2> HIDE DEF t, R
  <2>5. /\ size[v] + t \in Nat /\ space[v] + t \in Nat
        /\ SumOf(Spaces(lvs[v])) + (space[v] + t) <= size[v] + t
    BY <2>2, <2>3
  <2> QED
    BY <2>1, <2>4, <2>5, GroupCounts
<1> QED
  BY <1>1, <1>2

LEMMA RemoveVGCounts ==
  ASSUME CountsOK, Inv', VolumesOK', NEW v \in VGs, RemoveVG(v)
  PROVE  CountsOK'
<1>1. CASE Fails
  BY <1>1, QuietCalls, QuietCounts
<1>2. CASE ~Fails
  <2> DEFINE none == [l \in LVs |-> None]
  <2>1. IsFiniteSet({}) /\ SumOf(Spaces(none)) + 0 <= 0
    BY FS_EmptySet, NoVolumes
  <2>2. /\ vgs' \subseteq vgs \union {v} /\ owned' = [owned EXCEPT ![v] = {}]
        /\ size' = [size EXCEPT ![v] = 0] /\ space' = [space EXCEPT ![v] = 0]
        /\ lvs' = [lvs EXCEPT ![v] = none]
    BY <1>2 DEF RemoveVG, Forget
  <2> HIDE DEF none
  <2> QED
    BY <2>1, <2>2, GroupCounts
<1> QED
  BY <1>1, <1>2

LEMMA StepCounts ==
  ASSUME CountsOK, [Next]_vars
  PROVE  CountsOK'
<1>1. Inv' /\ VolumesOK'
  BY StepInv, StepVolumes DEF CountsOK
<1> QED
  BY <1>1, BookCalls, QuietCounts, OnVolumeCounts, CreateVGCounts, ExtendVGCounts, RemoveVGCounts

LEMMA InitCounts == Init => CountsOK
<1> SUFFICES ASSUME Init PROVE CountsOK
  OBVIOUS
<1>1. Inv /\ VolumesOK
  BY InitInv DEF Init, VolumesOK, OpenIsEncrypted, HasLV
<1> QED
  BY <1>1, FS_EmptySet DEF Init, CountsOK, NoOversell

LEMMA CountsCorrect == Spec => []CountsOK
  BY InitCounts, StepCounts, PTL DEF Spec

\* The volumes of a group and its free space never add up to more than the group has,
\* through every create, remove, rename and extend.
THEOREM NoOversellCorrect == Spec => []NoOversell
<1>1. CountsOK => NoOversell
  BY DEF CountsOK
<1> QED
  BY <1>1, CountsCorrect, PTL
-----------------------------------------------------------------------------
LEMMA SameGap ==
  ASSUME NEW v \in VGs, owned'[v] = owned[v], size'[v] = size[v], space'[v] = space[v],
         lvs'[v] = lvs[v]
  PROVE  Gap(v)' = Gap(v)
  BY DEF Gap, PVSpace, LVSpace

\* A call on a volume moves space between the volumes and the free space of its group.
LEMMA OnVolumeGap ==
  ASSUME CountsOK, NEW v \in VGs, NEW l \in LVs, OnVolume(v, l), NEW w \in VGs
  PROVE  Gap(w)' = Gap(w) \/ (w = v /\ Replaces(v, l))
<1>1. CASE Fails
  BY <1>1, SameGap DEF Fails
<1>2. CASE ~Fails
  <2>1. PICK volumes, left :
          /\ Kept(v, volumes, left)
          /\ Replaces(v, l) \/ SumOf(Spaces(volumes)) + left = LVSpace(v) + space[v]
    BY <1>2, OnVolumeSpace
  <2>2. CASE w # v
    BY <2>1, <2>2, SameGap DEF Kept, Books, CountsOK, VolumesOK
  <2>3. CASE w = v /\ SumOf(Spaces(volumes)) + left = LVSpace(v) + space[v]
    <3>1. /\ left \in Nat /\ size[v] \in Nat /\ space[v] \in Nat
          /\ SumOf(Spaces(volumes)) \in Nat /\ LVSpace(v) \in Nat
      BY <2>1, SpacesType DEF CountsOK, VolumesOK, LVSpace, Kept
    <3>2. size[v] - left - SumOf(Spaces(volumes)) = size[v] - space[v] - LVSpace(v)
      BY <2>3, <3>1
    <3>3. /\ owned'[v] = owned[v] /\ size'[v] = size[v] /\ space'[v] = left
          /\ lvs'[v] = volumes
      BY <2>1 DEF Kept, Books, CountsOK, VolumesOK
    <3> QED
      BY <2>3, <3>2, <3>3 DEF Gap, PVSpace, LVSpace
  <2> QED
    BY <2>1, <2>2, <2>3
<1> QED
  BY <1>1, <1>2

\* An ExtendVG that names no physical volume twice adds their space to the group's size.
LEMMA ExtendVGGap ==
  ASSUME CountsOK, NEW v \in VGs, NEW list \in Lists, ExtendVG(v, list), IsInjective(list),
         NEW w \in VGs
  PROVE  Gap(w)' = Gap(w)
<1>1. CASE Fails
  BY <1>1, SameGap DEF Fails
<1>2. CASE ~Fails /\ w # v
  BY <1>2, SameGap DEF ExtendVG, CountsOK, Inv, VolumesOK
<1>3. CASE ~Fails /\ w = v
  <2> DEFINE R == {list[i] : i \in DOMAIN list}
             t == Total(list)
             D == owned[v]
             old == [p \in D |-> PVSize(p)]
             new == [p \in R |-> PVSize(p)]
             both == [p \in D \union R |-> PVSize(p)]
  <2>1. /\ owned'[v] = D \union R /\ size'[v] = size[v] + t /\ space'[v] = space[v] + t
        /\ lvs'[v] = lvs[v] /\ R \subseteq free
    BY <1>3 DEF ExtendVG, CountsOK, Inv, VolumesOK
  <2>2. IsFiniteSet(D) /\ IsFiniteSet(R) /\ D \intersect R = {}
    BY <2>1, ListCounts DEF CountsOK, Inv, OneOwner
  <2>3. \A p \in PVNames : PVSize(p) \in Nat
    BY SizesAssumption DEF PVSize
  <2>4. D \subseteq PVNames /\ R \subseteq PVNames
    BY ListType DEF CountsOK, Inv
  <2>5. old \in [D -> Nat] /\ new \in [R -> Nat] /\ both \in [D \union R -> Nat]
    BY <2>3, <2>4
  <2>6. (\A p \in D : both[p] = old[p]) /\ (\A p \in R : both[p] = new[p])
    OBVIOUS
  <2>7. SumOf(new) = t /\ t \in Nat
    BY ListSpace, ListCounts
  <2>8. Gap(v)' = <<(size[v] + t) - SumOf(both), (size[v] + t) - (space[v] + t) - LVSpace(v)>>
    BY <2>1 DEF Gap, PVSpace, LVSpace
  <2>9. Gap(v) = <<size[v] - SumOf(old), size[v] - space[v] - LVSpace(v)>>
    BY DEF Gap, PVSpace
  <2> HIDE DEF R, t, D, old, new, both
  <2>10. SumOf(both) = SumOf(old) + SumOf(new)
    BY <2>2, <2>5, <2>6, SumJoin
  <2>11. SumOf(old) \in Nat
    BY <2>2, <2>5, SumType
  <2>12. size[v] \in Nat /\ space[v] \in Nat /\ LVSpace(v) \in Nat
    BY SpacesType DEF CountsOK, VolumesOK, LVSpace
  <2>13. (size[v] + t) - SumOf(both) = size[v] - SumOf(old)
    BY <2>7, <2>10, <2>11, <2>12
  <2>14. (size[v] + t) - (space[v] + t) - LVSpace(v) = size[v] - space[v] - LVSpace(v)
    BY <2>7, <2>12
  <2> QED
    BY <1>3, <2>8, <2>9, <2>13, <2>14
<1> QED
  BY <1>1, <1>2, <1>3

\* A group that goes or comes leaves the books of the others alone.
LEMMA GroupGap ==
  ASSUME CountsOK, NEW v \in VGs, RemoveVG(v) \/ \E list \in Lists : CreateVG(v, list),
         NEW w \in VGs, w \in vgs, w \in vgs'
  PROVE  Gap(w)' = Gap(w)
<1>1. CASE Quiet
  BY <1>1, SameGap DEF Quiet
<1>2. CASE RemoveVG(v)
  BY <1>1, <1>2, QuietCalls, SameGap DEF RemoveVG, Forget, CountsOK, Inv, VolumesOK
<1>3. ASSUME NEW list \in Lists, CreateVG(v, list), ~Quiet
      PROVE  Gap(w)' = Gap(w)
  <2>1. v \notin vgs
    BY <1>3, QuietCalls DEF CreateVG
  <2>2. w # v
    BY <2>1
  <2>3. Refused(list) = {}
    BY <1>3, <2>1 DEF CreateVG, Quiet
  <2> QED
    BY <1>3, <2>1, <2>2, <2>3, SameGap DEF CreateVG, CountsOK, Inv, VolumesOK
<1> QED
  BY <1>1, <1>2, <1>3

\* The books of a group and its contents change together, in every call but an ExtendVG
\* that names a physical volume twice and a RenameLV to the name of another volume.
THEOREM BooksKeptCorrect == Spec => BooksKept
<1>1. ASSUME CountsOK, [Next]_vars
      PROVE  \A v \in vgs \intersect vgs' :
               \/ Gap(v)' = Gap(v)
               \/ \E list \in Lists : ~IsInjective(list) /\ ExtendVG(v, list)
               \/ \E l, m \in LVs : l # m /\ HasLV(v, m) /\ RenameLV(v, l, m)
  <2> DEFINE Named(w) == \E list \in Lists : ~IsInjective(list) /\ ExtendVG(w, list)
             Renamed(w) == \E l, m \in LVs : l # m /\ HasLV(w, m) /\ RenameLV(w, l, m)
  <2> SUFFICES ASSUME NEW w \in vgs, w \in vgs'
               PROVE  Gap(w)' = Gap(w) \/ Named(w) \/ Renamed(w)
    OBVIOUS
  <2>1. w \in VGs
    BY <1>1 DEF CountsOK, Inv
  <2>2. CASE Quiet
    BY <2>1, <2>2, SameGap DEF Quiet
  <2>3. ASSUME NEW v \in VGs, RemoveVG(v) \/ \E list \in Lists : CreateVG(v, list)
        PROVE  Gap(w)' = Gap(w)
    BY <1>1, <2>1, <2>3, GroupGap
  <2>4. ASSUME NEW v \in VGs, NEW list \in Lists, ExtendVG(v, list)
        PROVE  Gap(w)' = Gap(w) \/ Named(w)
    <3>1. CASE IsInjective(list)
      BY <1>1, <2>1, <2>4, <3>1, ExtendVGGap
    <3>2. CASE w = v /\ ~IsInjective(list)
      BY <2>4, <3>2
    <3>3. CASE w # v
      BY <1>1, <2>1, <2>4, <3>3, SameGap DEF ExtendVG, Fails, CountsOK, Inv, VolumesOK
    <3> QED
      BY <3>1, <3>2, <3>3
  <2>5. ASSUME NEW v \in VGs, NEW l \in LVs, OnVolume(v, l)
        PROVE  Gap(w)' = Gap(w) \/ Renamed(w)
    BY <1>1, <2>1, <2>5, OnVolumeGap DEF Replaces
  <2> QED
    BY <1>1, <2>2, <2>3, <2>4, <2>5, BookCalls
<1> QED
  BY <1>1, CountsCorrect, PTL DEF Spec, BooksKept
=============================================================================
