--------------------------- MODULE PVOwnership ----------------------------
(***************************************************************************)
(* What the VolumeManager interface (lvm.go) promises about physical       *)
(* volumes: each has one owner.  It is created free, given to a volume     *)
(* group, freed with the whole group, and deleted only when free.  Lost is *)
(* for what should not be there: a physical volume that nobody owns and    *)
(* nobody can ever have again.                                             *)
(***************************************************************************)
CONSTANTS PVs, VGs, Unknown, Free, Lost

VARIABLE owner

Init == owner = [p \in PVs |-> Unknown]

Create(p) == owner[p] = Unknown /\ owner' = [owner EXCEPT ![p] = Free]

Delete(p) == owner[p] = Free /\ owner' = [owner EXCEPT ![p] = Unknown]

\* some free ones go to one owner, a volume group or nobody
Give(S, o) ==
  /\ \A p \in S : owner[p] = Free
  /\ owner' = [p \in PVs |-> IF p \in S THEN o ELSE owner[p]]

\* a volume group is removed
Release(v) == owner' = [p \in PVs |-> IF owner[p] = v THEN Free ELSE owner[p]]

Next ==
  \/ \E p \in PVs : Create(p) \/ Delete(p)
  \/ \E S \in SUBSET PVs, o \in VGs \union {Lost} : Give(S, o)
  \/ \E v \in VGs : Release(v)

Spec == Init /\ [][Next]_owner
=============================================================================
