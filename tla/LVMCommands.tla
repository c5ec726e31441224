---------------------------- MODULE LVMCommands ---------------------------
(***************************************************************************)
(* The commands that linux/lvm.go runs, as far as it relies on them: lvm,  *)
(* cryptsetup and dmsetup are not part of disko.  A command is atomic and  *)
(* is a function from the state of the machine's volumes to the set of     *)
(* states it may leave; the set is empty when the command refuses.         *)
(***************************************************************************)
EXTENDS Naturals, FiniteSetsExt

CONSTANTS
  Devs,        \* block devices that may become physical volumes
  VGs, LVs,    \* names
  Mapped,      \* names of dm-crypt mappings
  DevSize,     \* the bytes of a device that volumes can use
  MetaSize,    \* thinPoolMetaDataSize
  None,        \* nothing there
  NoVG         \* the vg_name of a physical volume in no group

ASSUME LVMSizesAssumption == DevSize \in Nat /\ MetaSize \in Nat
ASSUME LVMNamesAssumption == NoVG \notin VGs /\ None \notin VGs \union Mapped \union {NoVG}

\* A volume: luks says what cryptsetup finds on it ("stale" is an older header that
\* lvcreate has not wiped whole); open is the mapping, seen the size the mapping has.
Volumes ==
  [size : Nat, type : {"thick", "thin", "pool"}, luks : {"none", "stale", "luks"},
   open : Mapped \union {None}, seen : Nat]
ASSUME LVMVolumesAssumption == None \notin Volumes

\* A world: the group that each device's label names, and the volumes.
EmptyWorld == [label |-> [d \in Devs |-> None],
               lv |-> [v \in VGs |-> [l \in LVs |-> None]]]

When(c, w) == IF c THEN {w} ELSE {}

Members(w, v) == {d \in Devs : w.label[d] = v}
Exists(w, v) == Members(w, v) # {}
There(w, v, l) == w.lv[v][l] # None
IsOpen(w, v, l) == There(w, v, l) /\ w.lv[v][l].open # None
\* the space that a volume takes of its group, and that all volumes of a group take
Charge(volume) ==
  IF volume = None \/ volume.type = "thin" THEN 0
  ELSE volume.size + IF volume.type = "pool" THEN 2 * MetaSize ELSE 0
Taken(volumes) == MapThenSumSet(LAMBDA l : Charge(volumes[l]), LVs)
VGSize(w, v) == DevSize * Cardinality(Members(w, v))
Room(w, v) ==
  IF VGSize(w, v) >= Taken(w.lv[v]) THEN VGSize(w, v) - Taken(w.lv[v]) ELSE 0

Relabel(w, S, o) ==
  [w EXCEPT !.label = [d \in Devs |-> IF d \in S THEN o ELSE w.label[d]]]
Set(w, v, l, volume) == [w EXCEPT !.lv[v][l] = volume]
Loose(w, S) == \A d \in S : w.label[d] \in {None, NoVG}

Pvcreate(w, S) == When(Loose(w, S), Relabel(w, S, NoVG))
\* callers delete only physical volumes that are in no group
Pvremove(w, d) == When(w.label[d] = NoVG, Relabel(w, {d}, None))
Vgcreate(w, v, S) == When(~Exists(w, v) /\ S # {} /\ Loose(w, S), Relabel(w, S, v))
Vgextend(w, v, S) == When(Exists(w, v) /\ S # {} /\ Loose(w, S), Relabel(w, S, v))
Vgremove(w, v) ==
  When(Exists(w, v) /\ \A l \in LVs : ~IsOpen(w, v, l),
       [Relabel(w, Members(w, v), NoVG) EXCEPT !.lv[v] = [l \in LVs |-> None]])

NewVolume(z, t, luks) ==
  [size |-> z, type |-> t, luks |-> luks, open |-> None, seen |-> 0]
\* the space of a thick volume may hold what is left of an older one
Lvcreate(w, v, l, z, t) ==
  IF /\ Exists(w, v) /\ ~There(w, v, l)
     /\ CASE t = "thick" -> z <= Room(w, v)
          [] t = "pool" -> z + 2 * MetaSize <= Room(w, v)
          [] t = "thin" -> \E p \in LVs : There(w, v, p) /\ w.lv[v][p].type = "pool"
    THEN {Set(w, v, l, NewVolume(z, t, luks)) :
            luks \in IF t = "thick" THEN {"none", "stale"} ELSE {"none"}}
    ELSE {}
\* a pool goes with its thin volumes
Lvremove(w, v, l) ==
  LET gone == {k \in LVs : There(w, v, k)
                 /\ (k = l \/ (w.lv[v][l].type = "pool" /\ w.lv[v][k].type = "thin"))}
  IN  IF There(w, v, l)
        THEN When(\A k \in gone : ~IsOpen(w, v, k),
                  [w EXCEPT !.lv[v] = [k \in LVs |-> IF k \in gone THEN None ELSE w.lv[v][k]]])
        ELSE {}
Lvrename(w, v, l, m) ==
  When(There(w, v, l) /\ ~There(w, v, m),
       [w EXCEPT !.lv[v] = [w.lv[v] EXCEPT ![l] = None, ![m] = w.lv[v][l]]])
Lvextend(w, v, l, z) ==
  IF There(w, v, l)
    THEN When(/\ z > w.lv[v][l].size
              /\ w.lv[v][l].type = "thin" \/ z - w.lv[v][l].size <= Room(w, v),
              Set(w, v, l, [w.lv[v][l] EXCEPT !.size = z]))
    ELSE {}
LuksFormat(w, v, l) ==
  IF There(w, v, l) /\ ~IsOpen(w, v, l) /\ w.lv[v][l].type # "pool"
    THEN {Set(w, v, l, [w.lv[v][l] EXCEPT !.luks = "luks"])}
    ELSE {}
LuksOpen(w, v, l, m) ==
  IF /\ There(w, v, l) /\ ~IsOpen(w, v, l) /\ w.lv[v][l].luks = "luks"
     /\ \A u \in VGs, k \in LVs : IsOpen(w, u, k) => w.lv[u][k].open # m
    THEN {Set(w, v, l, [w.lv[v][l] EXCEPT !.open = m, !.seen = w.lv[v][l].size])}
    ELSE {}
OpenAs(w, m) == {x \in VGs \X LVs : IsOpen(w, x[1], x[2]) /\ w.lv[x[1]][x[2]].open = m}
LuksClose(w, m) ==
  {Set(w, x[1], x[2], [w.lv[x[1]][x[2]] EXCEPT !.open = None, !.seen = 0]) : x \in OpenAs(w, m)}
LuksResize(w, m) ==
  {Set(w, x[1], x[2], [w.lv[x[1]][x[2]] EXCEPT !.seen = w.lv[x[1]][x[2]].size]) : x \in OpenAs(w, m)}

\* one command of another process makes x of w
AnyCommand(w, x, Sizes) ==
  \/ \E d \in Devs : x \in Pvcreate(w, {d}) \/ x \in Pvremove(w, d)
  \/ \E v \in VGs, d \in Devs : x \in Vgcreate(w, v, {d}) \/ x \in Vgextend(w, v, {d})
  \/ \E v \in VGs : x \in Vgremove(w, v)
  \/ \E v \in VGs, l \in LVs, z \in Sizes :
       x \in Lvcreate(w, v, l, z, "thick") \/ x \in Lvextend(w, v, l, z)
  \/ \E v \in VGs, l \in LVs : x \in Lvremove(w, v, l) \/ x \in LuksFormat(w, v, l)
  \/ \E v \in VGs, l, m \in LVs : x \in Lvrename(w, v, l, m)
  \/ \E v \in VGs, l \in LVs, m \in Mapped : x \in LuksOpen(w, v, l, m)
  \/ \E m \in Mapped : x \in LuksClose(w, m)
=============================================================================
