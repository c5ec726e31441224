--------------------------- MODULE LinuxLVMProofs ---------------------------
(***************************************************************************)
(* Theorems about LinuxLVM, for any devices, groups, names, sizes and      *)
(* number of commands of other processes: what a new volume holds, what an *)
(* extended one looks like, and what a scan reports while others work.     *)
(***************************************************************************)
EXTENDS LinuxLVM, TLAPS

Worlds ==
  [label : [Devs -> VGs \union {None, NoVG}],
   lv : [VGs -> [LVs -> Volumes \union {None}]]]

\* only a volume with a LUKS header is open, a pool never has one
Plausible(x) == /\ x.open # None => x.luks = "luks"
                /\ x.luks = "luks" => x.type # "pool"

\* a mapping is of one volume at most
Sound(w) ==
  /\ \A v \in VGs, l \in LVs : There(w, v, l) => Plausible(w.lv[v][l])
  /\ \A v, u \in VGs, l, k \in LVs :
       IsOpen(w, v, l) /\ IsOpen(w, u, k) /\ w.lv[v][l].open = w.lv[u][k].open
         => v = u /\ l = k

Possible(w) == w \in Worlds /\ Sound(w)

\* the commands of a call, and what it is about
Places(op) ==
  CASE op = "CreatePV" -> {"pvcreate", "pvs"}
    [] op = "ExtendVG" -> {"pvcreate", "vgextend"}
    [] op = "DeletePV" -> {"pvremove"}
    [] op = "HasPV" -> {"pvs"}
    [] op = "CreateVG" -> {"vgcreate", "vgs", "lvs", "luks", "pvs"}
    [] op = "RemoveVG" -> {"vgremove"}
    [] op \in {"HasVG", "ScanVGs"} -> {"vgs", "lvs", "luks", "pvs"}
    [] op = "HasLV" -> {"lvs", "luks"}
    [] op = "CreateLV" -> {"lvcreate", "luks2Wipe", "lvs", "luks"}
    [] op = "ExtendLV" -> {"lvextend", "getLuksInfo", "resize"}
    [] op = "RenameLV" -> {"lvrename"}
    [] op = "RemoveLV" -> {"lvremove"}
    [] op = "CryptFormat" -> {"luksFormat"}
    [] op = "CryptOpen" -> {"open"}
    [] op = "CryptClose" -> {"close"}
    [] OTHER -> {}

Asks(r) ==
  /\ r.S \in SUBSET Devs
  /\ r.op \in {"CreateVG", "ExtendVG", "RemoveVG", "HasVG", "RemoveLV", "CryptFormat", "HasLV",
               "CryptOpen", "CryptClose", "RenameLV", "CreateLV", "ExtendLV"} => r.v \in VGs
  /\ r.op \in {"RemoveLV", "CryptFormat", "HasLV", "CryptOpen", "CryptClose", "RenameLV",
               "CreateLV", "ExtendLV"} => r.l \in LVs
  /\ r.op \in {"CryptOpen", "CryptClose"} => r.m \in Mapped
  /\ r.op = "RenameLV" => r.m \in LVs
  /\ r.op \in {"CreateLV", "ExtendLV"} => r.z \in Nat
  /\ r.op = "CreateLV" => r.t \in Types

IsScan(g) == g = [vgs |-> g.vgs, lvs |-> g.lvs, name |-> g.name]

CallInv ==
  /\ IsScan(got)
  /\ pc # "idle" => /\ Asks(req) /\ pc \in Places(req.op)
                    /\ pc = "lvcreate" => req.t # "unknown"

\* the volume a CreateLV has made
Made == There(world, req.v, req.l)
  /\ world.lv[req.v][req.l].size = req.z /\ world.lv[req.v][req.l].type = req.t
Reported(v, l) ==
  [v |-> v, l |-> l, size |-> world.lv[v][l].size, type |-> world.lv[v][l].type]

FreshInv ==
  /\ others = 0 /\ req.op = "CreateLV" =>
       /\ pc = "luks2Wipe" => Made /\ world.lv[req.v][req.l].luks # "luks"
       /\ pc \in {"lvs", "luks"} => Made /\ world.lv[req.v][req.l].luks = "none"
       /\ pc = "luks" => got.lvs = {Reported(req.v, req.l)}
  /\ FreshIsPlain

ResizeInv ==
  /\ others = 0 /\ req.op = "ExtendLV" =>
       /\ pc \in {"getLuksInfo", "resize"} =>
            There(world, req.v, req.l) /\ world.lv[req.v][req.l].size = req.z
       /\ pc = "resize" => IsOpen(world, req.v, req.l) /\ got.name = world.lv[req.v][req.l].open
  /\ ResizedWithLV

\* the groups a scan is to report as they are
Asked == IF req.op = "ScanVGs" THEN VGs ELSE {req.v}
LvsOf(v) == {l \in LVs : There(world, v, l)}

ScanInv ==
  /\ pc # "idle" /\ req.op \in {"ScanVGs", "CreateVG"} =>
       /\ SharedNames(world) \subseteq spoiled
       /\ pc \in {"lvs", "luks", "pvs"} =>
            \A v \in Asked \ spoiled :
              /\ v \in DOMAIN got.vgs <=> Exists(world, v)
              /\ Exists(world, v) =>
                   got.vgs[v] = [size |-> VGSize(world, v), free |-> Room(world, v)]
       /\ pc = "luks" =>
            /\ \A x \in got.lvs : x.v \in VGs /\ x.l \in LVs
            /\ \A x, y \in got.lvs : x.l = y.l /\ x.v # y.v => x.v \in spoiled
            /\ \A v \in Asked \ spoiled :
                 {x \in got.lvs : x.v = v} = {Reported(v, l) : l \in LvsOf(v)}
       /\ pc = "pvs" =>
            \A v \in Asked \ spoiled :
              {x \in got.lvs : x.v = v} = {Info(Reported(v, l)) : l \in LvsOf(v)}
  /\ ScanExact

Base == Possible(world) /\ CallInv /\ others \in Nat
-----------------------------------------------------------------------------
(* What the commands leave *)

\* A world is the record of its labels and its volumes.
LEMMA WorldFields ==
  ASSUME NEW w \in Worlds
  PROVE  /\ w = [label |-> w.label, lv |-> w.lv]
         /\ w.label \in [Devs -> VGs \union {None, NoVG}]
         /\ w.lv \in [VGs -> [LVs -> Volumes \union {None}]]
  BY DEF Worlds

\* A label changes no volume.
LEMMA RelabelWorld ==
  ASSUME NEW w, Possible(w), NEW S, NEW o \in VGs \union {None, NoVG}
  PROVE  Possible(Relabel(w, S, o)) /\ Relabel(w, S, o).lv = w.lv
<1> DEFINE r == Relabel(w, S, o)
<1>1. r.lv = w.lv /\ r \in Worlds
  BY DEF Relabel, Possible, Worlds
<1>2. Sound(r)
  BY <1>1 DEF Possible, Sound, There, IsOpen
<1> QED
  BY <1>1, <1>2 DEF Possible

\* What Set does to the volumes.
LEMMA SetVolumes ==
  ASSUME NEW w \in Worlds, NEW v \in VGs, NEW l \in LVs, NEW x \in Volumes
  PROVE  /\ Set(w, v, l, x) \in Worlds
         /\ Set(w, v, l, x).label = w.label
         /\ \A u \in VGs, k \in LVs :
              Set(w, v, l, x).lv[u][k] = IF u = v /\ k = l THEN x ELSE w.lv[u][k]
  BY DEF Set, Worlds

\* A volume with a plausible content and a mapping that no other has.
LEMMA SetWorld ==
  ASSUME NEW w, Possible(w), NEW v \in VGs, NEW l \in LVs, NEW x \in Volumes, Plausible(x),
         \A u \in VGs, k \in LVs :
           x.open # None /\ IsOpen(w, u, k) /\ w.lv[u][k].open = x.open => u = v /\ k = l
  PROVE  Possible(Set(w, v, l, x))
<1> DEFINE r == Set(w, v, l, x)
<1>1. /\ r \in Worlds
      /\ \A u \in VGs, k \in LVs : r.lv[u][k] = IF u = v /\ k = l THEN x ELSE w.lv[u][k]
  BY SetVolumes DEF Possible
<1> HIDE DEF r
<1>2. \A u \in VGs, k \in LVs : There(r, u, k) => Plausible(r.lv[u][k])
  BY <1>1 DEF Possible, Sound, There
<1>3. ASSUME NEW a \in VGs, NEW u \in VGs, NEW b \in LVs, NEW k \in LVs,
             IsOpen(r, a, b), IsOpen(r, u, k), r.lv[a][b].open = r.lv[u][k].open
      PROVE  a = u /\ b = k
  BY <1>1, <1>3 DEF Possible, Sound, There, IsOpen
<1> QED
  BY <1>1, <1>2, <1>3 DEF r, Possible, Sound

\* Volumes of one group that go.
LEMMA FewerVolumes ==
  ASSUME NEW w, Possible(w), NEW v \in VGs, NEW g \in [LVs -> Volumes \union {None}],
         \A k \in LVs : g[k] \in {w.lv[v][k], None}
  PROVE  Possible([w EXCEPT !.lv[v] = g])
<1> DEFINE r == [w EXCEPT !.lv[v] = g]
<1>1. /\ r \in Worlds
      /\ \A u \in VGs, k \in LVs : r.lv[u][k] = IF u = v THEN g[k] ELSE w.lv[u][k]
  BY DEF Possible, Worlds
<1> HIDE DEF r
<1>2. \A u \in VGs, k \in LVs : r.lv[u][k] \in {w.lv[u][k], None}
  BY <1>1
<1>3. Sound(r)
  BY <1>2 DEF Possible, Sound, There, IsOpen
<1> QED
  BY <1>1, <1>3 DEF r, Possible

\* The commands that write labels.
LEMMA LabelCommands ==
  ASSUME NEW w, Possible(w), NEW S, NEW d, NEW v \in VGs,
         NEW x \in Pvcreate(w, S) \union Pvremove(w, d) \union Vgcreate(w, v, S)
                     \union Vgextend(w, v, S)
  PROVE  Possible(x) /\ x.lv = w.lv
<1>1. \/ \E T \in {S, {d}} : x = Relabel(w, T, NoVG) \/ x = Relabel(w, T, None)
      \/ x = Relabel(w, S, v)
  BY DEF Pvcreate, Pvremove, Vgcreate, Vgextend, When
<1> QED
  BY <1>1, RelabelWorld

\* A group that goes takes its volumes with it.
LEMMA VgremoveWorld ==
  ASSUME NEW w, Possible(w), NEW v \in VGs, NEW x \in Vgremove(w, v)
  PROVE  Possible(x)
<1> DEFINE r == Relabel(w, Members(w, v), NoVG)
           g == [l \in LVs |-> None]
<1>1. x = [r EXCEPT !.lv[v] = g]
  BY DEF Vgremove, When
<1>2. Possible(r)
  BY RelabelWorld
<1>3. g \in [LVs -> Volumes \union {None}] /\ \A k \in LVs : g[k] \in {r.lv[v][k], None}
  OBVIOUS
<1> HIDE DEF r, g
<1> QED
  BY <1>1, <1>2, <1>3, FewerVolumes

\* A new volume is the only one that changes, and it is not open.
LEMMA LvcreateWorld ==
  ASSUME NEW w, Possible(w), NEW v \in VGs, NEW l \in LVs, NEW z \in Nat,
         NEW t \in {"thick", "thin", "pool"}, NEW x \in Lvcreate(w, v, l, z, t)
  PROVE  /\ Possible(x)
         /\ \E luks \in {"none", "stale"} :
              /\ x = Set(w, v, l, NewVolume(z, t, luks)) /\ NewVolume(z, t, luks) \in Volumes
              /\ t # "thick" => luks = "none"
<1>1. PICK luks \in {"none", "stale"} :
        x = Set(w, v, l, NewVolume(z, t, luks)) /\ (t # "thick" => luks = "none")
  BY DEF Lvcreate
<1>2. NewVolume(z, t, luks) \in Volumes /\ Plausible(NewVolume(z, t, luks))
      /\ NewVolume(z, t, luks).open = None
  BY DEF NewVolume, Volumes, Plausible
<1> QED
  BY <1>1, <1>2, SetWorld

\* A volume that goes, and the thin volumes of a pool.
LEMMA LvremoveWorld ==
  ASSUME NEW w, Possible(w), NEW v \in VGs, NEW l \in LVs, NEW x \in Lvremove(w, v, l)
  PROVE  Possible(x)
<1>1. PICK gone : x = [w EXCEPT !.lv[v] = [k \in LVs |-> IF k \in gone THEN None ELSE w.lv[v][k]]]
  BY DEF Lvremove, When
<1> DEFINE g == [k \in LVs |-> IF k \in gone THEN None ELSE w.lv[v][k]]
<1>2. g \in [LVs -> Volumes \union {None}] /\ \A k \in LVs : g[k] \in {w.lv[v][k], None}
  BY DEF Possible, Worlds
<1>3. x = [w EXCEPT !.lv[v] = g]
  BY <1>1
<1> HIDE DEF g
<1> QED
  BY <1>2, <1>3, FewerVolumes

\* A volume under another name is the same volume.
LEMMA LvrenameWorld ==
  ASSUME NEW w, Possible(w), NEW v \in VGs, NEW l \in LVs, NEW m \in LVs,
         NEW x \in Lvrename(w, v, l, m)
  PROVE  Possible(x)
<1>1. /\ There(w, v, l) /\ ~There(w, v, m)
      /\ x = [w EXCEPT !.lv[v] = [w.lv[v] EXCEPT ![l] = None, ![m] = w.lv[v][l]]]
  BY DEF Lvrename, When
<1>2. l # m /\ w.lv[v][m] = None
  BY <1>1 DEF There
<1> DEFINE g == [w.lv[v] EXCEPT ![l] = None, ![m] = w.lv[v][l]]
<1>a. /\ g \in [LVs -> Volumes \union {None}]
      /\ \A k \in LVs : g[k] = IF k = m THEN w.lv[v][l] ELSE IF k = l THEN None ELSE w.lv[v][k]
  BY <1>2 DEF Possible, Worlds
<1>b. x = [w EXCEPT !.lv[v] = g]
  BY <1>1
<1> HIDE DEF g
<1>c. /\ x \in Worlds
      /\ \A u \in VGs, k \in LVs : x.lv[u][k] = IF u = v THEN g[k] ELSE w.lv[u][k]
  BY <1>a, <1>b DEF Possible, Worlds
<1>3. /\ x \in Worlds
      /\ \A u \in VGs, k \in LVs : x.lv[u][k] = IF u # v THEN w.lv[u][k]
                                              ELSE IF k = m THEN w.lv[v][l]
                                              ELSE IF k = l THEN None ELSE w.lv[v][k]
  BY <1>a, <1>c
<1>4. \A u \in VGs, k \in LVs : There(x, u, k) => Plausible(x.lv[u][k])
  BY <1>2, <1>3 DEF Possible, Sound, There
<1> DEFINE From(u, k) == IF u = v /\ k = m THEN l ELSE k
<1>5. \A u \in VGs, k \in LVs :
        There(x, u, k) => From(u, k) \in LVs /\ x.lv[u][k] = w.lv[u][From(u, k)]
  BY <1>2, <1>3 DEF There
<1>6. \A u \in VGs, k, h \in LVs :
        There(x, u, k) /\ There(x, u, h) /\ From(u, k) = From(u, h) => k = h
  BY <1>2, <1>3 DEF There
<1>7. ASSUME NEW a \in VGs, NEW u \in VGs, NEW b \in LVs, NEW k \in LVs,
             IsOpen(x, a, b), IsOpen(x, u, k), x.lv[a][b].open = x.lv[u][k].open
      PROVE  a = u /\ b = k
  <2>1. /\ IsOpen(w, a, From(a, b)) /\ IsOpen(w, u, From(u, k))
        /\ w.lv[a][From(a, b)].open = w.lv[u][From(u, k)].open
        /\ From(a, b) \in LVs /\ From(u, k) \in LVs
    BY <1>5, <1>7 DEF IsOpen, There
  <2>2. a = u /\ From(a, b) = From(u, k)
    BY <2>1 DEF Possible, Sound
  <2> QED
    BY <1>6, <1>7, <2>2 DEF IsOpen
<1> QED
  BY <1>3, <1>4, <1>7 DEF Possible, Sound

\* A larger volume keeps its contents and its mapping.
LEMMA LvextendWorld ==
  ASSUME NEW w, Possible(w), NEW v \in VGs, NEW l \in LVs, NEW z \in Nat,
         NEW x \in Lvextend(w, v, l, z)
  PROVE  /\ Possible(x) /\ There(w, v, l)
         /\ x = Set(w, v, l, [w.lv[v][l] EXCEPT !.size = z])
<1>1. There(w, v, l) /\ x = Set(w, v, l, [w.lv[v][l] EXCEPT !.size = z])
  BY DEF Lvextend, When
<1> DEFINE y == [w.lv[v][l] EXCEPT !.size = z]
<1>2. w.lv[v][l] \in Volumes
  BY <1>1 DEF Possible, Worlds, There
<1>3. y \in Volumes /\ y.open = w.lv[v][l].open /\ y.luks = w.lv[v][l].luks
      /\ y.type = w.lv[v][l].type
  BY <1>2 DEF Volumes
<1>4. x = Set(w, v, l, y)
  BY <1>1
<1> HIDE DEF y
<1>5. Plausible(y) /\ \A u \in VGs, k \in LVs :
        y.open # None /\ IsOpen(w, u, k) /\ w.lv[u][k].open = y.open => u = v /\ k = l
  BY <1>1, <1>3 DEF Possible, Sound, Plausible, IsOpen
<1>6. Possible(x)
  BY <1>3, <1>4, <1>5, SetWorld
<1> QED
  BY <1>1, <1>6

\* A LUKS header on a volume that is not open, and what luks2Wipe leaves of an old one.
LEMMA HeaderWorld ==
  ASSUME NEW w, Possible(w), NEW v \in VGs, NEW l \in LVs, There(w, v, l),
         NEW h \in {"none", "luks"},
         h = "luks" => w.lv[v][l].type # "pool",
         h = "none" => w.lv[v][l].luks # "luks"
  PROVE  Possible(Set(w, v, l, [w.lv[v][l] EXCEPT !.luks = h]))
<1> DEFINE y == [w.lv[v][l] EXCEPT !.luks = h]
<1>2. w.lv[v][l] \in Volumes
  BY DEF Possible, Worlds, There
<1>3. y \in Volumes /\ y.open = w.lv[v][l].open /\ y.luks = h /\ y.type = w.lv[v][l].type
  BY <1>2 DEF Volumes
<1>4. Set(w, v, l, [w.lv[v][l] EXCEPT !.luks = h]) = Set(w, v, l, y)
  OBVIOUS
<1> HIDE DEF y
<1>5. Plausible(y) /\ \A u \in VGs, k \in LVs :
        y.open # None /\ IsOpen(w, u, k) /\ w.lv[u][k].open = y.open => u = v /\ k = l
  BY <1>3 DEF Possible, Sound, Plausible, IsOpen, There
<1> QED
  BY <1>3, <1>4, <1>5, SetWorld

LEMMA LuksFormatWorld ==
  ASSUME NEW w, Possible(w), NEW v \in VGs, NEW l \in LVs, NEW x \in LuksFormat(w, v, l)
  PROVE  Possible(x)
<1>1. /\ There(w, v, l) /\ w.lv[v][l].type # "pool"
      /\ x = Set(w, v, l, [w.lv[v][l] EXCEPT !.luks = "luks"])
  BY DEF LuksFormat
<1> QED
  BY <1>1, HeaderWorld

\* An open volume has a mapping of its own.
LEMMA LuksOpenWorld ==
  ASSUME NEW w, Possible(w), NEW v \in VGs, NEW l \in LVs, NEW m \in Mapped,
         NEW x \in LuksOpen(w, v, l, m)
  PROVE  Possible(x)
<1>1. /\ There(w, v, l) /\ w.lv[v][l].luks = "luks"
      /\ \A u \in VGs, k \in LVs : IsOpen(w, u, k) => w.lv[u][k].open # m
      /\ x = Set(w, v, l, [w.lv[v][l] EXCEPT !.open = m, !.seen = w.lv[v][l].size])
  BY DEF LuksOpen
<1> DEFINE y == [w.lv[v][l] EXCEPT !.open = m, !.seen = w.lv[v][l].size]
<1>2. w.lv[v][l] \in Volumes
  BY <1>1 DEF Possible, Worlds, There
<1>3. y \in Volumes /\ y.open = m /\ y.luks = "luks" /\ y.type = w.lv[v][l].type
  BY <1>1, <1>2 DEF Volumes
<1>4. x = Set(w, v, l, y)
  BY <1>1
<1> HIDE DEF y
<1>5. Plausible(y)
  BY <1>1, <1>3 DEF Possible, Sound, Plausible
<1> QED
  BY <1>1, <1>3, <1>4, <1>5, SetWorld

\* A volume that is closed, or whose mapping is resized.
LEMMA LuksCloseWorld ==
  ASSUME NEW w, Possible(w), NEW m, NEW x \in LuksClose(w, m)
  PROVE  Possible(x)
<1>1. PICK v \in VGs, l \in LVs :
        There(w, v, l) /\ x = Set(w, v, l, [w.lv[v][l] EXCEPT !.open = None, !.seen = 0])
  BY DEF LuksClose, OpenAs, IsOpen
<1> DEFINE y == [w.lv[v][l] EXCEPT !.open = None, !.seen = 0]
<1>2. w.lv[v][l] \in Volumes
  BY <1>1 DEF Possible, Worlds, There
<1>3. y \in Volumes /\ y.open = None /\ y.luks = w.lv[v][l].luks /\ y.type = w.lv[v][l].type
  BY <1>2 DEF Volumes
<1>4. x = Set(w, v, l, y)
  BY <1>1
<1> HIDE DEF y
<1>5. Plausible(y)
  BY <1>1, <1>3 DEF Possible, Sound, Plausible
<1> QED
  BY <1>3, <1>4, <1>5, SetWorld

LEMMA LuksResizeWorld ==
  ASSUME NEW w, Possible(w), NEW m, NEW x \in LuksResize(w, m)
  PROVE  /\ Possible(x)
         /\ \E v \in VGs, l \in LVs :
              /\ IsOpen(w, v, l) /\ w.lv[v][l].open = m
              /\ x = Set(w, v, l, [w.lv[v][l] EXCEPT !.seen = w.lv[v][l].size])
<1>1. PICK v \in VGs, l \in LVs :
        /\ IsOpen(w, v, l) /\ w.lv[v][l].open = m
        /\ x = Set(w, v, l, [w.lv[v][l] EXCEPT !.seen = w.lv[v][l].size])
  BY DEF LuksResize, OpenAs
<1> DEFINE y == [w.lv[v][l] EXCEPT !.seen = w.lv[v][l].size]
<1>2. w.lv[v][l] \in Volumes
  BY <1>1 DEF Possible, Worlds, There, IsOpen
<1>3. y \in Volumes /\ y.open = w.lv[v][l].open /\ y.luks = w.lv[v][l].luks
      /\ y.type = w.lv[v][l].type
  BY <1>2 DEF Volumes
<1>4. x = Set(w, v, l, y)
  BY <1>1
<1> HIDE DEF y
<1>5. Plausible(y) /\ \A u \in VGs, k \in LVs :
        y.open # None /\ IsOpen(w, u, k) /\ w.lv[u][k].open = y.open => u = v /\ k = l
  BY <1>1, <1>3 DEF Possible, Sound, Plausible, IsOpen
<1>6. Possible(x)
  BY <1>3, <1>4, <1>5, SetWorld
<1> QED
  BY <1>1, <1>6

\* What another process does leaves a world that is possible.
LEMMA AnyCommandWorld ==
  ASSUME NEW w, Possible(w), NEW Z \in SUBSET Nat, NEW x, AnyCommand(w, x, Z)
  PROVE  Possible(x)
<1>1. CASE \E d \in Devs : x \in Pvcreate(w, {d}) \/ x \in Pvremove(w, d)
  <2>1. \E T, o : o \in {None, NoVG} /\ x = Relabel(w, T, o)
    BY <1>1 DEF Pvcreate, Pvremove, When
  <2> QED
    BY <2>1, RelabelWorld
<1>2. CASE \E v \in VGs, d \in Devs : x \in Vgcreate(w, v, {d}) \/ x \in Vgextend(w, v, {d})
  BY <1>2, LabelCommands
<1>3. CASE \E v \in VGs : x \in Vgremove(w, v)
  BY <1>3, VgremoveWorld
<1>4. CASE \E v \in VGs, l \in LVs, z \in Z :
             x \in Lvcreate(w, v, l, z, "thick") \/ x \in Lvextend(w, v, l, z)
  BY <1>4, LvcreateWorld, LvextendWorld
<1>5. CASE \E v \in VGs, l \in LVs : x \in Lvremove(w, v, l) \/ x \in LuksFormat(w, v, l)
  BY <1>5, LvremoveWorld, LuksFormatWorld
<1>6. CASE \E v \in VGs, l, m \in LVs : x \in Lvrename(w, v, l, m)
  BY <1>6, LvrenameWorld
<1>7. CASE \E v \in VGs, l \in LVs, m \in Mapped : x \in LuksOpen(w, v, l, m)
  BY <1>7, LuksOpenWorld
<1>8. CASE \E m \in Mapped : x \in LuksClose(w, m)
  BY <1>8, LuksCloseWorld
<1> QED
  BY <1>1, <1>2, <1>3, <1>4, <1>5, <1>6, <1>7, <1>8 DEF AnyCommand
-----------------------------------------------------------------------------
(* Where a call is, and what it is about *)

\* A call has the arguments that its operation takes, and begins at a place of its own.
LEMMA RequestAsks ==
  ASSUME NEW r \in Requests
  PROVE  /\ Asks(r) /\ First(r) \in Places(r.op)
         /\ First(r) = "lvcreate" => r.t # "unknown"
<1>1. Asks(r)
  BY CallsAssumption DEF Requests, Ask, No, Asks
<1>2. r.op \in {"CreatePV", "DeletePV", "HasPV", "CreateVG", "ExtendVG", "RemoveVG", "HasVG",
                "RemoveLV", "CryptFormat", "HasLV", "CryptOpen", "CryptClose", "RenameLV",
                "CreateLV", "ExtendLV", "ScanVGs"}
  BY DEF Requests, Ask
<1>3. /\ First(r) \in Places(r.op)
      /\ First(r) = "lvcreate" => r.t # "unknown"
  BY <1>2 DEF First, Places
<1> QED
  BY <1>1, <1>3

\* A scan that has read more.
LEMMA ScanFields ==
  ASSUME NEW g, IsScan(g), NEW x
  PROVE  /\ [g EXCEPT !.vgs = x] = [vgs |-> x, lvs |-> g.lvs, name |-> g.name]
         /\ [g EXCEPT !.lvs = x] = [vgs |-> g.vgs, lvs |-> x, name |-> g.name]
         /\ [g EXCEPT !.name = x] = [vgs |-> g.vgs, lvs |-> g.lvs, name |-> x]
<1> DEFINE a == g.vgs
           b == g.lvs
           c == g.name
<1>1. g = [vgs |-> a, lvs |-> b, name |-> c]
  BY DEF IsScan
<1> HIDE DEF a, b, c
<1>2. /\ [g EXCEPT !.vgs = x] = [vgs |-> x, lvs |-> b, name |-> c]
      /\ [g EXCEPT !.lvs = x] = [vgs |-> a, lvs |-> x, name |-> c]
      /\ [g EXCEPT !.name = x] = [vgs |-> a, lvs |-> b, name |-> x]
  BY <1>1
<1> QED
  BY <1>2 DEF a, b, c

\* A call ends, and says whether it went well.
Ended(ok) ==
  /\ pc' = "idle" /\ out'.op = req.op /\ got' = NoScan
  /\ out'.ok /\ req.op \notin {"HasPV", "HasVG"} => ok

LEMMA FailEnds ==
  ASSUME Fail
  PROVE  Ended(FALSE) /\ UNCHANGED <<req, others, spoiled>>
  BY DEF Fail, Return, Ended

\* A command does its work and the call goes on or ends, or it ends with an error.
LEMMA RunEffect ==
  ASSUME NEW W, NEW next, Run(W, next)
  PROVE  /\ UNCHANGED <<req, others, spoiled>>
         /\ world' = world \/ world' \in W
         /\ \/ next # "idle" /\ pc' = next /\ world' \in W /\ UNCHANGED <<got, out>>
            \/ Ended(next = "idle" /\ world' \in W)
<1>1. CASE \E w \in W : /\ world' = w
                        /\ IF next = "idle" THEN Return(TRUE, None) ELSE GoTo(next)
  BY <1>1 DEF Return, GoTo, Ended
<1>2. CASE (\E w \in W : world' = w) /\ Fail
  BY <1>2, FailEnds DEF Ended
<1>3. CASE UNCHANGED world /\ Fail
  BY <1>3, FailEnds DEF Ended
<1> QED
  BY <1>1, <1>2, <1>3 DEF Run

\* Each step is at its place, of the calls that have it.
LEMMA StepPlace ==
  ASSUME CallInv, Step
  PROVE  /\ CallInv' /\ pc # "idle" /\ UNCHANGED <<req, others, spoiled>>
         /\ pc' = "idle" => out'.op = req.op
<1>0. IsScan(NoScan)
  BY DEF IsScan, NoScan, NoVGs
<1>a. ASSUME pc # "idle", (\E o, x : Return(o, x)) \/ Fail
      PROVE  /\ CallInv' /\ pc # "idle" /\ UNCHANGED <<req, others, spoiled>>
             /\ pc' = "idle" => out'.op = req.op
  BY <1>0, <1>a, FailEnds DEF Return, Ended, CallInv
<1>1. CASE PvcreateStep
  BY <1>1, <1>0, RunEffect DEF PvcreateStep, CallInv, Places, Asks, Ended
<1>2. CASE PvremoveStep
  BY <1>2, <1>0, RunEffect DEF PvremoveStep, CallInv, Places, Asks, Ended
<1>3. CASE VgcreateStep
  BY <1>3, <1>0, RunEffect DEF VgcreateStep, CallInv, Places, Asks, Ended
<1>4. CASE VgextendStep
  BY <1>4, <1>0, RunEffect DEF VgextendStep, CallInv, Places, Asks, Ended
<1>5. CASE VgremoveStep
  BY <1>5, <1>0, RunEffect DEF VgremoveStep, CallInv, Places, Asks, Ended
<1>6. CASE LvcreateStep
  BY <1>6, <1>0, RunEffect DEF LvcreateStep, CallInv, Places, Asks, Ended
<1>7. CASE Luks2Wipe
  BY <1>7, <1>0, RunEffect DEF Luks2Wipe, CallInv, Places, Asks, Ended
<1>8. CASE LvextendStep
  BY <1>8, <1>0, RunEffect DEF LvextendStep, CallInv, Places, Asks, Ended
<1>9. CASE GetLuksInfo
  <2>1. CASE (\E o, x : Return(o, x)) \/ Fail
    BY <1>9, <1>a, <2>1 DEF GetLuksInfo
  <2>2. CASE ~((\E o, x : Return(o, x)) \/ Fail)
    <3>1. /\ pc = "getLuksInfo" /\ pc' = "resize" /\ UNCHANGED <<req, out, others, spoiled>>
          /\ \E x : got' = [got EXCEPT !.name = x]
      BY <1>9, <2>2 DEF GetLuksInfo
    <3>2. IsScan(got')
      BY <3>1, ScanFields DEF CallInv, IsScan
    <3> QED
      BY <3>1, <3>2 DEF CallInv, Places, Asks
  <2> QED
    BY <2>1, <2>2
<1>10. CASE Resize
  BY <1>10, <1>0, RunEffect DEF Resize, CallInv, Places, Asks, Ended
<1>11. CASE LvrenameStep \/ LvremoveStep
  BY <1>11, <1>0, RunEffect DEF LvrenameStep, LvremoveStep, CallInv, Places, Asks, Ended
<1>12. CASE LuksFormatStep \/ OpenStep \/ CloseStep
  BY <1>12, <1>0, RunEffect DEF LuksFormatStep, OpenStep, CloseStep, CallInv, Places, Asks, Ended
<1>13. CASE Vgs
  <2>1. CASE (\E o, x : Return(o, x)) \/ Fail
    BY <1>13, <1>a, <2>1 DEF Vgs
  <2>2. CASE ~((\E o, x : Return(o, x)) \/ Fail)
    <3>1. /\ pc = "vgs" /\ pc' = "lvs" /\ UNCHANGED <<req, out, others, spoiled>>
          /\ \E x : got' = [got EXCEPT !.vgs = x]
      BY <1>13, <2>2 DEF Vgs
    <3>2. IsScan(got')
      BY <3>1, ScanFields DEF CallInv, IsScan
    <3> QED
      BY <3>1, <3>2 DEF CallInv, Places, Asks
  <2> QED
    BY <2>1, <2>2
<1>14. CASE Lvs
  <2>1. CASE (\E o, x : Return(o, x)) \/ Fail
    BY <1>14, <1>a, <2>1 DEF Lvs
  <2>2. CASE ~((\E o, x : Return(o, x)) \/ Fail)
    <3>1. /\ pc = "lvs" /\ pc' = "luks" /\ UNCHANGED <<req, out, others, spoiled>>
          /\ \E x : got' = [got EXCEPT !.lvs = x]
      BY <1>14, <2>2 DEF Lvs
    <3>2. IsScan(got')
      BY <3>1, ScanFields DEF CallInv, IsScan
    <3> QED
      BY <3>1, <3>2 DEF CallInv, Places, Asks
  <2> QED
    BY <2>1, <2>2
<1>15. CASE Luks
  <2>1. CASE (\E o, x : Return(o, x)) \/ Fail
    BY <1>15, <1>a, <2>1 DEF Luks
  <2>2. CASE ~((\E o, x : Return(o, x)) \/ Fail)
    <3>1. /\ pc = "luks" /\ pc' = "pvs" /\ UNCHANGED <<req, out, others, spoiled>>
          /\ req.op \notin {"HasLV", "CreateLV"}
          /\ \E x : got' = [got EXCEPT !.lvs = x]
      BY <1>15, <2>2 DEF Luks
    <3>2. IsScan(got')
      BY <3>1, ScanFields DEF CallInv, IsScan
    <3> QED
      BY <3>1, <3>2 DEF CallInv, Places, Asks
  <2> QED
    BY <2>1, <2>2
<1>16. CASE Pvs
  <2>1. (\E o, x : Return(o, x)) \/ Fail
    BY <1>16 DEF Pvs
  <2> QED
    BY <1>16, <1>a, <2>1 DEF Pvs
<1> QED
  BY <1>1, <1>2, <1>3, <1>4, <1>5, <1>6, <1>7, <1>8, <1>9, <1>10, <1>11, <1>12, <1>13, <1>14,
     <1>15, <1>16 DEF Step

\* The worlds a call leaves are possible ones.
LEMMA StepWorld ==
  ASSUME Possible(world), CallInv, Step
  PROVE  Possible(world')
<1>1. CASE PvcreateStep
  <2>1. world' = world \/ world' \in Pvcreate(world, req.S)
    BY <1>1, RunEffect DEF PvcreateStep
  <2>2. \E o \in {NoVG} : world' = world \/ world' = Relabel(world, req.S, o)
    BY <2>1 DEF Pvcreate, When
  <2> QED
    BY <2>2, RelabelWorld
<1>2. CASE PvremoveStep
  <2>1. PICK d \in req.S : world' = world \/ world' \in Pvremove(world, d)
    BY <1>2, RunEffect DEF PvremoveStep
  <2>2. \E o \in {None} : world' = world \/ world' = Relabel(world, {d}, o)
    BY <2>1 DEF Pvremove, When
  <2> QED
    BY <2>2, RelabelWorld
<1>3. CASE VgcreateStep
  <2>1. req.v \in VGs /\ (world' = world \/ world' \in Vgcreate(world, req.v, req.S))
    BY <1>3, RunEffect DEF VgcreateStep, CallInv, Places, Asks
  <2> QED
    BY <2>1, LabelCommands
<1>4. CASE VgextendStep
  <2>1. req.v \in VGs /\ (world' = world \/ world' \in Vgextend(world, req.v, req.S))
    BY <1>4, RunEffect DEF VgextendStep, CallInv, Places, Asks
  <2> QED
    BY <2>1, LabelCommands
<1>5. CASE VgremoveStep
  <2>1. req.v \in VGs /\ (world' = world \/ world' \in Vgremove(world, req.v))
    BY <1>5, RunEffect DEF VgremoveStep, CallInv, Places, Asks
  <2> QED
    BY <2>1, VgremoveWorld
<1>6. CASE LvcreateStep
  <2>1. /\ req.v \in VGs /\ req.l \in LVs /\ req.z \in Nat /\ req.t \in {"thick", "thin", "pool"}
        /\ world' = world \/ world' \in Lvcreate(world, req.v, req.l, req.z, req.t)
    BY <1>6, RunEffect, CallsAssumption DEF LvcreateStep, CallInv, Places, Asks
  <2> QED
    BY <2>1, LvcreateWorld
<1>7. CASE Luks2Wipe
  <2>1. /\ req.v \in VGs /\ req.l \in LVs
        /\ \/ world' = world
           \/ /\ There(world, req.v, req.l)
              /\ world' = Set(world, req.v, req.l, [world.lv[req.v][req.l] EXCEPT
                   !.luks = IF world.lv[req.v][req.l].luks = "luks" THEN "luks" ELSE "none"])
    BY <1>7, RunEffect DEF Luks2Wipe, CallInv, Places, Asks
  <2>2. CASE There(world, req.v, req.l) /\ world.lv[req.v][req.l].luks = "luks"
    <3>1. world.lv[req.v][req.l].type # "pool"
      BY <2>1, <2>2 DEF Possible, Sound, Plausible
    <3>2. world' = world \/ world' = Set(world, req.v, req.l,
                                       [world.lv[req.v][req.l] EXCEPT !.luks = "luks"])
      BY <2>1, <2>2
    <3> QED
      BY <2>1, <2>2, <3>1, <3>2, HeaderWorld
  <2>3. CASE There(world, req.v, req.l) /\ world.lv[req.v][req.l].luks # "luks"
    <3>1. world' = world \/ world' = Set(world, req.v, req.l,
                                       [world.lv[req.v][req.l] EXCEPT !.luks = "none"])
      BY <2>1, <2>3
    <3> QED
      BY <2>1, <2>3, <3>1, HeaderWorld
  <2> QED
    BY <2>1, <2>2, <2>3
<1>8. CASE LvextendStep
  <2>1. /\ req.v \in VGs /\ req.l \in LVs /\ req.z \in Nat
        /\ world' = world \/ world' \in Lvextend(world, req.v, req.l, req.z)
    BY <1>8, RunEffect DEF LvextendStep, CallInv, Places, Asks
  <2> QED
    BY <2>1, LvextendWorld
<1>9. CASE Resize
  <2>1. world' = world \/ world' \in LuksResize(world, got.name)
    BY <1>9, RunEffect DEF Resize
  <2> QED
    BY <2>1, LuksResizeWorld
<1>10. CASE LvrenameStep
  <2>1. /\ req.v \in VGs /\ req.l \in LVs /\ req.m \in LVs
        /\ world' = world \/ world' \in Lvrename(world, req.v, req.l, req.m)
    BY <1>10, RunEffect DEF LvrenameStep, CallInv, Places, Asks
  <2> QED
    BY <2>1, LvrenameWorld
<1>11. CASE LvremoveStep
  <2>1. /\ req.v \in VGs /\ req.l \in LVs
        /\ world' = world \/ world' \in Lvremove(world, req.v, req.l)
    BY <1>11, RunEffect DEF LvremoveStep, CallInv, Places, Asks
  <2> QED
    BY <2>1, LvremoveWorld
<1>12. CASE LuksFormatStep
  <2>1. /\ req.v \in VGs /\ req.l \in LVs
        /\ world' = world \/ world' \in LuksFormat(world, req.v, req.l)
    BY <1>12, RunEffect DEF LuksFormatStep, CallInv, Places, Asks
  <2> QED
    BY <2>1, LuksFormatWorld
<1>13. CASE OpenStep
  <2>1. /\ req.v \in VGs /\ req.l \in LVs /\ req.m \in Mapped
        /\ world' = world \/ world' \in LuksOpen(world, req.v, req.l, req.m)
    BY <1>13, RunEffect DEF OpenStep, CallInv, Places, Asks
  <2> QED
    BY <2>1, LuksOpenWorld
<1>14. CASE CloseStep
  <2>1. world' = world \/ world' \in LuksClose(world, req.m)
    BY <1>14, RunEffect DEF CloseStep
  <2> QED
    BY <2>1, LuksCloseWorld
<1>15. CASE GetLuksInfo \/ Vgs \/ Lvs \/ Luks \/ Pvs
  BY <1>15 DEF GetLuksInfo, Vgs, Lvs, Luks, Pvs
<1> QED
  BY <1>1, <1>2, <1>3, <1>4, <1>5, <1>6, <1>7, <1>8, <1>9, <1>10, <1>11, <1>12, <1>13, <1>14,
     <1>15 DEF Step

\* A call that begins has not succeeded yet.
LEMMA CallBegins ==
  ASSUME NEW r \in Requests, Call(r)
  PROVE  /\ CallInv' /\ UNCHANGED world /\ others' = 0
         /\ req' = r /\ spoiled' = SharedNames(world)
         /\ pc' = "idle" => ~out'.ok
         /\ pc' # "idle" => pc' = First(r)
<1>1. First(r) # "idle"
  BY RequestAsks DEF Places
<1>2. \/ pc' = "idle" /\ out' = [op |-> r.op, ok |-> FALSE, value |-> None]
      \/ pc' = First(r) /\ out' = NoResult
  BY DEF Call
<1>3. CallInv'
  <2>1. IsScan(got')
    BY DEF Call, IsScan, NoScan, NoVGs
  <2> QED
    BY <1>2, <2>1, RequestAsks DEF Call, CallInv
<1> QED
  BY <1>1, <1>2, <1>3 DEF Call

LEMMA BaseStep ==
  ASSUME Base, [Next]_vars
  PROVE  Base'
<1>1. CASE Step
  BY <1>1, StepPlace, StepWorld DEF Base
<1>2. CASE Other
  <2>1. AnyCommand(world, world', {z \in Sizes : IsRoundExtent(z)})
    BY <1>2 DEF Other
  <2>2. {z \in Sizes : IsRoundExtent(z)} \in SUBSET Nat
    BY CallsAssumption
  <2>3. Possible(world')
    BY <2>1, <2>2, AnyCommandWorld DEF Base
  <2> QED
    BY <1>2, <2>3 DEF Other, Base, CallInv
<1>3. CASE \E r \in Requests : Call(r)
  BY <1>3, CallBegins DEF Base
<1>4. CASE UNCHANGED vars
  BY <1>4 DEF vars, Base, CallInv
<1> QED
  BY <1>1, <1>2, <1>3, <1>4 DEF Next

\* A machine without volumes is a possible one.
LEMMA BaseInit ==
  ASSUME Init
  PROVE  Base
<1>1. EmptyWorld \in Worlds
  BY DEF EmptyWorld, Worlds
<1>2. Sound(EmptyWorld)
  BY DEF EmptyWorld, Sound, There, IsOpen
<1> QED
  BY <1>1, <1>2 DEF Init, Base, Possible, CallInv, IsScan, NoScan

THEOREM BaseCorrect == Spec => []Base
<1> QED
  BY BaseInit, BaseStep, PTL DEF Spec
-----------------------------------------------------------------------------
(* A new volume *)

LEMMA FreshStep ==
  ASSUME "unknown" \notin Types, Base, FreshInv, Step
  PROVE  FreshInv'
<1>1. /\ CallInv' /\ pc # "idle" /\ UNCHANGED <<req, others, spoiled>>
      /\ pc' = "idle" => out'.op = req.op
  BY StepPlace DEF Base
<1>2. CASE others # 0 \/ req.op # "CreateLV"
  BY <1>1, <1>2 DEF FreshInv, FreshIsPlain, Succeeded
<1> SUFFICES ASSUME others = 0, req.op = "CreateLV"
             PROVE  FreshInv'
  BY <1>2
<1> DEFINE v == req.v
           l == req.l
<1>3. v \in VGs /\ l \in LVs /\ req.z \in Nat /\ req.t \in {"thick", "thin", "pool"}
  BY <1>1, CallsAssumption DEF Base, CallInv, Asks
<1>4. Ended(FALSE) => FreshInv'
  BY <1>1 DEF Ended, FreshInv, FreshIsPlain, Succeeded
<1>5. CASE LvcreateStep
  <2>1. CASE Ended(FALSE)
    BY <2>1, <1>4
  <2>2. CASE /\ pc' = IF req.t = "thick" THEN "luks2Wipe" ELSE "lvs"
             /\ world' \in Lvcreate(world, v, l, req.z, req.t)
    <3>1. PICK luks \in {"none", "stale"} :
            /\ world' = Set(world, v, l, NewVolume(req.z, req.t, luks))
            /\ NewVolume(req.z, req.t, luks) \in Volumes
            /\ req.t # "thick" => luks = "none"
      BY <1>3, <2>2, LvcreateWorld DEF Base
    <3>2. world'.lv[v][l] = NewVolume(req.z, req.t, luks)
      BY <1>3, <3>1, SetVolumes DEF Base, Possible
    <3>3. /\ There(world', v, l)
          /\ world'.lv[v][l].size = req.z /\ world'.lv[v][l].type = req.t
          /\ world'.lv[v][l].luks = luks
      BY <3>1, <3>2, LVMVolumesAssumption DEF There, NewVolume
    <3> QED
      BY <1>1, <2>2, <3>1, <3>3 DEF FreshInv, FreshIsPlain, Succeeded, Made
  <2> QED
    BY <1>5, <2>1, <2>2, RunEffect DEF LvcreateStep, Ended
<1>6. CASE Luks2Wipe
  <2>1. CASE Ended(FALSE)
    BY <2>1, <1>4
  <2>2. CASE /\ pc' = "lvs" /\ There(world, v, l)
             /\ world' = Set(world, v, l, [world.lv[v][l] EXCEPT
                   !.luks = IF world.lv[v][l].luks = "luks" THEN "luks" ELSE "none"])
    <3>1. Made /\ world.lv[v][l].luks # "luks"
      BY <1>6 DEF Luks2Wipe, FreshInv
    <3>2. world.lv[v][l] \in Volumes
      BY <1>3, <2>2 DEF Base, Possible, Worlds, There
    <3> DEFINE y == [world.lv[v][l] EXCEPT !.luks = "none"]
    <3>3. y \in Volumes /\ y.size = req.z /\ y.type = req.t /\ y.luks = "none"
      BY <3>1, <3>2 DEF Volumes, Made
    <3>4. world' = Set(world, v, l, y)
      BY <2>2, <3>1
    <3> HIDE DEF y
    <3>5. world'.lv[v][l] = y
      BY <1>3, <3>3, <3>4, SetVolumes DEF Base, Possible
    <3> QED
      BY <1>1, <2>2, <3>3, <3>5, LVMVolumesAssumption
      DEF FreshInv, FreshIsPlain, Succeeded, Made, There
  <2> QED
    BY <1>6, <2>1, <2>2, RunEffect DEF Luks2Wipe, Ended
<1>7. CASE Lvs
  <2>1. Made /\ world.lv[v][l].luks = "none"
    BY <1>7 DEF Lvs, FreshInv
  <2>2. UNCHANGED world
    BY <1>7 DEF Lvs
  <2>3. CASE Fail
    BY <1>4, <2>3, FailEnds
  <2>4. CASE ~Fail
    <3>1. pc' = "luks" /\ got'.lvs = {Reported(v, l)}
      <4> DEFINE asked == {<<v, l>>}
      <4>1. {y \in asked : There(world, y[1], y[2])} = {<<v, l>>}
        BY <2>1 DEF Made
      <4>2. got' = [got EXCEPT !.lvs =
                  {[v |-> x[1], l |-> x[2], size |-> world.lv[x[1]][x[2]].size,
                    type |-> world.lv[x[1]][x[2]].type] :
                     x \in {y \in asked : There(world, y[1], y[2])}}] /\ pc' = "luks"
        BY <1>7, <2>4 DEF Lvs
      <4> DEFINE found == {[v |-> x[1], l |-> x[2], size |-> world.lv[x[1]][x[2]].size,
                            type |-> world.lv[x[1]][x[2]].type] : x \in {<<v, l>>}}
      <4>3. found = {Reported(v, l)}
        BY DEF Reported
      <4>4. got' = [got EXCEPT !.lvs = found]
        BY <4>1, <4>2
      <4> HIDE DEF found
      <4>5. got'.lvs = found
        BY <4>4, ScanFields DEF Base, CallInv
      <4> QED
        BY <4>2, <4>3, <4>5
    <3> QED
      BY <1>1, <2>1, <2>2, <3>1 DEF FreshInv, FreshIsPlain, Succeeded, Made, Reported
  <2> QED
    BY <2>3, <2>4
<1>8. CASE Luks
  <2>1. /\ Made /\ world.lv[v][l].luks = "none" /\ got.lvs = {Reported(v, l)}
        /\ UNCHANGED world
    BY <1>8 DEF Luks, FreshInv
  <2>2. CASE Fail
    BY <1>4, <2>2, FailEnds
  <2>3. CASE ~Fail
    <3> DEFINE i == Info(Reported(v, l))
    <3>1. /\ i.l = l /\ ~i.enc /\ i.size = req.z /\ i.type = req.t
      BY <2>1 DEF Info, Reported, LuksInfo, Made
    <3>2. {Info(x) : x \in got.lvs} = {i}
      BY <2>1
    <3>3. PICK f \in Named({i}) :
            IF DOMAIN f = {l} THEN Return(TRUE, f[l]) ELSE Return(FALSE, None)
      BY <1>8, <2>3, <3>2 DEF Luks
    <3> HIDE DEF i
    <3>4. f[l] = i \/ DOMAIN f # {l}
      BY DEF Named
    <3> QED
      BY <1>1, <2>1, <3>1, <3>3, <3>4 DEF Return, FreshInv, FreshIsPlain, Succeeded, Made
  <2> QED
    BY <2>2, <2>3
<1>9. pc \in {"lvcreate", "luks2Wipe", "lvs", "luks"}
  BY <1>1 DEF Base, CallInv, Places
<1> QED
  BY <1>5, <1>6, <1>7, <1>8, <1>9
  DEF Step, PvcreateStep, PvremoveStep, VgcreateStep, VgextendStep, VgremoveStep, LvextendStep,
      GetLuksInfo, Resize, LvrenameStep, LvremoveStep, LuksFormatStep, OpenStep, CloseStep, Vgs,
      Pvs

\* A volume that CreateLV returns has no LUKS header of an older one and is what was
\* asked for, whatever failed before; for the three types of volume that callers make.
THEOREM FreshIsPlainCorrect == "unknown" \notin Types => (Spec => []FreshIsPlain)
<1> SUFFICES ASSUME "unknown" \notin Types PROVE Spec => []FreshIsPlain
  OBVIOUS
<1>1. Init => FreshInv
  BY DEF Init, NoResult, FreshInv, FreshIsPlain, Succeeded
<1>2. Base /\ FreshInv /\ [Next]_vars => FreshInv'
  <2> SUFFICES ASSUME Base, FreshInv, [Next]_vars PROVE FreshInv'
    OBVIOUS
  <2>1. CASE Step
    BY <2>1, FreshStep
  <2>2. CASE Other
    BY <2>2 DEF Other, Base, FreshInv, FreshIsPlain
  <2>3. CASE \E r \in Requests : Call(r)
    <3>1. PICK r \in Requests : Call(r)
      BY <2>3
    <3>2. r.op = "CreateLV" => r.t # "unknown"
      BY RequestAsks DEF Asks
    <3> QED
      BY <3>1, <3>2, CallBegins DEF FreshInv, FreshIsPlain, Succeeded, First
  <2>4. CASE UNCHANGED vars
    BY <2>4 DEF vars, FreshInv, FreshIsPlain, Succeeded, Made, Reported
  <2> QED
    BY <2>1, <2>2, <2>3, <2>4 DEF Next
<1>3. FreshInv => FreshIsPlain
  BY DEF FreshInv
<1> QED
  BY <1>1, <1>2, <1>3, BaseCorrect, PTL DEF Spec
-----------------------------------------------------------------------------
(* A volume that grows *)

LEMMA ResizeStep ==
  ASSUME Base, ResizeInv, Step
  PROVE  ResizeInv'
<1>1. /\ CallInv' /\ pc # "idle" /\ UNCHANGED <<req, others, spoiled>>
      /\ pc' = "idle" => out'.op = req.op
  BY StepPlace DEF Base
<1>2. CASE others # 0 \/ req.op # "ExtendLV"
  BY <1>1, <1>2 DEF ResizeInv, ResizedWithLV, Succeeded
<1> SUFFICES ASSUME others = 0, req.op = "ExtendLV"
             PROVE  ResizeInv'
  BY <1>2
<1> DEFINE v == req.v
           l == req.l
<1>3. v \in VGs /\ l \in LVs /\ req.z \in Nat
  BY <1>1 DEF Base, CallInv, Asks
<1>4. Ended(FALSE) => ResizeInv'
  BY <1>1 DEF Ended, ResizeInv, ResizedWithLV, Succeeded
<1>5. CASE LvextendStep
  <2>1. CASE Ended(FALSE)
    BY <2>1, <1>4
  <2>2. CASE pc' = "getLuksInfo" /\ world' \in Lvextend(world, v, l, req.z)
    <3>1. There(world, v, l) /\ world' = Set(world, v, l, [world.lv[v][l] EXCEPT !.size = req.z])
      BY <1>3, <2>2, LvextendWorld DEF Base
    <3>2. world.lv[v][l] \in Volumes
      BY <1>3, <3>1 DEF Base, Possible, Worlds, There
    <3> DEFINE y == [world.lv[v][l] EXCEPT !.size = req.z]
    <3>3. y \in Volumes /\ y.size = req.z
      BY <1>3, <3>2 DEF Volumes
    <3>4. world' = Set(world, v, l, y)
      BY <3>1
    <3> HIDE DEF y
    <3>5. world'.lv[v][l] = y
      BY <1>3, <3>3, <3>4, SetVolumes DEF Base, Possible
    <3> QED
      BY <1>1, <2>2, <3>3, <3>5, LVMVolumesAssumption
      DEF ResizeInv, ResizedWithLV, Succeeded, There
  <2> QED
    BY <1>5, <2>1, <2>2, RunEffect DEF LvextendStep, Ended
<1>6. CASE GetLuksInfo
  <2>1. There(world, v, l) /\ world.lv[v][l].size = req.z /\ UNCHANGED world
    BY <1>6 DEF GetLuksInfo, ResizeInv
  <2>2. LuksInfo(world, v, l).open = world.lv[v][l].open
    <3>1. Plausible(world.lv[v][l]) /\ world.lv[v][l] \in Volumes
      BY <1>3, <2>1 DEF Base, Possible, Worlds, Sound, There
    <3> QED
      BY <2>1, <3>1 DEF Plausible, LuksInfo, Volumes
  <2>3. CASE Fail
    BY <1>4, <2>3, FailEnds
  <2>4. CASE LuksInfo(world, v, l).open = None /\ Return(TRUE, None)
    BY <1>1, <2>1, <2>2, <2>4 DEF Return, ResizeInv, ResizedWithLV, Succeeded, IsOpen
  <2>5. CASE /\ LuksInfo(world, v, l).open # None /\ pc' = "resize"
             /\ got' = [got EXCEPT !.name = LuksInfo(world, v, l).open]
    <3>1. got'.name = LuksInfo(world, v, l).open
      BY <2>5, ScanFields DEF Base, CallInv
    <3> QED
      BY <1>1, <2>1, <2>2, <2>5, <3>1 DEF ResizeInv, ResizedWithLV, Succeeded, IsOpen
  <2> QED
    BY <1>6, <2>3, <2>4, <2>5 DEF GetLuksInfo
<1>7. CASE Resize
  <2>1. /\ IsOpen(world, v, l) /\ got.name = world.lv[v][l].open
        /\ world.lv[v][l].size = req.z
    BY <1>7 DEF Resize, ResizeInv
  <2>2. CASE Ended(FALSE)
    BY <2>2, <1>4
  <2>3. CASE pc' = "idle" /\ world' \in LuksResize(world, got.name)
    <3>1. PICK u \in VGs, k \in LVs :
            /\ IsOpen(world, u, k) /\ world.lv[u][k].open = got.name
            /\ world' = Set(world, u, k, [world.lv[u][k] EXCEPT !.seen = world.lv[u][k].size])
      BY <2>3, LuksResizeWorld DEF Base
    <3>2. u = v /\ k = l
      BY <1>3, <2>1, <3>1 DEF Base, Possible, Sound
    <3>3. world.lv[v][l] \in Volumes
      BY <1>3, <2>1 DEF Base, Possible, Worlds, There, IsOpen
    <3> DEFINE y == [world.lv[v][l] EXCEPT !.seen = world.lv[v][l].size]
    <3>4. y \in Volumes /\ y.size = req.z /\ y.seen = req.z
      BY <2>1, <3>3 DEF Volumes
    <3>5. world' = Set(world, v, l, y)
      BY <3>1, <3>2
    <3> HIDE DEF y
    <3>6. world'.lv[v][l] = y
      BY <1>3, <3>4, <3>5, SetVolumes DEF Base, Possible
    <3> QED
      BY <1>1, <2>3, <3>4, <3>6 DEF ResizeInv, ResizedWithLV
  <2> QED
    BY <1>7, <2>2, <2>3, RunEffect DEF Resize, Ended
<1>8. pc \in {"lvextend", "getLuksInfo", "resize"}
  BY <1>1 DEF Base, CallInv, Places
<1> QED
  BY <1>5, <1>6, <1>7, <1>8
  DEF Step, PvcreateStep, PvremoveStep, VgcreateStep, VgextendStep, VgremoveStep, LvcreateStep,
      Luks2Wipe, LvrenameStep, LvremoveStep, LuksFormatStep, OpenStep, CloseStep, Vgs, Lvs,
      Luks, Pvs

\* After an ExtendLV that succeeds an opened volume is as large as the volume it is on:
\* the name it is open under is found after the extension, and is no other volume's.
THEOREM ResizedWithLVCorrect == Spec => []ResizedWithLV
<1>1. Init => ResizeInv
  BY DEF Init, NoResult, ResizeInv, ResizedWithLV, Succeeded
<1>2. Base /\ ResizeInv /\ [Next]_vars => ResizeInv'
  <2> SUFFICES ASSUME Base, ResizeInv, [Next]_vars PROVE ResizeInv'
    OBVIOUS
  <2>1. CASE Step
    BY <2>1, ResizeStep
  <2>2. CASE Other
    BY <2>2 DEF Other, Base, ResizeInv, ResizedWithLV
  <2>3. CASE \E r \in Requests : Call(r)
    <3>1. PICK r \in Requests : Call(r)
      BY <2>3
    <3> QED
      BY <3>1, CallBegins DEF ResizeInv, ResizedWithLV, Succeeded, First
  <2>4. CASE UNCHANGED vars
    BY <2>4 DEF vars, ResizeInv, ResizedWithLV, Succeeded
  <2> QED
    BY <2>1, <2>2, <2>3, <2>4 DEF Next
<1>3. ResizeInv => ResizedWithLV
  BY DEF ResizeInv
<1> QED
  BY <1>1, <1>2, <1>3, BaseCorrect, PTL DEF Spec
-----------------------------------------------------------------------------
(* A scan while others work *)

\* What is reported of a group is a function of its members and volumes.
LEMMA SameGroup ==
  ASSUME NEW v \in VGs, Members(world', v) = Members(world, v), world'.lv[v] = world.lv[v]
  PROVE  /\ Exists(world', v) <=> Exists(world, v)
         /\ VGSize(world', v) = VGSize(world, v) /\ Room(world', v) = Room(world, v)
         /\ LvsOf(v)' = LvsOf(v)
         /\ \A l \in LVs : Reported(v, l)' = Reported(v, l)
         /\ \A l \in LVs : Info(Reported(v, l))' = Info(Reported(v, l))
<1>1. Exists(world', v) <=> Exists(world, v)
  BY DEF Exists
<1>2. VGSize(world', v) = VGSize(world, v)
  BY DEF VGSize
<1>3. Room(world', v) = Room(world, v)
  BY <1>2 DEF Room
<1>4. LvsOf(v)' = LvsOf(v)
  BY DEF LvsOf, There
<1>5. \A l \in LVs : Reported(v, l)' = Reported(v, l)
  BY DEF Reported
<1>6. \A l \in LVs : Info(Reported(v, l))' = Info(Reported(v, l))
  BY DEF Info, Reported, LuksInfo, There
<1> QED
  BY <1>1, <1>2, <1>3, <1>4, <1>5, <1>6

LEMMA ScanOther ==
  ASSUME Base, ScanInv, Other
  PROVE  ScanInv'
<1>1. /\ pc # "idle" /\ UNCHANGED <<pc, req, got, out>> /\ Asked' = Asked
      /\ SharedNames(world') \subseteq spoiled' /\ spoiled \subseteq spoiled'
  BY DEF Other, Asked
<1>2. \A v \in VGs \ spoiled' :
        Members(world', v) = Members(world, v) /\ world'.lv[v] = world.lv[v]
  BY DEF Other
<1>3. \A v \in VGs \ spoiled' :
        /\ Exists(world', v) <=> Exists(world, v)
        /\ VGSize(world', v) = VGSize(world, v) /\ Room(world', v) = Room(world, v)
        /\ LvsOf(v)' = LvsOf(v)
        /\ \A l \in LVs : Reported(v, l)' = Reported(v, l)
        /\ \A l \in LVs : Info(Reported(v, l))' = Info(Reported(v, l))
  BY <1>2, SameGroup
<1>4. ScanExact'
  BY <1>1 DEF ScanExact, Succeeded
<1> SUFFICES ASSUME req.op \in {"ScanVGs", "CreateVG"} PROVE ScanInv'
  BY <1>1, <1>4 DEF ScanInv
<1>5. Asked \subseteq VGs
  BY <1>1 DEF Asked, Base, CallInv, Asks
<1>6. pc \in {"lvs", "luks", "pvs"} =>
        \A v \in Asked \ spoiled' :
          /\ v \in DOMAIN got.vgs <=> Exists(world', v)
          /\ Exists(world', v) =>
               got.vgs[v] = [size |-> VGSize(world', v), free |-> Room(world', v)]
  BY <1>1, <1>3, <1>5 DEF ScanInv
<1>7. pc = "luks" =>
        /\ \A x \in got.lvs : x.v \in VGs /\ x.l \in LVs
        /\ \A x, y \in got.lvs : x.l = y.l /\ x.v # y.v => x.v \in spoiled'
  BY <1>1 DEF ScanInv
<1>8. ASSUME NEW v \in Asked \ spoiled', pc = "luks"
      PROVE  {x \in got.lvs : x.v = v} = {Reported(v, l)' : l \in LvsOf(v)'}
  <2>1. {x \in got.lvs : x.v = v} = {Reported(v, l) : l \in LvsOf(v)}
    BY <1>1, <1>8 DEF ScanInv
  <2>2. v \in VGs \ spoiled' /\ LvsOf(v) \subseteq LVs
    BY <1>5, <1>8 DEF LvsOf
  <2>3. {Reported(v, l)' : l \in LvsOf(v)'} = {Reported(v, l) : l \in LvsOf(v)}
    BY <1>3, <2>2
  <2> QED
    BY <2>1, <2>3
<1>9. ASSUME NEW v \in Asked \ spoiled', pc = "pvs"
      PROVE  {x \in got.lvs : x.v = v} = {Info(Reported(v, l))' : l \in LvsOf(v)'}
  <2>1. {x \in got.lvs : x.v = v} = {Info(Reported(v, l)) : l \in LvsOf(v)}
    BY <1>1, <1>9 DEF ScanInv
  <2>2. v \in VGs \ spoiled' /\ LvsOf(v) \subseteq LVs
    BY <1>5, <1>9 DEF LvsOf
  <2>3. {Info(Reported(v, l))' : l \in LvsOf(v)'} = {Info(Reported(v, l)) : l \in LvsOf(v)}
    BY <1>3, <2>2
  <2> QED
    BY <2>1, <2>3
<1> QED
  BY <1>1, <1>4, <1>6, <1>7, <1>8, <1>9 DEF ScanInv

\* The first report of a scan.
LEMMA ScanVgs ==
  ASSUME Base, ScanInv, Vgs, req.op \in {"ScanVGs", "CreateVG"}
  PROVE  ScanInv'
<1>1. /\ CallInv' /\ pc # "idle" /\ UNCHANGED <<req, others, spoiled, world>>
      /\ pc' = "idle" => out'.op = req.op
      /\ Asked' = Asked /\ SharedNames(world) \subseteq spoiled
  BY StepPlace DEF Base, Step, Vgs, Asked, ScanInv
<1> DEFINE found == {v \in Asked : Exists(world, v)}
           seen == [v \in found |-> [size |-> VGSize(world, v), free |-> Room(world, v)]]
<1>2. \/ got' = [got EXCEPT !.vgs = seen] /\ pc' = "lvs" /\ UNCHANGED out
      \/ found = {} /\ req.op = "ScanVGs" /\ Return(TRUE, NoVGs)
      \/ Fail
  BY DEF Vgs, Asked
<1>3. CASE got' = [got EXCEPT !.vgs = seen] /\ pc' = "lvs" /\ UNCHANGED out
  <2>1. \A v \in Asked \ spoiled :
          /\ v \in DOMAIN seen <=> Exists(world, v)
          /\ Exists(world, v) => seen[v] = [size |-> VGSize(world, v), free |-> Room(world, v)]
    OBVIOUS
  <2> HIDE DEF seen, found
  <2>2. got'.vgs = seen
    BY <1>3, ScanFields DEF Base, CallInv
  <2> QED
    BY <1>1, <1>3, <2>1, <2>2 DEF ScanInv, ScanExact, Succeeded
<1>4. CASE found = {} /\ req.op = "ScanVGs" /\ Return(TRUE, NoVGs)
  <2>1. \A v \in VGs : ~Exists(world, v)
    BY <1>4 DEF Asked
  <2>2. out'.value = NoVGs /\ DOMAIN NoVGs = {}
    BY <1>4 DEF Return, NoVGs
  <2>3. ScanExact'
    BY <1>1, <2>1, <2>2 DEF ScanExact
  <2> QED
    BY <1>1, <1>4, <2>3 DEF ScanInv, Return
<1>5. CASE Fail
  BY <1>1, <1>5, FailEnds DEF Ended, ScanInv, ScanExact, Succeeded
<1> QED
  BY <1>2, <1>3, <1>4, <1>5

\* The second: every volume that is there, and of two that share a name both groups are
\* spoiled.
LEMMA ScanLvs ==
  ASSUME Base, ScanInv, Lvs, req.op \in {"ScanVGs", "CreateVG"}
  PROVE  ScanInv'
<1>1. /\ CallInv' /\ pc = "lvs" /\ UNCHANGED <<req, others, spoiled, world>>
      /\ pc' = "idle" => out'.op = req.op
      /\ Asked' = Asked /\ SharedNames(world) \subseteq spoiled
  BY StepPlace DEF Base, Step, Lvs, Asked, ScanInv
<1>2. CASE Fail
  BY <1>1, <1>2, FailEnds DEF Ended, ScanInv, ScanExact, Succeeded
<1>3. CASE ~Fail
  <2> DEFINE seen == {[v |-> x[1], l |-> x[2], size |-> world.lv[x[1]][x[2]].size,
                       type |-> world.lv[x[1]][x[2]].type] :
                        x \in {y \in VGs \X LVs : There(world, y[1], y[2])}}
  <2>1. got' = [got EXCEPT !.lvs = seen] /\ pc' = "luks" /\ UNCHANGED out
    BY <1>3 DEF Lvs
  <2>2. \A x : x \in seen <=>
          \E u \in VGs, k \in LVs : There(world, u, k) /\ x = Reported(u, k)
    <3>1. ASSUME NEW x \in seen
          PROVE  \E u \in VGs, k \in LVs : There(world, u, k) /\ x = Reported(u, k)
      BY DEF Reported
    <3>2. ASSUME NEW u \in VGs, NEW k \in LVs, There(world, u, k)
          PROVE  Reported(u, k) \in seen
      <4>1. <<u, k>> \in {y \in VGs \X LVs : There(world, y[1], y[2])}
        BY <3>2
      <4> QED
        BY <4>1 DEF Reported
    <3> QED
      BY <3>1, <3>2
  <2> HIDE DEF seen
  <2>3. got'.lvs = seen /\ got'.vgs = got.vgs
    BY <2>1, ScanFields DEF Base, CallInv
  <2>4. \A u, k : Reported(u, k).v = u /\ Reported(u, k).l = k
    BY DEF Reported
  <2>5. \A x \in seen : x.v \in VGs /\ x.l \in LVs
    BY <2>2, <2>4
  <2>6. ASSUME NEW x \in seen, NEW y \in seen, x.l = y.l, x.v # y.v
        PROVE  x.v \in spoiled
    BY <1>1, <2>2, <2>4, <2>6 DEF SharedNames
  <2>7. ASSUME NEW v \in VGs
        PROVE  {x \in seen : x.v = v} = {Reported(v, l) : l \in LvsOf(v)}
    BY <2>2, <2>4 DEF LvsOf
  <2>8. Asked \subseteq VGs
    BY <1>1 DEF Asked, Base, CallInv, Asks
  <2>9. \A v \in Asked \ spoiled : {x \in seen : x.v = v} = {Reported(v, l) : l \in LvsOf(v)}
    BY <2>7, <2>8
  <2>10. \A v \in Asked' \ spoiled' :
           {x \in got'.lvs : x.v = v} = {Reported(v, l)' : l \in LvsOf(v)'}
    BY <1>1, <2>3, <2>9 DEF Reported, LvsOf, There
  <2>11. \A v \in Asked' \ spoiled' :
           /\ v \in DOMAIN got'.vgs <=> Exists(world', v)
           /\ Exists(world', v) =>
                got'.vgs[v] = [size |-> VGSize(world', v), free |-> Room(world', v)]
    BY <1>1, <2>3 DEF ScanInv
  <2>12. ScanExact'
    BY <2>1 DEF ScanExact, Succeeded
  <2>13. \A x, y \in got'.lvs : x.l = y.l /\ x.v # y.v => x.v \in spoiled'
    BY <1>1, <2>3, <2>6
  <2> QED
    BY <1>1, <2>1, <2>3, <2>5, <2>10, <2>11, <2>12, <2>13 DEF ScanInv
<1> QED
  BY <1>2, <1>3

\* The third: the LUKS state of each, one volume for each name.
LEMMA ScanLuks ==
  ASSUME Base, ScanInv, Luks, req.op \in {"ScanVGs", "CreateVG"}
  PROVE  ScanInv'
<1>1. /\ CallInv' /\ pc = "luks" /\ UNCHANGED <<req, others, spoiled, world>>
      /\ pc' = "idle" => out'.op = req.op
      /\ Asked' = Asked /\ SharedNames(world) \subseteq spoiled
  BY StepPlace DEF Base, Step, Luks, Asked, ScanInv
<1>2. CASE Fail
  BY <1>1, <1>2, FailEnds DEF Ended, ScanInv, ScanExact, Succeeded
<1>3. CASE ~Fail
  <2>1. PICK f \in Named({Info(x) : x \in got.lvs}) :
          /\ got' = [got EXCEPT !.lvs = {f[l] : l \in DOMAIN f}]
          /\ pc' = "pvs" /\ UNCHANGED out
    BY <1>3 DEF Luks
  <2> DEFINE seen == {f[l] : l \in DOMAIN f}
  <2>2. got'.lvs = seen /\ got'.vgs = got.vgs
    BY <2>1, ScanFields DEF Base, CallInv
  <2>3. \A x : Info(x).v = x.v /\ Info(x).l = x.l
    BY DEF Info
  <2>4. /\ \A x \in got.lvs : x.l \in DOMAIN f
        /\ \A l \in DOMAIN f : f[l].l = l /\ \E x \in got.lvs : f[l] = Info(x)
    <3>1. \A x \in got.lvs : x.l \in {x0.l : x0 \in {Info(x1) : x1 \in got.lvs}}
      BY <2>3
    <3> QED
      BY <3>1 DEF Named
  <2>5. \A v \in Asked \ spoiled : \A x \in got.lvs :
          x.v = v <=> \E l \in LvsOf(v) : x = Reported(v, l)
    <3>1. ASSUME NEW v \in Asked \ spoiled, NEW x \in got.lvs
          PROVE  x.v = v <=> \E l \in LvsOf(v) : x = Reported(v, l)
      <4>1. {y \in got.lvs : y.v = v} = {Reported(v, l) : l \in LvsOf(v)}
        BY <1>1 DEF ScanInv
      <4>2. x \in {y \in got.lvs : y.v = v} <=> x.v = v
        OBVIOUS
      <4> QED
        BY <4>1, <4>2
    <3> QED
      BY <3>1
  <2>6. \A v \in Asked \ spoiled : \A l \in LvsOf(v) :
          Reported(v, l) \in got.lvs /\ Reported(v, l).v = v /\ Reported(v, l).l = l
    BY <1>1 DEF ScanInv, Reported
  <2>7. ASSUME NEW v \in Asked \ spoiled
        PROVE  {x \in seen : x.v = v} = {Info(Reported(v, l)) : l \in LvsOf(v)}
    <3>1. ASSUME NEW x \in seen, x.v = v
          PROVE  x \in {Info(Reported(v, l)) : l \in LvsOf(v)}
      <4>1. PICK y \in got.lvs : x = Info(y)
        BY <2>4
      <4>2. y.v = v
        BY <2>3, <3>1, <4>1
      <4> QED
        BY <2>5, <4>1, <4>2
    <3>2. ASSUME NEW l \in LvsOf(v)
          PROVE  Info(Reported(v, l)) \in seen /\ Info(Reported(v, l)).v = v
      <4>1. l \in DOMAIN f
        BY <2>4, <2>6
      <4>2. PICK z \in got.lvs : f[l] = Info(z)
        BY <2>4, <4>1
      <4>3. z.l = l
        BY <2>3, <2>4, <4>1, <4>2
      <4>4. z.v = v
        BY <1>1, <2>6, <4>3 DEF ScanInv
      <4>5. z = Reported(v, l)
        BY <2>5, <2>6, <4>3, <4>4
      <4> QED
        BY <2>3, <2>6, <4>1, <4>2, <4>5
    <3> HIDE DEF seen
    <3> QED
      BY <3>1, <3>2
  <2> HIDE DEF seen
  <2>8. \A v \in Asked' \ spoiled' :
          {x \in got'.lvs : x.v = v} = {Info(Reported(v, l))' : l \in LvsOf(v)'}
    <3>0. world' = world
      BY <1>1
    <3>1. ASSUME NEW v, NEW l PROVE Info(Reported(v, l))' = Info(Reported(v, l))
      BY <3>0 DEF Info, Reported, LuksInfo, There
    <3>2. \A v : LvsOf(v)' = LvsOf(v)
      BY <1>1 DEF LvsOf, There
    <3>3. ASSUME NEW v \in Asked' \ spoiled'
          PROVE  {x \in got'.lvs : x.v = v} = {Info(Reported(v, l))' : l \in LvsOf(v)'}
      <4>1. {x \in seen : x.v = v} = {Info(Reported(v, l)) : l \in LvsOf(v)}
        BY <1>1, <2>7
      <4>2. {Info(Reported(v, l))' : l \in LvsOf(v)'} = {Info(Reported(v, l)) : l \in LvsOf(v)}
        BY <3>1, <3>2
      <4> QED
        BY <2>2, <4>1, <4>2
    <3> QED
      BY <3>3
  <2>9. \A v \in Asked' \ spoiled' :
          /\ v \in DOMAIN got'.vgs <=> Exists(world', v)
          /\ Exists(world', v) =>
               got'.vgs[v] = [size |-> VGSize(world', v), free |-> Room(world', v)]
    BY <1>1, <2>2 DEF ScanInv
  <2>10. ScanExact'
    BY <2>1 DEF ScanExact, Succeeded
  <2> QED
    BY <1>1, <2>1, <2>8, <2>9, <2>10 DEF ScanInv
<1> QED
  BY <1>2, <1>3

\* The last: the members of each group, and the three reports put together.
LEMMA ScanPvs ==
  ASSUME Base, ScanInv, Pvs, req.op \in {"ScanVGs", "CreateVG"}
  PROVE  ScanInv'
<1>1. /\ CallInv' /\ pc = "pvs" /\ UNCHANGED <<req, others, spoiled, world>>
      /\ pc' = "idle" => out'.op = req.op
      /\ Asked' = Asked
  BY StepPlace DEF Base, Step, Pvs, Asked
<1>2. CASE Fail
  BY <1>1, <1>2, FailEnds DEF Ended, ScanInv, ScanExact, Succeeded
<1>3. CASE Return(TRUE, Assembled)
  <2>1. pc' = "idle" /\ out'.value = Assembled
    BY <1>3 DEF Return
  <2>2. ASSUME NEW v \in Asked \ spoiled
        PROVE  /\ v \in DOMAIN Assembled <=> Exists(world, v)
               /\ Exists(world, v) => Assembled[v] = View(v)
    <3>1. /\ v \in DOMAIN got.vgs <=> Exists(world, v)
          /\ Exists(world, v) =>
               got.vgs[v] = [size |-> VGSize(world, v), free |-> Room(world, v)]
          /\ {x \in got.lvs : x.v = v} = {Info(Reported(v, l)) : l \in LvsOf(v)}
      BY <1>1 DEF ScanInv
    <3>2. View(v) = [size |-> VGSize(world, v), free |-> Room(world, v),
                     pvs |-> Members(world, v),
                     lvs |-> {Info(Reported(v, l)) : l \in LvsOf(v)}]
      BY DEF View, Reported, LvsOf
    <3>3. DOMAIN Assembled = DOMAIN got.vgs
      BY DEF Assembled
    <3>4. v \in DOMAIN got.vgs =>
            Assembled[v] = [size |-> got.vgs[v].size, free |-> got.vgs[v].free,
                            pvs |-> Members(world, v), lvs |-> {x \in got.lvs : x.v = v}]
      BY DEF Assembled
    <3>5. Exists(world, v) => got.vgs[v].size = VGSize(world, v) /\ got.vgs[v].free = Room(world, v)
      BY <3>1
    <3>6. Exists(world, v) => Assembled[v] = View(v)
      BY <3>1, <3>2, <3>4, <3>5
    <3> QED
      BY <3>1, <3>3, <3>6
  <2>3. \A v \in VGs : View(v)' = View(v)
    BY <1>1 DEF View, Info, LuksInfo, There
  <2>4. \A v \in VGs \ spoiled :
          Succeeded("ScanVGs")' \/ (Succeeded("CreateVG")' /\ req.v = v) => v \in Asked
    BY <1>1, <2>1 DEF Succeeded, Asked
  <2>5. ScanExact'
    BY <1>1, <2>1, <2>2, <2>3, <2>4 DEF ScanExact
  <2> QED
    BY <2>1, <2>5 DEF ScanInv
<1> QED
  BY <1>2, <1>3 DEF Pvs

LEMMA ScanStep ==
  ASSUME Base, ScanInv, Step
  PROVE  ScanInv'
<1>1. /\ CallInv' /\ pc # "idle" /\ UNCHANGED <<req, others, spoiled>>
      /\ pc' = "idle" => out'.op = req.op
  BY StepPlace DEF Base
<1>2. CASE req.op \notin {"ScanVGs", "CreateVG"}
  BY <1>1, <1>2 DEF ScanInv, ScanExact, Succeeded
<1>3. CASE req.op \in {"ScanVGs", "CreateVG"}
  <2>1. CASE VgcreateStep
    <3>1. req.v \in VGs /\ req.op = "CreateVG"
      BY <1>3, <2>1 DEF VgcreateStep, Base, CallInv, Places, Asks
    <3>2. world' = world \/ world' \in Vgcreate(world, req.v, req.S)
      BY <2>1, RunEffect DEF VgcreateStep
    <3>3. world'.lv = world.lv
      BY <3>1, <3>2, LabelCommands DEF Base
    <3>4. SharedNames(world') = SharedNames(world)
      BY <3>3 DEF SharedNames, There
    <3>5. pc' = "vgs" \/ Ended(FALSE)
      BY <2>1, RunEffect DEF VgcreateStep, Ended
    <3> QED
      BY <1>1, <1>3, <3>4, <3>5 DEF ScanInv, ScanExact, Succeeded, Ended
  <2>2. pc \in {"vgcreate", "vgs", "lvs", "luks", "pvs"}
    BY <1>1, <1>3 DEF Base, CallInv, Places
  <2> QED
    BY <1>3, <2>1, <2>2, ScanVgs, ScanLvs, ScanLuks, ScanPvs
    DEF Step, PvcreateStep, PvremoveStep, VgextendStep, VgremoveStep, LvcreateStep, Luks2Wipe,
        LvextendStep, GetLuksInfo, Resize, LvrenameStep, LvremoveStep, LuksFormatStep,
        OpenStep, CloseStep
<1> QED
  BY <1>2, <1>3

\* A scan is four commands with other processes between them, and still reports of every
\* group that nobody changed meanwhile, and that shares no name, exactly what is there.
THEOREM ScanExactCorrect == Spec => []ScanExact
<1>1. Init => ScanInv
  BY DEF Init, NoResult, ScanInv, ScanExact, Succeeded
<1>2. Base /\ ScanInv /\ [Next]_vars => ScanInv'
  <2> SUFFICES ASSUME Base, ScanInv, [Next]_vars PROVE ScanInv'
    OBVIOUS
  <2>1. CASE Step
    BY <2>1, ScanStep
  <2>2. CASE Other
    BY <2>2, ScanOther
  <2>3. CASE \E r \in Requests : Call(r)
    <3>1. PICK r \in Requests : Call(r)
      BY <2>3
    <3>2. pc' \notin {"lvs", "luks", "pvs"} \/ req'.op \notin {"ScanVGs", "CreateVG"}
      BY <3>1, CallBegins DEF First
    <3> QED
      BY <3>1, <3>2, CallBegins DEF ScanInv, ScanExact, Succeeded
  <2>4. CASE UNCHANGED vars
    BY <2>4 DEF vars, ScanInv, ScanExact, Succeeded, Asked, Reported, LvsOf, Info, LuksInfo,
                There, View
  <2> QED
    BY <2>1, <2>2, <2>3, <2>4 DEF Next
<1>3. ScanInv => ScanExact
  BY DEF ScanInv
<1> QED
  BY <1>1, <1>2, <1>3, BaseCorrect, PTL DEF Spec
=============================================================================
