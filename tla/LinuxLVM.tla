------------------------------ MODULE LinuxLVM ----------------------------
(***************************************************************************)
(* linuxLVM (linux/lvm.go): a VolumeManager that keeps no state and runs   *)
(* commands.  A call is a sequence of commands; between two of them        *)
(* another process may run one of its own, and any of them may fail.       *)
(***************************************************************************)
EXTENDS LVMCommands

CONSTANTS
  ExtentSize,
  Sizes,       \* the sizes callers ask for
  Types,       \* the types of volume callers ask for
  MaxOthers    \* the commands of other processes during one call

ASSUME CallsAssumption ==
  Sizes \subseteq Nat /\ Types \subseteq {"thick", "thin", "pool", "unknown"}

VARIABLES
  world,     \* the machine's volumes
  pc,        \* the next command of the call, "idle": no call
  req,       \* the call
  got,       \* what its scans have read so far
  out,       \* the last call's result
  others,    \* commands of other processes during the call
  spoiled    \* the VGs these changed, or that shared a volume's name with another VG

vars == <<world, pc, req, got, out, others, spoiled>>

Blank == [op |-> None, S |-> {}, v |-> None, l |-> None, m |-> None, z |-> 0, t |-> None]

\* the calls of the interface, with their arguments
Ask(ops, S, v, l, m, z, t) == [op : ops, S : S, v : v, l : l, m : m, z : z, t : t]
No == {None}
Requests ==
       Ask({"CreatePV", "DeletePV", "HasPV"}, {{d} : d \in Devs}, No, No, No, {0}, No)
  \union Ask({"CreateVG", "ExtendVG"}, SUBSET Devs \ {{}}, VGs, No, No, {0}, No)
  \union Ask({"RemoveVG", "HasVG"}, {{}}, VGs, No, No, {0}, No)
  \union Ask({"RemoveLV", "CryptFormat", "HasLV"}, {{}}, VGs, LVs, No, {0}, No)
  \union Ask({"CryptOpen", "CryptClose"}, {{}}, VGs, LVs, Mapped, {0}, No)
  \union Ask({"RenameLV"}, {{}}, VGs, LVs, LVs, {0}, No)
  \union Ask({"CreateLV"}, {{}}, VGs, LVs, No, Sizes, Types)
  \union Ask({"ExtendLV"}, {{}}, VGs, LVs, No, Sizes, No)
  \union Ask({"ScanVGs"}, {{}}, No, No, No, {0}, No)

\* the first command of a call; for a LVTypeUnknown CreateLV runs none but the scan
First(r) ==
  CASE r.op \in {"CreatePV", "ExtendVG"} -> "pvcreate"
    [] r.op = "DeletePV" -> "pvremove"
    [] r.op = "HasPV" -> "pvs"
    [] r.op = "CreateVG" -> "vgcreate"
    [] r.op = "RemoveVG" -> "vgremove"
    [] r.op \in {"HasVG", "ScanVGs"} -> "vgs"
    [] r.op = "HasLV" \/ (r.op = "CreateLV" /\ r.t = "unknown") -> "lvs"
    [] r.op = "CreateLV" /\ r.t # "unknown" -> "lvcreate"
    [] r.op = "ExtendLV" -> "lvextend"
    [] r.op = "RenameLV" -> "lvrename"
    [] r.op = "RemoveLV" -> "lvremove"
    [] r.op = "CryptFormat" -> "luksFormat"
    [] r.op = "CryptOpen" -> "open"
    [] OTHER -> "close"

IsRoundExtent(z) == z % ExtentSize = 0

\* wrong, for comparison: the device mapper's first encrypted device is taken for it
LuksInfoAny(w, v, l) ==
  LET open == {m \in Mapped : OpenAs(w, m) # {}}
  IN  IF There(w, v, l) /\ w.lv[v][l].type # "pool" /\ w.lv[v][l].luks # "none"
        THEN [enc |-> TRUE, open |-> IF open = {} THEN None ELSE CHOOSE m \in open : TRUE]
        ELSE [enc |-> FALSE, open |-> None]

\* getLuksInfo: is there a LUKS header, and what is the device open as
LuksInfo(w, v, l) ==
  IF There(w, v, l) /\ w.lv[v][l].type # "pool" /\ w.lv[v][l].luks # "none"
    THEN [enc |-> TRUE, open |-> w.lv[v][l].open]
    ELSE [enc |-> FALSE, open |-> None]

NoVGs == [v \in {} |-> None]
NoScan == [vgs |-> NoVGs, lvs |-> {}, name |-> None]
NoResult == [op |-> None, ok |-> FALSE, value |-> None]

Init ==
  /\ world = EmptyWorld
  /\ pc = "idle" /\ req = Blank /\ got = NoScan /\ out = NoResult
  /\ others = 0 /\ spoiled = {}

\* the call is over
Return(ok, value) ==
  /\ pc' = "idle" /\ got' = NoScan
  /\ out' = [op |-> req.op, ok |-> ok, value |-> value]
  /\ UNCHANGED <<req, others, spoiled>>

GoTo(place) == pc' = place /\ UNCHANGED <<req, got, out, others, spoiled>>

\* HasPV, HasVG take a failure for a no, HasLV panics, the others return the error
Fail ==
  IF req.op \in {"HasPV", "HasVG"} THEN Return(TRUE, FALSE) ELSE Return(FALSE, None)

\* runCommandSettled: the command may do its work, or refuse or fail and change
\* nothing, and then udevadm settle may fail, or disko may die
Run(outcomes, next) ==
  \/ \E w \in outcomes :
       world' = w /\ \/ IF next = "idle" THEN Return(TRUE, None) ELSE GoTo(next)
                     \/ Fail
  \/ UNCHANGED world /\ Fail
-----------------------------------------------------------------------------
SharedNames(w) ==
  {v \in VGs : \E u \in VGs \ {v}, l \in LVs : There(w, v, l) /\ There(w, u, l)}

Call(r) ==
  /\ pc = "idle"
  /\ req' = r /\ got' = NoScan /\ others' = 0 /\ spoiled' = SharedNames(world)
  /\ IF r.op \in {"CreateLV", "ExtendLV"} /\ ~IsRoundExtent(r.z)
       THEN pc' = "idle" /\ out' = [op |-> r.op, ok |-> FALSE, value |-> None]
       ELSE pc' = First(r) /\ out' = NoResult
  /\ UNCHANGED world

\* another process runs a command
Other ==
  /\ pc # "idle" /\ others < MaxOthers
  /\ AnyCommand(world, world', {z \in Sizes : IsRoundExtent(z)})
  /\ others' = others + 1
  /\ spoiled' = spoiled \union SharedNames(world')
       \union {v \in VGs : \/ Members(world', v) # Members(world, v)
                           \/ world'.lv[v] # world.lv[v]}
  /\ UNCHANGED <<pc, req, got, out>>

\* CreatePV and ExtendVG: pvcreate --force for all devices at once
PvcreateStep ==
  /\ pc = "pvcreate"
  /\ Run(Pvcreate(world, req.S), IF req.op = "ExtendVG" THEN "vgextend" ELSE "pvs")
PvremoveStep ==
  pc = "pvremove" /\ \E d \in req.S : Run(Pvremove(world, d), "idle")
VgcreateStep == pc = "vgcreate" /\ Run(Vgcreate(world, req.v, req.S), "vgs")
VgextendStep == pc = "vgextend" /\ Run(Vgextend(world, req.v, req.S), "idle")
VgremoveStep == pc = "vgremove" /\ Run(Vgremove(world, req.v), "idle")

\* wrong, for comparison: what --wipesignatures does is taken for enough
LvcreateOnly ==
  /\ pc = "lvcreate"
  /\ Run(Lvcreate(world, req.v, req.l, req.z, req.t), "lvs")
\* only a thick volume needs luks2Wipe, ...
LvcreateStep ==
  /\ pc = "lvcreate"
  /\ Run(Lvcreate(world, req.v, req.l, req.z, req.t),
         IF req.t = "thick" THEN "luks2Wipe" ELSE "lvs")
\* ... which zeroes where a second header may be and leaves the first
Luks2Wipe ==
  /\ pc = "luks2Wipe"
  /\ Run(IF There(world, req.v, req.l)
           THEN {Set(world, req.v, req.l, [world.lv[req.v][req.l] EXCEPT
                   !.luks = IF world.lv[req.v][req.l].luks = "luks" THEN "luks" ELSE "none"])}
           ELSE {}, "lvs")

\* wrong, for comparison: the open device keeps its size
LvextendOnly ==
  pc = "lvextend" /\ Run(Lvextend(world, req.v, req.l, req.z), "idle")
LvextendStep ==
  pc = "lvextend" /\ Run(Lvextend(world, req.v, req.l, req.z), "getLuksInfo")
\* the name of the mapping is kept for the command that follows
GetLuksInfo ==
  /\ pc = "getLuksInfo"
  /\ LET name == LuksInfo(world, req.v, req.l).open
     IN  \/ IF name = None
              THEN Return(TRUE, None)
              ELSE /\ pc' = "resize" /\ got' = [got EXCEPT !.name = name]
                   /\ UNCHANGED <<req, out, others, spoiled>>
         \/ Fail
  /\ UNCHANGED world
Resize == pc = "resize" /\ Run(LuksResize(world, got.name), "idle")

LvrenameStep == pc = "lvrename" /\ Run(Lvrename(world, req.v, req.l, req.m), "idle")
LvremoveStep == pc = "lvremove" /\ Run(Lvremove(world, req.v, req.l), "idle")
LuksFormatStep == pc = "luksFormat" /\ Run(LuksFormat(world, req.v, req.l), "idle")
OpenStep == pc = "open" /\ Run(LuksOpen(world, req.v, req.l, req.m), "idle")
\* CryptClose closes the mapping of that name, whichever volume it is of
CloseStep == pc = "close" /\ Run(LuksClose(world, req.m), "idle")
-----------------------------------------------------------------------------
\* Scans

\* scanVGs begins: names, sizes and free space of all groups, or of one by name
Vgs ==
  /\ pc = "vgs" /\ UNCHANGED world
  /\ LET asked == IF req.op = "ScanVGs" THEN VGs ELSE {req.v}
         found == {v \in asked : Exists(world, v)}
     IN  \/ /\ found # {}
            /\ got' = [got EXCEPT !.vgs =
                         [v \in found |-> [size |-> VGSize(world, v), free |-> Room(world, v)]]]
            /\ pc' = "lvs" /\ UNCHANGED <<req, out, others, spoiled>>
         \/ found = {} /\ req.op = "ScanVGs" /\ Return(TRUE, NoVGs)
         \/ Fail

\* scanLVs begins: one volume for CreateLV and HasLV, all there are for scanVGs.
\* Asked for one that is not there, lvs may fail or report nothing.
Lvs ==
  /\ pc = "lvs" /\ UNCHANGED world
  /\ LET one == req.op \in {"CreateLV", "HasLV"}
         asked == IF one THEN {<<req.v, req.l>>} ELSE VGs \X LVs
     IN  \/ /\ got' = [got EXCEPT !.lvs =
                  {[v |-> x[1], l |-> x[2], size |-> world.lv[x[1]][x[2]].size,
                    type |-> world.lv[x[1]][x[2]].type] :
                     x \in {y \in asked : There(world, y[1], y[2])}}]
            /\ pc' = "luks" /\ UNCHANGED <<req, out, others, spoiled>>
         \/ Fail

Info(x) ==
  LET k == LuksInfo(world, x.v, x.l)
  IN  [v |-> x.v, l |-> x.l, size |-> x.size, type |-> x.type, enc |-> k.enc, open |-> k.open]

\* scanLVs ends: getLuksInfo of each, and a map keyed by lv.Name: of volumes that have
\* one name one is kept
Named(lvs) ==
  {f \in [{x.l : x \in lvs} -> lvs] : \A l \in DOMAIN f : f[l].l = l}
Luks ==
  /\ pc = "luks" /\ UNCHANGED world
  /\ \/ \E f \in Named({Info(x) : x \in got.lvs}) :
          CASE req.op = "HasLV" -> Return(TRUE, DOMAIN f # {})
            [] req.op = "CreateLV" ->
                 IF DOMAIN f = {req.l} THEN Return(TRUE, f[req.l]) ELSE Return(FALSE, None)
            [] OTHER -> /\ got' = [got EXCEPT !.lvs = {f[l] : l \in DOMAIN f}]
                        /\ pc' = "pvs" /\ UNCHANGED <<req, out, others, spoiled>>
     \/ Fail

\* scanPVs: of one device for CreatePV and HasPV; for scanVGs of all, and then the
\* three reports are put together by the names of the groups
Assembled ==
  [v \in DOMAIN got.vgs |->
     [size |-> got.vgs[v].size, free |-> got.vgs[v].free, pvs |-> Members(world, v),
      lvs |-> {x \in got.lvs : x.v = v}]]
Pvs ==
  /\ pc = "pvs" /\ UNCHANGED world
  /\ \/ CASE req.op \in {"CreatePV", "HasPV"} ->
               LET has == \A d \in req.S : world.label[d] # None
               IN  Return(req.op = "HasPV" \/ has, has)
          [] req.op = "HasVG" -> Return(TRUE, TRUE)
          [] OTHER -> Return(TRUE, Assembled)
     \/ Fail

Step ==
  \/ PvcreateStep \/ PvremoveStep \/ VgcreateStep \/ VgextendStep \/ VgremoveStep
  \/ LvcreateStep \/ Luks2Wipe \/ LvextendStep \/ GetLuksInfo \/ Resize
  \/ LvrenameStep \/ LvremoveStep \/ LuksFormatStep \/ OpenStep \/ CloseStep
  \/ Vgs \/ Lvs \/ Luks \/ Pvs

Next == Step \/ Other \/ \E r \in Requests : Call(r)

Spec == Init /\ [][Next]_vars
-----------------------------------------------------------------------------
\* Properties

Succeeded(op) == pc = "idle" /\ out.op = op /\ out.ok

\* What a scan at one moment would report of a group
View(v) ==
  [size |-> VGSize(world, v), free |-> Room(world, v), pvs |-> Members(world, v),
   lvs |-> {Info([v |-> v, l |-> l, size |-> world.lv[v][l].size,
                  type |-> world.lv[v][l].type]) : l \in {k \in LVs : There(world, v, k)}}]

\* ScanVGs and CreateVG put three reports and the LUKS state together, made one after the
\* other: of every group that nobody else changed meanwhile, and whose volumes have names
\* of their own, they report exactly what is there, whatever came and went around it.
ScanExact ==
  \A v \in VGs \ spoiled :
    Succeeded("ScanVGs") \/ (Succeeded("CreateVG") /\ req.v = v) =>
      /\ v \in DOMAIN out.value <=> Exists(world, v)
      /\ Exists(world, v) => out.value[v] = View(v)

\* A volume that CreateLV returns has no LUKS header, although its space may hold one
\* from an earlier volume, and has the size and the type asked for.
FreshIsPlain ==
  Succeeded("CreateLV") /\ others = 0
    => /\ There(world, req.v, req.l) /\ world.lv[req.v][req.l].luks = "none"
       /\ ~out.value.enc /\ out.value.size = req.z /\ out.value.type = req.t

\* After an ExtendLV an opened volume is as large as the volume it is on.
ResizedWithLV ==
  Succeeded("ExtendLV") /\ others = 0
    => /\ world.lv[req.v][req.l].size = req.z
       /\ IsOpen(world, req.v, req.l) => world.lv[req.v][req.l].seen = req.z

=============================================================================
