--------------------------- MODULE RaidControllers -----------------------
(***************************************************************************)
(* The packages megaraid, smartpqi and mpi3mr: the Controller each makes   *)
(* of its tool's output, as a set of virtual drives with their devices,    *)
(* and the disk type it reads off it.                                      *)
(***************************************************************************)
EXTENDS RaidTools

\* IsSSD: a virtual drive without drives is not a solid state disk
IsSSD(devices) == devices # {} /\ \A x \in devices : x.ssd

\* wrong, for comparison: properties go to the first virtual drive without any
VirtDrivesInTurn(shown, props) ==
  IF shown.vds = {} THEN {}
  ELSE LET first == CHOOSE v \in shown.vds : TRUE
       IN  {[id |-> v.id, group |-> v.group,
             path |-> IF v = first /\ props # {} THEN (CHOOSE x \in props : TRUE).path ELSE NoPath,
             devices |-> {d \in shown.drives : d.group = v.group}] : v \in shown.vds}

\* wrong, for comparison: drive group 0 is taken for none
VirtDrivesNoZero(shown, props) ==
  {[id |-> v.id, group |-> v.group,
    path |-> IF \E x \in props : x.id = v.id
               THEN (CHOOSE x \in props : x.id = v.id).path ELSE NoPath,
    devices |-> {d \in shown.drives : d.group > 0 /\ d.group = v.group}] : v \in shown.vds}

\* megaraid newController: VirtDrives, each with its path and its DriveGroup's drives
VirtDrives(shown, props) ==
  {[id |-> v.id, group |-> v.group,
    path |-> IF \E x \in props : x.id = v.id
               THEN (CHOOSE x \in props : x.id = v.id).path ELSE NoPath,
    devices |-> {d \in shown.drives : d.group = v.group}] : v \in shown.vds}

\* properties of a virtual drive the first output did not have are set on nil
NilVirtDrive(shown, props) ==
  {x.id : x \in props} \ {v.id : v \in shown.vds} # {}

\* smartpqi newController: a logical drive's devices are those of equal ArrayID
LogicalDrives(conf) ==
  {[id |-> v.id, group |-> v.group, path |-> v.path,
    devices |-> {d \in conf.drives : d.group = v.group}] : v \in conf.vds}

\* mpi3mr newController: a virtual drive with the drives listed under it
VirtualDrives(vall) ==
  {[id |-> x.vd.id, group |-> x.vd.group, path |-> x.vd.path, devices |-> x.pds] : x \in vall}

\* cachingStorCli.GetDiskType on an answered query: a virtual drive whose group has
\* no drives has no DriveGroup to ask
MegaType(vds, p) ==
  IF \E v \in vds : v.path = p
    THEN LET v == CHOOSE w \in vds : w.path = p
         IN  IF v.devices = {} THEN "panic" ELSE IF IsSSD(v.devices) THEN "SSD" ELSE "HDD"
    ELSE "undetermined"

\* wrong, for comparison: any virtual drive will do
FirstTypesAny(vds, p) == {IF IsSSD(v.devices) THEN "SSD" ELSE "HDD" : v \in vds}
\* smartpqi, mpi3mr GetDiskType: the first virtual drive in the map's order decides
FirstTypes(vds, p) ==
  {IF v.path = p /\ IsSSD(v.devices) THEN "SSD" ELSE "HDD" : v \in vds}
=============================================================================
