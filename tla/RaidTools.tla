------------------------------ MODULE RaidTools ---------------------------
(***************************************************************************)
(* The RAID hardware of a machine and what storcli, arcconf and storcli2   *)
(* print of it, as far as disko reads it.                                  *)
(***************************************************************************)
EXTENDS Integers, FiniteSets

CONSTANTS
  Ctrls,     \* the controllers' numbers, from 0 on
  Slots,     \* the numbers of virtual drives
  Groups,    \* the numbers of drive groups (arrays), from 0 on
  Drives,    \* the physical drives
  Paths,     \* the block devices virtual drives appear as
  NoPath,    \* a virtual drive the operating system is not shown
  Machines   \* the hardware to start from

Free == -1     \* a drive in no group
Gone == -9     \* a drive pulled out or dead

VD == [c : Ctrls, id : Slots, group : Groups, path : Paths \union {NoPath}]
Hardware ==
  [tool : BOOLEAN, mode : [Ctrls -> {"raid", "plain", "none"}], home : [Drives -> Ctrls],
   ssd : SUBSET Drives, group : [Drives -> Groups \union {Free, Gone}], vds : SUBSET VD]

\* a controller that is there, and one that can have virtual drives
Present(h, c) == h.mode[c] # "none"
Raid(h, c) == h.mode[c] = "raid"
Of(h, c) == {v \in h.vds : v.c = c}
Members(h, c, g) == {d \in Drives : h.home[d] = c /\ h.group[d] = g}
Alone(h, v) == {x \in Of(h, v.c) : x.group = v.group} = {v}

\* virtual drives are on RAID controllers, and have numbers and devices of their own
Wired(h) ==
  \A v \in h.vds :
    /\ Raid(h, v.c)
    /\ \A w \in h.vds \ {v} : (w.c = v.c => w.id # v.id) /\ (w.path = v.path => v.path = NoPath)

ASSUME NumbersAssumption ==
  /\ Ctrls \subseteq Nat /\ IsFiniteSet(Ctrls) /\ 0 \in Ctrls
  /\ Groups \subseteq Nat /\ NoPath \notin Paths
ASSUME MachinesAssumption == Machines \subseteq Hardware /\ \A h \in Machines : Wired(h)

\* what may happen to a machine: a virtual drive made over an existing group or over
\* free drives of its controller
Made(h, n) ==
  \E v \in VD, D \in SUBSET Drives :
    /\ Raid(h, v.c)
    /\ \A y \in h.vds : (y.c = v.c => y.id # v.id) /\ (y.path = v.path => v.path = NoPath)
    /\ \A d \in D : h.group[d] = Free /\ h.home[d] = v.c
    /\ (D # {}) = (\A x \in Of(h, v.c) : x.group # v.group)
    /\ D \union Members(h, v.c, v.group) # {}
    /\ n = [h EXCEPT !.vds = h.vds \union {v},
                     !.group = [d \in Drives |-> IF d \in D THEN v.group ELSE h.group[d]]]

\* a virtual drive removed, and its group with the last one over it
Removed(h, n) ==
  \E v \in h.vds :
    n = [h EXCEPT !.vds = h.vds \ {v},
                  !.group = [d \in Drives |->
                     IF Alone(h, v) /\ d \in Members(h, v.c, v.group) THEN Free ELSE h.group[d]]]

\* a drive lost, the tool installed or removed
Lost(h, n) ==
  \E d \in Drives : h.group[d] # Gone /\ n = [h EXCEPT !.group = [h.group EXCEPT ![d] = Gone]]
Installed(h, n) == n = [h EXCEPT !.tool = ~h.tool]

\* a controller gone, and what is on it
Unplugged(h, n) ==
  \E c \in Ctrls :
    /\ Present(h, c)
    /\ n = [h EXCEPT !.mode = [h.mode EXCEPT ![c] = "none"],
                     !.vds = h.vds \ Of(h, c),
                     !.group = [d \in Drives |-> IF h.home[d] = c THEN Gone ELSE h.group[d]]]

Moved(h, n) ==
  Made(h, n) \/ Removed(h, n) \/ Lost(h, n) \/ Installed(h, n) \/ Unplugged(h, n)

\* the drives a controller lists, each with its group and medium
Listed(h, c, nogroup) ==
  {[id |-> d, group |-> IF h.group[d] = Free THEN nogroup ELSE h.group[d],
    ssd |-> d \in h.ssd] : d \in {e \in Drives : h.home[e] = c /\ h.group[e] # Gone}}

\* storcli /cX show: the virtual drives without their paths, and the drives
CxShow(h, c) ==
  [vds |-> {[id |-> v.id, group |-> v.group] : v \in Of(h, c)}, drives |-> Listed(h, c, Free)]
\* storcli /cX/vall show all: a section of properties for every virtual drive
CxVall(h, c) == {[id |-> v.id, path |-> v.path] : v \in Of(h, c)}
\* arcconf getconfig X: a drive in no array has no line "Array"
GetConf(h, c) == [vds |-> Of(h, c), drives |-> Listed(h, c, 0)]
\* storcli2 /cX/vall show all J: every virtual drive with its path and drives
Cx2Vall(h, c) ==
  {[vd |-> v, pds |-> {x \in Listed(h, c, Free) : x.group = v.group}] : v \in Of(h, c)}
=============================================================================
