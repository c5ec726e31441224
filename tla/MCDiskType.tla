---------------------------- MODULE MCDiskType ----------------------------
(* Two controllers with three drives, two disks made of them, few changes.   *)
EXTENDS DiskType, TLC

CONSTANTS
  MaxMoves,   \* the most changes of the hardware
  MaxCached,  \* the same, for megaraid
  MaxTime     \* the latest time

Machine(home, ssd, group, vds, plain) ==
  [tool |-> TRUE, home |-> home, ssd |-> ssd, group |-> group, vds |-> vds,
   mode |-> [c \in Ctrls |-> IF \A d \in Drives : home[d] # c THEN "none"
                             ELSE IF c \in plain THEN "plain" ELSE "raid"]]
Disk(c, id, g, p) == [c |-> c, id |-> id, group |-> g, path |-> p]
MCMachines ==
  { \* a solid and a rotating disk on controller 0
    Machine(<<0, 0, 1>>, {1}, <<0, 1, Free>>, {Disk(0, 0, 0, "sdb"), Disk(0, 1, 1, "sdc")}, {}),
    \* the disk is on controller 1; controller 0 has no RAID support, and a dead drive
    Machine(<<0, 0, 1>>, {3}, <<Free, Gone, 0>>, {Disk(1, 0, 0, "sdb")}, {0}),
    \* two virtual drives over one group, a rotating drive in no group
    Machine(<<0, 0, 0>>, {1, 2}, <<0, 0, Free>>, {Disk(0, 0, 0, "sdb"), Disk(0, 1, 0, NoPath)}, {}),
    \* nothing yet, and no tool
    [Machine(<<0, 0, 1>>, {1, 3}, <<Free, Free, Free>>, {}, {}) EXCEPT !.tool = FALSE] }

\* two arrays on one controller, every drive in one of them
MCTwoArrays ==
  { Machine(<<0, 0, 0>>, {1}, <<0, 1, 1>>, {Disk(0, 0, 0, "sdb"), Disk(0, 1, 1, "sdc")}, {}) }

\* only megaraid keeps time, and the disks behind no controller need no hardware
MCBound ==
  /\ Len(past) <= (IF kind = "megaraid" THEN MaxCached ELSE MaxMoves)
  /\ now <= (IF kind = "megaraid" THEN MaxTime ELSE 0)
  \* the entries of two controllers have nothing to do with each other
  /\ kind = "megaraid" => hw.home[3] = 1 /\
       Cardinality({c \in Ctrls : cache[c] # None \/ \E k \in Callers : Busy(k) /\ st[k].c = c}) <= 1
  /\ (virt # "unset" \/ \E k \in Callers : st[k].path \in Plain) =>
       ~hw.tool /\ past = <<>> /\ now = 0 /\ \A c \in Ctrls : cache[c] = None
\* an answer is looked at when it is given, before anything else happens; where no
\* cache is shared, calls come one after the other
MCPrompt ==
  /\ (\E k \in Callers : st[k].pc = "done") =>
       \E k \in Callers : st[k].pc = "done" /\ st'[k] = Idle
  /\ kind # "megaraid" =>
       Cardinality({k \in Callers : st'[k].pc # "idle" /\ st'[k].path \notin Plain}) <= 1
MCSymmetry == Permutations(Callers)
=============================================================================
