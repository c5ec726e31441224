---------------------------- MODULE MockSystem ----------------------------
(***************************************************************************)
(* The mock System (mockos/system.go): the partitions of disks kept in     *)
(* maps.  Every Disk a caller gets shares the map of its partitions with   *)
(* the mock, so what a caller holds is never older than the map itself.    *)
(***************************************************************************)
EXTENDS Integers, Sequences, FiniteSets, Functions

CONSTANTS
  Disks,      \* the names of the disks in the layout file
  Numbers,    \* partition numbers
  Names,      \* names a partition may have
  NoName,     \* an empty name
  None        \* no such partition, volume or mapping

ASSUME NamesAssumption == NoName \notin Names /\ None \notin Names \union {NoName}

VARIABLES
  parts,   \* parts[d][n]: the name of partition n of disk d, or None
  ok       \* the last call returned without an error

\* the PartitionSets that callers pass
Sets == UNION {[N -> Names \union {NoName}] : N \in SUBSET Numbers \ {{}}}

\* hasPartition: some disk has a partition of that name
HasPartition(name) == \E d \in Disks, n \in Numbers : parts[d][n] = name

InitSystem == parts = [d \in Disks |-> [n \in Numbers |-> None]]

\* the numbers of a set that a loop over a Go map has dealt with when it ends: all
\* of them, or, when some are refused, any of the others
Done(set, refused) ==
  IF refused = {} THEN {DOMAIN set} ELSE SUBSET (DOMAIN set \ refused)

\* CreatePartition, for each of the set; the first that exists ends the call
CreatePartitions(d, set) ==
  LET refused == {n \in DOMAIN set : parts[d][n] # None}
  IN  /\ ok' = (refused = {})
      /\ \E done \in Done(set, refused) :
           parts' = [parts EXCEPT ![d] =
             [n \in Numbers |-> IF n \in done THEN set[n] ELSE @[n]]]

\* UpdatePartition, for each of the set: an empty name keeps the old one
UpdatePartitions(d, set) ==
  LET refused == {n \in DOMAIN set : parts[d][n] = None}
  IN  /\ ok' = (refused = {})
      /\ \E done \in Done(set, refused) :
           parts' = [parts EXCEPT ![d] =
             [n \in Numbers |-> IF n \in done /\ set[n] # NoName THEN set[n] ELSE @[n]]]

DeletePartition(d, n) ==
  /\ ok' = (parts[d][n] # None)
  /\ parts' = [parts EXCEPT ![d][n] = None]

\* Wipe does nothing
Wipe == ok' = TRUE /\ UNCHANGED parts

NextSystem ==
  \E d \in Disks :
    \/ \E set \in Sets : CreatePartitions(d, set) \/ UpdatePartitions(d, set)
    \/ \E n \in Numbers : DeletePartition(d, n)
    \/ Wipe
=============================================================================
