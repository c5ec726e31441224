------------------------- MODULE DiskOpsRefinement -------------------------
(***************************************************************************)
(* DiskOps without Wipe implements PartitionTable: the moment a call takes *)
(* effect is the second half of its write of the primary GPT copy.         *)
(***************************************************************************)
EXTENDS DiskOps

\* the part of a call that follows the publication of its table
Published(c) == pc[c] \in {"bak", "check", "kernel", "sync", "uevent"} /\ ~fresh[c]

Phase == [c \in Clients |-> IF pc[c] = "idle" THEN "idle"
                            ELSE IF Published(c) THEN "applied" ELSE "called"]
Calls == [c \in Clients |-> [kind |-> op[c], set |-> req[c]]]

PT == INSTANCE PartitionTable WITH
  table <- committed, phase <- Phase, call <- Calls, result <- res

\* Calls of any number of processes, interleaved step by step and failing at
\* any step, look to each of them and to every reader as if each had worked on
\* the partition table in one piece.
AtomicCalls == PT!Spec
=============================================================================
