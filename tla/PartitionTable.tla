--------------------------- MODULE PartitionTable ---------------------------
(***************************************************************************)
(* What the partition calls of disko's System interface (system.go)        *)
(* promise processes that share a disk with a GPT:                         *)
(* each call takes effect at one moment between its start and its end, on  *)
(* the table as it is at that moment, and on the partitions it names only; *)
(* a call that returns success has taken effect; one that returns an error *)
(* may have, or not.                                                       *)
(***************************************************************************)
CONSTANTS Clients, Slots, None

VARIABLES
  table,  \* slot -> partition or None
  phase,  \* client -> "idle", "called" or "applied"
  call,   \* client -> the call under way: its kind, and the PartitionSet
  result  \* client -> how its last call ended

vars == <<table, phase, call, result>>

Init ==
  /\ phase = [c \in Clients |-> "idle"]
  /\ result = [c \in Clients |-> "none"]

\* only c's call changes, to anything
Choose(c) == call' = [call EXCEPT ![c] = call'[c]]

Start(c) ==
  /\ phase[c] = "idle"
  /\ phase' = [phase EXCEPT ![c] = "called"]
  /\ result' = [result EXCEPT ![c] = "none"]
  /\ Choose(c)
  /\ UNCHANGED table

\* what slot s holds after call k on table t
After(k, t, s) ==
  IF s \notin DOMAIN k.set THEN t[s]
  ELSE CASE k.kind = "create" -> k.set[s]
         [] k.kind = "update" -> [t[s] EXCEPT !.type = k.set[s].type]
         [] OTHER             -> None

\* an update needs its partitions to exist; the other calls take any slot
Apply(c) ==
  /\ phase[c] = "called"
  /\ call[c].kind = "update" => \A s \in DOMAIN call[c].set : table[s] # None
  /\ table' = [s \in Slots |-> After(call[c], table, s)]
  /\ phase' = [phase EXCEPT ![c] = "applied"]
  /\ UNCHANGED <<call, result>>

Return(c, r) ==
  /\ phase[c] # "idle"
  /\ r = "ok" => phase[c] = "applied"
  /\ phase' = [phase EXCEPT ![c] = "idle"]
  /\ result' = [result EXCEPT ![c] = r]
  /\ Choose(c)
  /\ UNCHANGED table

\* between calls the caller looks around, or is refused a call
Look(c, r) ==
  /\ phase[c] = "idle"
  /\ result' = [result EXCEPT ![c] = r]
  /\ UNCHANGED <<table, phase, call>>

Next == \E c \in Clients :
  \/ Start(c) \/ Apply(c) \/ Return(c, "ok") \/ Return(c, "err")
  \/ Look(c, "none") \/ Look(c, "err")

Spec == Init /\ [][Next]_vars
=============================================================================
