------------------------------- MODULE DiskType --------------------------
(***************************************************************************)
(* How a scan learns a disk's type (linux/system.go, linux/disk.go,        *)
(* linux/virt.go and the RAID packages): callers run the tools of the      *)
(* RAID controllers one command at a time, over hardware that changes,     *)
(* through megaraid's cache; other disks are typed by the kernel, after    *)
(* asking once whether the machine is a KVM guest.                         *)
(***************************************************************************)
EXTENDS RaidControllers, Sequences

CONSTANTS
  Callers,
  Kinds,      \* the RAID packages to choose from, among "megaraid", "smartpqi", "mpi3mr"
  Plain,      \* the disks behind no controller, each a word for what the kernel says of it
  TTL,        \* how long the cache keeps an answer
  QueryTime,  \* the longest a query takes
  None

ASSUME TimesAssumption == TTL \in Nat /\ QueryTime \in Nat
ASSUME PlainAssumption == Plain \cap Paths = {}

VARIABLES
  kind,      \* the RAID package in charge
  hw,        \* the RAID hardware
  past,      \* the hardware before each change, with the time of the change
  now,
  cache,     \* cachingStorCli.cache
  guest,     \* what systemd-detect-virt knows the machine to be
  virt,      \* systemVirtType
  misread,   \* systemd-detect-virt has failed once
  st         \* each caller's place in its call, and its result

vars == <<kind, hw, past, now, cache, guest, virt, misread, st>>

NoCtrl == [vds |-> {}, drives |-> {}]
NoShow == [vds |-> {}, drives |-> {}]
Idle ==
  [pc |-> "idle", op |-> None, path |-> None, c |-> 0, todo |-> <<>>, bad |-> FALSE,
   shown |-> NoShow, virt |-> "unset", ans |-> None, ctrl |-> NoCtrl,
   since |-> 0, at |-> 0, calm |-> TRUE]

Init ==
  /\ kind \in Kinds /\ hw \in Machines /\ past = <<>> /\ now = 0
  /\ cache = [c \in Ctrls |-> None]
  /\ guest \in {"kvm", "none"} /\ virt = "unset" /\ misread = FALSE
  /\ st = [k \in Callers |-> Idle]

Busy(k) == st[k].pc \notin {"idle", "done"}
Goto(k, s) == st' = [st EXCEPT ![k] = s]
\* the result of a call; what it no longer needs is forgotten
Answer(k, s, ans, ctrl) ==
  Goto(k, [s EXCEPT !.pc = "done", !.ans = ans, !.ctrl = ctrl, !.at = now,
                    !.shown = NoShow, !.todo = <<>>])
Reply(k, ans) == Answer(k, st[k], ans, NoCtrl)
-----------------------------------------------------------------------------
\* the time, and the world outside: a query does not outlast QueryTime
Tick ==
  /\ \A k \in Callers : Busy(k) => now - st[k].since < QueryTime
  /\ now' = now + 1
  /\ UNCHANGED <<kind, hw, past, cache, guest, virt, misread, st>>

Change ==
  /\ Moved(hw, hw')
  /\ past' = Append(past, [hw |-> hw, till |-> now])
  /\ st' = [k \in Callers |-> IF Busy(k) THEN [st[k] EXCEPT !.calm = FALSE] ELSE st[k]]
  /\ UNCHANGED <<kind, now, cache, guest, virt, misread>>
-----------------------------------------------------------------------------
\* wrong, for comparison: an answer never expires
CachedForever(c) == IF cache[c] # None THEN {cache[c].result} ELSE {}

\* cachingStorCli.Query: what the cache holds on controller c and has not expired
Cached(c) ==
  IF cache[c] # None /\ now <= cache[c].expires THEN {cache[c].result} ELSE {}

\* GetDiskType or Query on megaraid with the query's result r at hand
Deliver(k, s, r) ==
  LET t == [s EXCEPT !.since = r.since, !.calm = r.calm]
      missing == r.err = "unknown" /\ s.op = "type"
  IN  CASE missing -> Answer(k, t, "undetermined", NoCtrl)
        [] r.err # "ok" /\ ~missing -> Answer(k, t, "failed", NoCtrl)
        [] r.err = "ok" /\ s.op = "query" -> Answer(k, t, "ok", r.ctrl)
        [] OTHER -> Answer(k, t, MegaType(r.ctrl.vds, s.path), NoCtrl)

\* the first command of a call on a RAID package
Enter(k, s) ==
  IF kind = "megaraid"
    THEN IF Cached(s.c) # {} THEN \E r \in Cached(s.c) : Deliver(k, s, r)
                             ELSE Goto(k, [s EXCEPT !.pc = "show"])
    ELSE Goto(k, [s EXCEPT !.pc = IF kind = "mpi3mr" /\ s.op = "query" THEN "show" ELSE "list"])

\* ScanDisk, GetDiskType: a disk whose sysfs path is under the driver's is the controller's
ScanRaid(k, p) ==
  /\ st[k].pc = "idle" /\ \E v \in hw.vds : v.path = p
  /\ Enter(k, [Idle EXCEPT !.op = "type", !.path = p, !.since = now])
  /\ UNCHANGED <<kind, hw, past, now, cache, guest, virt, misread>>

Query(k, c) ==
  /\ st[k].pc = "idle"
  /\ Enter(k, [Idle EXCEPT !.op = "query", !.c = c, !.since = now])
  /\ UNCHANGED <<kind, hw, past, now, cache, guest, virt, misread>>

\* storcli's Query is over: cache.Set, whatever else was set meanwhile
Remember(k, err, ctrl) ==
  LET r == [err |-> err, ctrl |-> ctrl, since |-> st[k].since, calm |-> st[k].calm]
  IN  /\ cache' = [cache EXCEPT ![st[k].c] = [result |-> r, expires |-> now + TTL]]
      /\ Deliver(k, st[k], r)

\* "unknown": no tool, no such controller or one without RAID support, which GetDiskType
\* does not take for a failure
MegaShow(k) ==
  /\ kind = "megaraid" /\ st[k].pc = "show"
  /\ \/ ~hw.tool /\ Remember(k, "unknown", NoCtrl)
     \/ hw.tool /\ Remember(k, "failed", NoCtrl)
     \/ hw.tool /\ ~Raid(hw, st[k].c) /\ Remember(k, "unknown", NoCtrl)
     \/ /\ hw.tool /\ Present(hw, st[k].c)
        /\ Goto(k, [st[k] EXCEPT !.pc = "vall", !.shown = CxShow(hw, st[k].c)])
        /\ UNCHANGED cache
  /\ UNCHANGED <<kind, hw, past, now, guest, virt, misread>>

\* the controller may be gone by now; "Un-supported command" stands for no properties
MegaVall(k) ==
  /\ kind = "megaraid" /\ st[k].pc = "vall"
  /\ LET shown == st[k].shown
         props == IF Raid(hw, st[k].c) THEN CxVall(hw, st[k].c) ELSE {}
     IN  \/ Remember(k, "failed", NoCtrl)
         \/ hw.tool /\ ~Present(hw, st[k].c) /\ Remember(k, "unknown", NoCtrl)
         \/ /\ hw.tool /\ Present(hw, st[k].c)
            /\ IF NilVirtDrive(shown, props)
                 THEN Reply(k, "panic") /\ UNCHANGED cache
                 ELSE Remember(k, "ok", [vds |-> VirtDrives(shown, props),
                                         drives |-> {d.id : d \in shown.drives}])
  /\ UNCHANGED <<kind, hw, past, now, guest, virt, misread>>
-----------------------------------------------------------------------------
\* the numbers of a set, in order
InOrder(ids) ==
  {s \in [1 .. Cardinality(ids) -> ids] : \A i, j \in DOMAIN s : i < j => s[i] < s[j]}

\* List of smartpqi and mpi3mr; mpi3mr asks a nil error for its code when there is no tool
List(k) ==
  /\ kind # "megaraid" /\ st[k].pc = "list"
  /\ \/ ~hw.tool /\ Reply(k, IF kind = "mpi3mr" THEN "panic" ELSE "failed")
     \/ hw.tool /\ Reply(k, "failed")
     \/ hw.tool /\ LET ids == {c \in Ctrls : Present(hw, c)}
                   IN  IF st[k].op = "query"
                         THEN IF st[k].c \in ids THEN Goto(k, [st[k] EXCEPT !.pc = "show"])
                                                 ELSE Reply(k, "failed")
                         ELSE \E order \in InOrder(ids) :
                                Goto(k, [st[k] EXCEPT !.pc = "next", !.todo = order])
  /\ UNCHANGED <<kind, hw, past, now, cache, guest, virt, misread>>

\* the loop over the controllers: the errors met are wrapped, so any of them is returned
Advance(k) ==
  /\ st[k].pc = "next"
  /\ IF st[k].todo = <<>>
       THEN Reply(k, IF st[k].bad THEN "failed" ELSE "undetermined")
       ELSE Goto(k, [st[k] EXCEPT !.pc = "show", !.c = Head(st[k].todo),
                                  !.todo = Tail(st[k].todo)])
  /\ UNCHANGED <<kind, hw, past, now, cache, guest, virt, misread>>

\* a controller could not be read
Unread(k) ==
  IF st[k].op = "query" THEN Reply(k, "failed")
  ELSE Goto(k, [st[k] EXCEPT !.pc = "next", !.bad = TRUE])

\* a controller was read: the first of its virtual drives settles the type
Read(k, vds, drives) ==
  IF st[k].op = "query"
    THEN Answer(k, st[k], "ok", [vds |-> vds, drives |-> drives])
    ELSE IF vds = {} THEN Goto(k, [st[k] EXCEPT !.pc = "next"])
                     ELSE \E t \in FirstTypes(vds, st[k].path) : Reply(k, t)

\* smartpqi GetConfig: a controller without drives has nothing to parse
PqiConfig(k) ==
  /\ kind = "smartpqi" /\ st[k].pc = "show"
  /\ LET conf == GetConf(hw, st[k].c)
     IN  \/ Unread(k)
         \/ /\ hw.tool /\ conf.drives # {}
            /\ Read(k, LogicalDrives(conf), {d.id : d \in conf.drives})
  /\ UNCHANGED <<kind, hw, past, now, cache, guest, virt, misread>>

\* mpi3mr Query: the drives come from the first command, all under the key "0"
MpiShow(k) ==
  /\ kind = "mpi3mr" /\ st[k].pc = "show"
  /\ \/ ~hw.tool /\ Reply(k, "panic")
     \/ hw.tool /\ Unread(k)
     \/ /\ hw.tool /\ Present(hw, st[k].c)
        /\ \E D \in {{}} \union {{d} : d \in CxShow(hw, st[k].c).drives} :
             /\ (D = {}) = (CxShow(hw, st[k].c).drives = {})
             /\ Goto(k, [st[k] EXCEPT !.pc = "vall", !.shown = [vds |-> {}, drives |-> D]])
  /\ UNCHANGED <<kind, hw, past, now, cache, guest, virt, misread>>

\* the output holds one controller, whatever its number
MpiVall(k) ==
  /\ kind = "mpi3mr" /\ st[k].pc = "vall"
  /\ \/ ~hw.tool /\ Reply(k, "panic")
     \/ hw.tool /\ Unread(k)
     \/ /\ hw.tool /\ Present(hw, st[k].c)
        /\ IF st[k].c > 0 THEN Reply(k, "panic")
           ELSE Read(k, VirtualDrives(Cx2Vall(hw, 0)), {d.id : d \in st[k].shown.drives})
  /\ UNCHANGED <<kind, hw, past, now, cache, guest, virt, misread>>
-----------------------------------------------------------------------------
\* getDiskType: what the kernel says of a disk, given getVirtType's answer
KernelType(p, v) ==
  CASE p = "nvme" -> "NVME"
    [] p = "serialSSD" /\ v = "kvm" -> "SSD"
    [] p = "flash" -> "SSD"
    [] p = "unreadable" -> "failed"
    [] OTHER -> "HDD"      \* rotating, and a disk without a block device

ScanPlain(k, p) ==
  /\ st[k].pc = "idle"
  /\ LET s == [Idle EXCEPT !.op = "type", !.path = p, !.since = now]
     IN  IF p = "nvme" THEN Answer(k, s, "NVME", NoCtrl) ELSE Goto(k, [s EXCEPT !.pc = "virt"])
  /\ UNCHANGED <<kind, hw, past, now, cache, guest, virt, misread>>

\* wrong, for comparison: the variable is claimed before the answer is known
ClaimVirt(k) ==
  /\ st[k].pc = "virt"
  /\ virt' = IF virt = "unset" THEN "unknown" ELSE virt
  /\ Goto(k, [st[k] EXCEPT !.pc = IF virt # "unset" THEN "return" ELSE "detect"])
  /\ UNCHANGED <<kind, hw, past, now, cache, guest, misread>>
\* getVirtTypeIface, without a lock: the test, the command, the assignment, the return
CheckVirt(k) ==
  /\ st[k].pc = "virt"
  /\ Goto(k, [st[k] EXCEPT !.pc = IF virt # "unset" THEN "return" ELSE "detect"])
  /\ UNCHANGED <<kind, hw, past, now, cache, guest, virt, misread>>

\* the command's answer, an answer disko has no name for, or a failure
DetectVirt(k) ==
  /\ st[k].pc = "detect"
  /\ \E v \in {guest, "unknown", "error"} :
       /\ misread' = (misread \/ v # guest)
       /\ Goto(k, [st[k] EXCEPT !.pc = "assign", !.virt = v])
  /\ UNCHANGED <<kind, hw, past, now, cache, guest, virt>>

\* an unknown answer does not replace one another caller has found meanwhile
AssignVirt(k) ==
  /\ st[k].pc = "assign"
  /\ virt' = IF st[k].virt = "unknown" /\ virt # "unset" THEN virt ELSE st[k].virt
  /\ Goto(k, [st[k] EXCEPT !.pc = "return"])
  /\ UNCHANGED <<kind, hw, past, now, cache, guest, misread>>

ReturnVirt(k) ==
  /\ st[k].pc = "return"
  /\ Reply(k, KernelType(st[k].path, virt))
  /\ UNCHANGED <<kind, hw, past, now, cache, guest, virt, misread>>
-----------------------------------------------------------------------------
\* the caller is done with the answer
Leave(k) ==
  /\ st[k].pc = "done"
  /\ Goto(k, Idle)
  /\ UNCHANGED <<kind, hw, past, now, cache, guest, virt, misread>>

Step(k) ==
  \/ MegaShow(k) \/ MegaVall(k) \/ List(k) \/ Advance(k) \/ PqiConfig(k)
  \/ MpiShow(k) \/ MpiVall(k) \/ CheckVirt(k) \/ DetectVirt(k) \/ AssignVirt(k) \/ ReturnVirt(k)

NextStep ==
  \/ Tick \/ Change
  \/ \E k \in Callers :
       \/ \E p \in Paths : ScanRaid(k, p)
       \/ \E c \in Ctrls : Query(k, c)
       \/ \E p \in Plain : ScanPlain(k, p)
       \/ Step(k) \/ Leave(k)

Spec == Init /\ [][NextStep]_vars
-----------------------------------------------------------------------------
\* the hardware since a time
Since(t) == {hw} \union {past[i].hw : i \in {j \in DOMAIN past : past[j].till >= t}}
\* the hardware an answer may be about, and the hardware its query may have met
Window(s) == Since(IF kind = "megaraid" THEN s.at - TTL ELSE s.since)
Met(s) == Since(IF kind = "megaraid" THEN s.at - TTL - QueryTime ELSE s.since)
Finished(op) == {st[k] : k \in {j \in Callers : st[j].pc = "done" /\ st[j].op = op}}

\* the type megaraid should give the disk p
Solid(h, v) == Members(h, v.c, v.group) \subseteq h.ssd
MegaTruth(h, p) ==
  IF ~h.tool \/ ~\E v \in Of(h, 0) : v.path = p THEN "undetermined"
  ELSE LET v == CHOOSE w \in h.vds : w.path = p
       IN  IF Members(h, 0, v.group) = {} THEN "panic" ELSE IF Solid(h, v) THEN "SSD" ELSE "HDD"

\* An answer of megaraid about a disk, from the cache or not, a type or a "cannot
\* determine", was true within the cache's time (storcli.go:605): an error is kept no
\* longer than a controller, and a query that is late and replaces a newer entry does not
\* make its answer older.  Answers of queries during which the hardware changed apart.
FreshAnswer ==
  \A s \in Finished("type") :
    kind = "megaraid" /\ s.path \in Paths /\ s.calm /\ s.ans # "failed" =>
      \E h \in Window(s) : s.ans = MegaTruth(h, s.path)

\* Even when the hardware changes between the two commands of a Query (storcli.go:46),
\* each virtual drive it reports had that number and group, and that number and path,
\* at some time during it: the two outputs are joined by the virtual drive's number.
NothingInvented ==
  \A s \in Finished("query") : \A v \in s.ctrl.vds :
    /\ \E h \in Met(s) : \E w \in Of(h, s.c) : w.id = v.id /\ w.group = v.group
    /\ v.path # NoPath =>
         \E h \in Met(s) : \E w \in Of(h, s.c) : w.id = v.id /\ w.path = v.path

\* A disk smartpqi or mpi3mr calls an SSD, while nothing changed, is a virtual drive of
\* solid state drives only.
SolidIsSolid ==
  \A s \in Finished("type") :
    kind # "megaraid" /\ s.calm /\ s.ans = "SSD" /\ s.path \in Paths =>
      \E h \in Window(s) : \E v \in h.vds : v.path = s.path /\ Solid(h, v)

\* What a query meets while the hardware is still does not bring the program down, but
\* for three things: a megaraid disk whose drives are all gone, mpi3mr without its
\* tool, and mpi3mr with a controller other than 0.
PanicExplained ==
  \A k \in Callers : LET s == st[k] IN
    s.pc = "done" /\ s.ans = "panic" /\ s.calm =>
      \/ /\ kind = "megaraid" /\ s.op = "type"
         /\ \E h \in Window(s) : \E v \in Of(h, 0) :
              v.path = s.path /\ Members(h, 0, v.group) = {}
      \/ kind = "mpi3mr" /\ (s.c > 0 \/ \E h \in Window(s) : ~h.tool)

\* Callers that ask for the first time together: as long as systemd-detect-virt answers,
\* none sees the unguarded variable (virt.go:69) in a state that mistypes its disk.
PlainTrue ==
  \A s \in Finished("type") :
    s.path \in Plain /\ ~misread => s.ans = KernelType(s.path, guest)

\* smartpqi.go:122, mpi3mr.go:70: "GetDiskType - Determine the disk type if controller
\* owns disk": while nothing changes, the type is that of the disk asked about.
OwnerType ==
  \A s \in Finished("type") :
    kind # "megaraid" /\ s.calm /\ s.path \in Paths /\ s.ans \in {"SSD", "HDD"} =>
      \E h \in Window(s) : \E v \in h.vds :
        v.path = s.path /\ s.ans = IF Solid(h, v) THEN "SSD" ELSE "HDD"
=============================================================================
