--------------------------- MODULE DiskTypeProofs ---------------------------
(***************************************************************************)
(* Theorems about DiskType, for any controllers and drives, any number of  *)
(* callers, any changes of the hardware at any time: how old an answer is, *)
(* what is in it, and what brings the program down.                        *)
(***************************************************************************)
EXTENDS DiskType, FiniteSetTheorems, SequenceTheorems, TLAPS

-----------------------------------------------------------------------------
\* The hardware stays hardware, and its virtual drives keep numbers and devices of
\* their own, whatever happens to it.
LEMMA MadeWired ==
  ASSUME NEW h \in Hardware, Wired(h), NEW n, Made(h, n)
  PROVE  n \in Hardware /\ Wired(n)
<1>1. PICK v \in VD, D \in SUBSET Drives :
        /\ Raid(h, v.c)
        /\ \A y \in h.vds : (y.c = v.c => y.id # v.id) /\ (y.path = v.path => v.path = NoPath)
        /\ \A d \in D : h.group[d] = Free /\ h.home[d] = v.c
        /\ (D # {}) = (\A x \in Of(h, v.c) : x.group # v.group)
        /\ D \union Members(h, v.c, v.group) # {}
        /\ n = [h EXCEPT !.vds = h.vds \union {v},
                         !.group = [d \in Drives |-> IF d \in D THEN v.group ELSE h.group[d]]]
  BY DEF Made
<1>2. n \in Hardware /\ n.vds = h.vds \union {v} /\ n.mode = h.mode
  <2>1. v.group \in Groups
    BY DEF VD
  <2>2. [d \in Drives |-> IF d \in D THEN v.group ELSE h.group[d]]
          \in [Drives -> Groups \union {Free, Gone}]
    BY <2>1 DEF Hardware
  <2>3. h.vds \union {v} \in SUBSET VD
    BY DEF Hardware
  <2> QED
    BY <1>1, <2>2, <2>3 DEF Hardware
<1>3. \A c : Raid(n, c) <=> Raid(h, c)
  BY <1>2 DEF Raid
<1>4. Raid(h, v.c)
  BY <1>1
<1>5. ASSUME NEW x \in n.vds PROVE
        /\ Raid(n, x.c)
        /\ \A w \in n.vds \ {x} : (w.c = x.c => w.id # x.id) /\ (w.path = x.path => x.path = NoPath)
  BY <1>1, <1>2, <1>3, <1>4 DEF Wired
<1> QED
  BY <1>2, <1>5 DEF Wired

LEMMA MovedWired ==
  ASSUME NEW h \in Hardware, Wired(h), NEW n, Moved(h, n)
  PROVE  n \in Hardware /\ Wired(n)
<1>1. CASE Made(h, n)
  BY <1>1, MadeWired
<1>2. CASE Removed(h, n)
  <2>1. PICK v \in h.vds :
          n = [h EXCEPT !.vds = h.vds \ {v},
                  !.group = [d \in Drives |->
                     IF Alone(h, v) /\ d \in Members(h, v.c, v.group) THEN Free ELSE h.group[d]]]
    BY <1>2 DEF Removed
  <2>2. [d \in Drives |->
           IF Alone(h, v) /\ d \in Members(h, v.c, v.group) THEN Free ELSE h.group[d]]
          \in [Drives -> Groups \union {Free, Gone}]
    BY DEF Hardware
  <2>3. n \in Hardware /\ n.vds = h.vds \ {v} /\ n.mode = h.mode
    BY <2>1, <2>2 DEF Hardware
  <2> QED
    BY <2>3 DEF Wired, Raid
<1>3. CASE Lost(h, n)
  <2>1. PICK d \in Drives : n = [h EXCEPT !.group = [h.group EXCEPT ![d] = Gone]]
    BY <1>3 DEF Lost
  <2>2. [h.group EXCEPT ![d] = Gone] \in [Drives -> Groups \union {Free, Gone}]
    BY DEF Hardware
  <2>3. n \in Hardware /\ n.vds = h.vds /\ n.mode = h.mode
    BY <2>1, <2>2 DEF Hardware
  <2> QED
    BY <2>3 DEF Wired, Raid
<1>4. CASE Installed(h, n)
  <2>1. n \in Hardware /\ n.vds = h.vds /\ n.mode = h.mode
    BY <1>4 DEF Installed, Hardware
  <2> QED
    BY <2>1 DEF Wired, Raid
<1>5. CASE Unplugged(h, n)
  <2>1. PICK c \in Ctrls :
          n = [h EXCEPT !.mode = [h.mode EXCEPT ![c] = "none"],
                  !.vds = h.vds \ Of(h, c),
                  !.group = [d \in Drives |-> IF h.home[d] = c THEN Gone ELSE h.group[d]]]
    BY <1>5 DEF Unplugged
  <2>2. /\ [h.mode EXCEPT ![c] = "none"] \in [Ctrls -> {"raid", "plain", "none"}]
        /\ [d \in Drives |-> IF h.home[d] = c THEN Gone ELSE h.group[d]]
             \in [Drives -> Groups \union {Free, Gone}]
        /\ h.vds \ Of(h, c) \in SUBSET VD
    BY DEF Hardware
  <2>3. n \in Hardware /\ n.vds = h.vds \ Of(h, c) /\ n.mode = [h.mode EXCEPT ![c] = "none"]
    BY <2>1, <2>2 DEF Hardware
  <2>4. \A v \in n.vds : v \in h.vds /\ Raid(n, v.c)
    BY <2>3 DEF Wired, Raid, Of, Hardware, VD
  <2> QED
    BY <2>3, <2>4 DEF Wired
<1> QED
  BY <1>1, <1>2, <1>3, <1>4, <1>5 DEF Moved

\* On well wired hardware that does not change, the two outputs of a megaraid query give
\* the truth about a disk ...
LEMMA JoinedTrue ==
  ASSUME NEW h \in Hardware, Wired(h), NEW c
  PROVE  VirtDrives(CxShow(h, c), CxVall(h, c)) =
           {[id |-> v.id, group |-> v.group, path |-> v.path,
             devices |-> {d \in Listed(h, c, Free) : d.group = v.group}] : v \in Of(h, c)}
<1> DEFINE shown == CxShow(h, c)
           props == CxVall(h, c)
           Path(v) == IF \E x \in props : x.id = v.id
                        THEN (CHOOSE x \in props : x.id = v.id).path ELSE NoPath
           Drive(v) == [id |-> v.id, group |-> v.group, path |-> Path(v),
                        devices |-> {d \in shown.drives : d.group = v.group}]
           True(v) == [id |-> v.id, group |-> v.group, path |-> v.path,
                       devices |-> {d \in Listed(h, c, Free) : d.group = v.group}]
           Short(v) == [id |-> v.id, group |-> v.group]
<1>1. /\ shown.vds = {Short(v) : v \in Of(h, c)} /\ shown.drives = Listed(h, c, Free)
      /\ props = {[id |-> v.id, path |-> v.path] : v \in Of(h, c)}
  BY DEF CxShow, CxVall
<1>2. ASSUME NEW v \in Of(h, c) PROVE Path(Short(v)) = v.path
  <2>1. \A w \in Of(h, c) : w.id = v.id => w = v
    BY DEF Wired, Of
  <2>2. \A x \in props : x.id = v.id => x = [id |-> v.id, path |-> v.path]
    BY <1>1, <2>1
  <2>3. [id |-> v.id, path |-> v.path] \in props
    BY <1>1
  <2> HIDE DEF props
  <2>4. (CHOOSE x \in props : x.id = Short(v).id) = [id |-> v.id, path |-> v.path]
    BY <2>2, <2>3
  <2> QED
    BY <2>2, <2>3, <2>4
<1>3. \A v \in Of(h, c) : Drive(Short(v)) = True(v)
  <2>1. shown.drives = Listed(h, c, Free)
    BY <1>1
  <2>2. \A v : Short(v).id = v.id /\ Short(v).group = v.group
    OBVIOUS
  <2> HIDE DEF Path, Short, shown
  <2> QED
    BY <1>2, <2>1, <2>2
<1>4. VirtDrives(shown, props) = {Drive(v) : v \in shown.vds}
  BY DEF VirtDrives
<1>5. {Drive(v) : v \in shown.vds} = {Drive(Short(v)) : v \in Of(h, c)}
  <2>1. PICK S : S = shown.vds
    OBVIOUS
  <2>2. S = {Short(v) : v \in Of(h, c)}
    BY <1>1, <2>1
  <2> HIDE DEF Drive, Short, shown
  <2>3. {Drive(v) : v \in S} = {Drive(Short(v)) : v \in Of(h, c)}
    BY <2>2
  <2> QED
    BY <2>1, <2>3
<1>6. {Drive(Short(v)) : v \in Of(h, c)} = {True(v) : v \in Of(h, c)}
  <2> HIDE DEF Drive, Short, True
  <2> QED
    BY <1>3
<1> QED
  BY <1>4, <1>5, <1>6

\* ... because the listed drives of a virtual drive's group are the group's members; what
\* smartpqi lists under group 0 may be more.
LEMMA MembersListed ==
  ASSUME NEW h \in Hardware, NEW c, NEW g \in Groups, NEW nogroup
  PROVE  \A d \in Members(h, c, g) :
           [id |-> d, group |-> g, ssd |-> d \in h.ssd] \in Listed(h, c, nogroup)
<1> SUFFICES ASSUME NEW d \in Members(h, c, g)
             PROVE  [id |-> d, group |-> g, ssd |-> d \in h.ssd] \in Listed(h, c, nogroup)
  OBVIOUS
<1>1. d \in Drives /\ h.home[d] = c /\ h.group[d] = g /\ g # Free /\ g # Gone
  BY NumbersAssumption DEF Members, Free, Gone
<1> QED
  BY <1>1 DEF Listed

LEMMA ListedMembers ==
  ASSUME NEW h \in Hardware, NEW c, NEW g \in Groups
  PROVE  \A x \in Listed(h, c, Free) : x.group = g => x.id \in Members(h, c, g) /\ x.ssd = (x.id \in h.ssd)
BY NumbersAssumption DEF Listed, Members, Free, Gone

LEMMA SolidDrives ==
  ASSUME NEW h \in Hardware, NEW v \in h.vds, NEW nogroup, NEW L,
         L = {d \in Listed(h, v.c, nogroup) : d.group = v.group}
  PROVE  /\ IsSSD(L) => Solid(h, v)
         /\ nogroup = Free => /\ L = {} <=> Members(h, v.c, v.group) = {}
                              /\ L # {} /\ Solid(h, v) => IsSSD(L)
<1>1. v.group \in Groups
  BY DEF Hardware, VD
<1>2. \A d \in Members(h, v.c, v.group) :
        [id |-> d, group |-> v.group, ssd |-> d \in h.ssd] \in L
  BY <1>1, MembersListed
<1>3. nogroup = Free => \A x \in L : x.id \in Members(h, v.c, v.group) /\ x.ssd = (x.id \in h.ssd)
  BY <1>1, ListedMembers
<1>4. IsSSD(L) => Solid(h, v)
  BY <1>2 DEF IsSSD, Solid
<1>5. nogroup = Free => (L = {} <=> Members(h, v.c, v.group) = {})
  BY <1>2, <1>3
<1>6. nogroup = Free /\ L # {} /\ Solid(h, v) => IsSSD(L)
  BY <1>3 DEF IsSSD, Solid
<1> QED
  BY <1>4, <1>5, <1>6

\* What megaraid says of a disk after a query of a machine at rest is the truth.
LEMMA MegaTypeTrue ==
  ASSUME NEW h \in Hardware, Wired(h), h.tool, NEW p \in Paths
  PROVE  MegaType(VirtDrives(CxShow(h, 0), CxVall(h, 0)), p) = MegaTruth(h, p)
<1> DEFINE Drive(v) == [id |-> v.id, group |-> v.group, path |-> v.path,
                        devices |-> {d \in Listed(h, 0, Free) : d.group = v.group}]
           vds == {Drive(v) : v \in Of(h, 0)}
<1>1. VirtDrives(CxShow(h, 0), CxVall(h, 0)) = vds
  BY JoinedTrue
<1>2. \A v \in h.vds : \A w \in h.vds : v.path = p /\ w.path = p => v = w
  BY NumbersAssumption DEF Wired
<1>3. CASE \E v \in Of(h, 0) : v.path = p
  <2>1. PICK v \in Of(h, 0) : v.path = p
    BY <1>3
  <2>2. v \in h.vds /\ v.c = 0
    BY DEF Of
  <2>3. (CHOOSE w \in h.vds : w.path = p) = v
    BY <1>2, <2>1, <2>2
  <2>4. \A x \in vds : x.path = p => x = Drive(v)
    BY <1>2, <2>1 DEF Of
  <2>5. Drive(v) \in vds /\ Drive(v).path = p
    BY <2>1
  <2> HIDE DEF vds
  <2>6. (CHOOSE w \in vds : w.path = p) = Drive(v) /\ \E w \in vds : w.path = p
    BY <2>4, <2>5
  <2>7. /\ Drive(v).devices = {} <=> Members(h, 0, v.group) = {}
        /\ Drive(v).devices # {} => (IsSSD(Drive(v).devices) <=> Solid(h, v))
    BY <2>2, SolidDrives
  <2>8. MegaTruth(h, p) = IF Members(h, 0, v.group) = {} THEN "panic"
                          ELSE IF Solid(h, v) THEN "SSD" ELSE "HDD"
    BY <1>3, <2>3 DEF MegaTruth
  <2>9. MegaType(vds, p) = IF Drive(v).devices = {} THEN "panic"
                           ELSE IF IsSSD(Drive(v).devices) THEN "SSD" ELSE "HDD"
    BY <2>6 DEF MegaType
  <2> QED
    BY <1>1, <2>7, <2>8, <2>9
<1>4. CASE ~ \E v \in Of(h, 0) : v.path = p
  <2>1. ~ \E x \in vds : x.path = p
    BY <1>4
  <2> HIDE DEF vds
  <2> QED
    BY <1>1, <1>4, <2>1 DEF MegaType, MegaTruth
<1> QED
  BY <1>3, <1>4

\* The two outputs of a machine at rest have the same virtual drives.
LEMMA NoNilVirtDrive ==
  \A h, c : ~NilVirtDrive(CxShow(h, c), CxVall(h, c))
<1> SUFFICES ASSUME NEW h, NEW c PROVE ~NilVirtDrive(CxShow(h, c), CxVall(h, c))
  OBVIOUS
<1>1. \A x \in CxVall(h, c) : \E v \in CxShow(h, c).vds : v.id = x.id
  <2>1. CxShow(h, c).vds = {[id |-> v.id, group |-> v.group] : v \in Of(h, c)}
    BY DEF CxShow
  <2> SUFFICES ASSUME NEW x \in CxVall(h, c) PROVE \E v \in CxShow(h, c).vds : v.id = x.id
    OBVIOUS
  <2>2. PICK v \in Of(h, c) : x = [id |-> v.id, path |-> v.path]
    BY DEF CxVall
  <2>3. [id |-> v.id, group |-> v.group] \in CxShow(h, c).vds
    BY <2>1
  <2> QED
    BY <2>2, <2>3
<1>2. {x.id : x \in CxVall(h, c)} \subseteq {v.id : v \in CxShow(h, c).vds}
  BY <1>1
<1> QED
  BY <1>2 DEF NilVirtDrive

\* What a virtual drive of the two outputs has in common with virtual drives there were.
LEMMA JoinedReal ==
  ASSUME NEW h, NEW c, NEW shown, NEW v \in VirtDrives(shown, CxVall(h, c))
  PROVE  /\ \E x \in shown.vds : x.id = v.id /\ x.group = v.group
         /\ v.path # NoPath => \E w \in Of(h, c) : w.id = v.id /\ w.path = v.path
<1> DEFINE props == CxVall(h, c)
<1>1. PICK x \in shown.vds :
        v = [id |-> x.id, group |-> x.group,
             path |-> IF \E y \in props : y.id = x.id
                        THEN (CHOOSE y \in props : y.id = x.id).path ELSE NoPath,
             devices |-> {d \in shown.drives : d.group = x.group}]
  BY DEF VirtDrives
<1>2. v.path # NoPath => \E y \in props : y.id = v.id /\ y.path = v.path
  BY <1>1
<1>3. \A y \in props : \E w \in Of(h, c) : y.id = w.id /\ y.path = w.path
  BY DEF CxVall
<1>4. x.id = v.id /\ x.group = v.group
  BY <1>1
<1> HIDE DEF props
<1> QED
  BY <1>2, <1>3, <1>4
-----------------------------------------------------------------------------
\* What the queries on the RAID tools keep true.

\* the hardware, now and before, is well wired, and time goes on
World ==
  /\ now \in Nat /\ hw \in Hardware /\ Wired(hw)
  /\ past \in Seq([hw : {h \in Hardware : Wired(h)}, till : Nat])

IsCall(s) ==
  s = [pc |-> s.pc, op |-> s.op, path |-> s.path, c |-> s.c, todo |-> s.todo, bad |-> s.bad,
       shown |-> s.shown, virt |-> s.virt, ans |-> s.ans, ctrl |-> s.ctrl,
       since |-> s.since, at |-> s.at, calm |-> s.calm]

\* what a call asks fits the place it is at, and no query lasts longer than QueryTime
CallInv(s) ==
  /\ IsCall(s) /\ s.c \in Ctrls /\ s.todo \in Seq(Ctrls) /\ s.calm \in BOOLEAN
  /\ s.since \in 0 .. now /\ s.at \in 0 .. now
  /\ s.pc \in {"idle", "done", "virt", "detect", "assign", "return", "show", "vall", "list", "next"}
  /\ s.pc \in {"virt", "detect", "assign", "return"} => s.op = "type" /\ s.path \in Plain
  /\ s.pc \in {"show", "vall", "list", "next"} =>
       /\ s.op \in {"type", "query"} /\ (s.op = "type" => s.path \in Paths)
       /\ now - s.since <= QueryTime
       /\ kind = "megaraid" => s.pc \in {"show", "vall"} /\ (s.op = "type" => s.c = 0)

\* between its two commands a query of megaraid has virtual drives there were since it began
ShownInv(s) ==
  s.pc = "vall" /\ kind = "megaraid" =>
    /\ \A v \in s.shown.vds :
         \E h \in Since(s.since) : \E w \in Of(h, s.c) : w.id = v.id /\ w.group = v.group
    /\ s.calm => s.shown = CxShow(hw, s.c)

\* a query that was over at time t: what it says was so then, or within QueryTime before
Result(r, c, t) ==
  /\ r.err \in {"ok", "unknown", "failed"}
  /\ r.calm /\ r.err = "unknown" => \E h \in Since(t) : ~h.tool \/ ~Raid(h, c)
  /\ r.calm /\ r.err = "ok" =>
       \E h \in Since(t) : h.tool /\ r.ctrl.vds = VirtDrives(CxShow(h, c), CxVall(h, c))
  /\ r.err = "ok" => \A v \in r.ctrl.vds :
       /\ \E h \in Since(t - QueryTime) : \E w \in Of(h, c) : w.id = v.id /\ w.group = v.group
       /\ v.path # NoPath =>
            \E h \in Since(t - QueryTime) : \E w \in Of(h, c) : w.id = v.id /\ w.path = v.path

EntryInv(e, c) ==
  /\ e.expires \in Nat /\ e.expires - TTL \in 0 .. now
  /\ e.result.since \in 0 .. now /\ e.result.calm \in BOOLEAN
  /\ Result(e.result, c, e.expires - TTL)

CacheInv ==
  /\ cache = [c \in Ctrls |-> cache[c]]
  /\ \A c \in Ctrls : \A e : e = cache[c] /\ e # None => EntryInv(e, c)

\* the properties, of one call
Fresh(s) ==
  s.pc = "done" /\ s.op = "type" /\ kind = "megaraid" /\ s.path \in Paths /\ s.calm
      /\ s.ans # "failed" =>
    \E h \in Window(s) : s.ans = MegaTruth(h, s.path)
Real(s) ==
  s.pc = "done" /\ s.op = "query" => \A v \in s.ctrl.vds :
    /\ \E h \in Met(s) : \E w \in Of(h, s.c) : w.id = v.id /\ w.group = v.group
    /\ v.path # NoPath =>
         \E h \in Met(s) : \E w \in Of(h, s.c) : w.id = v.id /\ w.path = v.path
SolidOne(s) ==
  s.pc = "done" /\ s.op = "type" /\ kind # "megaraid" /\ s.calm /\ s.ans = "SSD"
      /\ s.path \in Paths =>
    \E h \in Window(s) : \E v \in h.vds : v.path = s.path /\ Solid(h, v)
Explained(s) ==
  s.pc = "done" /\ s.ans = "panic" /\ s.calm =>
    \/ /\ kind = "megaraid" /\ s.op = "type"
       /\ \E h \in Window(s) : \E v \in Of(h, 0) :
            v.path = s.path /\ Members(h, 0, v.group) = {}
    \/ kind = "mpi3mr" /\ (s.c > 0 \/ \E h \in Window(s) : ~h.tool)
Right(s) == Fresh(s) /\ Real(s) /\ SolidOne(s) /\ Explained(s)

CallersInv ==
  /\ st = [k \in Callers |-> st[k]]
  /\ \A k \in Callers : \A s : s = st[k] => CallInv(s) /\ ShownInv(s) /\ Right(s)

Inv == World /\ CacheInv /\ CallersInv

-----------------------------------------------------------------------------
\* Hardware there was since a time was there since any earlier time, and stays so.
LEMMA SinceMember ==
  \A t, h : h \in Since(t) <=>
    h = hw \/ \E i \in DOMAIN past : past[i].till >= t /\ past[i].hw = h
<1> SUFFICES ASSUME NEW t, NEW h
             PROVE  h \in Since(t) <=>
                      h = hw \/ \E i \in DOMAIN past : past[i].till >= t /\ past[i].hw = h
  OBVIOUS
<1> QED
  BY DEF Since

LEMMA PastWorlds ==
  ASSUME World, NEW i \in DOMAIN past
  PROVE  past[i].till \in Nat /\ past[i].hw \in Hardware /\ Wired(past[i].hw)
<1> DEFINE H == {h \in Hardware : Wired(h)}
           S == [hw : H, till : Nat]
<1>1. past \in Seq(S)
  BY DEF World
<1>2. \A x \in S : x.hw \in H /\ x.till \in Nat
  OBVIOUS
<1> HIDE DEF S
<1>3. past[i] \in S
  BY <1>1
<1>4. past[i].hw \in H /\ past[i].till \in Nat
  BY <1>2, <1>3
<1> QED
  BY <1>4

LEMMA SinceEarlier ==
  ASSUME World, NEW t \in Int, NEW u \in Int, u <= t
  PROVE  Since(t) \subseteq Since(u)
<1>1. \A i \in DOMAIN past : past[i].till >= t => past[i].till >= u
  <2>1. \A i \in DOMAIN past : past[i].till \in Nat
    BY PastWorlds
  <2> QED
    BY <2>1
<1> QED
  BY <1>1, SinceMember

LEMMA SinceNow == \A t : hw \in Since(t)
BY DEF Since

LEMMA SinceWired ==
  ASSUME World, NEW t, NEW h \in Since(t)
  PROVE  h \in Hardware /\ Wired(h)
<1>1. h = hw \/ \E i \in DOMAIN past : past[i].hw = h
  BY SinceMember
<1> QED
  BY <1>1, PastWorlds DEF World

LEMMA SinceGrows ==
  ASSUME World, Change \/ UNCHANGED <<hw, past>>, NEW t \in Int, t <= now
  PROVE  Since(t) \subseteq Since(t)'
<1>1. CASE UNCHANGED <<hw, past>>
  BY <1>1 DEF Since
<1>2. CASE Change
  <2>1. past' = Append(past, [hw |-> hw, till |-> now])
    BY <1>2 DEF Change
  <2>2. /\ Len(past) \in Nat /\ DOMAIN past = 1 .. Len(past)
        /\ DOMAIN past' = 1 .. Len(past) + 1
        /\ \A i \in DOMAIN past : i \in DOMAIN past' /\ past'[i] = past[i]
        /\ past'[Len(past) + 1] = [hw |-> hw, till |-> now]
    BY <2>1 DEF World
  <2>3. now >= t
    BY DEF World
  <2>4. hw \in {past'[i].hw : i \in {j \in DOMAIN past' : past'[j].till >= t}}
    <3>1. Len(past) + 1 \in DOMAIN past'
      BY <2>2
    <3> QED
      BY <2>2, <2>3, <3>1
  <2>5. \A i \in DOMAIN past : past[i].till >= t =>
          past[i].hw \in {past'[j].hw : j \in {l \in DOMAIN past' : past'[l].till >= t}}
    BY <2>2
  <2> QED
    BY <2>4, <2>5 DEF Since
<1> QED
  BY <1>1, <1>2

LEMMA WorldStep ==
  ASSUME World, Tick \/ Change
  PROVE  World' /\ now <= now' /\ kind' = kind
<1>1. CASE Tick
  BY <1>1 DEF Tick, World
<1>2. CASE Change
  <2>1. hw' \in Hardware /\ Wired(hw')
    BY <1>2, MovedWired DEF Change, World
  <2>2. [hw |-> hw, till |-> now] \in [hw : {h \in Hardware : Wired(h)}, till : Nat]
    BY DEF World
  <2>3. past' \in Seq([hw : {h \in Hardware : Wired(h)}, till : Nat])
    BY <1>2, <2>2 DEF Change, World
  <2> QED
    BY <1>2, <2>1, <2>3 DEF Change, World
<1> QED
  BY <1>1, <1>2

\* So an answer that was right stays right, and so does what the cache holds.
LEMMA RightStays ==
  ASSUME World, Tick \/ Change, NEW s, s.since \in 0 .. now, s.at \in 0 .. now, Right(s)
  PROVE  Right(s)'
<1>1. /\ Window(s) \subseteq Window(s)' /\ Met(s) \subseteq Met(s)' /\ kind' = kind
  <2>1. /\ s.since \in Int /\ s.since <= now
        /\ s.at - TTL \in Int /\ s.at - TTL <= now
        /\ s.at - TTL - QueryTime \in Int /\ s.at - TTL - QueryTime <= now
    BY TimesAssumption DEF World
  <2>2. kind' = kind
    BY WorldStep
  <2>3. Change \/ UNCHANGED <<hw, past>>
    BY DEF Tick
  <2>4. /\ Since(s.since) \subseteq Since(s.since)'
        /\ Since(s.at - TTL) \subseteq Since(s.at - TTL)'
        /\ Since(s.at - TTL - QueryTime) \subseteq Since(s.at - TTL - QueryTime)'
    BY <2>1, <2>3, SinceGrows
  <2> QED
    BY <2>2, <2>4 DEF Window, Met
<1>2. Fresh(s)'
  BY <1>1 DEF Right, Fresh
<1>3. Real(s)'
  BY <1>1 DEF Right, Real
<1>4. SolidOne(s)'
  BY <1>1 DEF Right, SolidOne
<1>5. Explained(s)'
  BY <1>1 DEF Right, Explained
<1> QED
  BY <1>2, <1>3, <1>4, <1>5 DEF Right

LEMMA EntryStays ==
  ASSUME World, Tick \/ Change, NEW e, NEW c, EntryInv(e, c)
  PROVE  EntryInv(e, c)'
<1> DEFINE t == e.expires - TTL
<1>1. t \in Int /\ t <= now /\ t - QueryTime \in Int /\ t - QueryTime <= now
  BY TimesAssumption DEF EntryInv, World
<1>2. Change \/ UNCHANGED <<hw, past>>
  BY DEF Tick
<1> HIDE DEF t
<1>3. Since(t) \subseteq Since(t)' /\ Since(t - QueryTime) \subseteq Since(t - QueryTime)'
  BY <1>1, <1>2, SinceGrows DEF t
<1>4. Result(e.result, c, t)'
  BY <1>3 DEF EntryInv, Result, t
<1>5. now <= now' /\ now \in Nat /\ now' \in Nat
  BY WorldStep DEF World
<1> QED
  BY <1>4, <1>5, TimesAssumption DEF EntryInv, t

LEMMA ClockStep ==
  ASSUME Inv, Tick \/ Change
  PROVE  Inv'
<1>1. World' /\ now <= now' /\ now \in Nat /\ now' \in Nat /\ kind' = kind
  BY WorldStep DEF Inv, World
<1>2. CacheInv'
  <2>1. cache' = cache
    BY DEF Tick, Change
  <2> QED
    BY <2>1, EntryStays DEF CacheInv, Inv
<1>3. /\ st' = [k \in Callers |-> st'[k]]
      /\ \A k \in Callers :
           \/ st'[k] = st[k] /\ (Busy(k) => now' - st[k].since <= QueryTime /\ hw' = hw)
           \/ /\ Busy(k) /\ now' = now
              /\ st'[k] = [st[k] EXCEPT !.calm = FALSE]
  <2>1. CASE Tick
    <3>1. \A k \in Callers : st[k].since \in Nat
      BY DEF Inv, CallersInv, CallInv
    <3> QED
      BY <2>1, <3>1, <1>1, TimesAssumption DEF Tick, Inv, CallersInv
  <2>2. CASE Change
    BY <2>2 DEF Change, Inv, CallersInv
  <2> QED
    BY <2>1, <2>2
<1>4. ASSUME NEW k \in Callers, NEW u, u = st'[k]
      PROVE  CallInv(u)' /\ ShownInv(u)' /\ Right(u)'
  <2>1. PICK s : s = st[k]
    OBVIOUS
  <2>2. CallInv(s) /\ ShownInv(s) /\ Right(s) /\ IsCall(s)
    BY <2>1 DEF Inv, CallersInv, CallInv
  <2>3. s.since \in 0 .. now /\ s.at \in 0 .. now /\ Right(s)'
    BY <2>2, RightStays DEF CallInv, Inv
  <2>4. CASE u = s /\ (Busy(k) => now' - s.since <= QueryTime /\ hw' = hw)
    <3>1. CallInv(s)'
      BY <1>1, <2>1, <2>2, <2>4 DEF CallInv, Busy
    <3>2. ShownInv(s)'
      <4>1. CASE s.pc = "vall" /\ kind = "megaraid"
        <5>1. Busy(k)
          BY <2>1, <4>1 DEF Busy
        <5>2. Since(s.since) \subseteq Since(s.since)'
          <6>1. s.since \in Int /\ s.since <= now
            BY <2>3, <1>1
          <6> QED
            BY <6>1, SinceGrows DEF Tick, Inv
        <5> QED
          BY <1>1, <2>2, <2>4, <4>1, <5>1, <5>2 DEF ShownInv
      <4>2. CASE ~(s.pc = "vall" /\ kind = "megaraid")
        BY <1>1, <4>2 DEF ShownInv
      <4> QED
        BY <4>1, <4>2
    <3> QED
      BY <2>3, <2>4, <3>1, <3>2
  <2>5. CASE Busy(k) /\ now' = now /\ u = [s EXCEPT !.calm = FALSE]
    <3>2. /\ IsCall(u) /\ u.calm = FALSE /\ u.pc = s.pc /\ u.op = s.op /\ u.path = s.path
          /\ u.c = s.c /\ u.todo = s.todo /\ u.since = s.since /\ u.at = s.at /\ u.shown = s.shown
      BY <2>2, <2>5 DEF IsCall
    <3>3. CallInv(u)'
      BY <1>1, <2>2, <2>5, <3>2 DEF CallInv
    <3>4. ShownInv(u)'
      <4>1. Since(s.since) \subseteq Since(s.since)'
        <5>1. s.since \in Int /\ s.since <= now
          BY <2>3, <1>1
        <5> QED
          BY <5>1, SinceGrows DEF Tick, Inv
      <4> QED
        BY <1>1, <2>2, <3>2, <4>1 DEF ShownInv
    <3>5. Right(u)'
      BY <2>1, <2>5, <3>2 DEF Right, Fresh, Real, SolidOne, Explained, Busy
    <3> QED
      BY <3>3, <3>4, <3>5
  <2> QED
    BY <1>3, <1>4, <2>1, <2>4, <2>5
<1>5. CallersInv'
  <2>1. st' = [k \in Callers |-> st'[k]]
    BY <1>3
  <2> QED
    BY <1>4, <2>1 DEF CallersInv
<1> QED
  BY <1>1, <1>2, <1>5 DEF Inv

-----------------------------------------------------------------------------
\* A step of one caller, with the hardware at rest: what is to be shown of it.
LEMMA Placed ==
  ASSUME Inv, NEW k \in Callers, NEW u, st' = [st EXCEPT ![k] = u],
         UNCHANGED <<kind, hw, past, now>>, CallInv(u), ShownInv(u), Right(u), CacheInv'
  PROVE  Inv'
<1>1. World'
  BY DEF Inv, World
<1>2. \A t : Since(t)' = Since(t)
  BY DEF Since
<1>3. ASSUME NEW s, CallInv(s) /\ ShownInv(s) /\ Right(s)
      PROVE  CallInv(s)' /\ ShownInv(s)' /\ Right(s)'
  <2>1. CallInv(s)'
    BY <1>3 DEF CallInv
  <2>2. ShownInv(s)'
    BY <1>2, <1>3 DEF ShownInv
  <2>3. Window(s)' = Window(s) /\ Met(s)' = Met(s)
    BY <1>2 DEF Window, Met
  <2>4. Right(s)'
    BY <1>3, <2>3 DEF Right, Fresh, Real, SolidOne, Explained
  <2> QED
    BY <2>1, <2>2, <2>4
<1>4. st' = [j \in Callers |-> st'[j]]
  BY DEF Inv, CallersInv
<1>5. \A j \in Callers : st'[j] = IF j = k THEN u ELSE st[j]
  BY DEF Inv, CallersInv
<1>6. \A j \in Callers : \A s : s = st'[j] => CallInv(s)' /\ ShownInv(s)' /\ Right(s)'
  BY <1>3, <1>5 DEF Inv, CallersInv
<1>7. CallersInv'
  BY <1>4, <1>6 DEF CallersInv
<1> QED
  BY <1>1, <1>7 DEF Inv

LEMMA CacheKept ==
  ASSUME Inv, UNCHANGED <<cache, hw, past, now>>
  PROVE  CacheInv'
<1>1. \A t : Since(t)' = Since(t)
  BY DEF Since
<1>2. \A e, c : EntryInv(e, c) => EntryInv(e, c)'
  BY <1>1 DEF EntryInv, Result
<1> QED
  BY <1>2 DEF Inv, CacheInv

LEMMA CacheSet ==
  ASSUME Inv, UNCHANGED <<hw, past, now>>, NEW c \in Ctrls, NEW e, EntryInv(e, c),
         cache' = [cache EXCEPT ![c] = e]
  PROVE  CacheInv'
<1>1. \A t : Since(t)' = Since(t)
  BY DEF Since
<1>2. \A f, b : EntryInv(f, b) => EntryInv(f, b)'
  BY <1>1 DEF EntryInv, Result
<1>3. /\ cache' = [b \in Ctrls |-> cache'[b]]
      /\ \A b \in Ctrls : cache'[b] = IF b = c THEN e ELSE cache[b]
  BY DEF Inv, CacheInv
<1>4. \A b \in Ctrls : \A f : f = cache'[b] /\ f # None => EntryInv(f, b)'
  BY <1>2, <1>3 DEF Inv, CacheInv
<1> QED
  BY <1>3, <1>4 DEF CacheInv

\* A call that has not ended and is not between megaraid's two commands is right.
LEMMA NotEnded ==
  ASSUME NEW u, u.pc # "done", u.pc # "vall" \/ kind # "megaraid"
  PROVE  ShownInv(u) /\ Right(u)
BY DEF ShownInv, Right, Fresh, Real, SolidOne, Explained

\* The caller at hand.
LEMMA CallAt ==
  ASSUME Inv, NEW k \in Callers, NEW s, s = st[k]
  PROVE  CallInv(s) /\ ShownInv(s) /\ Right(s) /\ IsCall(s)
BY DEF Inv, CallersInv, CallInv

\* Goto and Answer put a call in its caller's place.
LEMMA Answered ==
  ASSUME NEW k, NEW s, NEW ans, NEW ctrl, IsCall(s), Answer(k, s, ans, ctrl)
  PROVE  \E u : /\ st' = [st EXCEPT ![k] = u]
                /\ IsCall(u) /\ u.pc = "done" /\ u.ans = ans /\ u.ctrl = ctrl /\ u.at = now
                /\ u.op = s.op /\ u.path = s.path /\ u.c = s.c /\ u.since = s.since
                /\ u.calm = s.calm /\ u.todo = <<>>
<1>1. PICK u : u = [s EXCEPT !.pc = "done", !.ans = ans, !.ctrl = ctrl, !.at = now,
                             !.shown = NoShow, !.todo = <<>>]
  OBVIOUS
<1>2. st' = [st EXCEPT ![k] = u]
  BY <1>1 DEF Answer, Goto
<1>3. /\ IsCall(u) /\ u.pc = "done" /\ u.ans = ans /\ u.ctrl = ctrl /\ u.at = now
      /\ u.op = s.op /\ u.path = s.path /\ u.c = s.c /\ u.since = s.since
      /\ u.calm = s.calm /\ u.todo = <<>>
  BY <1>1 DEF IsCall
<1> QED
  BY <1>2, <1>3

\* The end of a call: what is to be shown of its answer.
LEMMA Ending ==
  ASSUME Inv, NEW k \in Callers, NEW s, NEW ans, NEW ctrl, IsCall(s), Answer(k, s, ans, ctrl),
         s.c \in Ctrls, s.since \in 0 .. now, s.calm \in BOOLEAN,
         UNCHANGED <<kind, hw, past, now>>, CacheInv',
         \A u : /\ u.pc = "done" /\ u.ans = ans /\ u.ctrl = ctrl /\ u.at = now
                /\ u.op = s.op /\ u.path = s.path /\ u.c = s.c /\ u.since = s.since
                /\ u.calm = s.calm
                => Right(u)
  PROVE  Inv'
<1>1. PICK u : /\ st' = [st EXCEPT ![k] = u]
               /\ IsCall(u) /\ u.pc = "done" /\ u.ans = ans /\ u.ctrl = ctrl /\ u.at = now
               /\ u.op = s.op /\ u.path = s.path /\ u.c = s.c /\ u.since = s.since
               /\ u.calm = s.calm /\ u.todo = <<>>
  BY Answered
<1>2. Right(u)
  BY <1>1
<1>3. CallInv(u)
  BY <1>1 DEF CallInv, Inv, World
<1>4. ShownInv(u)
  BY <1>1 DEF ShownInv
<1> QED
  BY <1>1, <1>2, <1>3, <1>4, Placed

-----------------------------------------------------------------------------
\* Two truths about a disk: "undetermined" where controller 0 cannot be asked, and why
\* it can be "panic".
LEMMA NothingToAsk ==
  ASSUME NEW h, Wired(h), ~h.tool \/ ~Raid(h, 0), NEW p
  PROVE  MegaTruth(h, p) = "undetermined"
<1>1. \A v \in Of(h, 0) : Raid(h, 0)
  BY DEF Of, Wired
<1> QED
  BY <1>1 DEF MegaTruth

LEMMA PanicTruth ==
  ASSUME NEW h, Wired(h), NEW p \in Paths, MegaTruth(h, p) = "panic"
  PROVE  \E v \in Of(h, 0) : v.path = p /\ Members(h, 0, v.group) = {}
<1>1. h.tool /\ \E v \in Of(h, 0) : v.path = p
  BY DEF MegaTruth
<1>2. PICK v \in Of(h, 0) : v.path = p
  BY <1>1
<1>3. (CHOOSE w \in h.vds : w.path = p) = v
  <2>1. \A w \in h.vds : w.path = p => w = v
    BY <1>2, NumbersAssumption DEF Wired, Of
  <2>2. v \in h.vds
    BY DEF Of
  <2> QED
    BY <1>2, <2>1, <2>2
<1>4. Members(h, 0, v.group) = {}
  BY <1>1, <1>3 DEF MegaTruth
<1> QED
  BY <1>2, <1>4

\* megaraid's answer from a result that is not older than the cache's time.
LEMMA Delivered ==
  ASSUME Inv, kind = "megaraid", NEW k \in Callers, NEW s, IsCall(s), s.c \in Ctrls,
         s.op \in {"type", "query"}, s.op = "type" => s.path \in Paths /\ s.c = 0,
         NEW r, NEW t \in Int, t <= now, now - TTL <= t,
         r.since \in 0 .. now, r.calm \in BOOLEAN, Result(r, s.c, t), Deliver(k, s, r),
         UNCHANGED <<kind, hw, past, now>>, CacheInv'
  PROVE  Inv'
<1>1. PICK q : q = [s EXCEPT !.since = r.since, !.calm = r.calm]
  OBVIOUS
<1>2. /\ IsCall(q) /\ q.op = s.op /\ q.path = s.path /\ q.c = s.c
      /\ q.since = r.since /\ q.calm = r.calm
  BY <1>1 DEF IsCall
<1>3. World /\ now \in Nat
  BY DEF Inv, World
<1>4. Since(t) \subseteq Since(now - TTL) /\ Since(t - QueryTime) \subseteq Since(now - TTL - QueryTime)
  <2>1. now - TTL \in Int /\ t - QueryTime \in Int /\ now - TTL - QueryTime \in Int
        /\ now - TTL - QueryTime <= t - QueryTime
    BY <1>3, TimesAssumption
  <2> QED
    BY <1>3, <2>1, SinceEarlier
<1>5. \A u : u.at = now => Window(u) = Since(now - TTL) /\ Met(u) = Since(now - TTL - QueryTime)
  BY DEF Window, Met
<1> DEFINE missing == r.err = "unknown" /\ s.op = "type"
<1>6. CASE missing
  <2>1. Answer(k, q, "undetermined", NoCtrl)
    BY <1>1, <1>6 DEF Deliver
  <2>2. ASSUME NEW u, u.pc = "done", u.ans = "undetermined", u.at = now, u.op = q.op,
               u.path = q.path, u.c = q.c, u.calm = q.calm
        PROVE  Right(u)
    <3>1. Fresh(u)
      <4>1. SUFFICES ASSUME u.calm PROVE \E h \in Window(u) : u.ans = MegaTruth(h, u.path)
        BY DEF Fresh
      <4>2. PICK h \in Since(t) : ~h.tool \/ ~Raid(h, 0)
        BY <1>2, <1>6, <2>2, <4>1 DEF Result
      <4>3. MegaTruth(h, u.path) = "undetermined"
        BY <1>3, <4>2, NothingToAsk, SinceWired
      <4> QED
        BY <1>4, <1>5, <2>2, <4>3
    <3> QED
      BY <1>2, <1>6, <2>2, <3>1 DEF Right, Real, SolidOne, Explained
  <2> QED
    BY <1>2, <2>1, <2>2, Ending
<1>7. CASE r.err # "ok" /\ ~missing
  <2>1. Answer(k, q, "failed", NoCtrl)
    BY <1>1, <1>7 DEF Deliver
  <2>2. ASSUME NEW u, u.pc = "done", u.ans = "failed", u.ctrl = NoCtrl
        PROVE  Right(u)
    BY <2>2 DEF Right, Fresh, Real, SolidOne, Explained, NoCtrl
  <2> QED
    BY <1>2, <2>1, <2>2, Ending
<1>8. CASE r.err = "ok" /\ s.op = "query"
  <2>1. Answer(k, q, "ok", r.ctrl)
    BY <1>1, <1>8 DEF Deliver
  <2>2. ASSUME NEW u, u.pc = "done", u.ans = "ok", u.ctrl = r.ctrl, u.at = now, u.op = q.op,
               u.c = q.c
        PROVE  Right(u)
    <3>1. Real(u)
      BY <1>2, <1>4, <1>5, <1>8, <2>2 DEF Real, Result
    <3> QED
      BY <1>2, <1>8, <2>2, <3>1 DEF Right, Fresh, SolidOne, Explained
  <2> QED
    BY <1>2, <2>1, <2>2, Ending
<1>9. CASE r.err = "ok" /\ s.op = "type"
  <2>1. Answer(k, q, MegaType(r.ctrl.vds, s.path), NoCtrl)
    BY <1>1, <1>9 DEF Deliver
  <2>2. ASSUME NEW u, u.pc = "done", u.ans = MegaType(r.ctrl.vds, s.path), u.at = now,
               u.op = q.op, u.path = q.path, u.c = q.c, u.calm = q.calm
        PROVE  Right(u)
    <3>1. ASSUME u.calm
          PROVE  \E h \in Window(u) : u.ans = MegaTruth(h, u.path) /\ Wired(h)
      <4>1. PICK h \in Since(t) : h.tool /\ r.ctrl.vds = VirtDrives(CxShow(h, 0), CxVall(h, 0))
        BY <1>2, <1>9, <2>2, <3>1 DEF Result
      <4>2. h \in Hardware /\ Wired(h)
        BY <1>3, SinceWired
      <4>3. u.ans = MegaTruth(h, u.path)
        BY <1>2, <1>9, <2>2, <4>1, <4>2, MegaTypeTrue
      <4> QED
        BY <1>4, <1>5, <2>2, <4>2, <4>3
    <3>2. Fresh(u)
      BY <3>1 DEF Fresh
    <3>3. Explained(u)
      BY <1>2, <1>9, <2>2, <3>1, PanicTruth DEF Explained
    <3> QED
      BY <1>2, <1>9, <2>2, <3>2, <3>3 DEF Right, Real, SolidOne
  <2> QED
    BY <1>2, <2>1, <2>2, Ending
<1>10. r.err \in {"ok", "unknown", "failed"}
  BY DEF Result
<1> QED
  BY <1>6, <1>7, <1>8, <1>9, <1>10

\* A new call: a result from the cache, or the first command.
LEMMA Entered ==
  ASSUME Inv, NEW k \in Callers, NEW s, IsCall(s), s.c \in Ctrls, s.todo \in Seq(Ctrls),
         s.op \in {"type", "query"}, s.op = "type" => s.path \in Paths /\ s.c = 0,
         s.since = now, s.at = 0, s.calm = TRUE, Enter(k, s),
         UNCHANGED <<kind, hw, past, now, cache>>
  PROVE  Inv'
<1>1. CacheInv'
  BY CacheKept
<1>2. now \in Nat
  BY DEF Inv, World
<1>3. CASE kind = "megaraid" /\ Cached(s.c) # {}
  <2>1. PICK r \in Cached(s.c) : Deliver(k, s, r)
    BY <1>3 DEF Enter
  <2>2. PICK e : e = cache[s.c] /\ e # None /\ now <= e.expires /\ r = e.result
    BY <2>1 DEF Cached
  <2>3. EntryInv(e, s.c)
    BY <2>2 DEF Inv, CacheInv
  <2>4. PICK t \in Int : t = e.expires - TTL /\ t <= now /\ now - TTL <= t
    <3>1. e.expires - TTL \in Int /\ e.expires - TTL <= now /\ now - TTL <= e.expires - TTL
      BY <1>2, <2>2, <2>3, TimesAssumption DEF EntryInv
    <3> QED
      BY <3>1
  <2>5. r.since \in 0 .. now /\ r.calm \in BOOLEAN /\ Result(r, s.c, t)
    BY <2>2, <2>3, <2>4 DEF EntryInv
  <2> QED
    BY <1>1, <1>3, <2>1, <2>4, <2>5, Delivered
<1>4. ASSUME NEW place \in {"show", "list"}, kind = "megaraid" => place = "show",
             Goto(k, [s EXCEPT !.pc = place])
      PROVE  Inv'
  <2>1. PICK u : u = [s EXCEPT !.pc = place]
    OBVIOUS
  <2>2. /\ IsCall(u) /\ u.pc = place /\ u.op = s.op /\ u.path = s.path /\ u.c = s.c
        /\ u.todo = s.todo /\ u.since = now /\ u.at = 0 /\ u.calm = TRUE
    BY <2>1 DEF IsCall
  <2>3. CallInv(u)
    <3>1. u.since \in 0 .. now /\ u.at \in 0 .. now /\ now - u.since <= QueryTime
      BY <1>2, <2>2, TimesAssumption
    <3>2. kind = "megaraid" => u.pc = "show"
      BY <1>4, <2>2
    <3>3. u.c \in Ctrls /\ u.todo \in Seq(Ctrls) /\ u.calm \in BOOLEAN
      BY <2>2
    <3> QED
      BY <2>2, <3>1, <3>2, <3>3 DEF CallInv
  <2>4. ShownInv(u) /\ Right(u)
    BY <1>4, <2>2, NotEnded
  <2>5. st' = [st EXCEPT ![k] = u]
    BY <1>4, <2>1 DEF Goto
  <2> QED
    BY <1>1, <2>3, <2>4, <2>5, Placed
<1>5. CASE kind = "megaraid" /\ Cached(s.c) = {}
  BY <1>4, <1>5 DEF Enter
<1>6. CASE kind # "megaraid"
  <2>1. PICK place : place = IF kind = "mpi3mr" /\ s.op = "query" THEN "show" ELSE "list"
    OBVIOUS
  <2> QED
    BY <1>4, <1>6, <2>1 DEF Enter
<1> QED
  BY <1>3, <1>5, <1>6

LEMMA ScanRaidStep ==
  ASSUME Inv, NEW k \in Callers, NEW p \in Paths, ScanRaid(k, p)
  PROVE  Inv'
<1>1. PICK s : s = [Idle EXCEPT !.op = "type", !.path = p, !.since = now]
  OBVIOUS
<1>2. /\ IsCall(s) /\ s.c = 0 /\ s.todo = <<>> /\ s.op = "type" /\ s.path = p
      /\ s.since = now /\ s.at = 0 /\ s.calm = TRUE
  BY <1>1 DEF Idle, IsCall
<1>3. Enter(k, s) /\ UNCHANGED <<kind, hw, past, now, cache>>
  BY <1>1 DEF ScanRaid
<1>4. s.c \in Ctrls /\ s.todo \in Seq(Ctrls)
  BY <1>2, NumbersAssumption
<1> QED
  BY <1>2, <1>3, <1>4, Entered

LEMMA QueryStep ==
  ASSUME Inv, NEW k \in Callers, NEW c \in Ctrls, Query(k, c)
  PROVE  Inv'
<1>1. PICK s : s = [Idle EXCEPT !.op = "query", !.c = c, !.since = now]
  OBVIOUS
<1>2. /\ IsCall(s) /\ s.c = c /\ s.todo = <<>> /\ s.op = "query"
      /\ s.since = now /\ s.at = 0 /\ s.calm = TRUE
  BY <1>1 DEF Idle, IsCall
<1>3. Enter(k, s) /\ UNCHANGED <<kind, hw, past, now, cache>>
  BY <1>1 DEF Query
<1>4. s.c \in Ctrls /\ s.todo \in Seq(Ctrls)
  BY <1>2
<1> QED
  BY <1>2, <1>3, <1>4, Entered

-----------------------------------------------------------------------------
\* megaraid: the end of a query, and its two commands.
LEMMA Remembered ==
  ASSUME Inv, kind = "megaraid", NEW k \in Callers, NEW s, s = st[k], s.pc \in {"show", "vall"},
         NEW err, NEW ctrl, NEW r,
         r = [err |-> err, ctrl |-> ctrl, since |-> s.since, calm |-> s.calm],
         Result(r, s.c, now), Remember(k, err, ctrl), UNCHANGED <<kind, hw, past, now>>
  PROVE  Inv'
<1>1. CallInv(s) /\ IsCall(s) /\ now \in Nat
  BY CallAt DEF Inv, World
<1>2. /\ s.c \in Ctrls /\ s.op \in {"type", "query"} /\ (s.op = "type" => s.path \in Paths /\ s.c = 0)
      /\ s.since \in 0 .. now /\ s.calm \in BOOLEAN
  BY <1>1 DEF CallInv
<1>3. PICK e : e = [result |-> r, expires |-> now + TTL]
  OBVIOUS
<1>4. cache' = [cache EXCEPT ![s.c] = e] /\ Deliver(k, s, r)
  BY <1>3 DEF Remember
<1>5. EntryInv(e, s.c)
  <2>1. e.expires \in Nat /\ e.expires - TTL = now /\ e.result = r
    BY <1>1, <1>3, TimesAssumption
  <2>2. r.since = s.since /\ r.calm = s.calm
    OBVIOUS
  <2> QED
    BY <1>1, <1>2, <2>1, <2>2 DEF EntryInv
<1>6. CacheInv'
  BY <1>2, <1>4, <1>5, CacheSet
<1>7. now \in Int /\ now <= now /\ now - TTL <= now
  BY <1>1, TimesAssumption
<1>8. r.since \in 0 .. now /\ r.calm \in BOOLEAN
  BY <1>2
<1> QED
  BY <1>1, <1>2, <1>4, <1>6, <1>7, <1>8, Delivered

LEMMA MegaShowStep ==
  ASSUME Inv, NEW k \in Callers, MegaShow(k)
  PROVE  Inv'
<1>1. PICK s : s = st[k]
  OBVIOUS
<1>2. CallInv(s) /\ IsCall(s) /\ now \in Nat
  BY <1>1, CallAt DEF Inv, World
<1>3. /\ kind = "megaraid" /\ s.pc = "show" /\ UNCHANGED <<kind, hw, past, now>>
      /\ s.c \in Ctrls /\ s.since \in 0 .. now
  BY <1>1, <1>2 DEF MegaShow, CallInv
<1>4. CASE (~hw.tool \/ ~Raid(hw, s.c)) /\ Remember(k, "unknown", NoCtrl)
  <2>1. PICK r : r = [err |-> "unknown", ctrl |-> NoCtrl, since |-> s.since, calm |-> s.calm]
    OBVIOUS
  <2>2. Result(r, s.c, now)
    BY <1>4, <2>1, SinceNow DEF Result
  <2> QED
    BY <1>1, <1>3, <1>4, <2>1, <2>2, Remembered
<1>5. CASE Remember(k, "failed", NoCtrl)
  <2>1. PICK r : r = [err |-> "failed", ctrl |-> NoCtrl, since |-> s.since, calm |-> s.calm]
    OBVIOUS
  <2>2. Result(r, s.c, now)
    BY <2>1 DEF Result
  <2> QED
    BY <1>1, <1>3, <1>5, <2>1, <2>2, Remembered
<1>6. CASE Goto(k, [s EXCEPT !.pc = "vall", !.shown = CxShow(hw, s.c)]) /\ UNCHANGED cache
  <2>1. PICK u : u = [s EXCEPT !.pc = "vall", !.shown = CxShow(hw, s.c)]
    OBVIOUS
  <2>2. /\ IsCall(u) /\ u.pc = "vall" /\ u.op = s.op /\ u.path = s.path /\ u.c = s.c
        /\ u.todo = s.todo /\ u.since = s.since /\ u.at = s.at /\ u.calm = s.calm
        /\ u.shown = CxShow(hw, s.c)
    BY <1>2, <2>1 DEF IsCall
  <2>3. CallInv(u)
    BY <1>2, <1>3, <2>2 DEF CallInv
  <2>4. ShownInv(u)
    <3>1. \A v \in u.shown.vds : \E w \in Of(hw, u.c) : w.id = v.id /\ w.group = v.group
      <4>1. u.shown.vds = {[id |-> w.id, group |-> w.group] : w \in Of(hw, u.c)}
        BY <2>2 DEF CxShow
      <4> QED
        BY <4>1
    <3>2. hw \in Since(u.since)
      BY SinceNow
    <3> QED
      BY <2>2, <3>1, <3>2 DEF ShownInv
  <2>5. Right(u)
    BY <2>2 DEF Right, Fresh, Real, SolidOne, Explained
  <2>6. CacheInv'
    BY <1>3, <1>6, CacheKept
  <2> QED
    BY <1>3, <1>6, <2>1, <2>3, <2>4, <2>5, <2>6, Placed DEF Goto
<1> QED
  BY <1>1, <1>4, <1>5, <1>6 DEF MegaShow

LEMMA MegaVallStep ==
  ASSUME Inv, NEW k \in Callers, MegaVall(k)
  PROVE  Inv'
<1>1. PICK s : s = st[k]
  OBVIOUS
<1>2. CallInv(s) /\ ShownInv(s) /\ IsCall(s) /\ World /\ now \in Nat
  BY <1>1, CallAt DEF Inv, World
<1>3. /\ kind = "megaraid" /\ s.pc = "vall" /\ UNCHANGED <<kind, hw, past, now>>
      /\ s.c \in Ctrls /\ s.since \in 0 .. now /\ now - s.since <= QueryTime /\ s.calm \in BOOLEAN
  BY <1>1, <1>2 DEF MegaVall, CallInv
<1> DEFINE props == CxVall(hw, s.c)
<1>8. props = IF Raid(hw, s.c) THEN CxVall(hw, s.c) ELSE {}
  <2>1. ~Raid(hw, s.c) => Of(hw, s.c) = {}
    BY <1>2 DEF World, Wired, Of
  <2> QED
    BY <2>1 DEF CxVall
<1>9. CASE ~Present(hw, s.c) /\ Remember(k, "unknown", NoCtrl)
  <2>1. PICK r : r = [err |-> "unknown", ctrl |-> NoCtrl, since |-> s.since, calm |-> s.calm]
    OBVIOUS
  <2>2. Result(r, s.c, now)
    BY <1>9, <2>1, SinceNow DEF Result, Present, Raid
  <2> QED
    BY <1>1, <1>3, <1>9, <2>1, <2>2, Remembered
<1>4. CASE Remember(k, "failed", NoCtrl)
  <2>1. PICK r : r = [err |-> "failed", ctrl |-> NoCtrl, since |-> s.since, calm |-> s.calm]
    OBVIOUS
  <2>2. Result(r, s.c, now)
    BY <2>1 DEF Result
  <2> QED
    BY <1>1, <1>3, <1>4, <2>1, <2>2, Remembered
<1>5. CASE NilVirtDrive(s.shown, props) /\ Reply(k, "panic") /\ UNCHANGED cache
  <2>1. s.calm = FALSE
    BY <1>2, <1>3, <1>5, NoNilVirtDrive DEF ShownInv
  <2>2. Answer(k, s, "panic", NoCtrl)
    BY <1>1, <1>5 DEF Reply
  <2>3. ASSUME NEW u, u.calm = s.calm, u.ctrl = NoCtrl
        PROVE  Right(u)
    BY <2>1, <2>3 DEF Right, Fresh, Real, SolidOne, Explained, NoCtrl
  <2>4. CacheInv'
    BY <1>3, <1>5, CacheKept
  <2> QED
    BY <1>2, <1>3, <2>2, <2>3, <2>4, Ending
<1>6. ASSUME hw.tool, NEW ctrl, ctrl.vds = VirtDrives(s.shown, props), Remember(k, "ok", ctrl)
      PROVE  Inv'
  <2>1. PICK r : r = [err |-> "ok", ctrl |-> ctrl, since |-> s.since, calm |-> s.calm]
    OBVIOUS
  <2>2. r.calm => hw.tool /\ r.ctrl.vds = VirtDrives(CxShow(hw, s.c), CxVall(hw, s.c))
    BY <1>2, <1>3, <1>6, <2>1 DEF ShownInv
  <2>3. Since(s.since) \subseteq Since(now - QueryTime)
    <3>1. s.since \in Int /\ now - QueryTime \in Int /\ now - QueryTime <= s.since
      BY <1>2, <1>3, TimesAssumption
    <3> QED
      BY <1>2, <3>1, SinceEarlier
  <2>4. ASSUME NEW v \in r.ctrl.vds
        PROVE  /\ \E h \in Since(now - QueryTime) : \E w \in Of(h, s.c) :
                    w.id = v.id /\ w.group = v.group
               /\ v.path # NoPath => \E h \in Since(now - QueryTime) : \E w \in Of(h, s.c) :
                                       w.id = v.id /\ w.path = v.path
    <3>1. v \in VirtDrives(s.shown, CxVall(hw, s.c))
      BY <1>6, <2>1
    <3>2. /\ \E x \in s.shown.vds : x.id = v.id /\ x.group = v.group
          /\ v.path # NoPath => \E w \in Of(hw, s.c) : w.id = v.id /\ w.path = v.path
      BY <3>1, JoinedReal
    <3>3. \A x \in s.shown.vds : \E h \in Since(s.since) : \E w \in Of(h, s.c) :
            w.id = x.id /\ w.group = x.group
      BY <1>2, <1>3 DEF ShownInv
    <3>4. \E h \in Since(now - QueryTime) : \E w \in Of(h, s.c) : w.id = v.id /\ w.group = v.group
      BY <2>3, <3>2, <3>3
    <3> QED
      BY <3>2, <3>4, SinceNow
  <2>5. Result(r, s.c, now)
    <3>1. hw \in Since(now) /\ r.err = "ok"
      BY <2>1, SinceNow
    <3> QED
      BY <2>2, <2>4, <3>1 DEF Result
  <2> QED
    BY <1>1, <1>3, <1>6, <2>1, <2>5, Remembered
<1>7. ASSUME hw.tool, Remember(k, "ok", [vds |-> VirtDrives(s.shown, props),
                                         drives |-> {d.id : d \in s.shown.drives}])
      PROVE  Inv'
  <2>1. PICK ctrl : ctrl = [vds |-> VirtDrives(s.shown, props),
                            drives |-> {d.id : d \in s.shown.drives}]
    OBVIOUS
  <2>2. ctrl.vds = VirtDrives(s.shown, props)
    BY <2>1
  <2>3. Remember(k, "ok", ctrl)
    BY <1>7, <2>1
  <2> QED
    BY <1>6, <1>7, <2>2, <2>3
<1> QED
  BY <1>1, <1>4, <1>5, <1>7, <1>8, <1>9 DEF MegaVall

-----------------------------------------------------------------------------
\* smartpqi and mpi3mr: a call that goes on with another command or controller ...
LEMMA GoesOn ==
  ASSUME Inv, kind # "megaraid", NEW k \in Callers, NEW s, s = st[k],
         s.pc \in {"show", "vall", "list", "next"}, NEW u, st' = [st EXCEPT ![k] = u],
         IsCall(u), u.pc \in {"show", "vall", "next"}, u.op = s.op, u.path = s.path,
         u.c \in Ctrls, u.todo \in Seq(Ctrls), u.since = s.since, u.at = s.at, u.calm = s.calm,
         UNCHANGED <<kind, hw, past, now, cache>>
  PROVE  Inv'
<1>1. CallInv(s)
  BY CallAt
<1>2. CallInv(u)
  BY <1>1 DEF CallInv
<1>3. ShownInv(u) /\ Right(u)
  BY NotEnded
<1> QED
  BY <1>2, <1>3, CacheKept, Placed

\* ... and one that ends with an answer.
LEMMA Replied ==
  ASSUME Inv, kind # "megaraid", NEW k \in Callers, NEW s, s = st[k],
         s.pc \in {"show", "vall", "list", "next"}, NEW ans,
         \/ ans \in {"failed", "undetermined", "HDD"}
         \/ ans = "panic" /\ kind = "mpi3mr" /\ (s.c > 0 \/ ~hw.tool)
         \/ ans = "SSD" /\ \E v \in hw.vds : v.path = s.path /\ Solid(hw, v),
         Reply(k, ans), UNCHANGED <<kind, hw, past, now, cache>>
  PROVE  Inv'
<1>1. CallInv(s) /\ IsCall(s)
  BY CallAt
<1>2. Answer(k, s, ans, NoCtrl)
  BY DEF Reply
<1>3. ASSUME NEW u, u.ans = ans, u.ctrl = NoCtrl, u.path = s.path, u.c = s.c
      PROVE  Right(u)
  <2>1. hw \in Window(u)
    BY SinceNow DEF Window
  <2>2. Fresh(u) /\ Real(u)
    BY <1>3 DEF Fresh, Real, NoCtrl
  <2>3. SolidOne(u)
    BY <1>3, <2>1 DEF SolidOne
  <2>4. Explained(u)
    BY <1>3, <2>1 DEF Explained
  <2> QED
    BY <2>2, <2>3, <2>4 DEF Right
<1>4. s.c \in Ctrls /\ s.since \in 0 .. now /\ s.calm \in BOOLEAN
  BY <1>1 DEF CallInv
<1> QED
  BY <1>1, <1>2, <1>3, <1>4, CacheKept, Ending

LEMMA Unreadable ==
  ASSUME Inv, kind # "megaraid", NEW k \in Callers, st[k].pc \in {"show", "vall"}, Unread(k),
         UNCHANGED <<kind, hw, past, now, cache>>
  PROVE  Inv'
<1>1. PICK s : s = st[k]
  OBVIOUS
<1>2. CallInv(s) /\ IsCall(s)
  BY <1>1, CallAt
<1>3. CASE Reply(k, "failed")
  BY <1>1, <1>3, Replied
<1>4. CASE Goto(k, [s EXCEPT !.pc = "next", !.bad = TRUE])
  <2>1. PICK u : u = [s EXCEPT !.pc = "next", !.bad = TRUE]
    OBVIOUS
  <2>2. /\ IsCall(u) /\ u.pc = "next" /\ u.op = s.op /\ u.path = s.path /\ u.c = s.c
        /\ u.todo = s.todo /\ u.since = s.since /\ u.at = s.at /\ u.calm = s.calm
    BY <1>2, <2>1 DEF IsCall
  <2>3. u.c \in Ctrls /\ u.todo \in Seq(Ctrls)
    BY <1>2, <2>2 DEF CallInv
  <2>4. st' = [st EXCEPT ![k] = u]
    BY <1>4, <2>1 DEF Goto
  <2> QED
    BY <1>1, <2>2, <2>3, <2>4, GoesOn
<1> QED
  BY <1>1, <1>3, <1>4 DEF Unread

\* A controller that was read: its virtual drives are there, and those called solid are.
LEMMA ReadRight ==
  ASSUME Inv, kind # "megaraid", NEW k \in Callers, NEW s, s = st[k], s.pc \in {"show", "vall"},
         NEW vds, NEW drives, Read(k, vds, drives), UNCHANGED <<kind, hw, past, now, cache>>,
         \A v \in vds : \E w \in Of(hw, s.c) :
           /\ w.id = v.id /\ w.group = v.group /\ w.path = v.path
           /\ IsSSD(v.devices) => Solid(hw, w)
  PROVE  Inv'
<1>1. CallInv(s) /\ IsCall(s)
  BY CallAt
<1>2. CASE s.op = "query"
  <2>1. PICK ctrl : ctrl = [vds |-> vds, drives |-> drives]
    OBVIOUS
  <2>2. Answer(k, s, "ok", ctrl) /\ ctrl.vds = vds
    BY <1>2, <2>1 DEF Read
  <2>3. ASSUME NEW u, u.ans = "ok", u.ctrl = ctrl, u.op = "query", u.c = s.c
        PROVE  Right(u)
    <3>1. hw \in Met(u)
      BY SinceNow DEF Met
    <3> QED
      BY <2>2, <2>3, <3>1 DEF Right, Fresh, Real, SolidOne, Explained
  <2>4. s.c \in Ctrls /\ s.since \in 0 .. now /\ s.calm \in BOOLEAN
    BY <1>1 DEF CallInv
  <2> QED
    BY <1>1, <1>2, <2>2, <2>3, <2>4, CacheKept, Ending
<1>3. CASE s.op # "query" /\ vds = {}
  <2>1. PICK u : u = [s EXCEPT !.pc = "next"]
    OBVIOUS
  <2>2. /\ IsCall(u) /\ u.pc = "next" /\ u.op = s.op /\ u.path = s.path /\ u.c = s.c
        /\ u.todo = s.todo /\ u.since = s.since /\ u.at = s.at /\ u.calm = s.calm
    BY <1>1, <2>1 DEF IsCall
  <2>3. u.c \in Ctrls /\ u.todo \in Seq(Ctrls)
    BY <1>1, <2>2 DEF CallInv
  <2>4. st' = [st EXCEPT ![k] = u]
    BY <1>3, <2>1 DEF Read, Goto
  <2> QED
    BY <2>2, <2>3, <2>4, GoesOn
<1>4. CASE s.op # "query" /\ vds # {}
  <2>1. PICK ans \in FirstTypes(vds, s.path) : Reply(k, ans)
    BY <1>4 DEF Read
  <2>2. PICK v \in vds : ans = IF v.path = s.path /\ IsSSD(v.devices) THEN "SSD" ELSE "HDD"
    BY <2>1 DEF FirstTypes
  <2>3. CASE v.path = s.path /\ IsSSD(v.devices)
    <3>1. ans = "SSD" /\ \E w \in hw.vds : w.path = s.path /\ Solid(hw, w)
      BY <2>2, <2>3 DEF Of
    <3> QED
      BY <2>1, <3>1, Replied
  <2>4. CASE ~(v.path = s.path /\ IsSSD(v.devices))
    <3>1. ans = "HDD"
      BY <2>2, <2>4
    <3> QED
      BY <2>1, <3>1, Replied
  <2> QED
    BY <2>3, <2>4
<1> QED
  BY <1>2, <1>3, <1>4

LEMMA ListStep ==
  ASSUME Inv, NEW k \in Callers, List(k)
  PROVE  Inv'
<1>1. PICK s : s = st[k]
  OBVIOUS
<1>2. CallInv(s) /\ IsCall(s)
  BY <1>1, CallAt
<1>3. kind # "megaraid" /\ s.pc = "list" /\ UNCHANGED <<kind, hw, past, now, cache>>
  BY <1>1 DEF List
<1> DEFINE ids == {c \in Ctrls : Present(hw, c)}
<1>4. CASE ~hw.tool /\ Reply(k, IF kind = "mpi3mr" THEN "panic" ELSE "failed")
  BY <1>1, <1>3, <1>4, Replied
<1>5. CASE Reply(k, "failed")
  BY <1>1, <1>3, <1>5, Replied
<1>6. CASE Goto(k, [s EXCEPT !.pc = "show"])
  <2>1. PICK u : u = [s EXCEPT !.pc = "show"]
    OBVIOUS
  <2>2. /\ IsCall(u) /\ u.pc = "show" /\ u.op = s.op /\ u.path = s.path /\ u.c = s.c
        /\ u.todo = s.todo /\ u.since = s.since /\ u.at = s.at /\ u.calm = s.calm
    BY <1>2, <2>1 DEF IsCall
  <2>3. u.c \in Ctrls /\ u.todo \in Seq(Ctrls)
    BY <1>2, <2>2 DEF CallInv
  <2>4. st' = [st EXCEPT ![k] = u]
    BY <1>6, <2>1 DEF Goto
  <2> QED
    BY <1>1, <1>3, <2>2, <2>3, <2>4, GoesOn
<1>7. CASE \E order \in InOrder(ids) : Goto(k, [s EXCEPT !.pc = "next", !.todo = order])
  <2>1. PICK order \in InOrder(ids) : Goto(k, [s EXCEPT !.pc = "next", !.todo = order])
    BY <1>7
  <2>2. order \in Seq(Ctrls)
    <3>1. ids \subseteq Ctrls /\ IsFiniteSet(ids)
      BY NumbersAssumption, FS_Subset
    <3>2. Cardinality(ids) \in Nat
      BY <3>1, FS_CardinalityType
    <3>3. order \in [1 .. Cardinality(ids) -> Ctrls]
      BY <2>1, <3>1 DEF InOrder
    <3> QED
      BY <3>2, <3>3, SeqDef
  <2>3. PICK u : u = [s EXCEPT !.pc = "next", !.todo = order]
    OBVIOUS
  <2>4. /\ IsCall(u) /\ u.pc = "next" /\ u.op = s.op /\ u.path = s.path /\ u.c = s.c
        /\ u.todo = order /\ u.since = s.since /\ u.at = s.at /\ u.calm = s.calm
    BY <1>2, <2>3 DEF IsCall
  <2>5. u.c \in Ctrls /\ u.todo \in Seq(Ctrls)
    BY <1>2, <2>2, <2>4 DEF CallInv
  <2>6. st' = [st EXCEPT ![k] = u]
    BY <2>1, <2>3 DEF Goto
  <2> QED
    BY <1>1, <1>3, <2>4, <2>5, <2>6, GoesOn
<1> QED
  BY <1>1, <1>4, <1>5, <1>6, <1>7 DEF List

LEMMA AdvanceStep ==
  ASSUME Inv, NEW k \in Callers, Advance(k)
  PROVE  Inv'
<1>1. PICK s : s = st[k]
  OBVIOUS
<1>2. CallInv(s) /\ IsCall(s)
  BY <1>1, CallAt
<1>3. kind # "megaraid" /\ s.pc = "next" /\ UNCHANGED <<kind, hw, past, now, cache>>
  BY <1>1, <1>2 DEF Advance, CallInv
<1>4. CASE s.todo = <<>>
  <2>1. PICK ans \in {"failed", "undetermined"} : Reply(k, ans)
    BY <1>1, <1>4 DEF Advance
  <2> QED
    BY <1>1, <1>3, <2>1, Replied
<1>5. CASE s.todo # <<>>
  <2>1. PICK u : u = [s EXCEPT !.pc = "show", !.c = Head(s.todo), !.todo = Tail(s.todo)]
    OBVIOUS
  <2>2. /\ IsCall(u) /\ u.pc = "show" /\ u.op = s.op /\ u.path = s.path /\ u.c = Head(s.todo)
        /\ u.todo = Tail(s.todo) /\ u.since = s.since /\ u.at = s.at /\ u.calm = s.calm
    BY <1>2, <2>1 DEF IsCall
  <2>3. u.c \in Ctrls /\ u.todo \in Seq(Ctrls)
    BY <1>2, <1>5, <2>2 DEF CallInv
  <2>4. st' = [st EXCEPT ![k] = u]
    BY <1>1, <1>5, <2>1 DEF Advance, Goto
  <2> QED
    BY <1>1, <1>3, <2>2, <2>3, <2>4, GoesOn
<1> QED
  BY <1>4, <1>5

LEMMA PqiConfigStep ==
  ASSUME Inv, NEW k \in Callers, PqiConfig(k)
  PROVE  Inv'
<1>1. PICK s : s = st[k]
  OBVIOUS
<1>2. /\ kind # "megaraid" /\ s.pc = "show" /\ UNCHANGED <<kind, hw, past, now, cache>>
      /\ hw \in Hardware
  BY <1>1 DEF PqiConfig, Inv, World
<1>3. CASE Unread(k)
  BY <1>1, <1>2, <1>3, Unreadable
<1>4. ASSUME NEW vds, NEW drives, vds = LogicalDrives(GetConf(hw, s.c)), Read(k, vds, drives)
      PROVE  Inv'
  <2>1. ASSUME NEW v \in vds
        PROVE  \E w \in Of(hw, s.c) :
                 /\ w.id = v.id /\ w.group = v.group /\ w.path = v.path
                 /\ IsSSD(v.devices) => Solid(hw, w)
    <3>1. PICK w \in Of(hw, s.c) :
            v = [id |-> w.id, group |-> w.group, path |-> w.path,
                 devices |-> {d \in Listed(hw, s.c, 0) : d.group = w.group}]
      BY <1>4 DEF LogicalDrives, GetConf
    <3>2. w \in hw.vds /\ w.c = s.c
      BY DEF Of
    <3>3. v.devices = {d \in Listed(hw, w.c, 0) : d.group = w.group}
      BY <3>1, <3>2
    <3>4. IsSSD(v.devices) => Solid(hw, w)
      BY <1>2, <3>2, <3>3, SolidDrives
    <3> QED
      BY <3>1, <3>4
  <2> QED
    BY <1>1, <1>2, <1>4, <2>1, ReadRight
<1>5. Unread(k) \/ Read(k, LogicalDrives(GetConf(hw, s.c)), {d.id : d \in GetConf(hw, s.c).drives})
  BY <1>1 DEF PqiConfig
<1> QED
  BY <1>3, <1>4, <1>5

LEMMA MpiShowStep ==
  ASSUME Inv, NEW k \in Callers, MpiShow(k)
  PROVE  Inv'
<1>1. PICK s : s = st[k]
  OBVIOUS
<1>2. CallInv(s) /\ IsCall(s)
  BY <1>1, CallAt
<1>3. kind = "mpi3mr" /\ s.pc = "show" /\ UNCHANGED <<kind, hw, past, now, cache>>
  BY <1>1 DEF MpiShow
<1>4. CASE ~hw.tool /\ Reply(k, "panic")
  BY <1>1, <1>3, <1>4, Replied
<1>5. CASE Unread(k)
  BY <1>1, <1>3, <1>5, Unreadable
<1>6. ASSUME NEW D, Goto(k, [s EXCEPT !.pc = "vall", !.shown = [vds |-> {}, drives |-> D]])
      PROVE  Inv'
  <2>1. PICK u : u = [s EXCEPT !.pc = "vall", !.shown = [vds |-> {}, drives |-> D]]
    OBVIOUS
  <2>2. /\ IsCall(u) /\ u.pc = "vall" /\ u.op = s.op /\ u.path = s.path /\ u.c = s.c
        /\ u.todo = s.todo /\ u.since = s.since /\ u.at = s.at /\ u.calm = s.calm
    BY <1>2, <2>1 DEF IsCall
  <2>3. u.c \in Ctrls /\ u.todo \in Seq(Ctrls)
    BY <1>2, <2>2 DEF CallInv
  <2>4. st' = [st EXCEPT ![k] = u]
    BY <1>6, <2>1 DEF Goto
  <2> QED
    BY <1>1, <1>3, <2>2, <2>3, <2>4, GoesOn
<1> QED
  BY <1>1, <1>4, <1>5, <1>6 DEF MpiShow

LEMMA MpiVallStep ==
  ASSUME Inv, NEW k \in Callers, MpiVall(k)
  PROVE  Inv'
<1>1. PICK s : s = st[k]
  OBVIOUS
<1>2. /\ kind = "mpi3mr" /\ s.pc = "vall" /\ UNCHANGED <<kind, hw, past, now, cache>>
      /\ hw \in Hardware /\ s.c \in Nat
  BY <1>1, CallAt, NumbersAssumption DEF MpiVall, Inv, World, CallInv
<1>3. CASE (~hw.tool \/ s.c > 0) /\ Reply(k, "panic")
  BY <1>1, <1>2, <1>3, Replied
<1>4. CASE Unread(k)
  BY <1>1, <1>2, <1>4, Unreadable
<1>5. ASSUME NEW vds, NEW drives, vds = VirtualDrives(Cx2Vall(hw, 0)), Read(k, vds, drives),
             s.c = 0
      PROVE  Inv'
  <2>1. ASSUME NEW v \in vds
        PROVE  \E w \in Of(hw, s.c) :
                 /\ w.id = v.id /\ w.group = v.group /\ w.path = v.path
                 /\ IsSSD(v.devices) => Solid(hw, w)
    <3>1. PICK x \in Cx2Vall(hw, 0) :
            v = [id |-> x.vd.id, group |-> x.vd.group, path |-> x.vd.path, devices |-> x.pds]
      BY <1>5 DEF VirtualDrives
    <3>2. PICK w \in Of(hw, 0) :
            x = [vd |-> w, pds |-> {d \in Listed(hw, 0, Free) : d.group = w.group}]
      BY DEF Cx2Vall
    <3>3. w \in hw.vds /\ w.c = 0
      BY DEF Of
    <3>4. v.devices = {d \in Listed(hw, w.c, Free) : d.group = w.group}
      BY <3>1, <3>2, <3>3
    <3>5. IsSSD(v.devices) => Solid(hw, w)
      BY <1>2, <3>3, <3>4, SolidDrives
    <3> QED
      BY <1>5, <3>1, <3>2, <3>5
  <2> QED
    BY <1>1, <1>2, <1>5, <2>1, ReadRight
<1>6. \/ (~hw.tool \/ s.c > 0) /\ Reply(k, "panic")
      \/ Unread(k)
      \/ /\ ~(s.c > 0)
         /\ Read(k, VirtualDrives(Cx2Vall(hw, 0)), {d.id : d \in s.shown.drives})
  BY <1>1 DEF MpiVall
<1>7. ~(s.c > 0) => s.c = 0
  BY <1>2
<1> QED
  BY <1>3, <1>4, <1>5, <1>6, <1>7

-----------------------------------------------------------------------------
\* Disks behind no controller: nothing the RAID properties speak of.
LEMMA PlainCall ==
  ASSUME NEW u, u.op = "type", u.path \in Plain, u.pc # "done" \/ u.ans # "panic",
         u.pc # "vall" \/ kind # "megaraid"
  PROVE  ShownInv(u) /\ Right(u)
BY PlainAssumption DEF ShownInv, Right, Fresh, Real, SolidOne, Explained

LEMMA KernelTypes ==
  \A p, v : KernelType(p, v) \in {"NVME", "SSD", "failed", "HDD"}
BY DEF KernelType

LEMMA PlainMoves ==
  ASSUME Inv, NEW k \in Callers, NEW s, IsCall(s), s.op = "type", s.path \in Plain,
         s.c \in Ctrls, s.todo \in Seq(Ctrls), s.calm \in BOOLEAN,
         s.since \in 0 .. now, s.at \in 0 .. now,
         NEW u, st' = [st EXCEPT ![k] = u],
         IsCall(u), u.pc \in {"virt", "detect", "assign", "return"}, u.op = s.op, u.path = s.path,
         u.c = s.c, u.todo = s.todo, u.since = s.since, u.at = s.at, u.calm = s.calm,
         UNCHANGED <<kind, hw, past, now, cache>>
  PROVE  Inv'
<1>1. CallInv(u)
  BY DEF CallInv
<1>2. ShownInv(u) /\ Right(u)
  BY PlainCall
<1> QED
  BY <1>1, <1>2, CacheKept, Placed

LEMMA PlainEnds ==
  ASSUME Inv, NEW k \in Callers, NEW s, IsCall(s), s.op = "type", s.path \in Plain,
         s.c \in Ctrls, s.calm \in BOOLEAN, s.since \in 0 .. now,
         NEW ans, ans \in {"NVME", "SSD", "failed", "HDD"}, Answer(k, s, ans, NoCtrl),
         UNCHANGED <<kind, hw, past, now, cache>>
  PROVE  Inv'
<1>1. ASSUME NEW u, u.pc = "done", u.ans = ans, u.op = s.op, u.path = s.path
      PROVE  Right(u)
  BY <1>1, PlainCall
<1> QED
  BY <1>1, CacheKept, Ending

LEMMA ScanPlainStep ==
  ASSUME Inv, NEW k \in Callers, NEW p \in Plain, ScanPlain(k, p)
  PROVE  Inv'
<1>1. PICK s : s = [Idle EXCEPT !.op = "type", !.path = p, !.since = now]
  OBVIOUS
<1>2. /\ IsCall(s) /\ s.c = 0 /\ s.todo = <<>> /\ s.op = "type" /\ s.path = p
      /\ s.since = now /\ s.at = 0 /\ s.calm = TRUE
  BY <1>1 DEF Idle, IsCall
<1>3. s.c \in Ctrls /\ s.todo \in Seq(Ctrls) /\ s.calm \in BOOLEAN
  <2>1. s.c \in Ctrls /\ s.todo \in Seq(Ctrls)
    BY <1>2, NumbersAssumption
  <2> QED
    BY <1>2, <2>1
<1>4. s.since \in 0 .. now /\ s.at \in 0 .. now
  BY <1>2 DEF Inv, World
<1>5. UNCHANGED <<kind, hw, past, now, cache>>
  BY DEF ScanPlain
<1>6. CASE Answer(k, s, "NVME", NoCtrl)
  BY <1>2, <1>3, <1>4, <1>5, <1>6, PlainEnds
<1>7. CASE Goto(k, [s EXCEPT !.pc = "virt"])
  <2>1. PICK u : u = [s EXCEPT !.pc = "virt"]
    OBVIOUS
  <2>2. /\ IsCall(u) /\ u.pc = "virt" /\ u.op = s.op /\ u.path = s.path /\ u.c = s.c
        /\ u.todo = s.todo /\ u.since = s.since /\ u.at = s.at /\ u.calm = s.calm
    BY <1>2, <2>1 DEF IsCall
  <2>3. st' = [st EXCEPT ![k] = u]
    BY <1>7, <2>1 DEF Goto
  <2> QED
    BY <1>2, <1>3, <1>4, <1>5, <2>2, <2>3, PlainMoves
<1> QED
  BY <1>1, <1>6, <1>7 DEF ScanPlain

LEMMA VirtStep ==
  ASSUME Inv, NEW k \in Callers, CheckVirt(k) \/ DetectVirt(k) \/ AssignVirt(k) \/ ReturnVirt(k)
  PROVE  Inv'
<1>1. PICK s : s = st[k]
  OBVIOUS
<1>2. CallInv(s) /\ IsCall(s)
  BY <1>1, CallAt
<1>3. /\ s.op = "type" /\ s.path \in Plain /\ s.c \in Ctrls /\ s.todo \in Seq(Ctrls)
      /\ s.calm \in BOOLEAN /\ s.since \in 0 .. now /\ s.at \in 0 .. now
  BY <1>1, <1>2 DEF CallInv, CheckVirt, DetectVirt, AssignVirt, ReturnVirt
<1>4. UNCHANGED <<kind, hw, past, now, cache>>
  BY DEF CheckVirt, DetectVirt, AssignVirt, ReturnVirt
<1>5. ASSUME NEW place \in {"detect", "return"}, Goto(k, [s EXCEPT !.pc = place])
      PROVE  Inv'
  <2>1. PICK u : u = [s EXCEPT !.pc = place]
    OBVIOUS
  <2>2. /\ IsCall(u) /\ u.pc = place /\ u.op = s.op /\ u.path = s.path /\ u.c = s.c
        /\ u.todo = s.todo /\ u.since = s.since /\ u.at = s.at /\ u.calm = s.calm
    BY <1>2, <2>1 DEF IsCall
  <2>3. st' = [st EXCEPT ![k] = u]
    BY <1>5, <2>1 DEF Goto
  <2> QED
    BY <1>2, <1>3, <1>4, <2>2, <2>3, PlainMoves
<1>6. CASE CheckVirt(k)
  <2>1. PICK place \in {"detect", "return"} : Goto(k, [s EXCEPT !.pc = place])
    BY <1>1, <1>6 DEF CheckVirt
  <2> QED
    BY <1>5, <2>1
<1>7. CASE DetectVirt(k)
  <2>1. PICK v : Goto(k, [s EXCEPT !.pc = "assign", !.virt = v])
    BY <1>1, <1>7 DEF DetectVirt
  <2>2. PICK u : u = [s EXCEPT !.pc = "assign", !.virt = v]
    OBVIOUS
  <2>3. /\ IsCall(u) /\ u.pc = "assign" /\ u.op = s.op /\ u.path = s.path /\ u.c = s.c
        /\ u.todo = s.todo /\ u.since = s.since /\ u.at = s.at /\ u.calm = s.calm
    BY <1>2, <2>2 DEF IsCall
  <2>4. st' = [st EXCEPT ![k] = u]
    BY <2>1, <2>2 DEF Goto
  <2> QED
    BY <1>2, <1>3, <1>4, <2>3, <2>4, PlainMoves
<1>8. CASE AssignVirt(k)
  BY <1>1, <1>5, <1>8 DEF AssignVirt
<1>9. CASE ReturnVirt(k)
  <2>1. Answer(k, s, KernelType(s.path, virt), NoCtrl)
    BY <1>1, <1>9 DEF ReturnVirt, Reply
  <2>2. PICK ans \in {"NVME", "SSD", "failed", "HDD"} : ans = KernelType(s.path, virt)
    BY KernelTypes
  <2>3. Answer(k, s, ans, NoCtrl)
    BY <2>1, <2>2
  <2> QED
    BY <1>2, <1>3, <1>4, <2>2, <2>3, PlainEnds
<1> QED
  BY <1>6, <1>7, <1>8, <1>9

LEMMA IdleCall ==
  ASSUME World
  PROVE  CallInv(Idle) /\ ShownInv(Idle) /\ Right(Idle)
<1>1. PICK s : s = Idle
  OBVIOUS
<1>2. /\ IsCall(s) /\ s.c = 0 /\ s.todo = <<>> /\ s.pc = "idle" /\ s.since = 0 /\ s.at = 0
      /\ s.calm = TRUE
  BY <1>1 DEF Idle, IsCall
<1>3. s.c \in Ctrls /\ s.todo \in Seq(Ctrls) /\ s.since \in 0 .. now /\ s.at \in 0 .. now
  BY <1>2, NumbersAssumption DEF World
<1>4. CallInv(s)
  BY <1>2, <1>3 DEF CallInv
<1>5. ShownInv(s) /\ Right(s)
  BY <1>2, NotEnded
<1> QED
  BY <1>1, <1>4, <1>5

LEMMA LeaveStep ==
  ASSUME Inv, NEW k \in Callers, Leave(k)
  PROVE  Inv'
<1>1. PICK u : u = Idle
  OBVIOUS
<1>2. CallInv(u) /\ ShownInv(u) /\ Right(u)
  BY <1>1, IdleCall DEF Inv
<1>3. st' = [st EXCEPT ![k] = u] /\ UNCHANGED <<kind, hw, past, now, cache>>
  BY <1>1 DEF Leave, Goto
<1> QED
  BY <1>2, <1>3, CacheKept, Placed

-----------------------------------------------------------------------------
LEMMA InvInit == Init => Inv
<1> SUFFICES ASSUME Init PROVE Inv
  OBVIOUS
<1>1. World
  BY MachinesAssumption DEF Init, World
<1>2. CacheInv
  BY DEF Init, CacheInv
<1>3. CallersInv
  <2>1. \A k \in Callers : st[k] = Idle
    BY DEF Init
  <2>2. st = [k \in Callers |-> st[k]]
    BY DEF Init
  <2>3. \A s : s = Idle => CallInv(s) /\ ShownInv(s) /\ Right(s)
    BY <1>1, IdleCall
  <2> QED
    BY <2>1, <2>2, <2>3 DEF CallersInv
<1> QED
  BY <1>1, <1>2, <1>3 DEF Inv

LEMMA InvStep == Inv /\ [NextStep]_vars => Inv'
<1> SUFFICES ASSUME Inv, [NextStep]_vars PROVE Inv'
  OBVIOUS
<1>1. CASE Tick \/ Change
  BY <1>1, ClockStep
<1>2. CASE UNCHANGED vars
  <2>1. CacheInv'
    BY <1>2, CacheKept DEF vars
  <2>2. World'
    BY <1>2 DEF vars, Inv, World
  <2>3. \A t : Since(t)' = Since(t)
    BY <1>2 DEF vars, Since
  <2>4. ASSUME NEW s, CallInv(s) /\ ShownInv(s) /\ Right(s)
        PROVE  CallInv(s)' /\ ShownInv(s)' /\ Right(s)'
    <3>1. CallInv(s)' /\ ShownInv(s)'
      BY <1>2, <2>3, <2>4 DEF vars, CallInv, ShownInv
    <3>2. Window(s)' = Window(s) /\ Met(s)' = Met(s)
      BY <1>2, <2>3 DEF vars, Window, Met
    <3>3. Right(s)'
      BY <1>2, <2>4, <3>2 DEF vars, Right, Fresh, Real, SolidOne, Explained
    <3> QED
      BY <3>1, <3>3
  <2>5. CallersInv'
    BY <1>2, <2>4 DEF vars, Inv, CallersInv
  <2> QED
    BY <2>1, <2>2, <2>5 DEF Inv
<1>3. ASSUME NEW k \in Callers,
             \/ \E p \in Paths : ScanRaid(k, p)
             \/ \E c \in Ctrls : Query(k, c)
             \/ \E p \in Plain : ScanPlain(k, p)
             \/ Step(k) \/ Leave(k)
      PROVE  Inv'
  <2>1. CASE \E p \in Paths : ScanRaid(k, p)
    BY <2>1, ScanRaidStep
  <2>2. CASE \E c \in Ctrls : Query(k, c)
    BY <2>2, QueryStep
  <2>3. CASE \E p \in Plain : ScanPlain(k, p)
    BY <2>3, ScanPlainStep
  <2>4. CASE Step(k)
    BY <2>4, MegaShowStep, MegaVallStep, ListStep, AdvanceStep, PqiConfigStep, MpiShowStep,
       MpiVallStep, VirtStep DEF Step
  <2>5. CASE Leave(k)
    BY <2>5, LeaveStep
  <2> QED
    BY <1>3, <2>1, <2>2, <2>3, <2>4, <2>5
<1> QED
  BY <1>1, <1>2, <1>3 DEF NextStep

THEOREM InvCorrect == Spec => []Inv
BY InvInit, InvStep, PTL DEF Spec

\* Each property is what Inv says of the calls that have ended.
LEMMA FinishedRight ==
  ASSUME Inv, NEW op, NEW s \in Finished(op)
  PROVE  s.pc = "done" /\ s.op = op /\ Right(s)
<1>1. PICK k \in Callers : s = st[k] /\ s.pc = "done" /\ s.op = op
  BY DEF Finished
<1> QED
  BY <1>1 DEF Inv, CallersInv

\* No answer of megaraid about a disk is older than what the cache may keep: whatever
\* queries overlap, fail or are late, it was true at some time within TTL.
THEOREM FreshAnswerCorrect == Spec => []FreshAnswer
<1>1. Inv => FreshAnswer
  BY FinishedRight DEF FreshAnswer, Right, Fresh
<1> QED
  BY <1>1, InvCorrect, PTL

\* Although two commands make a query, and the hardware may change between them, what
\* is reported of a virtual drive was so while the query ran.
THEOREM NothingInventedCorrect == Spec => []NothingInvented
<1>1. Inv => NothingInvented
  BY FinishedRight DEF NothingInvented, Right, Real
<1> QED
  BY <1>1, InvCorrect, PTL

\* smartpqi and mpi3mr call no disk with a rotating drive solid.
THEOREM SolidIsSolidCorrect == Spec => []SolidIsSolid
<1>1. Inv => SolidIsSolid
  BY FinishedRight DEF SolidIsSolid, Right, SolidOne
<1> QED
  BY <1>1, InvCorrect, PTL

\* Nothing but the three things named brings down a query of hardware at rest.
THEOREM PanicExplainedCorrect == Spec => []PanicExplained
<1>1. Inv => PanicExplained
  <2> SUFFICES ASSUME Inv, NEW k \in Callers, NEW s, s = st[k],
                      s.pc = "done" /\ s.ans = "panic" /\ s.calm
               PROVE  \/ /\ kind = "megaraid" /\ s.op = "type"
                         /\ \E h \in Window(s) : \E v \in Of(h, 0) :
                              v.path = s.path /\ Members(h, 0, v.group) = {}
                      \/ kind = "mpi3mr" /\ (s.c > 0 \/ \E h \in Window(s) : ~h.tool)
    BY DEF PanicExplained
  <2>1. Explained(s)
    BY DEF Inv, CallersInv, Right
  <2> QED
    BY <2>1 DEF Explained
<1> QED
  BY <1>1, InvCorrect, PTL

-----------------------------------------------------------------------------
\* Disks behind no controller: the virtualisation type.  Every caller holds the machine's
\* own type when it assigns it, and the variable never goes back.
TypeKnown(s) ==
  /\ s.pc = "assign" => s.virt = guest
  /\ s.pc = "return" => virt = guest
  /\ s.pc = "done" /\ s.op = "type" /\ s.path \in Plain => s.ans = KernelType(s.path, guest)

VirtInv ==
  /\ guest \in {"kvm", "none"} /\ misread \in BOOLEAN
  /\ ~misread => /\ virt \in {"unset", guest}
                 /\ \A k \in Callers : \A s : s = st[k] => TypeKnown(s)

\* A step that puts a call in its caller's place leaves the other callers' types known.
LEMMA KnownElse ==
  ASSUME Inv, VirtInv, NEW k \in Callers, NEW u, st' = [st EXCEPT ![k] = u],
         UNCHANGED guest, misread' \in BOOLEAN, misread => misread',
         ~misread' => virt' \in {"unset", guest} /\ (virt = guest => virt' = guest)
                        /\ TypeKnown(u)'
  PROVE  VirtInv'
<1>1. \A j \in Callers : st'[j] = IF j = k THEN u ELSE st[j]
  BY DEF Inv, CallersInv
<1>2. ASSUME ~misread', NEW j \in Callers, NEW s, s = st'[j]
      PROVE  TypeKnown(s)'
  <2>1. CASE j = k
    BY <1>1, <1>2, <2>1
  <2>2. CASE j # k
    <3>1. TypeKnown(s)
      BY <1>1, <1>2, <2>2 DEF VirtInv
    <3> QED
      BY <1>2, <3>1 DEF TypeKnown
  <2> QED
    BY <2>1, <2>2
<1> QED
  BY <1>2 DEF VirtInv

\* The calls on controllers: their disks are not plain.
OnController(k) ==
  \E u : /\ st' = [st EXCEPT ![k] = u] /\ u.pc \notin {"assign", "return"}
         /\ u.op = "type" => u.path \in Paths

LEMMA AnswerOnController ==
  ASSUME NEW k, NEW s, NEW ans, NEW ctrl, IsCall(s), Answer(k, s, ans, ctrl),
         s.op = "type" => s.path \in Paths
  PROVE  OnController(k)
BY Answered DEF OnController

LEMMA PlaceOnController ==
  ASSUME NEW k, NEW u, Goto(k, u), u.pc \notin {"assign", "return"},
         u.op = "type" => u.path \in Paths
  PROVE  OnController(k)
BY DEF OnController, Goto

LEMMA DeliverOnController ==
  ASSUME NEW k, NEW s, NEW r, IsCall(s), Deliver(k, s, r), s.op = "type" => s.path \in Paths
  PROVE  OnController(k)
<1>1. PICK q : q = [s EXCEPT !.since = r.since, !.calm = r.calm]
  OBVIOUS
<1>2. IsCall(q) /\ q.op = s.op /\ q.path = s.path
  BY <1>1 DEF IsCall
<1> DEFINE missing == r.err = "unknown" /\ s.op = "type"
<1>3. \E ans, ctrl : Answer(k, q, ans, ctrl)
  <2>1. CASE missing
    <3>1. Answer(k, q, "undetermined", NoCtrl)
      BY <1>1, <2>1 DEF Deliver
    <3> QED
      BY <3>1
  <2>2. CASE r.err # "ok" /\ ~missing
    <3>1. Answer(k, q, "failed", NoCtrl)
      BY <1>1, <2>2 DEF Deliver
    <3> QED
      BY <3>1
  <2>3. CASE r.err = "ok" /\ s.op = "query"
    <3>1. Answer(k, q, "ok", r.ctrl)
      BY <1>1, <2>3 DEF Deliver
    <3> QED
      BY <3>1
  <2>4. CASE r.err = "ok" /\ s.op # "query"
    <3>1. Answer(k, q, MegaType(r.ctrl.vds, s.path), NoCtrl)
      BY <1>1, <2>4 DEF Deliver
    <3> QED
      BY <3>1
  <2> QED
    BY <2>1, <2>2, <2>3, <2>4
<1> QED
  BY <1>2, <1>3, AnswerOnController

LEMMA EnterOnController ==
  ASSUME NEW k, NEW s, IsCall(s), Enter(k, s), s.op = "type" => s.path \in Paths
  PROVE  OnController(k)
<1>1. CASE \E r : Deliver(k, s, r)
  BY <1>1, DeliverOnController
<1>2. CASE \E place \in {"show", "list"} : Goto(k, [s EXCEPT !.pc = place])
  <2>1. PICK place \in {"show", "list"} : Goto(k, [s EXCEPT !.pc = place])
    BY <1>2
  <2>2. PICK u : u = [s EXCEPT !.pc = place]
    OBVIOUS
  <2>3. u.pc = place /\ u.op = s.op /\ u.path = s.path
    BY <2>2 DEF IsCall
  <2> QED
    BY <2>1, <2>2, <2>3, PlaceOnController
<1>3. CASE kind = "megaraid" /\ Cached(s.c) # {}
  BY <1>1, <1>3 DEF Enter
<1>4. CASE kind = "megaraid" /\ Cached(s.c) = {}
  BY <1>2, <1>4 DEF Enter
<1>5. CASE kind # "megaraid"
  <2>1. PICK place : place = IF kind = "mpi3mr" /\ s.op = "query" THEN "show" ELSE "list"
    OBVIOUS
  <2> QED
    BY <1>2, <1>5, <2>1 DEF Enter
<1> QED
  BY <1>3, <1>4, <1>5

LEMMA RaidOnController ==
  ASSUME Inv, NEW k \in Callers,
         MegaShow(k) \/ MegaVall(k) \/ List(k) \/ Advance(k) \/ PqiConfig(k) \/ MpiShow(k) \/ MpiVall(k)
  PROVE  OnController(k)
<1>1. PICK s : s = st[k]
  OBVIOUS
<1>2. CallInv(s) /\ IsCall(s)
  BY <1>1, CallAt
<1>3. s.op = "type" => s.path \in Paths
  BY <1>1, <1>2 DEF CallInv, MegaShow, MegaVall, List, Advance, PqiConfig, MpiShow, MpiVall
<1>4. ASSUME NEW ans, Reply(k, ans) PROVE OnController(k)
  BY <1>1, <1>2, <1>3, <1>4, AnswerOnController DEF Reply
<1>5. ASSUME NEW err, NEW ctrl, Remember(k, err, ctrl) PROVE OnController(k)
  BY <1>1, <1>2, <1>3, <1>5, DeliverOnController DEF Remember
<1>6. ASSUME NEW u, Goto(k, u), u.op = s.op, u.path = s.path, u.pc \in {"show", "vall", "next"}
      PROVE  OnController(k)
  BY <1>3, <1>6, PlaceOnController
<1>7. CASE MegaShow(k)
  <2>1. PICK u : u = [s EXCEPT !.pc = "vall", !.shown = CxShow(hw, s.c)]
    OBVIOUS
  <2>2. u.op = s.op /\ u.path = s.path /\ u.pc = "vall"
    BY <1>2, <2>1 DEF IsCall
  <2> QED
    BY <1>1, <1>5, <1>6, <1>7, <2>1, <2>2 DEF MegaShow
<1>8. CASE MegaVall(k)
  BY <1>4, <1>5, <1>8 DEF MegaVall
<1>9. CASE List(k)
  <2>1. ASSUME NEW order, Goto(k, [s EXCEPT !.pc = "next", !.todo = order])
        PROVE  OnController(k)
    <3>1. PICK u : u = [s EXCEPT !.pc = "next", !.todo = order]
      OBVIOUS
    <3>2. u.op = s.op /\ u.path = s.path /\ u.pc = "next"
      BY <1>2, <3>1 DEF IsCall
    <3> QED
      BY <1>6, <2>1, <3>1, <3>2
  <2>2. ASSUME Goto(k, [s EXCEPT !.pc = "show"])
        PROVE  OnController(k)
    <3>1. PICK u : u = [s EXCEPT !.pc = "show"]
      OBVIOUS
    <3>2. u.op = s.op /\ u.path = s.path /\ u.pc = "show"
      BY <1>2, <3>1 DEF IsCall
    <3> QED
      BY <1>6, <2>2, <3>1, <3>2
  <2> QED
    BY <1>1, <1>4, <1>9, <2>1, <2>2 DEF List
<1>10. CASE Advance(k)
  <2>1. PICK u : u = [s EXCEPT !.pc = "show", !.c = Head(s.todo), !.todo = Tail(s.todo)]
    OBVIOUS
  <2>2. u.op = s.op /\ u.path = s.path /\ u.pc = "show"
    BY <1>2, <2>1 DEF IsCall
  <2> QED
    BY <1>1, <1>4, <1>6, <1>10, <2>1, <2>2 DEF Advance
<1>11. ASSUME Unread(k) PROVE OnController(k)
  <2>1. PICK u : u = [s EXCEPT !.pc = "next", !.bad = TRUE]
    OBVIOUS
  <2>2. u.op = s.op /\ u.path = s.path /\ u.pc = "next"
    BY <1>2, <2>1 DEF IsCall
  <2> QED
    BY <1>1, <1>4, <1>6, <1>11, <2>1, <2>2 DEF Unread
<1>12. ASSUME NEW vds, NEW drives, Read(k, vds, drives) PROVE OnController(k)
  <2>1. PICK u : u = [s EXCEPT !.pc = "next"]
    OBVIOUS
  <2>2. u.op = s.op /\ u.path = s.path /\ u.pc = "next"
    BY <1>2, <2>1 DEF IsCall
  <2> QED
    BY <1>1, <1>2, <1>3, <1>4, <1>6, <1>12, <2>1, <2>2, AnswerOnController DEF Read
<1>13. CASE PqiConfig(k)
  BY <1>11, <1>12, <1>13 DEF PqiConfig
<1>14. CASE MpiShow(k)
  <2>1. ASSUME NEW D, Goto(k, [s EXCEPT !.pc = "vall", !.shown = [vds |-> {}, drives |-> D]])
        PROVE  OnController(k)
    <3>1. PICK u : u = [s EXCEPT !.pc = "vall", !.shown = [vds |-> {}, drives |-> D]]
      OBVIOUS
    <3>2. u.op = s.op /\ u.path = s.path /\ u.pc = "vall"
      BY <1>2, <3>1 DEF IsCall
    <3> QED
      BY <1>6, <2>1, <3>1, <3>2
  <2> QED
    BY <1>1, <1>4, <1>11, <1>14, <2>1 DEF MpiShow
<1>15. CASE MpiVall(k)
  BY <1>4, <1>11, <1>12, <1>15 DEF MpiVall
<1> QED
  BY <1>7, <1>8, <1>9, <1>10, <1>13, <1>14, <1>15

LEMMA KnownOnController ==
  ASSUME Inv, VirtInv, NEW k \in Callers, OnController(k), UNCHANGED <<guest, virt, misread>>
  PROVE  VirtInv'
<1>1. PICK u : /\ st' = [st EXCEPT ![k] = u] /\ u.pc \notin {"assign", "return"}
               /\ u.op = "type" => u.path \in Paths
  BY DEF OnController
<1>2. TypeKnown(u)'
  BY <1>1, PlainAssumption DEF TypeKnown
<1> QED
  BY <1>1, <1>2, KnownElse DEF VirtInv

LEMMA ScanPlainKnown ==
  ASSUME Inv, VirtInv, NEW k \in Callers, NEW p \in Plain, ScanPlain(k, p)
  PROVE  VirtInv'
<1>1. PICK s : s = [Idle EXCEPT !.op = "type", !.path = p, !.since = now]
  OBVIOUS
<1>2. IsCall(s) /\ s.op = "type" /\ s.path = p
  BY <1>1 DEF Idle, IsCall
<1>3. UNCHANGED <<guest, virt, misread>>
  BY DEF ScanPlain
<1>4. CASE p = "nvme"
  <2>1. Answer(k, s, "NVME", NoCtrl)
    BY <1>1, <1>4 DEF ScanPlain
  <2>2. PICK u : /\ st' = [st EXCEPT ![k] = u] /\ u.pc = "done" /\ u.ans = "NVME"
                 /\ u.path = p
    BY <1>2, <2>1, Answered
  <2>3. TypeKnown(u)'
    BY <1>4, <2>2 DEF TypeKnown, KernelType
  <2> QED
    BY <1>3, <2>2, <2>3, KnownElse DEF VirtInv
<1>5. CASE p # "nvme"
  <2>1. PICK u : u = [s EXCEPT !.pc = "virt"]
    OBVIOUS
  <2>2. st' = [st EXCEPT ![k] = u] /\ u.pc = "virt"
    BY <1>1, <1>2, <1>5, <2>1 DEF ScanPlain, Goto, IsCall
  <2>3. TypeKnown(u)'
    BY <2>2 DEF TypeKnown
  <2> QED
    BY <1>3, <2>2, <2>3, KnownElse DEF VirtInv
<1> QED
  BY <1>4, <1>5

LEMMA VirtKnown ==
  ASSUME Inv, VirtInv, NEW k \in Callers,
         CheckVirt(k) \/ DetectVirt(k) \/ AssignVirt(k) \/ ReturnVirt(k)
  PROVE  VirtInv'
<1>1. PICK s : s = st[k]
  OBVIOUS
<1>2. IsCall(s) /\ (~misread => TypeKnown(s)) /\ UNCHANGED guest
  BY <1>1, CallAt DEF VirtInv, CheckVirt, DetectVirt, AssignVirt, ReturnVirt
<1>3. CASE CheckVirt(k)
  <2>1. PICK u : u = [s EXCEPT !.pc = IF virt # "unset" THEN "return" ELSE "detect"]
    OBVIOUS
  <2>2. /\ st' = [st EXCEPT ![k] = u]
        /\ u.pc = IF virt # "unset" THEN "return" ELSE "detect"
    BY <1>1, <1>2, <1>3, <2>1 DEF CheckVirt, Goto, IsCall
  <2>3. UNCHANGED <<virt, misread>>
    BY <1>3 DEF CheckVirt
  <2>4. ~misread' => TypeKnown(u)'
    BY <1>2, <2>2, <2>3 DEF TypeKnown, VirtInv
  <2> QED
    BY <1>2, <2>2, <2>3, <2>4, KnownElse DEF VirtInv
<1>4. CASE DetectVirt(k)
  <2>1. PICK v \in {guest, "unknown", "error"} :
          /\ misread' = (misread \/ v # guest)
          /\ Goto(k, [s EXCEPT !.pc = "assign", !.virt = v])
    BY <1>1, <1>4 DEF DetectVirt
  <2>2. PICK u : u = [s EXCEPT !.pc = "assign", !.virt = v]
    OBVIOUS
  <2>3. st' = [st EXCEPT ![k] = u] /\ u.pc = "assign" /\ u.virt = v
    BY <1>2, <2>1, <2>2 DEF Goto, IsCall
  <2>4. UNCHANGED virt /\ misread' \in BOOLEAN /\ (misread => misread') /\ (~misread' => v = guest)
    BY <1>4, <2>1 DEF DetectVirt, VirtInv
  <2>5. ~misread' => TypeKnown(u)'
    BY <1>2, <2>3, <2>4 DEF TypeKnown
  <2> QED
    BY <1>2, <2>3, <2>4, <2>5, KnownElse DEF VirtInv
<1>5. CASE AssignVirt(k)
  <2>1. PICK u : u = [s EXCEPT !.pc = "return"]
    OBVIOUS
  <2>2. st' = [st EXCEPT ![k] = u] /\ u.pc = "return" /\ s.pc = "assign"
    BY <1>1, <1>2, <1>5, <2>1 DEF AssignVirt, Goto, IsCall
  <2>3. /\ UNCHANGED misread
        /\ virt' = IF s.virt = "unknown" /\ virt # "unset" THEN virt ELSE s.virt
    BY <1>1, <1>5 DEF AssignVirt
  <2>4. ~misread => virt' = guest
    BY <1>2, <2>2, <2>3 DEF TypeKnown, VirtInv
  <2>5. ~misread' => TypeKnown(u)'
    BY <1>2, <2>2, <2>3, <2>4 DEF TypeKnown
  <2> QED
    BY <1>2, <2>2, <2>3, <2>4, <2>5, KnownElse DEF VirtInv
<1>6. CASE ReturnVirt(k)
  <2>1. /\ Answer(k, s, KernelType(s.path, virt), NoCtrl) /\ s.pc = "return"
        /\ UNCHANGED <<virt, misread>>
    BY <1>1, <1>6 DEF ReturnVirt, Reply
  <2>2. PICK u : /\ st' = [st EXCEPT ![k] = u] /\ u.pc = "done"
                 /\ u.ans = KernelType(s.path, virt) /\ u.path = s.path
    BY <1>2, <2>1, Answered
  <2>3. ~misread => virt = guest
    BY <1>2, <2>1 DEF TypeKnown
  <2>4. ~misread' => TypeKnown(u)'
    BY <1>2, <2>1, <2>2, <2>3 DEF TypeKnown
  <2> QED
    BY <1>2, <2>1, <2>2, <2>4, KnownElse DEF VirtInv
<1> QED
  BY <1>3, <1>4, <1>5, <1>6

LEMMA VirtInit == Init => VirtInv
<1> SUFFICES ASSUME Init PROVE VirtInv
  OBVIOUS
<1>1. \A k \in Callers : st[k].pc = "idle"
  BY DEF Init, Idle
<1> QED
  BY <1>1 DEF Init, VirtInv, TypeKnown

LEMMA VirtStays == Inv /\ VirtInv /\ [NextStep]_vars => VirtInv'
<1> SUFFICES ASSUME Inv, VirtInv, [NextStep]_vars PROVE VirtInv'
  OBVIOUS
<1>1. CASE UNCHANGED <<guest, virt, misread, st>>
  BY <1>1 DEF VirtInv, TypeKnown
<1>2. CASE Tick \/ UNCHANGED vars
  BY <1>1, <1>2 DEF Tick, vars
<1>3. CASE Change
  <2>1. UNCHANGED <<guest, virt, misread>>
    BY <1>3 DEF Change
  <2>2. ASSUME ~misread, NEW k \in Callers, NEW s, s = st'[k]
        PROVE  TypeKnown(s)'
    <3>1. PICK q : q = st[k]
      OBVIOUS
    <3>2. IsCall(q) /\ TypeKnown(q)
      BY <2>2, <3>1, CallAt DEF VirtInv
    <3>3. s = q \/ s = [q EXCEPT !.calm = FALSE]
      BY <1>3, <2>2, <3>1 DEF Change
    <3>4. s.pc = q.pc /\ s.virt = q.virt /\ s.op = q.op /\ s.path = q.path /\ s.ans = q.ans
      BY <3>2, <3>3 DEF IsCall
    <3> QED
      BY <2>1, <3>2, <3>4 DEF TypeKnown
  <2> QED
    BY <2>1, <2>2 DEF VirtInv
<1>4. ASSUME NEW k \in Callers, NEW p \in Paths, ScanRaid(k, p) PROVE VirtInv'
  <2>1. PICK s : s = [Idle EXCEPT !.op = "type", !.path = p, !.since = now]
    OBVIOUS
  <2>2. IsCall(s) /\ s.path = p
    BY <2>1 DEF Idle, IsCall
  <2>3. Enter(k, s) /\ UNCHANGED <<guest, virt, misread>>
    BY <1>4, <2>1 DEF ScanRaid
  <2> QED
    BY <2>2, <2>3, EnterOnController, KnownOnController
<1>5. ASSUME NEW k \in Callers, NEW c \in Ctrls, Query(k, c) PROVE VirtInv'
  <2>1. PICK s : s = [Idle EXCEPT !.op = "query", !.c = c, !.since = now]
    OBVIOUS
  <2>2. IsCall(s) /\ s.op = "query"
    BY <2>1 DEF Idle, IsCall
  <2>3. Enter(k, s) /\ UNCHANGED <<guest, virt, misread>>
    BY <1>5, <2>1 DEF Query
  <2> QED
    BY <2>2, <2>3, EnterOnController, KnownOnController
<1>6. ASSUME NEW k \in Callers,
             \/ MegaShow(k) \/ MegaVall(k) \/ List(k) \/ Advance(k)
             \/ PqiConfig(k) \/ MpiShow(k) \/ MpiVall(k)
      PROVE  VirtInv'
  <2>1. UNCHANGED <<guest, virt, misread>>
    BY <1>6 DEF MegaShow, MegaVall, List, Advance, PqiConfig, MpiShow, MpiVall
  <2> QED
    BY <1>6, <2>1, RaidOnController, KnownOnController
<1>7. ASSUME NEW k \in Callers, Leave(k) PROVE VirtInv'
  <2>1. PICK u : u = Idle
    OBVIOUS
  <2>2. u.pc = "idle" /\ st' = [st EXCEPT ![k] = u] /\ UNCHANGED <<guest, virt, misread>>
    BY <1>7, <2>1 DEF Leave, Goto, Idle
  <2>3. TypeKnown(u)'
    BY <2>2 DEF TypeKnown
  <2> QED
    BY <2>2, <2>3, KnownElse DEF VirtInv
<1> QED
  BY <1>2, <1>3, <1>4, <1>5, <1>6, <1>7, ScanPlainKnown, VirtKnown DEF NextStep, Step

\* However the callers of getVirtType overlap, no disk is given a type that is not its
\* own as long as systemd-detect-virt answers.
THEOREM PlainTrueCorrect == Spec => []PlainTrue
<1>1. Inv /\ VirtInv => PlainTrue
  <2> SUFFICES ASSUME VirtInv, NEW k \in Callers, NEW s, s = st[k], s.pc = "done" /\ s.op = "type",
                      s.path \in Plain /\ ~misread
               PROVE  s.ans = KernelType(s.path, guest)
    BY DEF PlainTrue, Finished
  <2> QED
    BY DEF VirtInv, TypeKnown
<1> QED
  BY <1>1, InvCorrect, VirtInit, VirtStays, PTL DEF Spec
=============================================================================
