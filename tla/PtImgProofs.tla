----------------------------- MODULE PtImgProofs ----------------------------
(***************************************************************************)
(* Theorems about ptimg, for any number of runs, images, devices and       *)
(* partition numbers, any sizes and any number of kills: which device a    *)
(* run works on, what it leaves of the others' partitions and of its own   *)
(* copy, and what it leaves behind.                                        *)
(***************************************************************************)
EXTENDS PtImg, WellFoundedInduction, TLAPS

\* A set of naturals has a least element, and Min gives it.
LEMMA LeastOf ==
  ASSUME NEW S, S \subseteq Nat, S # {}
  PROVE  Min(S) \in S /\ \A m \in S : Min(S) <= m
<1> DEFINE R == {ss \in Nat \X Nat : ss[1] < ss[2]}
<1>1. IsWellFoundedOn(R, Nat)
  BY NatLessThanWellFounded DEF OpToRel
<1>2. \A m, n \in Nat : m < n => <<m, n>> \in R
  OBVIOUS
<1> HIDE DEF R
<1>3. PICK n \in S : \A m \in S : ~ (<<m, n>> \in R)
  BY <1>1, WFMin
<1>4. ASSUME NEW m \in S PROVE n <= m
  <2>1. m \in Nat /\ n \in Nat /\ ~(m < n)
    BY <1>2, <1>3
  <2> QED
    BY <2>1
<1> QED
  BY <1>4 DEF Min
-----------------------------------------------------------------------------
(* Types *)

Places ==
  {"start", "image", "create", "sfdisk", "info", "losetup", "find", "size0", "qemu-nbd", "wait",
   "scan", "add", "rescan", "mkfs", "mkdir", "mount", "rsync", "execute", "umount", "rmdir",
   "settle", "disconnect", "detach", "end", "killed"}
\* from the connection of the device on, to its disconnection, and what comes after
Working == {"wait", "scan", "add", "rescan", "mkfs", "mkdir", "mount", "rsync", "execute",
            "umount", "rmdir"}
Undoing == {"settle", "disconnect", "detach"}
Ending == Undoing \union {"end", "killed"}
Holding == Working \union Undoing

\* the run's variables; one with a plan has a range for it
Plans == {p \in Nat \X Nat : p[1] <= p[2]}
RunStates ==
  [pc : Places, img : Images \union {None}, opt : Options \union {None},
   dev : Devs \union {None}, num : Nums \union {0}, plan : Plans \union {None},
   polls : Nat, copied : BOOLEAN, stuck : BOOLEAN]
Files == [there : BOOLEAN, parts : [Nums -> Partitions \union {None}]]

ImgType ==
  /\ img \in [Images -> Files]
  /\ \A i \in Images : \A n \in Table(i) : img[i].parts[n].first <= img[i].parts[n].last
DevType ==
  dev \in [Devs -> [img : Images \union {None}, by : Runs \union {None}, size : BOOLEAN,
                    parts : SUBSET Nums]]
MntType ==
  /\ mnt \in [Runs -> (Images \X Nums \X Devs) \union {None}]
  /\ tmp \in [Runs -> BOOLEAN]
\* what the variables of a run hold, and where
Sound(s) ==
  /\ s \in RunStates
  /\ s.pc # "start" => s.img \in Images /\ s.opt \in Options
  /\ s.pc = "add" => s.plan \in Plans
  /\ s.pc \in {"size0", "qemu-nbd", "settle", "disconnect"} => s.dev \in Nbds
  /\ s.pc = "detach" => s.dev \notin Nbds
  /\ s.pc \in Holding => s.dev \in Devs
  /\ s.pc \in {"add", "rescan", "mkfs", "mkdir", "mount", "rsync"} => s.num \in Nums
  /\ s.stuck => s.pc \in Ending
StType == st \in [Runs -> RunStates] /\ \A r \in Runs : Sound(st[r])

\* The tables of images, and the first free number.
LEMMA TableType == \A i : Table(i) \subseteq Nums
  BY DEF Table

LEMMA OpenNumberType ==
  ASSUME NEW i, OpenNumber(i) # 0
  PROVE  OpenNumber(i) \in Nums \ Table(i)
<1>1. Nums \ Table(i) \subseteq Nat /\ Nums \ Table(i) # {}
  BY NumbersAssumption DEF OpenNumber
<1>2. Min(Nums \ Table(i)) \in Nums \ Table(i)
  BY <1>1, LeastOf
<1> QED
  BY <1>1, <1>2 DEF OpenNumber

\* The plan of createOrFindPartition lies in a gap.
LEMMA PlanType ==
  ASSUME NEW i, Gaps(i) # {}
  PROVE  LET start == Min({g[1] : g \in Gaps(i)})
             last == (CHOOSE g \in Gaps(i) : g[1] = start)[2]
             end == IF last - start > MaxSize THEN start + MaxSize - 1 ELSE last
         IN  <<start, end>> \in Plans /\ start .. end \subseteq Unused(i)
<1> DEFINE S == {g[1] : g \in Gaps(i)}
           start == Min(S)
           h == CHOOSE g \in Gaps(i) : g[1] = start
           last == h[2]
           end == IF last - start > MaxSize THEN start + MaxSize - 1 ELSE last
<1>1. LastUnit \in Nat /\ MaxSize \in Nat /\ 0 < MaxSize /\ MinSize \in Nat /\ 0 < MinSize
  BY NumbersAssumption
<1>2. Unused(i) \subseteq Nat
  BY <1>1 DEF Unused
<1>3. \A g \in Gaps(i) : /\ g[1] \in Nat /\ g[2] \in Nat /\ g[1] .. g[2] \subseteq Unused(i)
                         /\ g[2] - g[1] + 1 >= MinSize
  BY <1>2 DEF Gaps
<1>4. S \subseteq Nat /\ S # {}
  BY <1>3
<1>5. start \in S
  BY <1>4, LeastOf
<1>6. h \in Gaps(i) /\ h[1] = start
  BY <1>5
<1>7. start \in Nat /\ last \in Nat /\ start .. last \subseteq Unused(i) /\ last - start + 1 >= MinSize
  BY <1>3, <1>6
<1> HIDE DEF S, start, h, last
<1>8. end \in Nat /\ start <= end /\ end <= last
  BY <1>1, <1>7
<1>9. start .. end \subseteq start .. last
  BY <1>7, <1>8
<1>10. <<start, end>> \in Plans /\ start .. end \subseteq Unused(i)
  BY <1>7, <1>8, <1>9 DEF Plans
<1> QED
  BY <1>10 DEF S, start, h, last

\* The steps of one run.
Turn(r) == Step(r) \/ Kill(r) \/ \E i \in Images, o \in Options : Start(r, i, o)
\* run q is where it was
Same(q) == st'[q] = st[q] /\ mnt'[q] = mnt[q] /\ tmp'[q] = tmp[q]

LEMMA AfterMkfsPlace ==
  ASSUME NEW r, NEW o
  PROVE  Place(r, AfterMkfs(o)) \in {"execute", "mkdir", "settle", "detach"}
  BY DEF Place, AfterMkfs, Undo

\* A run's step changes nothing of another run.
LEMMA Frame ==
  ASSUME StType, MntType, NEW r \in Runs, Turn(r), NEW q \in Runs, q # r
  PROVE  Same(q)
<1> USE DEF StType, MntType, Same, Goto, Fail, Command, World, Connect
<1>1. CASE \E i \in Images, o \in Options : Start(r, i, o)
  BY <1>1 DEF Start
<1>2. CASE Kill(r)
  BY <1>2 DEF Kill
<1>3. CASE Image(r) \/ Create(r) \/ Sfdisk(r) \/ Info(r)
  BY <1>3 DEF Image, Create, Sfdisk, Info
<1>4. CASE Losetup(r) \/ FindNBD(r) \/ SizeZero(r) \/ QemuNBD(r)
  BY <1>4 DEF Losetup, FindNBD, SizeZero, QemuNBD, NotStarted
<1>5. CASE Wait(r) \/ Rescan(r) \/ Settle(r)
  BY <1>5 DEF Wait, Rescan, Settle
<1>6. CASE Find(r)
  BY <1>6 DEF Find
<1>7. CASE Add(r)
  BY <1>7 DEF Add
<1>8. CASE Mkfs(r) \/ Mkdir(r)
  BY <1>8 DEF Mkfs, Mkdir
<1>9. CASE Mount(r) \/ Rsync(r) \/ Umount(r) \/ Rmdir(r)
  BY <1>9 DEF Mount, Rsync, Umount, Rmdir
<1>10. CASE Execute(r)
  BY <1>10 DEF Execute
<1>11. CASE Disconnect(r) \/ Detach(r)
  BY <1>11 DEF Disconnect, Detach
<1> QED
  BY <1>1, <1>2, <1>3, <1>4, <1>5, <1>6, <1>7, <1>8, <1>9, <1>10, <1>11 DEF Turn, Step

LEMMA StInit == Init => StType
  BY NoneAssumption DEF Init, StType, Sound, RunStates, Begin, Places, Holding, Working, Undoing

\* Goto, to a place where the run's variables are enough.
LEMMA SoundGoto ==
  ASSUME StType, NEW r \in Runs, NEW p \in Places, Goto(r, p),
         st[r].pc # "start", p # "add",
         p \in {"size0", "qemu-nbd", "settle", "disconnect"} => st[r].dev \in Nbds,
         p = "detach" => st[r].dev \notin Nbds,
         p \in Holding => st[r].dev \in Devs,
         p \in {"rescan", "mkfs", "mkdir", "mount", "rsync"} => st[r].num \in Nums,
         st[r].stuck => p \in Ending
  PROVE  st' \in [Runs -> RunStates] /\ Sound(st'[r])
<1> DEFINE s == [st[r] EXCEPT !.pc = p, !.polls = 0, !.plan = None]
<1>1. st[r] \in RunStates /\ Sound(st[r])
  BY DEF StType, Sound
<1>2. s \in RunStates
  BY <1>1 DEF RunStates
<1>3. /\ s.pc = p /\ s.img = st[r].img /\ s.opt = st[r].opt /\ s.dev = st[r].dev
      /\ s.num = st[r].num /\ s.stuck = st[r].stuck
  BY <1>1 DEF RunStates
<1>4. st' = [st EXCEPT ![r] = s]
  BY <1>1 DEF Goto, StType, RunStates
<1> HIDE DEF s
<1>5. Sound(s)
  BY <1>1, <1>2, <1>3 DEF Sound
<1> QED
  BY <1>2, <1>4, <1>5 DEF StType

LEMMA StStep ==
  ASSUME StType, MntType, NEW r \in Runs, Turn(r)
  PROVE  StType'
<1>1. st' \in [Runs -> RunStates] /\ Sound(st'[r])
  <2> USE DEF StType, Goto, Fail, Command, World, Connect, Undo, Devs
  <2>0. Sound(st[r]) /\ st[r] \in RunStates
    BY DEF Sound
  <2>1. CASE \E i \in Images, o \in Options : Start(r, i, o)
    <3>1. PICK i \in Images, o \in Options : Start(r, i, o)
      BY <2>1
    <3> DEFINE s == [Begin EXCEPT !.img = i, !.opt = o]
    <3>2. s \in RunStates /\ s.img = i /\ s.opt = o /\ ~s.stuck
      BY DEF Begin, RunStates, Places
    <3> HIDE DEF s
    <3>3. \A p \in {"end", "image"} : Sound([s EXCEPT !.pc = p])
      BY <3>2 DEF Sound, RunStates, Places, Holding, Working, Undoing
    <3>4. \E p \in {"end", "image"} : st' = [st EXCEPT ![r] = [s EXCEPT !.pc = p]]
      BY <3>1 DEF Start, s
    <3> QED
      BY <3>3, <3>4 DEF Sound
  <2>2. CASE Kill(r)
    <3>1. st[r].pc # "start" /\ Goto(r, "killed")
      BY <2>2 DEF Kill, Live
    <3>2. /\ "killed" \in Places /\ "killed" \in Ending /\ "killed" \notin Holding
      BY DEF Places, Holding, Working, Undoing, Ending
    <3> HIDE DEF Goto, StType
    <3> QED
      BY <3>1, <3>2, SoundGoto
  <2>3. CASE Image(r) \/ Create(r) \/ Sfdisk(r) \/ Info(r)
    <3> HIDE DEF Goto
    <3>1. /\ st[r].pc \in {"image", "create", "sfdisk", "info"}
          /\ \E p \in {"info", "create", "sfdisk", "end", "losetup", "find"} : Goto(r, p)
      <4>1. CASE Image(r)
        BY <4>1 DEF Image, At
      <4>2. CASE Create(r)
        BY <4>2 DEF Create, At
      <4>3. CASE Sfdisk(r)
        BY <4>3 DEF Sfdisk, At
      <4>4. CASE Info(r)
        BY <4>4 DEF Info, At
      <4> QED
        BY <2>3, <4>1, <4>2, <4>3, <4>4
    <3>2. PICK p \in {"info", "create", "sfdisk", "end", "losetup", "find"} : Goto(r, p)
      BY <3>1
    <3>3. p \in Places /\ p \notin Holding
      BY DEF Places, Holding, Working, Undoing
    <3>4. ~st[r].stuck /\ st[r].pc # "start"
      BY <2>0, <3>1 DEF Sound, Ending, Undoing
    <3> HIDE DEF StType
    <3> QED
      BY <3>2, <3>3, <3>4, SoundGoto
  <2>4. CASE Losetup(r) \/ FindNBD(r) \/ SizeZero(r) \/ QemuNBD(r)
    <3>1. CASE FindNBD(r)
      <4>1. {d \in Nbds : dev[d].img = None} # {} =>
              Min({d \in Nbds : dev[d].img = None}) \in Nbds
        BY NumbersAssumption, LeastOf
      <4> QED
        BY <2>0, <3>1, <4>1 DEF FindNBD, At, Sound, RunStates, Places, Holding,
           Working, Undoing, Ending
    <3>2. CASE Losetup(r) \/ SizeZero(r) \/ QemuNBD(r)
      BY <2>0, <3>2 DEF Losetup, SizeZero, QemuNBD, NotStarted, At, Sound, RunStates, Places, Holding,
         Working, Undoing, Ending
    <3> QED
      BY <2>4, <3>1, <3>2
  <2>5. CASE Wait(r) \/ Settle(r)
    BY <2>0, <2>5 DEF Wait, Settle, At, Sound, RunStates, Places, Holding, Working, Undoing, Ending
  <2>6. CASE Find(r)
    <3> DEFINE i == dev[st[r].dev].img
               start == Min({g[1] : g \in Gaps(i)})
               last == (CHOOSE g \in Gaps(i) : g[1] = start)[2]
               plan == <<start, IF last - start > MaxSize THEN start + MaxSize - 1 ELSE last>>
    <3>1. Gaps(i) # {} => plan \in Plans
      BY PlanType
    <3>2. OpenNumber(i) # 0 => OpenNumber(i) \in Nums
      BY OpenNumberType
    <3>3. \/ Fail(r, Undo(r))
          \/ \E n \in Nums : st' = [st EXCEPT ![r].pc = "rescan", ![r].num = n]
          \/ /\ Gaps(i) # {} /\ OpenNumber(i) # 0
             /\ st' = [st EXCEPT ![r].pc = "add", ![r].num = OpenNumber(i), ![r].plan = plan]
      BY <2>6, TableType DEF Find
    <3>4. At(r, "scan")
      BY <2>6 DEF Find
    <3> HIDE DEF i, plan
    <3> QED
      BY <2>0, <3>1, <3>2, <3>3, <3>4 DEF At, Sound, RunStates, Places, Holding, Working, Undoing, Ending
  <2>7. CASE Add(r)
    BY <2>0, <2>7 DEF Add, At, Sound, RunStates, Places, Holding, Working, Undoing, Ending
  <2>8. CASE Rescan(r) \/ Mkfs(r)
    <3>1. /\ At(r, "rescan") \/ At(r, "mkfs")
          /\ \/ \E p \in {"execute", "mkdir", "settle", "detach", "mkfs"} :
                  /\ p \in {"settle", "detach"} => p = Undo(r)
                  /\ Goto(r, p)
             \/ Fail(r, Undo(r))
      BY <2>8 DEF Rescan, Mkfs, Place, AfterMkfs
    <3> QED
      BY <2>0, <3>1 DEF At, Sound, RunStates, Places, Holding, Working, Undoing, Ending
  <2>9. CASE Mkdir(r) \/ Mount(r) \/ Rsync(r)
    <3>1. CASE Mkdir(r)
      BY <2>0, <3>1 DEF Mkdir, At, Sound, RunStates, Places, Holding, Working, Undoing, Ending
    <3>2. CASE Mount(r)
      <4>1. st[r].pc = "mount" /\ \E p \in {"rsync", "execute", "rmdir"} : Goto(r, p)
        <5> HIDE DEF Goto
        <5>1. Goto(r, IF st[r].opt.copy THEN "rsync" ELSE "execute") \/ Goto(r, "rmdir")
          BY <3>2 DEF Mount
        <5> QED
          BY <3>2, <5>1 DEF Mount, At
      <4>2. PICK p \in {"rsync", "execute", "rmdir"} : Goto(r, p)
        BY <4>1
      <4>3. p \in Places /\ p \notin Undoing /\ st[r].dev \in Devs /\ st[r].num \in Nums /\ ~st[r].stuck
        BY <2>0, <4>1 DEF Sound, Places, Holding, Working, Undoing, Ending
      <4> HIDE DEF Goto, StType
      <4> QED
        BY <4>1, <4>2, <4>3, SoundGoto DEF Undoing
    <3>3. CASE Rsync(r)
      <4>1. /\ st[r].pc = "rsync"
            /\ \/ \E p \in {"execute", "umount"} :
                    st' = [st EXCEPT ![r].pc = p, ![r].copied = TRUE]
               \/ Goto(r, "umount")
        BY <3>3 DEF Rsync, At
      <4> QED
        BY <2>0, <4>1 DEF Sound, RunStates, Places, Holding, Working, Undoing, Ending
    <3> QED
      BY <2>9, <3>1, <3>2, <3>3
  <2>10. CASE Umount(r) \/ Rmdir(r) \/ Execute(r)
    BY <2>0, <2>10 DEF Umount, Rmdir, Execute, At, Sound, RunStates, Places, Holding, Working, Undoing, Ending
  <2>11. CASE Disconnect(r) \/ Detach(r)
    <3>1. /\ st[r].pc \in {"disconnect", "detach"}
          /\ Goto(r, "end") \/ st' = [st EXCEPT ![r].pc = "end", ![r].stuck = TRUE]
      <4> HIDE DEF Goto
      <4> QED
        BY <2>11 DEF Disconnect, Detach, At
    <3>2. "end" \in Places /\ "end" \in Ending /\ "end" \notin Holding
      BY DEF Places, Holding, Working, Undoing, Ending
    <3>3. CASE Goto(r, "end")
      <4> HIDE DEF Goto, StType
      <4> QED
        BY <3>1, <3>2, <3>3, SoundGoto
    <3>4. CASE st' = [st EXCEPT ![r].pc = "end", ![r].stuck = TRUE]
      BY <2>0, <3>1, <3>2, <3>4 DEF Sound, RunStates
    <3> QED
      BY <3>1, <3>3, <3>4
  <2> QED
    BY <2>1, <2>2, <2>3, <2>4, <2>5, <2>6, <2>7, <2>8, <2>9, <2>10, <2>11 DEF Turn, Step
<1>2. \A q \in Runs : q # r => st'[q] = st[q]
  BY Frame DEF Same
<1> QED
  BY <1>1, <1>2 DEF StType
-----------------------------------------------------------------------------
(* Whose device, whose mount *)

\* a run that holds a device is the one that connected it, to its own image
Holds(r) ==
  st[r].pc \in Holding => dev[st[r].dev].by = r /\ dev[st[r].dev].img = st[r].img
\* and a device connected by a run is the one it holds, or was left behind by it
Connected(r) ==
  \A d \in Devs : dev[d].by = r =>
    /\ d = st[r].dev /\ dev[d].img # None
    /\ st[r].pc \in Holding \union {"killed"} \/ (st[r].pc = "end" /\ st[r].stuck)
OwnInv == \A r \in Runs : Holds(r) /\ Connected(r)

\* what a run has mounted or made, and where it may be left
Mounts(r) ==
  /\ mnt[r] # None =>
       /\ mnt[r] = <<st[r].img, st[r].num, st[r].dev>>
       /\ st[r].pc \in {"rsync", "execute", "umount", "killed"} \/ st[r].stuck
       /\ st[r].dev \notin Nbds => dev[st[r].dev].by = r
  /\ st[r].pc \in {"rsync", "umount"} => mnt[r] # None
  /\ tmp[r] =>
       mnt[r] # None \/ st[r].pc \in {"mount", "rmdir", "killed"} \/ st[r].stuck
MountInv == \A r \in Runs : Mounts(r)

Base == StType /\ DevType /\ MntType /\ OwnInv /\ MountInv

\* A step that is not the first, and neither takes a device nor gives one up, leaves
\* a run that holds a device with it.
Goes(r) ==
  /\ st'[r].img = st[r].img /\ st'[r].opt = st[r].opt
  /\ st[r].pc \in Holding =>
       st'[r].dev = st[r].dev /\ st'[r].pc \in Holding \union {"killed"}
  /\ st'[r].pc \in Holding => st[r].pc \in Holding

LEMMA GotoGoes ==
  ASSUME StType, NEW r \in Runs, NEW p, Goto(r, p),
         st[r].pc \in Holding => p \in Holding \union {"killed"},
         p \in Holding => st[r].pc \in Holding
  PROVE  Goes(r)
BY DEF StType, RunStates, Goto, Goes

\* Only a run that is under way takes a step.
LEMMA Acting == ASSUME NEW r, Step(r) \/ Kill(r) PROVE Live(r)
BY DEF Step, Kill, Live, Image, Create, Sfdisk, Info, Losetup, FindNBD, SizeZero, QemuNBD, Wait,
   Find, Add, Rescan, Mkfs, Mkdir, Mount, Rsync, Execute, Umount, Rmdir, Settle, Disconnect,
   Detach, Command, At

\* Find gives up, takes a partition of the name, or goes on to create one.
LEMMA FindMoves ==
  ASSUME NEW r, Find(r)
  PROVE  /\ UNCHANGED <<img, dev, mnt, tmp>> /\ st[r].pc = "scan"
         /\ \/ Goto(r, Undo(r))
            \/ \E n : st' = [st EXCEPT ![r].pc = "rescan", ![r].num = n]
            \/ \E n, x : st' = [st EXCEPT ![r].pc = "add", ![r].num = n, ![r].plan = x]
<1>1. UNCHANGED <<img, dev, mnt, tmp>> /\ st[r].pc = "scan"
  BY DEF Find, At, World
<1>2. \/ Goto(r, Undo(r))
      \/ \E n : st' = [st EXCEPT ![r].pc = "rescan", ![r].num = n]
      \/ \E n, x : st' = [st EXCEPT ![r].pc = "add", ![r].num = n, ![r].plan = x]
  BY DEF Find, Fail
<1> QED
  BY <1>1, <1>2

Takes(r) == Losetup(r) \/ QemuNBD(r) \/ Disconnect(r) \/ Detach(r)

LEMMA DevKept ==
  ASSUME StType, MntType, NEW r \in Runs, Step(r) \/ Kill(r), ~Takes(r)
  PROVE  /\ Goes(r)
         /\ \/ dev' = dev
            \/ /\ st[r].dev \in Devs
               /\ \E n \in Nums : dev' = [dev EXCEPT ![st[r].dev].parts = @ \union {n}]
<1>0. st[r] \in RunStates /\ Undo(r) \in Undoing /\ {"killed"} \intersect Holding = {}
  BY DEF StType, Undo, Undoing, Holding, Working
<1> USE DEF Fail, World
<1>1. CASE Kill(r)
  <2>1. Live(r) /\ Goto(r, "killed") /\ dev' = dev
    BY <1>1 DEF Kill
  <2> QED
    BY <1>0, <2>1, GotoGoes DEF Holding, Working, Undoing
<1>2. CASE Image(r) \/ Create(r) \/ Sfdisk(r) \/ Info(r) \/ SizeZero(r)
  <2>1. /\ st[r].pc \notin Holding /\ dev' = dev
        /\ \E p \in {"info", "create", "sfdisk", "end", "losetup", "find", "qemu-nbd"} : Goto(r, p)
    <3>1. CASE Image(r)
      BY <3>1 DEF Image, At, Holding, Working, Undoing
    <3>2. CASE Create(r)
      BY <3>2 DEF Create, At, Holding, Working, Undoing
    <3>3. CASE Sfdisk(r)
      BY <3>3 DEF Sfdisk, At, Holding, Working, Undoing
    <3>4. CASE Info(r)
      BY <3>4 DEF Info, Command, At, Holding, Working, Undoing
    <3>5. CASE SizeZero(r)
      BY <3>5 DEF SizeZero, NotStarted, At, Holding, Working, Undoing
    <3> QED
      BY <1>2, <3>1, <3>2, <3>3, <3>4, <3>5
  <2>2. PICK p \in {"info", "create", "sfdisk", "end", "losetup", "find", "qemu-nbd"} : Goto(r, p)
    BY <2>1
  <2>3. p \notin Holding
    BY DEF Holding, Working, Undoing
  <2> QED
    BY <2>1, <2>2, <2>3, GotoGoes
<1>3. CASE FindNBD(r)
  <2>1. dev' = dev /\ st[r].pc = "find"
    BY <1>3 DEF FindNBD, At
  <2>2. Goes(r)
    <3>1. \/ Goto(r, "end")
          \/ \E d : st' = [st EXCEPT ![r].pc = "size0", ![r].dev = d]
      BY <1>3 DEF FindNBD
    <3>2. {"find", "end", "size0"} \intersect Holding = {}
      BY DEF Holding, Working, Undoing
    <3>3. CASE Goto(r, "end")
      BY <2>1, <3>2, <3>3, GotoGoes
    <3>4. CASE \E d : st' = [st EXCEPT ![r].pc = "size0", ![r].dev = d]
      BY <2>1, <3>2, <3>4 DEF StType, RunStates, Goes
    <3> QED
      BY <3>1, <3>3, <3>4
  <2> QED
    BY <2>1, <2>2
<1>4. CASE Wait(r)
  <2>1. dev' = dev /\ st[r].pc = "wait"
    BY <1>4 DEF Wait, At
  <2>2. \/ Goto(r, "scan") \/ Goto(r, Undo(r))
        \/ st' = [st EXCEPT ![r].polls = @ + 1]
    BY <1>4 DEF Wait
  <2>3. Goes(r)
    BY <1>0, <2>1, <2>2 DEF Goto, StType, RunStates, Goes, Holding, Working
  <2> QED
    BY <2>1, <2>3
<1>5. CASE Find(r)
  <2>1. dev' = dev /\ st[r].pc = "scan"
    BY <1>5, FindMoves
  <2>2. \/ Goto(r, Undo(r))
        \/ \E n : st' = [st EXCEPT ![r].pc = "rescan", ![r].num = n]
        \/ \E n, x : st' = [st EXCEPT ![r].pc = "add", ![r].num = n, ![r].plan = x]
    BY <1>5, FindMoves
  <2>3. Goes(r)
    <3>1. "scan" \in Holding /\ "rescan" \in Holding /\ "add" \in Holding /\ Undo(r) \in Holding
      BY <1>0 DEF Holding, Working
    <3>2. CASE Goto(r, Undo(r))
      BY <2>1, <3>1, <3>2, GotoGoes
    <3>3. CASE \E n : st' = [st EXCEPT ![r].pc = "rescan", ![r].num = n]
      BY <2>1, <3>1, <3>3 DEF StType, RunStates, Goes
    <3>4. CASE \E n, x : st' = [st EXCEPT ![r].pc = "add", ![r].num = n, ![r].plan = x]
      BY <2>1, <3>1, <3>4 DEF StType, RunStates, Goes
    <3> QED
      BY <2>2, <3>2, <3>3, <3>4
  <2> QED
    BY <2>1, <2>3
<1>6. CASE Add(r)
  <2>1. /\ st[r].pc = "add"
        /\ Goto(r, Undo(r)) \/ Goto(r, "rescan")
        /\ dev' = dev \/ dev' = [dev EXCEPT ![st[r].dev].parts = @ \union {st[r].num}]
    BY <1>6 DEF Add, At
  <2>2. st[r].num \in Nums /\ st[r].dev \in Devs
    BY <2>1 DEF StType, Sound, Holding, Working
  <2>3. Goes(r)
    BY <1>0, <2>1, GotoGoes DEF Holding, Working
  <2> QED
    BY <2>1, <2>2, <2>3
<1>7. CASE Rescan(r) \/ Mkfs(r) \/ Mkdir(r) \/ Mount(r) \/ Execute(r) \/ Settle(r)
  <2>1. /\ st[r].pc \in Holding /\ dev' = dev
        /\ \E p \in Holding : Goto(r, p)
    <3> USE DEF At, Holding, Working, Undoing, Undo
    <3>1. CASE Rescan(r)
      BY <3>1 DEF Rescan, Command, Place, AfterMkfs
    <3>2. CASE Mkfs(r)
      BY <3>2 DEF Mkfs, Place, AfterMkfs
    <3>3. CASE Mkdir(r)
      BY <3>3 DEF Mkdir
    <3>4. CASE Mount(r)
      BY <3>4 DEF Mount
    <3>5. CASE Execute(r)
      BY <3>5 DEF Execute, Command
    <3>6. CASE Settle(r)
      BY <3>6 DEF Settle, Command
    <3> QED
      BY <1>7, <3>1, <3>2, <3>3, <3>4, <3>5, <3>6
  <2>2. PICK p \in Holding : Goto(r, p)
    BY <2>1
  <2> QED
    BY <2>1, <2>2, GotoGoes
<1>8. CASE Rsync(r)
  <2>1. /\ st[r].pc = "rsync" /\ dev' = dev
        /\ \/ Goto(r, "umount")
           \/ \E p \in {"execute", "umount"} : st' = [st EXCEPT ![r].pc = p, ![r].copied = TRUE]
    BY <1>8 DEF Rsync, At
  <2>2. Goes(r)
    BY <1>0, <2>1 DEF Goto, StType, RunStates, Goes, Holding, Working
  <2> QED
    BY <2>1, <2>2
<1>9. CASE Umount(r) \/ Rmdir(r)
  <2>1. /\ st[r].pc \in Holding /\ dev' = dev
        /\ \/ \E p \in Holding : Goto(r, p)
           \/ st' = [st EXCEPT ![r].pc = Undo(r), ![r].stuck = TRUE]
    <3>1. CASE Umount(r)
      BY <1>0, <3>1 DEF Umount, At, Holding, Working
    <3>2. CASE Rmdir(r)
      BY <1>0, <3>2 DEF Rmdir, At, Holding, Working
    <3> QED
      BY <1>9, <3>1, <3>2
  <2>2. Goes(r)
    <3>1. CASE \E p \in Holding : Goto(r, p)
      BY <2>1, <3>1, GotoGoes
    <3>2. CASE st' = [st EXCEPT ![r].pc = Undo(r), ![r].stuck = TRUE]
      BY <1>0, <2>1, <3>2 DEF StType, RunStates, Goes, Holding
    <3> QED
      BY <2>1, <3>1, <3>2
  <2> QED
    BY <2>1, <2>2
<1> QED
  BY <1>1, <1>2, <1>3, <1>4, <1>5, <1>6, <1>7, <1>8, <1>9 DEF Step, Takes

\* The steps that take a device or give it up: the run ends with the devices as they
\* were, takes a device that is free, or gives up its own.  A loop device stays connected
\* only to a run that could not unmount it.
Rests(r) ==
  /\ dev' = dev /\ st'[r].img = st[r].img /\ st'[r].dev = st[r].dev /\ st'[r].pc = "end"
  /\ st[r].pc \in {"losetup", "qemu-nbd"} \/ (st[r].pc \in Holding /\ st'[r].stuck)
Connects(r, d) ==
  /\ dev[d].img = None /\ st[r].pc \in {"losetup", "qemu-nbd"}
  /\ Connect(r, d, TRUE) \/ Connect(r, d, FALSE)
Releases(r) ==
  /\ st[r].pc \in {"disconnect", "detach"}
  /\ dev' = [dev EXCEPT ![st[r].dev] = NoDev] /\ Goto(r, "end")

LEMMA TakesMoves ==
  ASSUME Base, NEW r \in Runs, Takes(r)
  PROVE  Rests(r) \/ (\E d \in Devs : Connects(r, d)) \/ Releases(r)
<1>0. st \in [Runs -> RunStates] /\ st[r] \in RunStates /\ Sound(st[r])
  BY DEF Base, StType
<1>1. CASE Losetup(r)
  <2>1. /\ st[r].pc = "losetup"
        /\ \/ \E d \in Loops : dev[d].img = None /\ Connect(r, d, TRUE)
           \/ dev' = dev /\ Goto(r, "end")
    BY <1>1 DEF Losetup, At, Fail
  <2>2. CASE dev' = dev /\ Goto(r, "end")
    BY <1>0, <2>1, <2>2 DEF Rests, Goto, RunStates
  <2> QED
    BY <2>1, <2>2 DEF Connects, Devs
<1>2. CASE QemuNBD(r)
  <2>1. /\ st[r].pc = "qemu-nbd"
        /\ \/ dev[st[r].dev].img = None /\ Connect(r, st[r].dev, FALSE)
           \/ dev' = dev /\ Goto(r, "end")
    BY <1>2 DEF QemuNBD, NotStarted, At, Fail
  <2>2. CASE dev' = dev /\ Goto(r, "end")
    BY <1>0, <2>1, <2>2 DEF Rests, Goto, RunStates
  <2>3. st[r].dev \in Devs
    BY <1>0, <2>1 DEF Sound, Devs
  <2> QED
    BY <2>1, <2>2, <2>3 DEF Connects
<1>3. CASE Disconnect(r)
  <2>1. /\ st[r].pc = "disconnect"
        /\ \/ dev' = [dev EXCEPT ![st[r].dev] = NoDev] /\ Goto(r, "end")
           \/ dev' = dev /\ st' = [st EXCEPT ![r].pc = "end", ![r].stuck = TRUE]
    BY <1>3 DEF Disconnect, At
  <2>2. CASE dev' = dev /\ st' = [st EXCEPT ![r].pc = "end", ![r].stuck = TRUE]
    BY <1>0, <2>1, <2>2 DEF Rests, RunStates, Holding, Undoing
  <2> QED
    BY <2>1, <2>2 DEF Releases
<1>4. CASE Detach(r)
  <2> DEFINE busy == \E q \in Runs : mnt[q] # None /\ mnt[q][3] = st[r].dev
  <2>1. /\ st[r].pc = "detach"
        /\ \/ dev' = dev /\ Goto(r, "end") /\ busy
           \/ dev' = [dev EXCEPT ![st[r].dev] = NoDev] /\ Goto(r, "end")
           \/ dev' = dev /\ st' = [st EXCEPT ![r].pc = "end", ![r].stuck = TRUE]
    BY <1>4 DEF Detach, At
  <2>2. CASE dev' = dev /\ Goto(r, "end") /\ busy
    <3>1. PICK q \in Runs : mnt[q] # None /\ mnt[q][3] = st[r].dev
      BY <2>2
    <3>2. st[q].dev = st[r].dev
      BY <3>1 DEF Base, MountInv, Mounts
    <3>3. st[r].dev \notin Nbds
      BY <1>0, <2>1 DEF Sound
    <3>4. dev[st[r].dev].by = q
      BY <3>1, <3>2, <3>3 DEF Base, MountInv, Mounts
    <3>5. dev[st[r].dev].by = r
      BY <2>1 DEF Base, OwnInv, Holds, Holding, Undoing
    <3>6. st[r].stuck
      BY <2>1, <3>1, <3>4, <3>5 DEF Base, MountInv, Mounts
    <3>7. /\ st'[r].pc = "end" /\ st'[r].stuck
          /\ st'[r].img = st[r].img /\ st'[r].dev = st[r].dev
      BY <1>0, <2>2, <3>6 DEF Goto, RunStates
    <3> QED
      BY <2>1, <2>2, <3>7 DEF Rests, Holding, Undoing
  <2>3. CASE dev' = dev /\ st' = [st EXCEPT ![r].pc = "end", ![r].stuck = TRUE]
    BY <1>0, <2>1, <2>3 DEF Rests, RunStates, Holding, Undoing
  <2> QED
    BY <2>1, <2>2, <2>3 DEF Releases
<1> QED
  BY <1>1, <1>2, <1>3, <1>4 DEF Takes

\* A new partition device changes nothing else of its device.
LEMMA PartsOnly ==
  ASSUME DevType, NEW e \in Devs, NEW n \in Nums,
         dev' = [dev EXCEPT ![e].parts = @ \union {n}]
  PROVE  /\ DevType'
         /\ \A d \in Devs : dev'[d].by = dev[d].by /\ dev'[d].img = dev[d].img
<1> DEFINE x == [dev[e] EXCEPT !.parts = @ \union {n}]
<1>1. /\ x \in [img : Images \union {None}, by : Runs \union {None}, size : BOOLEAN,
                parts : SUBSET Nums]
      /\ x.by = dev[e].by /\ x.img = dev[e].img
  BY DEF DevType
<1>2. dev' = [dev EXCEPT ![e] = x]
  BY DEF DevType
<1> HIDE DEF x
<1>3. DevType'
  BY <1>1, <1>2 DEF DevType
<1>4. \A d \in Devs : dev'[d].by = dev[d].by /\ dev'[d].img = dev[d].img
  BY <1>1, <1>2 DEF DevType
<1> QED
  BY <1>3, <1>4

LEMMA DevTypeStep ==
  ASSUME Base, NEW r \in Runs, Turn(r)
  PROVE  DevType'
<1>0. StType /\ DevType /\ MntType /\ Sound(st[r])
  BY DEF Base, StType
<1>1. CASE \E i \in Images, o \in Options : Start(r, i, o)
  BY <1>0, <1>1 DEF Start, World, DevType
<1>2. CASE (Step(r) \/ Kill(r)) /\ ~Takes(r)
  <2>1. \/ dev' = dev
        \/ /\ st[r].dev \in Devs
           /\ \E n \in Nums : dev' = [dev EXCEPT ![st[r].dev].parts = @ \union {n}]
    BY <1>0, <1>2, DevKept
  <2>2. CASE dev' = dev
    BY <1>0, <2>2 DEF DevType
  <2> QED
    BY <1>0, <2>1, <2>2, PartsOnly
<1>3. CASE Takes(r)
  <2>1. CASE Rests(r)
    BY <1>0, <2>1 DEF Rests, DevType
  <2>2. CASE \E d \in Devs : Connects(r, d)
    <3>1. PICK d \in Devs : Connects(r, d)
      BY <2>2
    <3>2. st[r].img \in Images
      BY <1>0, <3>1 DEF Connects, Sound
    <3>3. Table(st[r].img) \subseteq Nums
      BY TableType
    <3>4. \A b \in BOOLEAN :
            [img |-> st[r].img, by |-> r, size |-> b, parts |-> Table(st[r].img)] \in
              [img : Images \union {None}, by : Runs \union {None}, size : BOOLEAN,
               parts : SUBSET Nums]
      BY <3>2, <3>3
    <3> QED
      BY <1>0, <3>1, <3>4 DEF Connects, Connect, DevType
  <2>3. CASE Releases(r)
    BY <1>0, <2>3 DEF Releases, NoDev, DevType
  <2> QED
    BY <1>3, <2>1, <2>2, <2>3, TakesMoves
<1> QED
  BY <1>1, <1>2, <1>3 DEF Turn, Step, Takes

\* The devices of other runs stay theirs.
LEMMA OwnStep ==
  ASSUME Base, NEW r \in Runs, Turn(r)
  PROVE  /\ OwnInv'
         /\ \A q \in Runs \ {r}, e \in Devs : dev[e].by = q => dev'[e].by = q
<1>0. /\ StType /\ DevType /\ MntType /\ Sound(st[r]) /\ Holds(r) /\ Connected(r)
      /\ \A q \in Runs : Sound(st[q]) /\ Holds(q) /\ Connected(q)
  BY DEF Base, StType, OwnInv
<1>1. \A q \in Runs : q # r => st'[q] = st[q]
  BY <1>0, Frame DEF Same
<1> SUFFICES /\ Holds(r)' /\ Connected(r)'
             /\ \A q \in Runs \ {r} : /\ Holds(q)' /\ Connected(q)'
                                     /\ \A e \in Devs : dev[e].by = q => dev'[e].by = q
  BY DEF OwnInv
<1>2. {"start", "image", "end", "killed", "losetup", "qemu-nbd"} \intersect Holding = {}
      /\ "wait" \in Holding
  BY DEF Holding, Working, Undoing
<1>3. \A q \in Runs : st[q].pc \in Holding => st[q].dev \in Devs /\ st[q].img \in Images
  BY <1>0, <1>2 DEF Sound
<1>4. ASSUME \A e \in Devs : dev'[e].by = dev[e].by /\ dev'[e].img = dev[e].img
      PROVE  \A q \in Runs \ {r} : /\ Holds(q)' /\ Connected(q)'
                                 /\ \A e \in Devs : dev[e].by = q => dev'[e].by = q
  <2> SUFFICES ASSUME NEW q \in Runs \ {r} PROVE Holds(q)' /\ Connected(q)'
    BY <1>4
  <2>1. st'[q] = st[q]
    BY <1>1
  <2> QED
    BY <1>0, <1>3, <1>4, <2>1 DEF Holds, Connected
<1>5. CASE \E i \in Images, o \in Options : Start(r, i, o)
  <2>1. dev' = dev /\ st[r].pc = "start" /\ st'[r].pc \in {"end", "image"}
    BY <1>0, <1>5 DEF Start, World, At, StType, Begin
  <2>2. Holds(r)' /\ Connected(r)'
    BY <1>0, <1>2, <2>1 DEF Holds, Connected
  <2> QED
    BY <1>4, <2>1, <2>2
<1>6. CASE (Step(r) \/ Kill(r)) /\ ~Takes(r)
  <2>1. /\ Goes(r) /\ Live(r)
        /\ \/ dev' = dev
           \/ /\ st[r].dev \in Devs
              /\ \E n \in Nums : dev' = [dev EXCEPT ![st[r].dev].parts = @ \union {n}]
    BY <1>0, <1>6, DevKept, Acting
  <2>2. \A e \in Devs : dev'[e].by = dev[e].by /\ dev'[e].img = dev[e].img
    BY <1>0, <2>1, PartsOnly
  <2>3. Holds(r)'
    BY <1>0, <1>3, <2>1, <2>2 DEF Goes, Holds
  <2>4. ASSUME NEW d \in Devs, dev'[d].by = r
        PROVE  /\ d = st'[r].dev /\ dev'[d].img # None
               /\ st'[r].pc \in Holding \union {"killed"}
    <3>1. d = st[r].dev /\ dev[d].img # None /\ st[r].pc \in Holding
      BY <1>0, <2>1, <2>2, <2>4 DEF Connected, Live
    <3> QED
      BY <2>1, <2>2, <3>1 DEF Goes
  <2>5. Connected(r)'
    BY <2>4 DEF Connected
  <2> QED
    BY <1>4, <2>2, <2>3, <2>5
<1>7. CASE Takes(r)
  <2>1. CASE Rests(r)
    <3>1. Holds(r)' /\ Connected(r)'
      BY <1>0, <1>2, <2>1 DEF Rests, Holds, Connected
    <3> QED
      BY <1>4, <2>1, <3>1 DEF Rests
  <2>2. ASSUME NEW d \in Devs, Connects(r, d)
        PROVE  /\ Holds(r)' /\ Connected(r)'
               /\ \A q \in Runs \ {r} : /\ Holds(q)' /\ Connected(q)'
                                       /\ \A e \in Devs : dev[e].by = q => dev'[e].by = q
    <3>1. /\ dev'[d].by = r /\ dev'[d].img = st[r].img
          /\ \A e \in Devs : e # d => dev'[e] = dev[e]
          /\ st'[r].pc = "wait" /\ st'[r].dev = d /\ st'[r].img = st[r].img
      BY <1>0, <2>2 DEF Connects, Connect, DevType, StType, RunStates
    <3>2. dev[d].img = None /\ st[r].pc \in {"losetup", "qemu-nbd"} /\ st[r].img \in Images
      BY <1>0, <2>2 DEF Connects, Sound
    <3>3. Holds(r)'
      BY <3>1 DEF Holds
    <3>4. Connected(r)'
      BY <1>0, <1>2, <3>1, <3>2, NoneAssumption DEF Connected
    <3>5. ASSUME NEW q \in Runs \ {r}
          PROVE  /\ Holds(q)' /\ Connected(q)'
                 /\ \A e \in Devs : dev[e].by = q => dev'[e].by = q
      <4>1. st'[q] = st[q] /\ dev[d].by # q
        BY <1>0, <1>1, <3>2 DEF Connected
      <4>2. st[q].pc \in Holding => st[q].dev \in Devs /\ st[q].dev # d
        BY <1>0, <1>3, <3>2, NoneAssumption DEF Holds
      <4> QED
        BY <1>0, <3>1, <4>1, <4>2 DEF Holds, Connected
    <3> QED
      BY <3>3, <3>4, <3>5
  <2>3. CASE Releases(r)
    <3> DEFINE d == st[r].dev
    <3>1. /\ st[r].pc \in Holding /\ d \in Devs /\ dev[d].by = r
      BY <1>0, <1>3, <2>3 DEF Releases, Holds, Holding, Undoing
    <3>2. /\ dev'[d].by = None /\ \A e \in Devs : e # d => dev'[e] = dev[e]
          /\ st'[r].pc = "end" /\ st'[r].dev = d
      BY <1>0, <2>3, <3>1 DEF Releases, NoDev, DevType, Goto, StType, RunStates
    <3> HIDE DEF d
    <3>3. Holds(r)'
      BY <1>2, <3>2 DEF Holds
    <3>4. Connected(r)'
      <4>1. ASSUME NEW e \in Devs, dev'[e].by = r PROVE FALSE
        <5>1. e # d
          BY <3>2, <4>1, NoneAssumption
        <5> QED
          BY <1>0, <3>2, <4>1, <5>1 DEF Connected, d
      <4> QED
        BY <4>1 DEF Connected
    <3>5. ASSUME NEW q \in Runs \ {r}
          PROVE  /\ Holds(q)' /\ Connected(q)'
                 /\ \A e \in Devs : dev[e].by = q => dev'[e].by = q
      <4>1. st'[q] = st[q] /\ dev[d].by # q /\ None # q
        BY <1>1, <3>1, NoneAssumption
      <4>2. st[q].pc \in Holding => st[q].dev \in Devs /\ st[q].dev # d
        BY <1>0, <1>3, <4>1 DEF Holds
      <4> QED
        BY <1>0, <3>2, <4>1, <4>2 DEF Holds, Connected
    <3> QED
      BY <3>3, <3>4, <3>5
  <2> QED
    BY <1>7, <2>1, <2>2, <2>3, TakesMoves
<1> QED
  BY <1>5, <1>6, <1>7 DEF Turn, Step, Takes

\* What a step does to the run's own mount and directory.
LEMMA MountStep ==
  ASSUME Base, NEW r \in Runs, Turn(r)
  PROVE  MntType' /\ MountInv'
<1>0. /\ st \in [Runs -> RunStates] /\ st[r] \in RunStates /\ Sound(st[r]) /\ Mounts(r) /\ MntType
      /\ \A q \in Runs : Sound(st[q]) /\ Holds(q) /\ Connected(q) /\ Mounts(q)
      /\ StType' /\ DevType /\ DevType' /\ OwnInv'
  BY StStep, DevTypeStep, OwnStep DEF Base, StType, OwnInv, MountInv
<1>1. ASSUME NEW q \in Runs, q # r PROVE Mounts(q)'
  <2>1. Same(q)
    BY <1>1, Frame DEF Base
  <2>2. mnt[q] # None => st[q].dev \in Devs
    <3>1. mnt[q] # None => mnt[q] = <<st[q].img, st[q].num, st[q].dev>>
      BY <1>0 DEF Mounts
    <3> QED
      BY <1>0, <3>1 DEF MntType
  <2>3. \A e \in Devs : dev[e].by = q => dev'[e].by = q
    BY <1>1, OwnStep
  <2> QED
    BY <1>0, <2>1, <2>2, <2>3 DEF Same, Mounts
<1>2. /\ mnt' \in [Runs -> (Images \X Nums \X Devs) \union {None}]
      /\ tmp' \in [Runs -> BOOLEAN]
      /\ Mounts(r)'
  <2>0. st[r].stuck => st[r].pc \in Ending
    BY <1>0 DEF Sound
  <2> DEFINE Idle == mnt[r] = None /\ ~tmp[r] /\ ~st[r].stuck
  <2>1. CASE \E i \in Images, o \in Options : Start(r, i, o)
    <3>1. /\ mnt' = mnt /\ tmp' = tmp /\ st[r].pc = "start" /\ st'[r].pc \in {"end", "image"}
      BY <1>0, <2>1 DEF Start, World, At, Begin
    <3>2. Idle
      BY <1>0, <2>0, <3>1 DEF Mounts, Ending, Undoing
    <3> QED
      BY <1>0, <3>1, <3>2 DEF MntType, Mounts
  <2>2. CASE Kill(r)
    <3>1. /\ mnt' = mnt /\ tmp' = tmp /\ dev' = dev /\ st'[r].pc = "killed"
          /\ st'[r].img = st[r].img /\ st'[r].num = st[r].num /\ st'[r].dev = st[r].dev
      BY <1>0, <2>2 DEF Kill, Goto, World, RunStates
    <3> QED
      BY <1>0, <3>1 DEF MntType, Mounts
  <2>3. CASE \/ Image(r) \/ Create(r) \/ Sfdisk(r) \/ Info(r) \/ Losetup(r) \/ FindNBD(r)
             \/ SizeZero(r) \/ QemuNBD(r) \/ Wait(r) \/ Find(r) \/ Add(r) \/ Rescan(r) \/ Mkfs(r)
    <3>1. /\ mnt' = mnt /\ tmp' = tmp
          /\ st[r].pc \in {"image", "create", "sfdisk", "info", "losetup", "find", "size0",
                           "qemu-nbd", "wait", "scan", "add", "rescan", "mkfs"}
          /\ st'[r].pc \notin {"rsync", "umount"}
      <4> USE <1>0 DEF Goto, Fail, Command, World, At, RunStates, Undo
      <4>1. CASE Image(r) \/ Create(r) \/ Info(r)
        BY <4>1 DEF Image, Create, Info
      <4>2. CASE Sfdisk(r)
        BY <4>2 DEF Sfdisk
      <4>3. CASE Losetup(r) \/ FindNBD(r) \/ SizeZero(r) \/ QemuNBD(r)
        BY <4>3 DEF Losetup, FindNBD, SizeZero, QemuNBD, Connect, NotStarted
      <4>4. CASE Wait(r) \/ Find(r) \/ Add(r)
        <5>1. CASE Wait(r)
          BY <5>1 DEF Wait
        <5>2. CASE Find(r)
          <6>1. mnt' = mnt /\ tmp' = tmp /\ st[r].pc = "scan"
            BY <5>2, FindMoves
          <6>2. CASE Goto(r, Undo(r))
            BY <6>1, <6>2
          <6>3. CASE \E n : st' = [st EXCEPT ![r].pc = "rescan", ![r].num = n]
            BY <6>1, <6>3
          <6>4. CASE \E n, x : st' = [st EXCEPT ![r].pc = "add", ![r].num = n, ![r].plan = x]
            BY <6>1, <6>4
          <6> HIDE DEF Goto
          <6> QED
            BY <5>2, <6>2, <6>3, <6>4, FindMoves
        <5>3. CASE Add(r)
          BY <5>3 DEF Add
        <5> QED
          BY <4>4, <5>1, <5>2, <5>3
      <4>5. CASE Rescan(r) \/ Mkfs(r)
        <5>1. CASE Rescan(r)
          BY <5>1 DEF Rescan, Place, AfterMkfs
        <5>2. CASE Mkfs(r)
          BY <5>2 DEF Mkfs, Place, AfterMkfs
        <5> QED
          BY <4>5, <5>1, <5>2
      <4> QED
        BY <2>3, <4>1, <4>2, <4>3, <4>4, <4>5
    <3>2. Idle
      BY <1>0, <2>0, <3>1 DEF Mounts, Ending, Undoing
    <3> QED
      BY <1>0, <3>1, <3>2 DEF MntType, Mounts
  <2>4. CASE Mkdir(r)
    <3>1. /\ mnt' = mnt /\ st[r].pc = "mkdir"
          /\ \/ tmp' = [tmp EXCEPT ![r] = TRUE] /\ st'[r].pc = "mount"
             \/ tmp' = tmp /\ st'[r].pc \in Undoing
      BY <1>0, <2>4 DEF Mkdir, At, Goto, Fail, RunStates, Undo, Undoing
    <3>2. Idle
      BY <1>0, <2>0, <3>1 DEF Mounts, Ending, Undoing
    <3> QED
      BY <1>0, <3>1, <3>2 DEF MntType, Mounts, Undoing
  <2>5. CASE Mount(r)
    <3>1. /\ tmp' = tmp /\ st[r].pc = "mount" /\ dev' = dev
          /\ st'[r].img = st[r].img /\ st'[r].num = st[r].num /\ st'[r].dev = st[r].dev
          /\ \/ /\ mnt' = [mnt EXCEPT ![r] = <<dev[st[r].dev].img, st[r].num, st[r].dev>>]
                /\ st'[r].pc \in {"rsync", "execute"}
             \/ mnt' = mnt /\ st'[r].pc = "rmdir"
      <4>1. /\ tmp' = tmp /\ st[r].pc = "mount" /\ dev' = dev
            /\ \/ /\ mnt' = [mnt EXCEPT ![r] = <<dev[st[r].dev].img, st[r].num, st[r].dev>>]
                  /\ Goto(r, "rsync") \/ Goto(r, "execute")
               \/ mnt' = mnt /\ Goto(r, "rmdir")
        BY <2>5 DEF Mount, At, Fail
      <4>2. CASE mnt' = mnt /\ Goto(r, "rmdir")
        BY <1>0, <4>1, <4>2 DEF Goto, RunStates
      <4>3. CASE Goto(r, "rsync")
        BY <1>0, <4>1, <4>3 DEF Goto, RunStates
      <4>4. CASE Goto(r, "execute")
        BY <1>0, <4>1, <4>4 DEF Goto, RunStates
      <4> QED
        BY <4>1, <4>2, <4>3, <4>4
    <3>2. mnt[r] = None /\ ~st[r].stuck
      BY <1>0, <2>0, <3>1 DEF Mounts, Ending, Undoing
    <3>3. st[r].dev \in Devs /\ st[r].num \in Nums /\ st[r].img \in Images
      BY <1>0, <3>1 DEF Sound, Holding, Working
    <3>4. dev[st[r].dev].img = st[r].img /\ dev[st[r].dev].by = r
      BY <1>0, <3>1 DEF Holds, Holding, Working
    <3> DEFINE m == <<st[r].img, st[r].num, st[r].dev>>
    <3>5. m # None /\ m \in Images \X Nums \X Devs
      BY <3>3, NoneAssumption DEF Devs
    <3>6. \/ mnt' = [mnt EXCEPT ![r] = m] /\ st'[r].pc \in {"rsync", "execute"}
          \/ mnt' = mnt /\ st'[r].pc = "rmdir"
      BY <3>1, <3>4
    <3>7. m = <<st'[r].img, st'[r].num, st'[r].dev>> /\ dev'[st'[r].dev].by = r
      BY <3>1, <3>4
    <3> HIDE DEF m
    <3> QED
      BY <1>0, <3>1, <3>2, <3>5, <3>6, <3>7 DEF MntType, Mounts
  <2>6. CASE Rsync(r)
    <3>1. /\ mnt' = mnt /\ tmp' = tmp /\ st[r].pc = "rsync" /\ dev' = dev
          /\ st'[r].img = st[r].img /\ st'[r].num = st[r].num /\ st'[r].dev = st[r].dev
          /\ st'[r].pc \in {"execute", "umount"}
      <4>1. /\ mnt' = mnt /\ tmp' = tmp /\ st[r].pc = "rsync" /\ dev' = dev
            /\ \/ Goto(r, "umount")
               \/ \E p \in {"execute", "umount"} :
                    st' = [st EXCEPT ![r].pc = p, ![r].copied = TRUE]
        BY <2>6 DEF Rsync, At, Fail
      <4> QED
        BY <1>0, <4>1 DEF Goto, RunStates
    <3> QED
      BY <1>0, <2>0, <3>1 DEF MntType, Mounts, Ending, Undoing
  <2>7. CASE Execute(r)
    <3>1. /\ mnt' = mnt /\ tmp' = tmp /\ st[r].pc = "execute" /\ dev' = dev
          /\ st'[r].img = st[r].img /\ st'[r].num = st[r].num /\ st'[r].dev = st[r].dev
          /\ IF mnt[r] # None THEN st'[r].pc = "umount" ELSE st'[r].pc \in Undoing
      BY <1>0, <2>7 DEF Execute, Command, World, At, Goto, Fail, RunStates, Undo, Undoing
    <3> QED
      BY <1>0, <2>0, <3>1 DEF MntType, Mounts, Ending, Undoing
  <2>8. CASE Umount(r)
    <3>1. /\ tmp' = tmp /\ st[r].pc = "umount" /\ dev' = dev
          /\ st'[r].img = st[r].img /\ st'[r].num = st[r].num /\ st'[r].dev = st[r].dev
          /\ \/ mnt' = [mnt EXCEPT ![r] = None] /\ st'[r].pc = "rmdir"
             \/ mnt' = mnt /\ st'[r].pc \in Undoing /\ st'[r].stuck
      BY <1>0, <2>8 DEF Umount, At, Goto, RunStates, Undo, Undoing
    <3> QED
      BY <1>0, <2>0, <3>1 DEF MntType, Mounts, Ending, Undoing
  <2>9. CASE Rmdir(r)
    <3>1. /\ mnt' = mnt /\ st[r].pc = "rmdir"
          /\ \/ tmp' = [tmp EXCEPT ![r] = FALSE] /\ st'[r].pc \in Undoing
             \/ tmp' = tmp /\ st'[r].pc \in Undoing /\ st'[r].stuck
      BY <1>0, <2>9 DEF Rmdir, At, Goto, RunStates, Undo, Undoing
    <3>2. mnt[r] = None
      BY <1>0, <2>0, <3>1 DEF Mounts, Ending, Undoing
    <3> QED
      BY <1>0, <3>1, <3>2 DEF MntType, Mounts, Undoing
  <2>10. CASE Settle(r) \/ Disconnect(r) \/ Detach(r)
    <3>1. /\ mnt' = mnt /\ tmp' = tmp /\ st[r].pc \in Undoing
          /\ st'[r].img = st[r].img /\ st'[r].num = st[r].num /\ st'[r].dev = st[r].dev
          /\ st'[r].pc \in {"end", "disconnect"} /\ (st[r].stuck => st'[r].stuck)
      BY <1>0, <2>10 DEF Settle, Command, World, Disconnect, Detach, At, Goto, Fail, RunStates, Undoing
    <3>2. mnt[r] # None => mnt[r] = <<st[r].img, st[r].num, st[r].dev>> /\ st[r].stuck
      BY <1>0, <3>1 DEF Mounts, Undoing
    <3>3. (mnt[r] # None /\ st[r].dev \notin Nbds) => dev' = dev
      <4>1. CASE Settle(r)
        BY <4>1 DEF Settle, Command, World
      <4>2. CASE Disconnect(r)
        BY <1>0, <4>2 DEF Disconnect, At, Sound
      <4>3. CASE Detach(r)
        <5>1. mnt[r] # None => mnt[r][3] = st[r].dev
          BY <3>2
        <5> QED
          BY <4>3, <5>1 DEF Detach
      <4> QED
        BY <2>10, <4>1, <4>2, <4>3
    <3>4. CASE mnt[r] = None
      BY <1>0, <3>1, <3>4 DEF MntType, Mounts, Undoing
    <3>5. CASE mnt[r] # None
      BY <1>0, <3>1, <3>2, <3>3, <3>5 DEF MntType, Mounts
    <3> QED
      BY <3>4, <3>5
  <2> QED
    BY <2>1, <2>2, <2>3, <2>4, <2>5, <2>6, <2>7, <2>8, <2>9, <2>10 DEF Turn, Step
<1> QED
  BY <1>1, <1>2 DEF MntType, MountInv

\* The kernel's showing a size changes nobody's device.
LEMMA SizeStep ==
  ASSUME Base, NEW d \in Devs, SizeAppears(d)
  PROVE  Base'
<1>1. StType /\ DevType /\ MntType /\ OwnInv /\ MountInv
  BY DEF Base
<1>2. /\ st' = st /\ mnt' = mnt /\ tmp' = tmp
      /\ dev' = [dev EXCEPT ![d].size = TRUE]
  BY DEF SizeAppears
<1>3. DevType' /\ \A e \in Devs : dev'[e].by = dev[e].by /\ dev'[e].img = dev[e].img
  BY <1>1, <1>2 DEF DevType
<1>4. StType' /\ MntType'
  BY <1>1, <1>2 DEF StType, MntType
<1>5. \A r \in Runs : st[r].pc \in Holding => st[r].dev \in Devs
  BY <1>1 DEF StType, Sound
<1>6. OwnInv'
  BY <1>1, <1>2, <1>3, <1>5 DEF OwnInv, Holds, Connected
<1>7. \A r \in Runs : mnt[r] # None => st[r].dev \in Devs
  <2> SUFFICES ASSUME NEW r \in Runs, mnt[r] # None PROVE st[r].dev \in Devs
    OBVIOUS
  <2>1. mnt[r] = <<st[r].img, st[r].num, st[r].dev>> /\ mnt[r] \in Images \X Nums \X Devs
    BY <1>1 DEF MountInv, Mounts, MntType
  <2> QED
    BY <2>1
<1>8. MountInv'
  BY <1>1, <1>2, <1>3, <1>7 DEF MountInv, Mounts
<1> QED
  BY <1>3, <1>4, <1>6, <1>8 DEF Base

LEMMA BaseStep == Base /\ [Next]_vars => Base'
<1> SUFFICES ASSUME Base, [Next]_vars PROVE Base'
  OBVIOUS
<1>1. CASE \E r \in Runs : Turn(r)
  BY <1>1, StStep, DevTypeStep, OwnStep, MountStep DEF Base
<1>2. CASE \E d \in Devs : SizeAppears(d)
  BY <1>2, SizeStep
<1>3. CASE UNCHANGED vars
  BY <1>3 DEF vars, Base, StType, DevType, MntType, OwnInv, MountInv, Holds, Connected, Mounts
<1> QED
  BY <1>1, <1>2, <1>3 DEF Next, Turn

LEMMA BaseInit == Init => Base
<1> SUFFICES ASSUME Init PROVE Base
  OBVIOUS
<1>1. /\ dev = [d \in Devs |-> NoDev] /\ mnt = [r \in Runs |-> None]
      /\ tmp = [r \in Runs |-> FALSE] /\ \A r \in Runs : st[r].pc = "start"
  BY DEF Init, Begin
<1>2. DevType /\ MntType
  BY <1>1 DEF DevType, MntType, NoDev
<1>3. OwnInv
  BY <1>1, NoneAssumption DEF OwnInv, Holds, Connected, NoDev, Holding, Working, Undoing
<1>4. MountInv
  BY <1>1 DEF MountInv, Mounts
<1> QED
  BY <1>2, <1>3, <1>4, StInit DEF Base

THEOREM BaseCorrect == Spec => []Base
<1>1. Init => Base
  BY BaseInit
<1>2. Base /\ [Next]_vars => Base'
  BY BaseStep
<1> QED
  BY <1>1, <1>2, PTL DEF Spec

\* From the connection on to the cleanup the device a run works on shows its own image,
\* for any number of runs that race for the same nbd devices.
THEOREM OwnDeviceCorrect == Spec => []OwnDevice
<1>1. Base => OwnDevice
  BY DEF Base, OwnInv, Holds, Holding, Working, OwnDevice
<1> QED
  BY <1>1, BaseCorrect, PTL

\* A run that ends by itself leaves no device, no mount and no directory behind, unless
\* one of the commands that take them down failed, wherever else it failed.
THEOREM ReleasedCorrect == Spec => []Released
<1>1. Base => Released
  <2> SUFFICES ASSUME Base, NEW r \in Runs, st[r].pc = "end", ~st[r].stuck
               PROVE  mnt[r] = None /\ ~tmp[r] /\ \A d \in Devs : dev[d].by # r
    BY DEF Released
  <2>1. mnt[r] = None /\ ~tmp[r]
    BY DEF Base, MountInv, Mounts
  <2>2. \A d \in Devs : dev[d].by # r
    BY DEF Base, OwnInv, Connected, Holding, Working, Undoing
  <2> QED
    BY <2>1, <2>2
<1> QED
  BY <1>1, BaseCorrect, PTL
-----------------------------------------------------------------------------
(* What a run's steps do to its image *)

\* places where a run relies on what it has seen of its image
Using == {"rescan", "mkfs", "mkdir", "mount", "rsync"}
Relying == Using \union {"create", "sfdisk", "add"}
\* places after the copy
After == Ending \union {"execute", "umount", "rmdir"}

Old(r) == img[st[r].img].parts[st[r].num]
SetPart(r, p) == img' = [img EXCEPT ![st[r].img].parts[st[r].num] = p]

AddFiles(r) == img' = [img EXCEPT ![st[r].img].parts[st[r].num].files = @ \union {r}]
TakeFiles(r) == img' = [img EXCEPT ![st[r].img].parts[st[r].num].files = @ \ {r}]
SetParts(r, x) == img' = [img EXCEPT ![st[r].img].parts = x]
\* no partition of the image has the run's name
NoneOf(r) == \A k \in Table(st[r].img) : img[st[r].img].parts[k].name # st[r].opt.name

\* nothing new is relied on
Quiet(r) ==
  /\ img' = img /\ st'[r].num = st[r].num /\ st'[r].copied = st[r].copied
  /\ st'[r].pc \in Relying => st[r].pc \in Using /\ st'[r].pc \in Using
  /\ st[r].pc \in After => st'[r].pc \in After
Misses(r) ==
  /\ st[r].pc = "image" /\ st'[r].pc = "create"
  /\ ~img[st[r].img].there /\ img' = img
Creates(r) ==
  /\ st[r].pc = "create" /\ st'[r].pc = "sfdisk"
  /\ img' = [img EXCEPT ![st[r].img] = [there |-> TRUE, parts |-> NoParts]]
Labels(r) ==
  /\ st[r].pc = "sfdisk" /\ st'[r].pc = "info"
  /\ img' = [img EXCEPT ![st[r].img].parts = [NoParts EXCEPT ![1] = Part(Unnamed, 1, SfdiskEnd)]]
Chooses(r) ==
  /\ st[r].pc = "scan" /\ img' = img
  /\ LET i == st[r].img
         n == st'[r].num
         p == st'[r].plan
     IN  \/ /\ st'[r].pc = "rescan" /\ n \in Table(i)
            /\ img[i].parts[n].name = st[r].opt.name
         \/ /\ st'[r].pc = "add" /\ n \in Nums \ Table(i)
            /\ p \in Plans /\ p[1] .. p[2] \subseteq Unused(i) /\ NoneOf(r)
\* what the run adds
New(r) == Part(st[r].opt.name, st[r].plan[1], st[r].plan[2])
Adds(r) ==
  /\ st[r].pc = "add" /\ st'[r].num = st[r].num /\ dev[st[r].dev].img = st[r].img
  /\ \/ st'[r].pc \in Undoing /\ SetParts(r, Zeroed(r))
     \/ /\ st'[r].pc \in {"rescan"} \union Undoing
        /\ SetParts(r, [Zeroed(r) EXCEPT ![st[r].num] = New(r)])
Formats(r) ==
  /\ st[r].pc = "mkfs" /\ st'[r].pc \in {"mkdir", "execute"} \union Undoing
  /\ st'[r].num = st[r].num /\ Old(r) # None
  /\ SetPart(r, [Old(r) EXCEPT !.fs = r, !.files = {}, !.hit = {}])
Copies(r) ==
  /\ st[r].pc = "rsync" /\ st'[r].pc \in {"execute", "umount"}
  /\ st'[r].num = st[r].num /\ st'[r].copied /\ Old(r) # None
  /\ AddFiles(r)
Loses(r) ==
  /\ st[r].pc = "disconnect" /\ st'[r].pc = "end" /\ st[r].copied /\ st'[r].copied
  /\ st[r].num \in Nums /\ st'[r].num = st[r].num /\ Old(r) # None
  /\ mnt'[r] # None /\ st'[r].dev \in Nbds
  /\ TakeFiles(r)
\* only a copy makes a run one that has copied
Effects(r) ==
  \/ Quiet(r) \/ Copies(r) \/ Loses(r)
  \/ /\ st'[r].copied = st[r].copied
     /\ Misses(r) \/ Creates(r) \/ Labels(r) \/ Chooses(r) \/ Adds(r) \/ Formats(r)

LEMMA GotoQuiet ==
  ASSUME StType, NEW r \in Runs, NEW p, Goto(r, p), img' = img,
         p \in Relying => st[r].pc \in Using /\ p \in Using,
         st[r].pc \in After => p \in After
  PROVE  Quiet(r)
BY DEF StType, RunStates, Goto, Quiet

\* The run's arguments stay what they were.
LEMMA ArgsKept ==
  ASSUME Base, NEW r \in Runs, Step(r) \/ Kill(r)
  PROVE  st'[r].img = st[r].img /\ st'[r].opt = st[r].opt
<1>0. StType /\ MntType /\ st \in [Runs -> RunStates]
  BY DEF Base, StType
<1>1. CASE ~Takes(r)
  BY <1>0, <1>1, DevKept DEF Goes
<1>2. ASSUME NEW p, Goto(r, p) PROVE st'[r].img = st[r].img /\ st'[r].opt = st[r].opt
  BY <1>0, <1>2 DEF Goto, RunStates
<1>3. ASSUME NEW d, NEW b, Connect(r, d, b)
      PROVE  st'[r].img = st[r].img /\ st'[r].opt = st[r].opt
  BY <1>0, <1>3 DEF Connect, RunStates
<1>4. CASE Losetup(r)
  BY <1>2, <1>3, <1>4 DEF Losetup, Fail
<1>5. CASE QemuNBD(r)
  BY <1>2, <1>3, <1>5 DEF QemuNBD, NotStarted, Fail
<1>6. CASE Disconnect(r)
  BY <1>0, <1>2, <1>6 DEF Disconnect, RunStates
<1>7. CASE Detach(r)
  BY <1>0, <1>2, <1>7 DEF Detach, RunStates
<1> QED
  BY <1>1, <1>4, <1>5, <1>6, <1>7 DEF Takes

LEMMA EffectsOf ==
  ASSUME Base, NEW r \in Runs, Step(r) \/ Kill(r)
  PROVE  Effects(r)
<1>0. StType /\ st \in [Runs -> RunStates] /\ st[r] \in RunStates /\ Sound(st[r])
      /\ Holds(r) /\ Mounts(r) /\ MntType
  BY DEF Base, StType, OwnInv, MountInv
<1>1. /\ Undo(r) \in Undoing /\ Undoing \subseteq After /\ Undoing \intersect Relying = {}
      /\ {"info", "end", "killed", "losetup", "find", "size0", "qemu-nbd", "wait", "scan",
          "execute", "umount", "rmdir"} \intersect Relying = {}
      /\ {"end", "killed", "execute", "umount", "rmdir"} \subseteq After
      /\ (Using \union {"image", "create", "sfdisk", "info", "losetup", "find", "size0",
          "qemu-nbd", "wait", "scan", "add"}) \intersect After = {}
  BY DEF Undo, Undoing, After, Ending, Relying, Using
<1> USE DEF Fail, World
<1>2. CASE Kill(r)
  <2>1. img' = img /\ Goto(r, "killed")
    BY <1>2 DEF Kill
  <2> QED
    BY <1>0, <1>1, <2>1, GotoQuiet DEF Effects
<1>3. CASE Image(r)
  <2>1. /\ img' = img /\ st[r].pc = "image"
        /\ Goto(r, "info") \/ (Goto(r, "create") /\ ~img[st[r].img].there)
    BY <1>3 DEF Image, At
  <2>2. CASE Goto(r, "info")
    BY <1>0, <1>1, <2>1, <2>2, GotoQuiet DEF Effects
  <2>3. CASE Goto(r, "create") /\ ~img[st[r].img].there
    BY <1>0, <2>1, <2>3 DEF Effects, Misses, Goto, RunStates
  <2> QED
    BY <2>1, <2>2, <2>3
<1>4. CASE Create(r)
  <2>1. /\ st[r].pc = "create"
        /\ \/ /\ img' = [img EXCEPT ![st[r].img] = [there |-> TRUE, parts |-> NoParts]]
              /\ Goto(r, "sfdisk")
           \/ img' = img /\ Goto(r, "end")
    BY <1>4 DEF Create, At
  <2>2. CASE img' = img /\ Goto(r, "end")
    BY <1>0, <1>1, <2>1, <2>2, GotoQuiet DEF Effects
  <2>3. CASE Goto(r, "sfdisk")
    <3>1. st'[r].pc = "sfdisk" /\ st'[r].copied = st[r].copied
      BY <1>0, <2>3 DEF Goto, RunStates
    <3>2. CASE img' = [img EXCEPT ![st[r].img] = [there |-> TRUE, parts |-> NoParts]]
      BY <2>1, <3>1, <3>2 DEF Effects, Creates
    <3> QED
      BY <2>1, <2>2, <3>2
  <2> QED
    BY <2>1, <2>2, <2>3
<1>5. CASE Sfdisk(r)
  <2>1. /\ st[r].pc = "sfdisk"
        /\ \/ /\ img' = [img EXCEPT ![st[r].img].parts =
                           [NoParts EXCEPT ![1] = Part(Unnamed, 1, SfdiskEnd)]]
              /\ Goto(r, "info")
           \/ img' = img /\ Goto(r, "end")
    BY <1>5 DEF Sfdisk, At
  <2>2. CASE img' = img /\ Goto(r, "end")
    BY <1>0, <1>1, <2>1, <2>2, GotoQuiet DEF Effects
  <2>3. CASE Goto(r, "info")
    <3>1. st'[r].pc = "info" /\ st'[r].copied = st[r].copied
      BY <1>0, <2>3 DEF Goto, RunStates
    <3> QED
      BY <2>1, <2>2, <3>1 DEF Effects, Labels
  <2> QED
    BY <2>1, <2>2, <2>3
<1>6. CASE Info(r) \/ SizeZero(r) \/ Settle(r)
  <2>1. /\ img' = img /\ st[r].pc \in {"info", "size0", "settle"}
        /\ st[r].pc \in After => Goto(r, "disconnect")
        /\ \E p \in {"losetup", "find", "end", "qemu-nbd", "disconnect"} : Goto(r, p)
    <3>1. CASE Info(r)
      BY <1>1, <3>1 DEF Info, Command, At
    <3>2. CASE SizeZero(r)
      BY <1>1, <3>2 DEF SizeZero, NotStarted, At
    <3>3. CASE Settle(r)
      BY <3>3 DEF Settle, Command, At
    <3> QED
      BY <1>6, <3>1, <3>2, <3>3
  <2>2. "disconnect" \in After /\ "disconnect" \notin Relying
    BY <1>1 DEF Undoing
  <2>3. CASE Goto(r, "disconnect")
    BY <1>0, <2>1, <2>2, <2>3, GotoQuiet DEF Effects
  <2>4. CASE st[r].pc \notin After
    <3>1. PICK p \in {"losetup", "find", "end", "qemu-nbd", "disconnect"} : Goto(r, p)
      BY <2>1
    <3> QED
      BY <1>0, <1>1, <2>1, <2>2, <2>4, <3>1, GotoQuiet DEF Effects
  <2> QED
    BY <2>1, <2>3, <2>4
<1>7. CASE Losetup(r) \/ FindNBD(r) \/ QemuNBD(r)
  <2>1. /\ img' = img /\ st[r].pc \in {"losetup", "find", "qemu-nbd"}
        /\ \/ Goto(r, "end")
           \/ \E p \in {"size0", "wait"} : \E d : st' = [st EXCEPT ![r].pc = p, ![r].dev = d]
    <3>1. CASE Losetup(r)
      BY <3>1 DEF Losetup, Connect, At
    <3>2. CASE FindNBD(r)
      BY <3>2 DEF FindNBD, At
    <3>3. CASE QemuNBD(r)
      BY <3>3 DEF QemuNBD, Connect, NotStarted, At
    <3> QED
      BY <1>7, <3>1, <3>2, <3>3
  <2>2. CASE Goto(r, "end")
    BY <1>0, <1>1, <2>1, <2>2, GotoQuiet DEF Effects
  <2>3. CASE \E p \in {"size0", "wait"} : \E d : st' = [st EXCEPT ![r].pc = p, ![r].dev = d]
    <3>1. /\ st'[r].pc \in {"size0", "wait"} /\ st'[r].num = st[r].num
          /\ st'[r].copied = st[r].copied
      BY <1>0, <2>3 DEF RunStates
    <3> QED
      BY <1>1, <2>1, <3>1 DEF Effects, Quiet
  <2> QED
    BY <2>1, <2>2, <2>3
<1>8. CASE Wait(r)
  <2>1. /\ img' = img /\ st[r].pc = "wait"
        /\ \/ Goto(r, "scan") \/ Goto(r, Undo(r))
           \/ st' = [st EXCEPT ![r].polls = @ + 1]
    BY <1>8 DEF Wait, At
  <2>2. CASE Goto(r, "scan") \/ Goto(r, Undo(r))
    BY <1>0, <1>1, <2>1, <2>2, GotoQuiet DEF Effects
  <2>3. CASE st' = [st EXCEPT ![r].polls = @ + 1]
    <3>1. st'[r].pc = "wait" /\ st'[r].num = st[r].num /\ st'[r].copied = st[r].copied
      BY <1>0, <2>1, <2>3 DEF RunStates
    <3> QED
      BY <1>1, <2>1, <3>1 DEF Effects, Quiet
  <2> QED
    BY <2>1, <2>2, <2>3
<1>9. st[r].pc \in Working => dev[st[r].dev].img = st[r].img
  BY <1>0 DEF Holds, Holding
<1>10. CASE Find(r)
  <2> DEFINE i == dev[st[r].dev].img
             start == Min({g[1] : g \in Gaps(i)})
             last == (CHOOSE g \in Gaps(i) : g[1] = start)[2]
             plan == <<start, IF last - start > MaxSize THEN start + MaxSize - 1 ELSE last>>
  <2>1. img' = img /\ st[r].pc = "scan" /\ i = st[r].img
    BY <1>9, <1>10 DEF Find, At, Working
  <2>2. \/ Goto(r, Undo(r))
        \/ \E n \in {k \in Table(i) : img[i].parts[k].name = st[r].opt.name} :
             st' = [st EXCEPT ![r].pc = "rescan", ![r].num = n]
        \/ /\ Gaps(i) # {} /\ OpenNumber(i) # 0
           /\ st' = [st EXCEPT ![r].pc = "add", ![r].num = OpenNumber(i), ![r].plan = plan]
           /\ {k \in Table(i) : img[i].parts[k].name = st[r].opt.name} = {}
    BY <1>10 DEF Find
  <2>3. Gaps(i) # {} => plan \in Plans /\ plan[1] .. plan[2] \subseteq Unused(i)
    BY PlanType
  <2> HIDE DEF i, plan
  <2>4. CASE Goto(r, Undo(r))
    BY <1>0, <1>1, <2>1, <2>4, GotoQuiet DEF Effects
  <2>5. ASSUME NEW n \in Table(i), img[i].parts[n].name = st[r].opt.name,
               st' = [st EXCEPT ![r].pc = "rescan", ![r].num = n]
        PROVE  Effects(r)
    <3>1. st'[r].pc = "rescan" /\ st'[r].num = n /\ st'[r].copied = st[r].copied
      BY <1>0, <2>5 DEF RunStates
    <3> QED
      BY <2>1, <2>5, <3>1 DEF Effects, Chooses
  <2>6. ASSUME Gaps(i) # {}, OpenNumber(i) # 0,
               {k \in Table(i) : img[i].parts[k].name = st[r].opt.name} = {},
               st' = [st EXCEPT ![r].pc = "add", ![r].num = OpenNumber(i), ![r].plan = plan]
        PROVE  Effects(r)
    <3>1. /\ st'[r].pc = "add" /\ st'[r].num = OpenNumber(i) /\ st'[r].plan = plan
          /\ st'[r].copied = st[r].copied
      BY <1>0, <2>6 DEF RunStates
    <3>2. OpenNumber(i) \in Nums \ Table(i)
      BY <2>6, OpenNumberType
    <3>3. NoneOf(r)
      BY <2>1, <2>6 DEF NoneOf
    <3> QED
      BY <2>1, <2>3, <2>6, <3>1, <3>2, <3>3 DEF Effects, Chooses
  <2> QED
    BY <2>2, <2>4, <2>5, <2>6
<1>11. CASE Add(r)
  <2>1. st[r].pc = "add" /\ dev[st[r].dev].img = st[r].img
    BY <1>9, <1>11 DEF Add, At, Working
  <2>2. \/ img' = img /\ Goto(r, Undo(r))
        \/ SetParts(r, Zeroed(r)) /\ Goto(r, Undo(r))
        \/ /\ SetParts(r, [Zeroed(r) EXCEPT ![st[r].num] = New(r)])
           /\ Goto(r, Undo(r)) \/ Goto(r, "rescan")
    BY <1>11, <2>1 DEF Add, SetParts, New
  <2>3. CASE img' = img /\ Goto(r, Undo(r))
    BY <1>0, <1>1, <2>1, <2>3, GotoQuiet DEF Effects
  <2>4. ASSUME NEW p \in {"rescan", Undo(r)}, Goto(r, p)
        PROVE  st'[r].pc = p /\ st'[r].num = st[r].num /\ st'[r].copied = st[r].copied
    BY <1>0, <2>4 DEF Goto, RunStates
  <2> QED
    BY <1>1, <2>1, <2>2, <2>3, <2>4 DEF Effects, Adds
<1>12. CASE Rescan(r)
  <2>1. /\ st[r].pc = "rescan" /\ img' = img
        /\ \E p \in {"mkfs", "mkdir", "execute"} \union Undoing : Goto(r, p)
    BY <1>1, <1>12 DEF Rescan, Command, At, Place, AfterMkfs
  <2>2. PICK p \in {"mkfs", "mkdir", "execute"} \union Undoing : Goto(r, p)
    BY <2>1
  <2> QED
    BY <1>0, <1>1, <2>1, <2>2, GotoQuiet DEF Effects, Using
<1>13. CASE Mkfs(r)
  <2>1. /\ st[r].pc = "mkfs" /\ dev[st[r].dev].img = st[r].img
        /\ \/ /\ Old(r) # None /\ SetPart(r, [Old(r) EXCEPT !.fs = r, !.files = {}, !.hit = {}])
              /\ \E p \in {"mkdir", "execute"} \union Undoing : Goto(r, p)
           \/ img' = img /\ Goto(r, Undo(r))
    <3>1. st[r].pc = "mkfs" /\ dev[st[r].dev].img = st[r].img
      BY <1>9, <1>13 DEF Mkfs, At, Working
    <3>2. Place(r, AfterMkfs(st[r].opt)) \in {"mkdir", "execute"} \union Undoing
      BY <1>1 DEF Place, AfterMkfs
    <3>3. \/ /\ Shows(r) /\ SetPart(r, [Old(r) EXCEPT !.fs = r, !.files = {}, !.hit = {}])
             /\ Goto(r, Place(r, AfterMkfs(st[r].opt)))
          \/ img' = img /\ Goto(r, Undo(r))
      BY <1>13, <3>1 DEF Mkfs, SetPart, Old
    <3>4. Shows(r) => Old(r) # None
      BY <3>1 DEF Shows, Old
    <3> QED
      BY <3>1, <3>2, <3>3, <3>4
  <2>2. CASE img' = img /\ Goto(r, Undo(r))
    BY <1>0, <1>1, <2>1, <2>2, GotoQuiet DEF Effects
  <2>3. ASSUME NEW p \in {"mkdir", "execute"} \union Undoing, Goto(r, p)
        PROVE  st'[r].pc = p /\ st'[r].num = st[r].num /\ st'[r].copied = st[r].copied
    BY <1>0, <2>3 DEF Goto, RunStates
  <2> QED
    BY <2>1, <2>2, <2>3 DEF Effects, Formats
<1>14. CASE Mkdir(r) \/ Mount(r)
  <2>1. /\ st[r].pc \in {"mkdir", "mount"} /\ img' = img
        /\ \E p \in {"mount", "rsync", "execute", "rmdir"} \union Undoing : Goto(r, p)
    <3>1. CASE Mkdir(r)
      BY <1>1, <3>1 DEF Mkdir, At
    <3>2. CASE Mount(r)
      BY <3>2 DEF Mount, At
    <3> QED
      BY <1>14, <3>1, <3>2
  <2>2. PICK p \in {"mount", "rsync", "execute", "rmdir"} \union Undoing : Goto(r, p)
    BY <2>1
  <2> QED
    BY <1>0, <1>1, <2>1, <2>2, GotoQuiet DEF Effects, Using
<1>15. CASE Rsync(r)
  <2>1. st[r].pc = "rsync" /\ mnt[r] = <<st[r].img, st[r].num, st[r].dev>>
    BY <1>0, <1>15 DEF Rsync, At, Mounts
  <2>2. Mounted(r) = Old(r)
    BY <2>1 DEF Mounted, Old
  <2>3. \/ /\ Mounted(r) # None /\ AddFiles(r)
           /\ \E p \in {"execute", "umount"} :
                st' = [st EXCEPT ![r].pc = p, ![r].copied = TRUE]
        \/ img' = img /\ Goto(r, "umount")
    <3>1. mnt[r][1] = st[r].img /\ mnt[r][2] = st[r].num
      BY <2>1
    <3> DEFINE i == mnt[r][1]
               n == mnt[r][2]
    <3>2. \/ /\ Mounted(r) # None
             /\ img' = [img EXCEPT ![i].parts[n].files = @ \union {r}]
             /\ st' = [st EXCEPT ![r].pc = IF st[r].opt.exec THEN "execute" ELSE "umount",
                                 ![r].copied = TRUE]
          \/ img' = img /\ Goto(r, "umount")
      BY <1>15 DEF Rsync
    <3> HIDE DEF i, n
    <3>3. i = st[r].img /\ n = st[r].num
      BY <3>1 DEF i, n
    <3> QED
      BY <3>2, <3>3 DEF AddFiles
  <2>4. CASE img' = img /\ Goto(r, "umount")
    BY <1>0, <1>1, <2>1, <2>4, GotoQuiet DEF Effects
  <2>5. ASSUME NEW p \in {"execute", "umount"}, st' = [st EXCEPT ![r].pc = p, ![r].copied = TRUE]
        PROVE  st'[r].pc = p /\ st'[r].num = st[r].num /\ st'[r].copied
    BY <1>0, <2>5 DEF RunStates
  <2> QED
    BY <2>1, <2>2, <2>3, <2>4, <2>5 DEF Effects, Copies
<1>16. CASE Disconnect(r) /\ img' # img
  <2>1. /\ st[r].pc = "disconnect" /\ Goto(r, "end") /\ st[r].copied /\ mnt' = mnt
        /\ mnt[r] # None /\ Mounted(r) # None
        /\ img' = [img EXCEPT ![mnt[r][1]].parts[mnt[r][2]].files = @ \ {r}]
    BY <1>16 DEF Disconnect, At
  <2>2. mnt[r] = <<st[r].img, st[r].num, st[r].dev>> /\ mnt[r] \in Images \X Nums \X Devs
    BY <1>0, <2>1 DEF Mounts, MntType
  <2>3. /\ mnt[r][1] = st[r].img /\ mnt[r][2] = st[r].num /\ st[r].num \in Nums
        /\ Mounted(r) = Old(r)
    BY <2>2 DEF Mounted, Old
  <2>4. /\ st'[r].pc = "end" /\ st'[r].num = st[r].num /\ st'[r].copied /\ st'[r].dev = st[r].dev
    BY <1>0, <2>1 DEF Goto, RunStates
  <2>5. st[r].dev \in Nbds
    BY <1>0, <2>1 DEF Sound
  <2>6. TakeFiles(r)
    <3> DEFINE i == mnt[r][1]
               n == mnt[r][2]
    <3>1. img' = [img EXCEPT ![i].parts[n].files = @ \ {r}] /\ i = st[r].img /\ n = st[r].num
      BY <2>1, <2>3
    <3> HIDE DEF i, n
    <3> QED
      BY <3>1 DEF TakeFiles
  <2> QED
    BY <2>1, <2>3, <2>4, <2>5, <2>6 DEF Effects, Loses
<1>17. CASE Execute(r) \/ Umount(r) \/ Rmdir(r) \/ (Disconnect(r) /\ img' = img) \/ Detach(r)
  <2>1. /\ img' = img
        /\ \E p \in {"umount", "rmdir", "end"} \union Undoing :
             \/ Goto(r, p)
             \/ st' = [st EXCEPT ![r].pc = p, ![r].stuck = TRUE]
    <3>1. CASE Execute(r)
      BY <1>1, <3>1 DEF Execute, Command
    <3>2. CASE Umount(r)
      BY <1>1, <3>2 DEF Umount
    <3>3. CASE Rmdir(r)
      <4>1. mnt[r] = None
        BY <1>0, <3>3 DEF Rmdir, At, Mounts, Sound, Ending, Undoing
      <4> QED
        BY <1>1, <3>3, <4>1 DEF Rmdir
    <3>4. CASE Disconnect(r) /\ img' = img
      BY <3>4 DEF Disconnect
    <3>5. CASE Detach(r)
      BY <3>5 DEF Detach
    <3> QED
      BY <1>17, <3>1, <3>2, <3>3, <3>4, <3>5
  <2>2. PICK p \in {"umount", "rmdir", "end"} \union Undoing :
          \/ Goto(r, p)
          \/ st' = [st EXCEPT ![r].pc = p, ![r].stuck = TRUE]
    BY <2>1
  <2>3. CASE Goto(r, p)
    BY <1>0, <1>1, <2>1, <2>2, <2>3, GotoQuiet DEF Effects
  <2>4. CASE st' = [st EXCEPT ![r].pc = p, ![r].stuck = TRUE]
    <3>1. st'[r].pc = p /\ st'[r].num = st[r].num /\ st'[r].copied = st[r].copied
      BY <1>0, <2>4 DEF RunStates
    <3> QED
      BY <1>1, <2>1, <2>2, <3>1 DEF Effects, Quiet
  <2> QED
    BY <2>2, <2>3, <2>4
<1> QED
  BY <1>2, <1>3, <1>4, <1>5, <1>6, <1>7, <1>8, <1>10, <1>11, <1>12, <1>13, <1>14, <1>15, <1>16,
     <1>17 DEF Step

\* A partition put into a run's image is all that changes.
LEMMA SetPartStep ==
  ASSUME ImgType, NEW r \in Runs, st[r].img \in Images, st[r].num \in Nums,
         NEW p \in Partitions, p.first <= p.last, SetPart(r, p)
  PROVE  /\ ImgType'
         /\ img'[st[r].img].parts = [img[st[r].img].parts EXCEPT ![st[r].num] = p]
         /\ img'[st[r].img].there = img[st[r].img].there
         /\ \A j \in Images : j # st[r].img => img'[j] = img[j]
<1> DEFINE i == st[r].img
           n == st[r].num
           x == [img[i] EXCEPT !.parts = [img[i].parts EXCEPT ![n] = p]]
<1>1. /\ img \in [Images -> Files] /\ img[i] \in Files
      /\ img[i].parts \in [Nums -> Partitions \union {None}]
  BY DEF ImgType, Files
<1>2. /\ x \in Files /\ x.there = img[i].there
      /\ x.parts = [img[i].parts EXCEPT ![n] = p]
  BY <1>1 DEF Files
<1>3. img' = [img EXCEPT ![i] = x]
  BY <1>1 DEF SetPart, Files
<1> HIDE DEF x
<1>4. img' \in [Images -> Files] /\ img'[i] = x /\ \A j \in Images : j # i => img'[j] = img[j]
  BY <1>1, <1>2, <1>3
<1>5. ASSUME NEW j \in Images, NEW k \in Nums, img'[j].parts[k] # None
      PROVE  img'[j].parts[k].first <= img'[j].parts[k].last
  <2>1. CASE j = i /\ k = n
    BY <1>1, <1>2, <1>4, <2>1
  <2>2. CASE ~(j = i /\ k = n)
    <3>1. img'[j].parts[k] = img[j].parts[k]
      BY <1>1, <1>2, <1>4, <2>2
    <3> QED
      BY <1>5, <3>1 DEF ImgType, Table
  <2> QED
    BY <2>1, <2>2
<1> QED
  BY <1>2, <1>4, <1>5 DEF ImgType, Table

LEMMA AddFilesStep ==
  ASSUME ImgType, NEW r \in Runs, st[r].img \in Images, st[r].num \in Nums,
         Old(r) # None, AddFiles(r)
  PROVE  SetPart(r, [Old(r) EXCEPT !.files = @ \union {r}])
BY DEF ImgType, Files, Partitions, Old, AddFiles, SetPart

LEMMA TakeFilesStep ==
  ASSUME ImgType, NEW r \in Runs, st[r].img \in Images, st[r].num \in Nums,
         Old(r) # None, TakeFiles(r)
  PROVE  SetPart(r, [Old(r) EXCEPT !.files = @ \ {r}])
BY DEF ImgType, Files, Partitions, Old, TakeFiles, SetPart

\* A partition in which bytes are zeroed is otherwise what it was.
LEMMA DentedType ==
  \A p \in Partitions \union {None}, r \in Runs :
         /\ Dented(p, r) \in Partitions \union {None}
         /\ Dented(p, r) = None <=> p = None
         /\ p # None =>
              /\ Dented(p, r).name = p.name /\ Dented(p, r).fs = p.fs
              /\ Dented(p, r).first = p.first /\ Dented(p, r).last = p.last
              /\ Dented(p, r).files = p.files /\ Dented(p, r).hit \subseteq p.hit \union {r}
         /\ Dented(p, r) # p => 1 \in p.first..p.last
<1> TAKE p \in Partitions \union {None}, r \in Runs
<1>1. CASE p = None
  BY <1>1 DEF Dented
<1>2. CASE p \in Partitions
  <2> DEFINE x == [p EXCEPT !.hit = p.hit \union {r}]
  <2>1. /\ x \in Partitions /\ x.name = p.name /\ x.fs = p.fs /\ x.first = p.first
        /\ x.last = p.last /\ x.files = p.files /\ x.hit = p.hit \union {r}
    BY <1>2 DEF Partitions
  <2>2. Dented(p, r) = p \/ (Dented(p, r) = x /\ 1 \in p.first..p.last)
    BY DEF Dented
  <2> HIDE DEF x
  <2> QED
    BY <1>2, <2>1, <2>2, NoneAssumption
<1> QED
  BY <1>1, <1>2

\* A run that creates a partition zeroes bytes in others, whether or not it gets so far
\* as to put its own into the table.
Fills(r) ==
  LET old == img[st[r].img].parts
      new == img'[st[r].img].parts
  IN  /\ st[r].pc = "add" /\ st'[r].pc \in {"rescan"} \union Undoing
      /\ st[r].num \in Nums /\ st'[r].num = st[r].num /\ st[r].plan \in Plans
      /\ img'[st[r].img].there = img[st[r].img].there
      /\ \A n \in Nums :
           \/ n = st[r].num /\ new[n] = New(r)
           \/ /\ new[n] = Dented(old[n], r)
              /\ n = st[r].num => st'[r].pc \in Undoing

LEMMA FillsStep ==
  ASSUME ImgType, NEW r \in Runs, st[r].img \in Images, st[r].num \in Nums,
         st[r].plan \in Plans, New(r) \in Partitions, Adds(r)
  PROVE  ImgType' /\ Fills(r) /\ \A j \in Images : j # st[r].img => img'[j] = img[j]
<1> DEFINE i == st[r].img
           old == img[i].parts
<1>1. /\ img \in [Images -> Files] /\ img[i] \in Files /\ old \in [Nums -> Partitions \union {None}]
      /\ New(r).first = st[r].plan[1] /\ New(r).last = st[r].plan[2]
      /\ st[r].plan[1] <= st[r].plan[2]
  BY DEF ImgType, Files, New, Part, Plans
<1>2. \A n \in Nums : Zeroed(r)[n] = Dented(old[n], r)
  BY DEF Adds, Zeroed
<1>3. \A n \in Nums : Dented(old[n], r) \in Partitions \union {None}
  BY <1>1, DentedType
<1>4. Zeroed(r) \in [Nums -> Partitions \union {None}]
  BY <1>2, <1>3 DEF Zeroed
<1>5. PICK x : /\ SetParts(r, x)
               /\ \/ st'[r].pc \in Undoing /\ x = Zeroed(r)
                  \/ /\ st'[r].pc \in {"rescan"} \union Undoing
                     /\ x = [Zeroed(r) EXCEPT ![st[r].num] = New(r)]
  BY DEF Adds
<1>6. /\ x \in [Nums -> Partitions \union {None}]
      /\ \A n \in Nums : \/ n = st[r].num /\ x[n] = New(r)
                         \/ x[n] = Dented(old[n], r) /\ (n = st[r].num => st'[r].pc \in Undoing)
  <2>1. CASE st'[r].pc \in Undoing /\ x = Zeroed(r)
    BY <1>2, <1>4, <2>1
  <2>2. CASE x = [Zeroed(r) EXCEPT ![st[r].num] = New(r)]
    BY <1>2, <1>4, <2>2
  <2> QED
    BY <1>5, <2>1, <2>2
<1> DEFINE y == [img[i] EXCEPT !.parts = x]
<1>7. y \in Files /\ y.there = img[i].there /\ y.parts = x
  BY <1>1, <1>6 DEF Files
<1>8. img' = [img EXCEPT ![i] = y]
  BY <1>1, <1>5 DEF SetParts, Files
<1> HIDE DEF y
<1>9. img' \in [Images -> Files] /\ img'[i] = y /\ \A j \in Images : j # i => img'[j] = img[j]
  BY <1>1, <1>7, <1>8
<1>10. Fills(r)
  BY <1>5, <1>6, <1>7, <1>9 DEF Fills, Adds
<1>11. ASSUME NEW j \in Images, NEW k \in Nums, img'[j].parts[k] # None
       PROVE  img'[j].parts[k].first <= img'[j].parts[k].last
  <2>1. CASE j = i
    <3>1. img'[i].parts[k] = x[k]
      BY <1>7, <1>9
    <3>2. CASE x[k] = New(r)
      BY <1>1, <2>1, <3>1, <3>2
    <3>3. CASE x[k] = Dented(old[k], r)
      <4>1. old[k] # None /\ x[k].first = old[k].first /\ x[k].last = old[k].last
        BY <1>1, <1>11, <2>1, <3>1, <3>3, DentedType
      <4> QED
        BY <2>1, <3>1, <4>1 DEF ImgType, Table
    <3> QED
      BY <1>6, <3>2, <3>3
  <2>2. CASE j # i
    BY <1>9, <1>11, <2>2 DEF ImgType, Table
  <2> QED
    BY <2>1, <2>2
<1> QED
  BY <1>9, <1>10, <1>11 DEF ImgType, Table

\* A run that formats, copies or loses its copy puts one partition into its own image.
Puts(r, p) ==
  /\ st[r].num \in Nums /\ st'[r].num = st[r].num
  /\ img'[st[r].img].parts = [img[st[r].img].parts EXCEPT ![st[r].num] = p]
  /\ img'[st[r].img].there = img[st[r].img].there
  /\ \/ Formats(r) /\ Old(r) # None /\ p = [Old(r) EXCEPT !.fs = r, !.files = {}, !.hit = {}]
     \/ Copies(r) /\ Old(r) # None /\ p = [Old(r) EXCEPT !.files = @ \union {r}]
     \/ Loses(r) /\ Old(r) # None /\ p = [Old(r) EXCEPT !.files = @ \ {r}]

LEMMA ImgStep ==
  ASSUME Base, ImgType, NEW r \in Runs, Step(r) \/ Kill(r)
  PROVE  /\ ImgType'
         /\ \A j \in Images : j # st[r].img => img'[j] = img[j]
         /\ st[r].img \in Images /\ st[r].opt \in Options
         /\ \/ Quiet(r)
            \/ st'[r].copied = st[r].copied /\ (Misses(r) \/ Creates(r) \/ Labels(r) \/ Chooses(r))
            \/ Fills(r) /\ st'[r].copied = st[r].copied
            \/ \E p \in Partitions : Puts(r, p) /\ (Copies(r) \/ st'[r].copied = st[r].copied)
<1> DEFINE i == st[r].img
<1>0. /\ Sound(st[r]) /\ i \in Images /\ st[r].opt \in Options /\ st[r] \in RunStates
      /\ img \in [Images -> Files] /\ img[i] \in Files
      /\ img[i].parts \in [Nums -> Partitions \union {None}]
      /\ st[r].opt.name \in {o.name : o \in Options}
  BY Acting DEF Base, StType, Sound, Live, ImgType, Files
<1>1. Effects(r)
  BY EffectsOf
<1>2. Part(Unnamed, 1, SfdiskEnd) \in Partitions
  BY <1>0, NumbersAssumption DEF Part, Partitions
<1>3. CASE Quiet(r) \/ Misses(r) \/ Chooses(r)
  <2>1. img' = img
    BY <1>3 DEF Quiet, Misses, Chooses
  <2>2. ImgType'
    BY <2>1 DEF ImgType, Table
  <2>3. (Misses(r) \/ Chooses(r)) /\ ~Copies(r) /\ ~Quiet(r) => st'[r].copied = st[r].copied
    BY <1>1, <1>3 DEF Effects, Misses, Chooses, Copies, Loses
  <2> QED
    BY <1>0, <1>1, <1>3, <2>1, <2>2, <2>3 DEF Misses, Chooses, Copies
<1>4. CASE Creates(r)
  <2> DEFINE x == [there |-> TRUE, parts |-> NoParts]
  <2>1. x \in Files /\ \A n \in Nums : x.parts[n] = None
    BY DEF Files, NoParts
  <2>2. img' = [img EXCEPT ![i] = x]
    BY <1>4 DEF Creates
  <2> HIDE DEF x
  <2>3. ImgType'
    BY <1>0, <2>1, <2>2 DEF ImgType, Table
  <2>4. \A j \in Images : j # i => img'[j] = img[j]
    BY <1>0, <2>2
  <2>5. Quiet(r) \/ st'[r].copied = st[r].copied
    BY <1>1, <1>4 DEF Effects, Creates, Copies, Loses
  <2> QED
    BY <1>0, <1>4, <2>3, <2>4, <2>5
<1>5. CASE Labels(r)
  <2> DEFINE new == Part(Unnamed, 1, SfdiskEnd)
             x == [img[i] EXCEPT !.parts = [NoParts EXCEPT ![1] = new]]
  <2>1. new \in Partitions /\ new.first = 1 /\ new.last = SfdiskEnd /\ 1 <= SfdiskEnd
    BY <1>2, NumbersAssumption DEF Part
  <2>2. img' = [img EXCEPT ![i] = x]
    BY <1>0, <1>5 DEF Labels, Files
  <2> HIDE DEF new
  <2>3. x \in Files /\ \A n \in Nums : x.parts[n] # None => x.parts[n] = new
    BY <1>0, <2>1 DEF Files, NoParts
  <2> HIDE DEF x
  <2>4. ImgType'
    BY <1>0, <2>1, <2>2, <2>3 DEF ImgType, Table
  <2>5. \A j \in Images : j # i => img'[j] = img[j]
    BY <1>0, <2>2
  <2>6. Quiet(r) \/ st'[r].copied = st[r].copied
    BY <1>1, <1>5 DEF Effects, Labels, Copies, Loses
  <2> QED
    BY <1>0, <1>5, <2>4, <2>5, <2>6
<1>6. ASSUME NEW p \in Partitions, p.first <= p.last, SetPart(r, p), st[r].num \in Nums,
             \/ Formats(r) /\ Old(r) # None /\ p = [Old(r) EXCEPT !.fs = r, !.files = {}, !.hit = {}]
             \/ Copies(r) /\ Old(r) # None /\ p = [Old(r) EXCEPT !.files = @ \union {r}]
             \/ Loses(r) /\ Old(r) # None /\ p = [Old(r) EXCEPT !.files = @ \ {r}]
      PROVE  /\ ImgType'
             /\ \A j \in Images : j # i => img'[j] = img[j]
             /\ Quiet(r) \/ (Puts(r, p) /\ (Copies(r) \/ st'[r].copied = st[r].copied))
  <2>1. /\ ImgType'
        /\ img'[i].parts = [img[i].parts EXCEPT ![st[r].num] = p]
        /\ img'[i].there = img[i].there
        /\ \A j \in Images : j # i => img'[j] = img[j]
    BY <1>0, <1>6, SetPartStep
  <2>2. Quiet(r) \/ Copies(r) \/ st'[r].copied = st[r].copied
    BY <1>0, <1>1 DEF Effects, Loses, RunStates
  <2>3. st'[r].num = st[r].num
    BY <1>6 DEF Formats, Copies, Loses
  <2> QED
    BY <1>6, <2>1, <2>2, <2>3 DEF Puts
<1>7. st[r].pc \in {"add", "mkfs", "rsync"} => st[r].num \in Nums
  BY <1>0 DEF Sound
<1>8. st[r].num \in Nums /\ Old(r) # None => Old(r) \in Partitions /\ Old(r).first <= Old(r).last
  BY <1>0 DEF Old, ImgType, Table
<1>9. CASE Adds(r)
  <2>1. st[r].plan \in Plans /\ st[r].num \in Nums
    BY <1>0, <1>7, <1>9 DEF Sound, Adds
  <2>2. New(r) \in Partitions
    BY <1>0, <2>1 DEF New, Part, Partitions, Plans
  <2>3. Quiet(r) \/ st'[r].copied = st[r].copied
    BY <1>0, <1>1, <1>9 DEF Effects, Adds, Copies, Loses
  <2> QED
    BY <1>0, <1>9, <2>1, <2>2, <2>3, FillsStep
<1>10. CASE Formats(r)
  <2> DEFINE p == [Old(r) EXCEPT !.fs = r, !.files = {}, !.hit = {}]
  <2>1. SetPart(r, p) /\ st[r].num \in Nums /\ Old(r) # None
    BY <1>7, <1>10 DEF Formats
  <2>2. p \in Partitions /\ p.first <= p.last
    BY <1>8, <2>1 DEF Partitions
  <2> HIDE DEF p
  <2>4. p = [Old(r) EXCEPT !.fs = r, !.files = {}, !.hit = {}]
    BY DEF p
  <2> QED
    BY <1>0, <1>6, <1>10, <2>1, <2>2, <2>4
<1>11. CASE Copies(r)
  <2> DEFINE p == [Old(r) EXCEPT !.files = @ \union {r}]
  <2>1. st[r].num \in Nums /\ Old(r) # None /\ AddFiles(r)
    BY <1>7, <1>11 DEF Copies
  <2>2. SetPart(r, p)
    BY <1>0, <2>1, AddFilesStep
  <2>3. p \in Partitions /\ p.first <= p.last
    BY <1>8, <2>1 DEF Partitions
  <2> HIDE DEF p
  <2>4. p = [Old(r) EXCEPT !.files = @ \union {r}]
    BY DEF p
  <2> QED
    BY <1>0, <1>6, <1>11, <2>1, <2>2, <2>3, <2>4
<1>12. CASE Loses(r)
  <2> DEFINE p == [Old(r) EXCEPT !.files = @ \ {r}]
  <2>1. st[r].num \in Nums /\ Old(r) # None /\ TakeFiles(r)
    BY <1>12 DEF Loses
  <2>2. SetPart(r, p)
    BY <1>0, <2>1, TakeFilesStep
  <2>3. p \in Partitions /\ p.first <= p.last
    BY <1>8, <2>1 DEF Partitions
  <2> HIDE DEF p
  <2>4. p = [Old(r) EXCEPT !.files = @ \ {r}]
    BY DEF p
  <2> QED
    BY <1>0, <1>6, <1>12, <2>1, <2>2, <2>3, <2>4
<1> QED
  BY <1>1, <1>3, <1>4, <1>5, <1>9, <1>10, <1>11, <1>12 DEF Effects
-----------------------------------------------------------------------------
(* The copy, and the partitions of others *)

\* two runs under way on one image have made it a shared one
Solo ==
  \A r, q \in Runs : r # q /\ Live(r) /\ Live(q) /\ st[r].img = st[q].img => st[r].img \in shared

\* places past the check for the image, and before the end
Past == Places \ {"start", "image", "create", "end", "killed"}
\* an image that is not there is empty, and a run past the check has one that is there
There ==
  /\ \A i \in Images : ~img[i].there => Table(i) = {}
  /\ \A r \in Runs : st[r].pc \in Past => img[st[r].img].there

\* no partition of the image has a unit of the range
Free(i, p) == \A k \in Table(i) : p[2] < img[i].parts[k].first \/ img[i].parts[k].last < p[1]
\* the run's number is that of a partition of its name
Mine(r) ==
  st[r].num \in Table(st[r].img) /\ img[st[r].img].parts[st[r].num].name = st[r].opt.name

\* what a run relies on between its look at the image and its change
Relies(r) ==
  /\ st[r].pc \in {"create", "sfdisk"} => Table(st[r].img) = {}
  /\ st[r].pc = "add" =>
       st[r].num \in Nums \ Table(st[r].img) /\ Free(st[r].img, st[r].plan) /\ NoneOf(r)
  /\ st[r].pc \in Using => Mine(r)
\* a copy is there, or was taken with its device, or the partition belongs to a later run
\* of the same name
Keeps(r) ==
  /\ Mine(r)
  /\ LET p == img[st[r].img].parts[st[r].num]
     IN  \/ r \in p.files \/ LeftMounted(r)
         \/ p.fs \in Runs \ {r} /\ st[p.fs].opt.name = p.name /\ st[p.fs].pc # "start"
CopyInv ==
  \A r \in Runs :
    /\ st[r].copied => st[r].pc \in After
    /\ st[r].pc # "start" /\ st[r].img \notin shared => Relies(r) /\ (st[r].copied => Keeps(r))

\* bytes of a partition are zeroed by runs of other names
HitInv ==
  \A i \in Images \ shared : \A n \in Table(i) :
    \A q \in img[i].parts[n].hit : st[q].pc # "start" /\ st[q].opt.name # img[i].parts[n].name

Inv == Base /\ ImgType /\ Solo /\ There /\ CopyInv /\ HitInv

\* A range of unused units is clear of every partition.
LEMMA UnusedFree ==
  ASSUME ImgType, NEW i \in Images, NEW p \in Plans, p[1] .. p[2] \subseteq Unused(i)
  PROVE  Free(i, p)
<1> SUFFICES ASSUME NEW k \in Table(i)
             PROVE  p[2] < img[i].parts[k].first \/ img[i].parts[k].last < p[1]
  BY DEF Free
<1> DEFINE f == img[i].parts[k].first
           l == img[i].parts[k].last
<1>1. f \in Nat /\ l \in Nat /\ f <= l
  <2>1. k \in Nums /\ img[i].parts[k] # None
    BY DEF Table
  <2>2. img[i].parts[k] \in Partitions
    BY <2>1 DEF ImgType, Files
  <2> QED
    BY <2>2 DEF ImgType, Partitions
<1>2. p[1] \in Nat /\ p[2] \in Nat /\ p[1] <= p[2]
  BY DEF Plans
<1>3. \A m \in f .. l : m \notin Unused(i)
  BY DEF Unused
<1> HIDE DEF f, l
<1>4. ASSUME f <= p[2], p[1] <= l
      PROVE  FALSE
  <2>1. CASE p[1] <= f
    <3>1. f \in p[1] .. p[2] /\ f \in f .. l
      BY <1>1, <1>2, <1>4, <2>1
    <3> QED
      BY <1>3, <3>1
  <2>2. CASE f <= p[1]
    <3>1. p[1] \in p[1] .. p[2] /\ p[1] \in f .. l
      BY <1>1, <1>2, <1>4, <2>2
    <3> QED
      BY <1>3, <3>1
  <2> QED
    BY <1>1, <1>2, <2>1, <2>2
<1>5. p[2] < f \/ l < p[1]
  BY <1>1, <1>2, <1>4
<1> QED
  BY <1>5 DEF f, l

\* A step is one past the check for the image, or the check, or the creation.
LEMMA PastStep ==
  ASSUME Base, NEW r \in Runs, Step(r)
  PROVE  st[r].pc \in Past \/ Image(r) \/ Create(r)
BY DEF Past, Places, Step, Sfdisk, Info, Losetup, FindNBD, SizeZero, QemuNBD, Wait, Find, Add,
   Rescan, Mkfs, Mkdir, Mount, Rsync, Execute, Umount, Rmdir, Settle, Disconnect, Detach, Command, At

LEMMA SharedKept == ASSUME NEW r, Step(r) \/ Kill(r) PROVE shared' = shared
BY DEF Step, Kill, Image, Create, Sfdisk, Info, Losetup, FindNBD, SizeZero, QemuNBD, Wait,
   Find, Add, Rescan, Mkfs, Mkdir, Mount, Rsync, Execute, Umount, Rmdir, Settle, Disconnect,
   Detach, Command, Others

\* No run starts over.
LEMMA NotBack ==
  ASSUME Base, NEW r \in Runs, Step(r) \/ Kill(r)
  PROVE  st'[r].pc # "start"
<1>0. st \in [Runs -> RunStates] /\ Undo(r) # "start" /\ st[r].pc # "start" /\ MntType
  BY Acting DEF Base, StType, Undo, Live
<1>1. ASSUME NEW p, Goto(r, p), p # "start" PROVE st'[r].pc # "start"
  BY <1>0, <1>1 DEF Goto, RunStates
<1> USE DEF Fail, NotStarted
<1>2. CASE Kill(r)
  BY <1>1, <1>2 DEF Kill
<1>3. CASE Image(r)
  BY <1>1, <1>3 DEF Image
<1>4. CASE Create(r)
  BY <1>1, <1>4 DEF Create
<1>5. CASE Sfdisk(r)
  BY <1>1, <1>5 DEF Sfdisk
<1>6. CASE Info(r)
  BY <1>1, <1>6 DEF Info, Command
<1>7. CASE Losetup(r)
  BY <1>0, <1>1, <1>7 DEF Losetup, Connect, RunStates
<1>8. CASE FindNBD(r)
  BY <1>0, <1>1, <1>8 DEF FindNBD, RunStates
<1>9. CASE SizeZero(r)
  BY <1>1, <1>9 DEF SizeZero
<1>10. CASE QemuNBD(r)
  BY <1>0, <1>1, <1>10 DEF QemuNBD, Connect, RunStates
<1>11. CASE Wait(r)
  BY <1>0, <1>1, <1>11 DEF Wait, RunStates
<1>12. CASE Find(r)
  <2>1. CASE Goto(r, Undo(r))
    BY <1>0, <1>1, <2>1
  <2>2. CASE \E n : st' = [st EXCEPT ![r].pc = "rescan", ![r].num = n]
    BY <1>0, <2>2 DEF RunStates
  <2>3. CASE \E n, x : st' = [st EXCEPT ![r].pc = "add", ![r].num = n, ![r].plan = x]
    BY <1>0, <2>3 DEF RunStates
  <2> QED
    BY <1>12, <2>1, <2>2, <2>3, FindMoves
<1>13. CASE Add(r)
  BY <1>0, <1>1, <1>13 DEF Add
<1>14. CASE Rescan(r)
  BY <1>0, <1>1, <1>14 DEF Rescan, Command, Place, AfterMkfs
<1>15. CASE Mkfs(r)
  BY <1>0, <1>1, <1>15 DEF Mkfs, Place, AfterMkfs
<1>16. CASE Mkdir(r)
  BY <1>0, <1>1, <1>16 DEF Mkdir
<1>17. CASE Mount(r)
  BY <1>0, <1>1, <1>17 DEF Mount
<1>18. CASE Rsync(r)
  BY <1>0, <1>1, <1>18 DEF Rsync, RunStates
<1>19. CASE Execute(r)
  BY <1>0, <1>1, <1>19 DEF Execute, Command
<1>20. CASE Umount(r)
  BY <1>0, <1>1, <1>20 DEF Umount, RunStates
<1>21. CASE Rmdir(r)
  BY <1>0, <1>1, <1>21 DEF Rmdir, RunStates
<1>22. CASE Settle(r)
  BY <1>1, <1>22 DEF Settle, Command
<1>23. CASE Disconnect(r)
  BY <1>0, <1>1, <1>23 DEF Disconnect, RunStates
<1>24. CASE Detach(r)
  BY <1>0, <1>1, <1>24 DEF Detach, RunStates
<1> QED
  BY <1>2, <1>3, <1>4, <1>5, <1>6, <1>7, <1>8, <1>9, <1>10, <1>11, <1>12, <1>13, <1>14, <1>15,
     <1>16, <1>17, <1>18, <1>19, <1>20, <1>21, <1>22, <1>23, <1>24 DEF Step

\* An image that is there stays there, and a run past the check has one.
LEMMA ThereStep ==
  ASSUME Base, ImgType, There, NEW r \in Runs, Step(r) \/ Kill(r)
  PROVE  There'
<1> PICK i : i = st[r].img
  OBVIOUS
<1>0. /\ i = st[r].img /\ i \in Images /\ st[r].pc # "start" /\ Live(r) /\ StType /\ MntType
      /\ img \in [Images -> Files] /\ Sound(st[r])
      /\ st \in [Runs -> RunStates] /\ \A q \in Runs : st[q].pc \in Past => st[q].img \in Images
  BY Acting DEF Base, StType, Sound, Live, ImgType, Past
<1>1. st'[r].img = i /\ \A q \in Runs \ {r} : st'[q] = st[q]
  BY <1>0, ArgsKept, Frame DEF Turn, Same
<1>2. \A j \in Images : j # i => img'[j] = img[j]
  BY <1>0, ImgStep
<1>3. /\ img[i].there => img'[i].there
      /\ (~img'[i].there) => img[i].there \/ Table(i)' = {}
  <2>1. CASE img' = img
    BY <1>0, <2>1 DEF There, Table
  <2>2. CASE Creates(r)
    <3> DEFINE x == [there |-> TRUE, parts |-> NoParts]
    <3>1. x.there
      OBVIOUS
    <3>2. img' = [img EXCEPT ![i] = x]
      BY <1>0, <2>2 DEF Creates
    <3> HIDE DEF x
    <3> QED
      BY <1>0, <3>1, <3>2
  <2>3. CASE Labels(r)
    <3> DEFINE x == [img[i] EXCEPT !.parts = [NoParts EXCEPT ![1] = Part(Unnamed, 1, SfdiskEnd)]]
    <3>1. x.there = img[i].there
      BY <1>0 DEF Files
    <3>2. img' = [img EXCEPT ![i] = x]
      BY <1>0, <2>3 DEF Labels, Files
    <3> HIDE DEF x
    <3>3. img[i].there
      BY <1>0, <2>3 DEF Labels, There, Past, Places
    <3> QED
      BY <1>0, <3>1, <3>2, <3>3
  <2>4. ASSUME NEW p \in Partitions, Puts(r, p)
        PROVE  img[i].there /\ img'[i].there
    <3>1. st[r].pc \in Past
      BY <2>4 DEF Puts, Formats, Copies, Loses, Past, Places
    <3> QED
      BY <1>0, <2>4, <3>1 DEF There, Puts
  <2>5. Fills(r) => img[i].there /\ img'[i].there
    BY <1>0 DEF Fills, There, Past, Places
  <2> QED
    BY <2>1, <2>2, <2>3, <2>4, <2>5, ImgStep DEF Quiet, Misses, Chooses
<1>4. ASSUME NEW j \in Images, ~img'[j].there
      PROVE  Table(j)' = {}
  <2>1. CASE j # i
    BY <1>2, <1>4, <2>1 DEF Table, There
  <2>2. CASE j = i
    BY <1>3, <1>4, <2>2
  <2> QED
    BY <2>1, <2>2
<1>5. ASSUME NEW q \in Runs, st'[q].pc \in Past
      PROVE  img'[st'[q].img].there
  <2>1. CASE q # r
    <3>1. st'[q] = st[q] /\ st[q].img \in Images /\ img[st[q].img].there
      BY <1>0, <1>1, <1>5, <2>1 DEF There
    <3> QED
      BY <1>2, <1>3, <3>1
  <2>2. CASE q = r
    <3>1. CASE st[r].pc \in Past
      BY <1>0, <1>1, <1>3, <2>2, <3>1 DEF There
    <3>2. CASE Image(r)
      <4>1. img' = img /\ (img[i].there \/ Goto(r, "create"))
        BY <1>0, <3>2 DEF Image, World
      <4>2. Goto(r, "create") => st'[r].pc = "create"
        BY <1>0 DEF Goto, RunStates
      <4> QED
        BY <1>1, <1>5, <2>2, <4>1, <4>2 DEF Past
    <3>3. CASE Create(r)
      <4> DEFINE x == [there |-> TRUE, parts |-> NoParts]
      <4>1. x.there
        OBVIOUS
      <4>2. img' = [img EXCEPT ![i] = x] \/ Goto(r, "end")
        BY <1>0, <3>3 DEF Create, Fail
      <4>3. Goto(r, "end") => st'[r].pc = "end"
        BY <1>0 DEF Goto, RunStates
      <4> HIDE DEF x
      <4> QED
        BY <1>0, <1>1, <1>5, <2>2, <4>1, <4>2, <4>3 DEF Past
    <3>4. CASE Kill(r)
      <4>1. st'[r].pc = "killed"
        BY <1>0, <3>4 DEF Kill, Goto, RunStates
      <4> QED
        BY <1>5, <2>2, <4>1 DEF Past
    <3> QED
      BY <3>1, <3>2, <3>3, <3>4, PastStep
  <2> QED
    BY <2>1, <2>2
<1> QED
  BY <1>4, <1>5 DEF There

\* Two runs on one image share it, whoever comes second.
LEMMA SoloStep ==
  ASSUME Base, Solo, NEW r \in Runs, Step(r) \/ Kill(r)
  PROVE  Solo'
<1>1. Live(r) /\ shared' = shared /\ st'[r].img = st[r].img
  BY Acting, SharedKept, ArgsKept
<1>2. \A q \in Runs \ {r} : st'[q] = st[q]
  BY Frame DEF Turn, Same, Base
<1>3. \A q \in Runs : st'[q].img = st[q].img /\ (Live(q)' => Live(q))
  BY <1>1, <1>2 DEF Live
<1> QED
  BY <1>1, <1>3 DEF Solo

\* A run that has started keeps its arguments.
LEMMA OptsKept ==
  ASSUME Base, NEW r \in Runs, Step(r) \/ Kill(r)
  PROVE  \A f \in Runs : st[f].pc # "start" => st'[f].opt = st[f].opt /\ st'[f].pc # "start"
<1>1. \A f \in Runs \ {r} : st'[f] = st[f]
  BY Frame DEF Turn, Same, Base
<1> QED
  BY <1>1, ArgsKept, NotBack

\* A run that has copied is still one that keeps its copy, when its own variables and
\* what it needs of its partition are what they were.
LEMMA KeepsOn ==
  ASSUME Base, NEW r \in Runs, Step(r) \/ Kill(r), NEW q \in Runs, Keeps(q),
         st'[q].img = st[q].img, st'[q].num = st[q].num, st'[q].opt = st[q].opt,
         NEW o, o = img[st[q].img].parts[st[q].num],
         NEW p, p = img'[st[q].img].parts[st[q].num],
         p # None, p.name = o.name, p.fs = o.fs, q \in o.files => q \in p.files
  PROVE  Keeps(q)'
<1>1. \A f \in Runs : st[f].pc # "start" => st'[f].opt = st[f].opt /\ st'[f].pc # "start"
  BY OptsKept
<1>2. LeftMounted(q) => LeftMounted(q)'
  <2>1. CASE q = r
    BY <2>1, Acting DEF LeftMounted, Live, At
  <2>2. CASE q # r
    BY <2>2, Frame DEF Turn, Same, Base, LeftMounted, At
  <2> QED
    BY <2>1, <2>2
<1>3. Mine(q)'
  BY DEF Keeps, Mine, Table
<1>4. \/ q \in o.files \/ LeftMounted(q)
      \/ o.fs \in Runs \ {q} /\ st[o.fs].opt.name = o.name /\ st[o.fs].pc # "start"
  BY DEF Keeps
<1>5. \/ q \in p.files \/ LeftMounted(q)'
      \/ p.fs \in Runs \ {q} /\ st'[p.fs].opt.name = p.name /\ st'[p.fs].pc # "start"
  BY <1>1, <1>2, <1>4
<1> QED
  BY <1>3, <1>5 DEF Keeps

LEMMA KeepsSame ==
  ASSUME Base, NEW r \in Runs, Step(r) \/ Kill(r), NEW q \in Runs, Keeps(q),
         st'[q].img = st[q].img, st'[q].num = st[q].num, st'[q].opt = st[q].opt,
         img'[st[q].img].parts[st[q].num] = img[st[q].img].parts[st[q].num]
  PROVE  Keeps(q)'
<1> PICK o : o = img[st[q].img].parts[st[q].num]
  OBVIOUS
<1>1. o # None
  BY DEF Keeps, Mine, Table
<1>2. o = img'[st[q].img].parts[st[q].num]
  OBVIOUS
<1> QED
  BY <1>1, <1>2, KeepsOn

\* A run's step keeps what the run itself relies on and has copied.
LEMMA OwnCopyStep ==
  ASSUME Inv, NEW r \in Runs, Step(r) \/ Kill(r)
  PROVE  /\ st'[r].copied => st'[r].pc \in After
         /\ st[r].img \notin shared => Relies(r)' /\ (st'[r].copied => Keeps(r)')
<1>0. /\ Base /\ ImgType /\ There /\ st[r].pc # "start" /\ st[r].img \in Images
      /\ st[r].copied => st[r].pc \in After
      /\ st[r].img \notin shared => Relies(r) /\ (st[r].copied => Keeps(r))
      /\ img \in [Images -> Files]
  BY Acting, ImgStep DEF Inv, CopyInv, Live, ImgType
<1>1. st'[r].img = st[r].img /\ st'[r].opt = st[r].opt
  BY <1>0, ArgsKept
<1>2. CASE Quiet(r)
  <2>1. Table(st[r].img)' = Table(st'[r].img)
    BY <1>2 DEF Quiet, Table
  <2>2. st'[r].pc \in After \/ ~st'[r].copied
    BY <1>0, <1>2 DEF Quiet
  <2>3. Mine(r) => Mine(r)'
    BY <1>1, <1>2 DEF Quiet, Mine, Table
  <2>4. Keeps(r) => Keeps(r)'
    BY <1>0, <1>1, <1>2, KeepsSame DEF Quiet
  <2>5. Relies(r) => Relies(r)'
    BY <1>2, <2>3 DEF Quiet, Relies, Relying, Using
  <2> QED
    BY <1>0, <1>2, <2>2, <2>4, <2>5 DEF Quiet
<1>3. ASSUME st'[r].copied = st[r].copied, st[r].pc \notin After, st[r].img \notin shared => Relies(r)'
      PROVE  /\ st'[r].copied => st'[r].pc \in After
             /\ st[r].img \notin shared => Relies(r)' /\ (st'[r].copied => Keeps(r)')
  BY <1>0, <1>3
<1>4. ASSUME st'[r].copied = st[r].copied, Misses(r) \/ Creates(r) \/ Labels(r) \/ Chooses(r)
      PROVE  Relies(r)' /\ st[r].pc \notin After
  <2>1. CASE Misses(r)
    BY <1>0, <1>1, <2>1 DEF Misses, There, Relies, Table, Using, After, Ending, Undoing
  <2>2. CASE Creates(r)
    <3> DEFINE x == [there |-> TRUE, parts |-> NoParts]
    <3>1. \A n \in Nums : x.parts[n] = None
      BY DEF NoParts
    <3>2. img' = [img EXCEPT ![st[r].img] = x] /\ st[r].pc = "create" /\ st'[r].pc = "sfdisk"
      BY <2>2 DEF Creates
    <3> HIDE DEF x
    <3>3. img'[st'[r].img] = x
      BY <1>0, <1>1, <3>2
    <3>4. Relies(r)'
      BY <3>1, <3>2, <3>3 DEF Relies, Table, Using
    <3> QED
      BY <3>2, <3>4 DEF After, Ending, Undoing
  <2>3. CASE Labels(r)
    BY <2>3 DEF Labels, Relies, Using, After, Ending, Undoing
  <2>4. CASE Chooses(r)
    <3> PICK i \in Images : i = st[r].img
      BY <1>0
    <3>1. st[r].pc = "scan" /\ img' = img /\ st'[r].img = i /\ Table(i)' = Table(i)
      BY <1>1, <2>4 DEF Chooses, Table
    <3>2. CASE /\ st'[r].pc = "rescan" /\ st'[r].num \in Table(i)
               /\ img[i].parts[st'[r].num].name = st[r].opt.name
      BY <1>1, <3>1, <3>2 DEF Relies, Mine, Table, Using, After, Ending, Undoing
    <3>3. CASE /\ st'[r].pc = "add" /\ st'[r].num \in Nums \ Table(i)
               /\ st'[r].plan \in Plans /\ st'[r].plan[1] .. st'[r].plan[2] \subseteq Unused(i)
               /\ NoneOf(r)
      <4> PICK p \in Plans : p = st'[r].plan
        BY <3>3
      <4>1. Free(i, p)
        BY <1>0, <3>3, UnusedFree
      <4>2. Free(i, p)'
        BY <3>1, <4>1 DEF Free
      <4>3. NoneOf(r)'
        BY <1>1, <3>1, <3>3 DEF NoneOf, Table
      <4> QED
        BY <3>1, <3>3, <4>2, <4>3 DEF Relies, Free, Table, Using, After, Ending, Undoing
    <3> QED
      BY <2>4, <3>2, <3>3 DEF Chooses
  <2> QED
    BY <1>4, <2>1, <2>2, <2>3, <2>4
<1>5. ASSUME NEW p \in Partitions, Puts(r, p), ~Loses(r)
      PROVE  /\ Copies(r) => st'[r].pc \in After
             /\ ~Copies(r) => st[r].pc \notin After
             /\ st[r].img \notin shared => Relies(r)' /\ (Copies(r) => Keeps(r)')
  <2>1. /\ st'[r].num = st[r].num /\ st[r].num \in Nums
        /\ img[st[r].img].parts \in [Nums -> Partitions \union {None}]
    BY <1>0, <1>5 DEF Puts, Files
  <2>2. img'[st'[r].img].parts[st'[r].num] = p /\ p # None
    BY <1>1, <1>5, <2>1, NoneAssumption DEF Puts
  <2>3. /\ Copies(r) => st'[r].pc \in {"execute", "umount"}
        /\ Formats(r) => st'[r].pc \in {"mkdir", "execute"} \union Undoing /\ st[r].pc = "mkfs"
    BY DEF Copies, Formats
  <2>4. st[r].img \notin shared => p.name = st'[r].opt.name
    <3>2. CASE Formats(r) /\ Old(r) # None /\ p = [Old(r) EXCEPT !.fs = r, !.files = {}, !.hit = {}]
      <4>1. Old(r) \in Partitions
        BY <2>1, <3>2 DEF Old
      <4>2. p.name = Old(r).name
        BY <3>2, <4>1 DEF Partitions
      <4>3. st[r].img \notin shared => Old(r).name = st[r].opt.name
        BY <1>0, <2>3, <3>2 DEF Relies, Using, Mine, Old
      <4> QED
        BY <1>1, <4>2, <4>3
    <3>3. CASE Copies(r) /\ Old(r) # None /\ p = [Old(r) EXCEPT !.files = @ \union {r}]
      <4>1. Old(r) \in Partitions
        BY <2>1, <3>3 DEF Old
      <4>2. p.name = Old(r).name
        BY <3>3, <4>1 DEF Partitions
      <4>3. st[r].img \notin shared => Old(r).name = st[r].opt.name
        BY <1>0, <3>3 DEF Copies, Relies, Using, Mine, Old
      <4> QED
        BY <1>1, <4>2, <4>3
    <3> QED
      BY <1>5, <3>2, <3>3 DEF Puts
  <2>5. st[r].img \notin shared => Mine(r)'
    BY <2>1, <2>2, <2>4 DEF Mine, Table
  <2>6. st'[r].pc \notin {"create", "sfdisk", "add"}
    BY <1>5, <2>3 DEF Puts, Undoing
  <2>7. st[r].img \notin shared => Relies(r)'
    BY <2>5, <2>6 DEF Relies
  <2>8. ASSUME Copies(r), st[r].img \notin shared PROVE Keeps(r)'
    <3>1. p = [Old(r) EXCEPT !.files = @ \union {r}] /\ Old(r) \in Partitions
      <4>1. st[r].pc = "rsync"
        BY <2>8 DEF Copies
      <4>2. p = [Old(r) EXCEPT !.files = @ \union {r}] /\ Old(r) # None
        BY <1>5, <4>1 DEF Puts, Formats
      <4> QED
        BY <2>1, <4>2 DEF Old
    <3>2. r \in p.files
      BY <3>1 DEF Partitions
    <3> QED
      BY <2>2, <2>5, <2>8, <3>2 DEF Keeps
  <2>9. Copies(r) => st'[r].pc \in After
    BY <2>3 DEF After
  <2>10. ~Copies(r) => st[r].pc \notin After
    BY <1>5, <2>3 DEF Puts, After, Ending, Undoing
  <2> QED
    BY <2>7, <2>8, <2>9, <2>10
<1>6. ASSUME NEW p \in Partitions, Puts(r, p), ~Loses(r),
             Copies(r) \/ st'[r].copied = st[r].copied
      PROVE  /\ st'[r].copied => st'[r].pc \in After
             /\ st[r].img \notin shared => Relies(r)' /\ (st'[r].copied => Keeps(r)')
  BY <1>0, <1>5, <1>6
<1>7. ASSUME NEW p \in Partitions, Puts(r, p), Loses(r)
      PROVE  /\ st'[r].copied => st'[r].pc \in After
             /\ st[r].img \notin shared => Relies(r)' /\ (st'[r].copied => Keeps(r)')
  <2>1. /\ st[r].pc = "disconnect" /\ st'[r].pc = "end" /\ st[r].copied
        /\ st'[r].num = st[r].num /\ LeftMounted(r)'
    BY <1>7 DEF Loses, LeftMounted, At
  <2>2. Old(r) # None /\ p = [Old(r) EXCEPT !.files = @ \ {r}] /\ st[r].num \in Nums
        /\ img'[st[r].img].parts = [img[st[r].img].parts EXCEPT ![st[r].num] = p]
    BY <1>7, <2>1 DEF Puts, Formats, Copies
  <2>3. img[st[r].img].parts \in [Nums -> Partitions \union {None}]
    BY <1>0 DEF Files, ImgType
  <2>4. Old(r) \in Partitions /\ img'[st[r].img].parts[st[r].num] = p /\ p # None
    BY <2>2, <2>3, NoneAssumption DEF Old
  <2>5. p.name = Old(r).name
    BY <2>2, <2>4 DEF Partitions
  <2>6. ASSUME st[r].img \notin shared PROVE Mine(r)'
    <3>1. Old(r).name = st[r].opt.name
      BY <1>0, <2>1, <2>6 DEF Keeps, Mine, Old
    <3>2. st'[r].num \in Table(st[r].img)'
      BY <1>1, <2>1, <2>2, <2>4 DEF Table
    <3>3. img'[st'[r].img].parts[st'[r].num].name = st'[r].opt.name
      BY <1>1, <2>1, <2>4, <2>5, <3>1
    <3> QED
      BY <1>1, <3>2, <3>3 DEF Mine, Table
  <2>7. Relies(r)'
    BY <2>1 DEF Relies, Using
  <2> QED
    BY <2>1, <2>6, <2>7 DEF Keeps, After, Ending
<1>8. CASE Fills(r) /\ st'[r].copied = st[r].copied
  <2>1. /\ st[r].pc = "add" /\ st'[r].pc \in {"rescan"} \union Undoing
        /\ st[r].num \in Nums /\ st'[r].num = st[r].num
    BY <1>8 DEF Fills
  <2>2. ASSUME st'[r].pc = "rescan"
        PROVE  Mine(r)'
    <3>1. img'[st[r].img].parts[st[r].num] = New(r)
      BY <1>8, <2>1, <2>2 DEF Fills, Undoing
    <3>2. New(r) \in Partitions /\ New(r).name = st[r].opt.name
      <4>1. st[r].plan \in Plans /\ st[r].opt \in Options
        BY <1>0, <2>1 DEF Base, StType, Sound
      <4> QED
        BY <4>1 DEF New, Part, Partitions, Plans
    <3> QED
      BY <1>1, <2>1, <3>1, <3>2, NoneAssumption DEF Mine, Table
  <2>3. Relies(r)'
    BY <2>1, <2>2 DEF Relies, Using, Undoing
  <2> QED
    BY <1>0, <1>8, <2>1, <2>3 DEF After, Ending, Undoing
<1> QED
  BY <1>0, <1>2, <1>3, <1>4, <1>6, <1>7, <1>8, ImgStep

\* It keeps what the others rely on and have copied: one under way has another image, and
\* one that is not has at most a copy to lose.
LEMMA OthersCopyStep ==
  ASSUME Inv, NEW r \in Runs, Step(r) \/ Kill(r), NEW q \in Runs, q # r, st[q].pc # "start",
         st[q].img \notin shared
  PROVE  Relies(q)' /\ (st[q].copied => Keeps(q)')
<1> PICK i : i = st[q].img
  OBVIOUS
<1>0. /\ Base /\ ImgType /\ Live(r) /\ i \in Images /\ st'[q] = st[q] /\ st[q].img = i
      /\ Relies(q) /\ (st[q].copied => Keeps(q))
      /\ st[r].img = i => Relies(r)
      /\ img[i].parts \in [Nums -> Partitions \union {None}]
  BY Acting, Frame DEF Inv, CopyInv, Live, Base, StType, Sound, Turn, Same, ImgType, Files
<1>1. CASE img'[i] = img[i]
  <2>1. Table(i)' = Table(i) /\ \A p : Free(i, p)' <=> Free(i, p)
    BY <1>1 DEF Table, Free
  <2>2. Relies(q)'
    BY <1>0, <1>1, <2>1 DEF Relies, Free, NoneOf, Mine, Table
  <2>3. Keeps(q) => Keeps(q)'
    BY <1>0, <1>1, KeepsSame
  <2> QED
    BY <1>0, <2>2, <2>3
<1>2. ASSUME st[r].img = i
      PROVE  Relies(q)' /\ (st[q].copied => Keeps(q)')
  <2>1. ~Live(q)
    BY <1>0, <1>2 DEF Inv, Solo
  <2>2. Relies(q)'
    BY <1>0, <2>1 DEF Relies, Live, Using
  <2> SUFFICES ASSUME Keeps(q) PROVE Keeps(q)'
    BY <1>0, <2>2
  <2>3. CASE Quiet(r) \/ Misses(r) \/ Chooses(r)
    <3>1. img' = img
      BY <2>3 DEF Quiet, Misses, Chooses
    <3> QED
      BY <1>0, <3>1, KeepsSame
  <2>4. CASE Creates(r) \/ Labels(r)
    <3>1. st[r].pc \in {"create", "sfdisk"}
      BY <2>4 DEF Creates, Labels
    <3>2. Table(i) = {} /\ st[q].num \in Table(i)
      BY <1>0, <1>2, <3>1 DEF Relies, Keeps, Mine
    <3> QED
      BY <3>2
  <2>5. ASSUME NEW p \in Partitions, Puts(r, p) PROVE Keeps(q)'
    <3> PICK n : n = st[r].num
      OBVIOUS
    <3>1. /\ n \in Nums /\ st'[r].num = n
          /\ img'[i].parts = [img[i].parts EXCEPT ![n] = p]
      BY <1>2, <2>5 DEF Puts
    <3>2. CASE st[q].num # n
      <4>1. img'[i].parts[st[q].num] = img[i].parts[st[q].num]
        BY <1>0, <3>1, <3>2
      <4> QED
        BY <1>0, <4>1, KeepsSame
    <3>3. CASE st[q].num = n
      <4>1. Old(r) = img[i].parts[n] /\ Old(r).name = st[q].opt.name /\ n \in Table(i)
        BY <1>0, <1>2, <3>3 DEF Old, Keeps, Mine
      <4>2. Old(r) \in Partitions /\ img'[i].parts[n] = p
        <5>1. n \in Nums /\ Old(r) # None
          BY <4>1 DEF Table
        <5> QED
          BY <1>0, <3>1, <4>1, <5>1
      <4>3. CASE Formats(r) /\ p = [Old(r) EXCEPT !.fs = r, !.files = {}, !.hit = {}]
        <5>1. p.fs = r /\ p.name = Old(r).name /\ p # None
          BY <4>2, <4>3, NoneAssumption DEF Partitions
        <5>2. Mine(q)'
          BY <1>0, <3>1, <3>3, <4>1, <4>2, <5>1 DEF Mine, Table
        <5>3. st[r].pc \in Using
          BY <4>3 DEF Formats, Using
        <5>4. st'[r].opt.name = p.name /\ st'[r].pc # "start"
          BY <1>0, <1>2, <4>1, <5>1, <5>3, ArgsKept, NotBack DEF Relies, Mine, Old
        <5> QED
          BY <1>0, <3>3, <4>2, <5>1, <5>2, <5>4 DEF Keeps
      <4>4. CASE \/ p = [Old(r) EXCEPT !.files = @ \union {r}]
                 \/ p = [Old(r) EXCEPT !.files = @ \ {r}]
        <5>1. /\ p.fs = Old(r).fs /\ p.name = Old(r).name /\ p # None
              /\ q \in Old(r).files => q \in p.files
          BY <4>2, <4>4, NoneAssumption DEF Partitions
        <5> PICK o : o = Old(r)
          OBVIOUS
        <5>2. o = img[st[q].img].parts[st[q].num] /\ p = img'[st[q].img].parts[st[q].num]
          BY <1>0, <3>3, <4>1, <4>2
        <5> QED
          BY <1>0, <5>1, <5>2, KeepsOn
      <4>5. \/ Formats(r) /\ p = [Old(r) EXCEPT !.fs = r, !.files = {}, !.hit = {}]
            \/ p = [Old(r) EXCEPT !.files = @ \union {r}]
            \/ p = [Old(r) EXCEPT !.files = @ \ {r}]
        <5> HIDE DEF Old
        <5> QED
          BY <2>5 DEF Puts
      <4> QED
        BY <4>3, <4>4, <4>5
    <3> QED
      BY <3>2, <3>3
  <2>6. ASSUME Fills(r) PROVE Keeps(q)'
    <3> PICK n : n = st[q].num
      OBVIOUS
    <3>1. n \in Table(i) /\ n \in Nums
      BY <1>0 DEF Keeps, Mine, Table
    <3>2. n # st[r].num
      BY <1>0, <1>2, <2>6, <3>1 DEF Fills, Relies
    <3>3. img'[i].parts[n] = Dented(img[i].parts[n], r)
      BY <1>2, <2>6, <3>1, <3>2 DEF Fills
    <3> PICK o, p : o = img[i].parts[n] /\ p = img'[i].parts[n]
      OBVIOUS
    <3>4. o \in Partitions /\ o # None /\ p = Dented(o, r)
      BY <1>0, <3>1, <3>3 DEF Table
    <3>5. p # None /\ p.name = o.name /\ p.fs = o.fs /\ p.files = o.files
      <4>1. Dented(o, r) = None <=> o = None
        BY <3>4, DentedType
      <4>2. /\ Dented(o, r).name = o.name /\ Dented(o, r).fs = o.fs
            /\ Dented(o, r).files = o.files
        BY <3>4, DentedType
      <4> QED
        BY <3>4, <4>1, <4>2
    <3> QED
      BY <1>0, <3>5, KeepsOn
  <2> QED
    BY <1>0, <2>3, <2>4, <2>5, <2>6, ImgStep
<1> QED
  BY <1>0, <1>1, <1>2, ImgStep

\* Bytes are zeroed in partitions of other names, which keep their names.
LEMMA HitStep ==
  ASSUME Inv, NEW r \in Runs, Step(r) \/ Kill(r)
  PROVE  HitInv'
<1> SUFFICES ASSUME NEW i \in Images, i \notin shared', NEW n \in Nums,
                    NEW p, p = img'[i].parts[n], p # None, NEW q, q \in p.hit
             PROVE  st'[q].pc # "start" /\ st'[q].opt.name # p.name
  BY DEF HitInv, Table
<1> PICK o : o = img[i].parts[n]
  OBVIOUS
<1>0. /\ Base /\ ImgType /\ Live(r) /\ i \notin shared /\ HitInv
      /\ img[i].parts \in [Nums -> Partitions \union {None}]
      /\ img'[i].parts \in [Nums -> Partitions \union {None}]
      /\ st[r].img = i => Relies(r)
  <2>1. ImgType'
    BY ImgStep DEF Inv
  <2>2. shared' = shared
    BY SharedKept
  <2> QED
    BY <2>1, <2>2, Acting DEF Inv, CopyInv, Live, ImgType, Files
<1>1. q \in Runs /\ p \in Partitions /\ o \in Partitions \union {None}
  <2>1. p \in Partitions /\ o \in Partitions \union {None}
    BY <1>0
  <2> QED
    BY <2>1 DEF Partitions
<1>2. ASSUME o # None, q \in o.hit, p.name = o.name
      PROVE  st'[q].pc # "start" /\ st'[q].opt.name # p.name
  <2>1. st[q].pc # "start" /\ st[q].opt.name # o.name
    BY <1>0, <1>2 DEF HitInv, Table
  <2> QED
    BY <1>0, <1>1, <1>2, <2>1, OptsKept
<1>3. CASE img'[i] = img[i]
  BY <1>2, <1>3
<1>4. CASE st[r].img = i /\ (Creates(r) \/ Labels(r))
  <2> DEFINE x == IF Creates(r) THEN NoParts
                  ELSE [NoParts EXCEPT ![1] = Part(Unnamed, 1, SfdiskEnd)]
  <2>1. img'[i].parts = NoParts \/ img'[i].parts = [NoParts EXCEPT ![1] = Part(Unnamed, 1, SfdiskEnd)]
    BY <1>0, <1>4 DEF Creates, Labels, Inv, ImgType, Files
  <2>2. p = None \/ p = Part(Unnamed, 1, SfdiskEnd)
    BY <2>1 DEF NoParts
  <2>3. p.hit = {}
    BY <2>2 DEF Part
  <2> QED
    BY <2>3
<1>5. CASE st[r].img = i /\ Fills(r)
  <2>1. CASE p = New(r)
    BY <2>1 DEF New, Part
  <2>2. CASE p = Dented(o, r)
    <3>1. o # None /\ p.name = o.name /\ p.hit \subseteq o.hit \union {r}
      <4>1. Dented(o, r) = None <=> o = None
        BY <1>1, DentedType
      <4> QED
        BY <1>1, <2>2, <4>1, DentedType
    <3>2. CASE q \in o.hit
      BY <1>2, <3>1, <3>2
    <3>3. CASE q = r
      <4>1. NoneOf(r) /\ st[r].pc = "add"
        BY <1>0, <1>5 DEF Fills, Relies
      <4>2. st[r].opt.name # o.name
        BY <1>5, <3>1, <4>1 DEF NoneOf, Table
      <4> QED
        BY <1>0, <3>1, <3>3, <4>1, <4>2, OptsKept
    <3> QED
      BY <3>1, <3>2, <3>3
  <2> QED
    BY <1>5, <2>1, <2>2 DEF Fills
<1>6. ASSUME st[r].img = i, NEW u \in Partitions, Puts(r, u)
      PROVE  st'[q].pc # "start" /\ st'[q].opt.name # p.name
  <2>1. img'[i].parts = [img[i].parts EXCEPT ![st[r].num] = u] /\ st[r].num \in Nums
    BY <1>6 DEF Puts
  <2>2. CASE n # st[r].num
    BY <1>0, <1>2, <2>1, <2>2
  <2>3. CASE n = st[r].num
    <3>1. p = u /\ o = Old(r) /\ o # None
      BY <1>0, <1>6, <2>1, <2>3 DEF Puts, Old
    <3> HIDE DEF Old
    <3>2. \/ p = [o EXCEPT !.fs = r, !.files = {}, !.hit = {}]
          \/ p = [o EXCEPT !.files = @ \union {r}]
          \/ p = [o EXCEPT !.files = @ \ {r}]
      BY <1>6, <3>1 DEF Puts
    <3>3. p.name = o.name /\ (q \in p.hit => q \in o.hit)
      BY <1>1, <3>1, <3>2 DEF Partitions
    <3> QED
      BY <1>2, <3>1, <3>3
  <2> QED
    BY <2>2, <2>3
<1> QED
  BY <1>0, <1>3, <1>4, <1>5, <1>6, ImgStep DEF Inv, Quiet, Misses, Chooses

\* A run that starts makes its image a shared one if another run is under way on it.
LEMMA StartStep ==
  ASSUME Inv, NEW r \in Runs, NEW i \in Images, NEW o \in Options, Start(r, i, o)
  PROVE  ImgType' /\ Solo' /\ There' /\ CopyInv' /\ HitInv'
<1>0. /\ Base /\ ImgType /\ Solo /\ There /\ CopyInv /\ HitInv /\ img' = img /\ st[r].pc = "start"
      /\ shared' = shared \union {j \in {i} : \E q \in Runs \ {r} : Live(q) /\ st[q].img = i}
  BY DEF Inv, Start, World, At
<1>1. \A q \in Runs \ {r} : st'[q] = st[q]
  BY <1>0, Frame DEF Turn, Same, Base
<1>2. st'[r].img = i /\ st'[r].pc \in {"end", "image"} /\ ~st'[r].copied
  <2> DEFINE s == [Begin EXCEPT !.img = i, !.opt = o]
  <2>1. s \in RunStates /\ s.img = i /\ ~s.copied
    BY DEF Begin, RunStates, Places
  <2>2. \E p \in {"end", "image"} : st' = [st EXCEPT ![r] = [s EXCEPT !.pc = p]]
    BY DEF Start
  <2> HIDE DEF s
  <2> QED
    BY <1>0, <2>1, <2>2 DEF RunStates, Base, StType
<1>3. ImgType'
  BY <1>0 DEF ImgType, Table
<1>4. Solo'
  <2> SUFFICES ASSUME NEW p \in Runs, NEW q \in Runs, p # q, Live(p)', Live(q)', st'[p].img = st'[q].img
               PROVE  st'[p].img \in shared'
    BY DEF Solo
  <2>1. CASE p # r /\ q # r
    BY <1>0, <1>1, <2>1 DEF Solo, Live
  <2>2. CASE p = r
    BY <1>0, <1>1, <1>2, <2>2 DEF Live
  <2>3. CASE q = r
    BY <1>0, <1>1, <1>2, <2>3 DEF Live
  <2> QED
    BY <2>1, <2>2, <2>3
<1>5. There'
  <2>1. \A j \in Images : ~img'[j].there => Table(j)' = {}
    BY <1>0 DEF There, Table
  <2>2. \A q \in Runs : st'[q].pc \in Past => img'[st'[q].img].there
    BY <1>0, <1>1, <1>2 DEF There, Past
  <2> QED
    BY <2>1, <2>2 DEF There
<1>6. CopyInv'
  <2> SUFFICES ASSUME NEW q \in Runs
               PROVE  /\ st'[q].copied => st'[q].pc \in After
                      /\ st'[q].pc # "start" /\ st'[q].img \notin shared' =>
                           Relies(q)' /\ (st'[q].copied => Keeps(q)')
    BY DEF CopyInv
  <2>1. CASE q = r
    BY <1>2, <2>1 DEF Relies, Using, After, Ending
  <2>2. CASE q # r
    <3>1. st'[q] = st[q]
      BY <1>1, <2>2
    <3>2. Relies(q) => Relies(q)'
      BY <1>0, <3>1 DEF Relies, Free, NoneOf, Mine, Table
    <3>3. mnt' = mnt
      BY DEF Start, World
    <3>4. Keeps(q) => Keeps(q)'
      BY <1>0, <1>1, <3>1, <3>3 DEF Keeps, Mine, Table, LeftMounted, At
    <3> QED
      BY <1>0, <3>1, <3>2, <3>4 DEF CopyInv
  <2> QED
    BY <2>1, <2>2
<1>7. HitInv'
  <2> SUFFICES ASSUME NEW j \in Images, j \notin shared', NEW n \in Table(j)', NEW q \in img'[j].parts[n].hit
               PROVE  st'[q].pc # "start" /\ st'[q].opt.name # img'[j].parts[n].name
    BY DEF HitInv
  <2>1. n \in Table(j) /\ j \notin shared /\ q \in img[j].parts[n].hit
    BY <1>0 DEF Table
  <2>2. st[q].pc # "start" /\ st[q].opt.name # img[j].parts[n].name
    BY <1>0, <2>1 DEF HitInv
  <2>3. q \in Runs
    <3>1. n \in Nums /\ img[j].parts[n] # None
      BY <2>1 DEF Table
    <3>2. img[j].parts[n] \in Partitions
      BY <1>0, <3>1 DEF ImgType, Files
    <3> QED
      BY <2>1, <3>2 DEF Partitions
  <2> QED
    BY <1>0, <1>1, <2>2, <2>3
<1> QED
  BY <1>3, <1>4, <1>5, <1>6, <1>7

LEMMA StillStep ==
  ASSUME Inv, st' = st, img' = img, mnt' = mnt, shared' = shared
  PROVE  ImgType' /\ Solo' /\ There' /\ CopyInv' /\ HitInv'
<1>1. ImgType'
  BY DEF Inv, ImgType, Table
<1>2. Solo'
  BY DEF Inv, Solo, Live
<1>3. There'
  BY DEF Inv, There, Table
<1>4. CopyInv'
  BY DEF Inv, CopyInv, Relies, Keeps, LeftMounted, At, Free, NoneOf, Mine, Table
<1>5. HitInv'
  BY DEF Inv, HitInv, Table
<1> QED
  BY <1>1, <1>2, <1>3, <1>4, <1>5

LEMMA InvStep == Inv /\ [Next]_vars => Inv'
<1> SUFFICES ASSUME Inv, [Next]_vars PROVE Inv'
  OBVIOUS
<1>1. Base'
  BY BaseStep DEF Inv
<1>2. ASSUME NEW r \in Runs, Step(r) \/ Kill(r)
      PROVE  ImgType' /\ Solo' /\ There' /\ CopyInv' /\ HitInv'
  <2>1. ImgType' /\ Solo' /\ There' /\ HitInv'
    BY <1>2, ImgStep, SoloStep, ThereStep, HitStep DEF Inv
  <2>2. shared' = shared /\ st'[r].img = st[r].img /\ \A q \in Runs \ {r} : st'[q] = st[q]
    BY <1>2, SharedKept, ArgsKept, Frame DEF Inv, Base, Turn, Same
  <2> SUFFICES ASSUME NEW q \in Runs
               PROVE  /\ st'[q].copied => st'[q].pc \in After
                      /\ st'[q].pc # "start" /\ st'[q].img \notin shared' =>
                           Relies(q)' /\ (st'[q].copied => Keeps(q)')
    BY <2>1 DEF CopyInv
  <2>3. CASE q = r
    BY <1>2, <2>2, <2>3, OwnCopyStep
  <2>4. CASE q # r
    <3>1. st'[q] = st[q] /\ (st[q].copied => st[q].pc \in After)
      BY <2>2, <2>4 DEF Inv, CopyInv
    <3>2. st[q].pc # "start" /\ st[q].img \notin shared => Relies(q)' /\ (st[q].copied => Keeps(q)')
      BY <1>2, <2>4, OthersCopyStep
    <3> QED
      BY <2>2, <3>1, <3>2
  <2> QED
    BY <2>3, <2>4
<1>3. ASSUME NEW r \in Runs, \E i \in Images, o \in Options : Start(r, i, o)
      PROVE  ImgType' /\ Solo' /\ There' /\ CopyInv' /\ HitInv'
  BY <1>3, StartStep
<1>4. ASSUME NEW d \in Devs, SizeAppears(d)
      PROVE  ImgType' /\ Solo' /\ There' /\ CopyInv' /\ HitInv'
  BY <1>4, StillStep DEF SizeAppears, Others
<1>5. CASE UNCHANGED vars
  BY <1>1, <1>5, StillStep DEF vars, Inv
<1>6. CASE \E r \in Runs : Turn(r)
  <2> PICK r \in Runs : Turn(r)
    BY <1>6
  <2> QED
    BY <1>1, <1>2, <1>3 DEF Inv, Turn
<1>7. CASE \E d \in Devs : SizeAppears(d)
  BY <1>1, <1>4, <1>7 DEF Inv
<1> QED
  BY <1>1, <1>5, <1>6, <1>7 DEF Inv, Next, Turn

LEMMA InvInit == Init => Inv
<1> SUFFICES ASSUME Init PROVE Inv
  OBVIOUS
<1>1. Base /\ \A r \in Runs : st[r].pc = "start" /\ ~st[r].copied
  BY BaseInit DEF Init, Begin
<1> DEFINE part == [Part("old", 1, 3) EXCEPT !.fs = "old"]
<1>2. part \in Partitions /\ part.first = 1 /\ part.last = 3
  BY DEF Part, Partitions
<1>2a. part.hit = {}
  BY DEF Part
<1>3. PICK there \in SUBSET Images, old \in SUBSET Images :
        /\ old \subseteq there
        /\ img = [i \in Images |->
             [there |-> i \in there,
              parts |-> IF i \in old THEN [NoParts EXCEPT ![1] = part] ELSE NoParts]]
  BY DEF Init
<1> HIDE DEF part
<1>4. /\ NoParts \in [Nums -> Partitions \union {None}] /\ \A n \in Nums : NoParts[n] = None
      /\ [NoParts EXCEPT ![1] = part] \in [Nums -> Partitions \union {None}]
      /\ \A n \in Nums : [NoParts EXCEPT ![1] = part][n] \in {part, None}
  BY <1>2 DEF NoParts
<1>5. \A i \in Images :
        /\ img[i].there = (i \in there)
        /\ img[i].parts = IF i \in old THEN [NoParts EXCEPT ![1] = part] ELSE NoParts
  BY <1>3
<1>6. img \in [Images -> Files]
  BY <1>3, <1>4 DEF Files
<1>7. \A i \in Images : \A n \in Table(i) : img[i].parts[n].first <= img[i].parts[n].last
  <2> SUFFICES ASSUME NEW i \in Images, NEW n \in Nums, img[i].parts[n] # None
               PROVE  img[i].parts[n].first <= img[i].parts[n].last
    BY DEF Table
  <2>1. img[i].parts[n] = part
    BY <1>4, <1>5
  <2> QED
    BY <1>2, <2>1
<1>8. \A i \in Images : ~img[i].there => Table(i) = {}
  BY <1>3, <1>4, <1>5 DEF Table
<1>9. There /\ Solo /\ CopyInv
  BY <1>1, <1>8 DEF There, Past, Solo, Live, CopyInv
<1>10. HitInv
  BY <1>2a, <1>4, <1>5 DEF HitInv, Table
<1> QED
  BY <1>1, <1>6, <1>7, <1>9, <1>10 DEF Inv, ImgType

THEOREM InvCorrect == Spec => []Inv
<1> QED
  BY InvInit, InvStep, PTL DEF Spec

\* What a run copied stays in its partition through its own cleanup, unless its umount
\* failed, and through later runs, until one formats the partition of that name again;
\* the runs that zero some of its bytes are those that create a partition of another name.
THEOREM CopyKeptCorrect == Spec => []CopyKept
<1>1. Inv => CopyKept
  <2> SUFFICES ASSUME Inv, NEW r \in Runs, st[r].copied, st[r].img \notin shared
               PROVE  LET p == img[st[r].img].parts[st[r].num]
                      IN  /\ p # None /\ p.name = st[r].opt.name
                          /\ \/ r \in p.files \/ LeftMounted(r)
                             \/ p.fs \in Runs \ {r} /\ st[p.fs].opt.name = p.name
                          /\ \A q \in p.hit : ~At(q, "start") /\ st[q].opt.name # p.name
    BY DEF CopyKept
  <2>1. Keeps(r) /\ st[r].img \in Images
    BY DEF Inv, Base, StType, Sound, CopyInv, After, Ending, Undoing
  <2>2. \A q \in img[st[r].img].parts[st[r].num].hit :
          ~At(q, "start") /\ st[q].opt.name # img[st[r].img].parts[st[r].num].name
    BY <2>1 DEF Inv, HitInv, Keeps, Mine, At
  <2> QED
    BY <2>1, <2>2 DEF Keeps, Mine, Table
<1> QED
  BY <1>1, InvCorrect, PTL

\* What OthersKept says of one partition of an image.
SlotKept(i, n) ==
  LET old == img[i].parts[n]
      new == img'[i].parts[n]
  IN  new # old =>
        /\ old # None =>
             /\ new # None /\ new.name = old.name
             /\ new.first = old.first /\ new.last = old.last
             /\ \E r \in Runs :
                  /\ Live(r) /\ st[r].img = i
                  /\ \/ st[r].opt.name = old.name
                     \/ /\ At(r, "add") /\ 1 \in old.first..old.last
                        /\ new.fs = old.fs /\ new.files = old.files
        /\ old = None => \A k \in Table(i) :
             new.last < img[i].parts[k].first \/ img[i].parts[k].last < new.first

LEMMA SlotStep ==
  ASSUME Inv, NEW r \in Runs, Step(r) \/ Kill(r), NEW i \in Images, i \notin shared, NEW n \in Nums
  PROVE  SlotKept(i, n)
<1>0. /\ Base /\ ImgType /\ Live(r) /\ img[i].parts \in [Nums -> Partitions \union {None}]
      /\ st[r].img = i => Relies(r)
  BY Acting DEF Inv, CopyInv, Live, ImgType, Files
<1>1. CASE img'[i] = img[i]
  BY <1>1 DEF SlotKept
<1>2. CASE st[r].img = i /\ (Creates(r) \/ Labels(r))
  <2>1. st[r].pc \in {"create", "sfdisk"}
    BY <1>2 DEF Creates, Labels
  <2>2. Table(i) = {}
    BY <1>0, <1>2, <2>1 DEF Relies
  <2> QED
    BY <2>2 DEF SlotKept, Table
<1>3. ASSUME st[r].img = i, NEW p \in Partitions, Puts(r, p)
      PROVE  SlotKept(i, n)
  <2>1. img'[i].parts = [img[i].parts EXCEPT ![st[r].num] = p] /\ st[r].num \in Nums /\ p # None
    BY <1>3, NoneAssumption DEF Puts
  <2>2. CASE n # st[r].num
    BY <1>0, <2>1, <2>2 DEF SlotKept
  <2>3. CASE n = st[r].num
    <3>1. img'[i].parts[n] = p /\ Old(r) = img[i].parts[n]
      BY <1>0, <1>3, <2>1, <2>3 DEF Old
    <3>2. Old(r) # None /\ st[r].pc \in Using \union {"disconnect"}
      BY <1>3 DEF Puts, Formats, Copies, Loses, Using
    <3>3. Old(r) \in Partitions /\ Old(r).name = st[r].opt.name
      <4>1. st[r].pc = "disconnect" => st[r].copied
        BY <1>3 DEF Puts, Formats, Copies, Loses
      <4>2. st[r].copied => Keeps(r)
        BY <1>0, <1>3 DEF Inv, CopyInv, Live
      <4>3. Mine(r)
        BY <1>0, <1>3, <3>2, <4>1, <4>2 DEF Relies, Keeps
      <4> QED
        BY <1>0, <1>3, <2>3, <3>1, <3>2, <4>3 DEF Mine
    <3> HIDE DEF Old
    <3>4. \/ p = [Old(r) EXCEPT !.fs = r, !.files = {}, !.hit = {}]
          \/ p = [Old(r) EXCEPT !.files = @ \union {r}]
          \/ p = [Old(r) EXCEPT !.files = @ \ {r}]
      BY <1>3 DEF Puts
    <3>5. p.name = Old(r).name /\ p.first = Old(r).first /\ p.last = Old(r).last
      BY <3>3, <3>4 DEF Partitions
    <3> QED
      BY <1>0, <1>3, <2>1, <3>1, <3>2, <3>3, <3>5 DEF SlotKept
  <2> QED
    BY <2>2, <2>3
<1>4. CASE st[r].img = i /\ Fills(r)
  <2> PICK old, new : old = img[i].parts[n] /\ new = img'[i].parts[n]
    OBVIOUS
  <2>1. /\ st[r].pc = "add" /\ st[r].num \in Nums \ Table(i) /\ Free(i, st[r].plan)
        /\ old \in Partitions \union {None}
    BY <1>0, <1>4 DEF Fills, Relies
  <2>2. CASE n = st[r].num /\ new = New(r)
    <3>1. old = None
      BY <2>1, <2>2 DEF Table
    <3>2. new.first = st[r].plan[1] /\ new.last = st[r].plan[2]
      BY <2>2 DEF New, Part
    <3> QED
      BY <2>1, <3>1, <3>2 DEF SlotKept, Free
  <2>3. CASE new = Dented(old, r)
    <3>1. new # old => old # None /\ 1 \in old.first..old.last
      BY <2>1, <2>3, DentedType DEF Dented
    <3>2. old # None => /\ new # None /\ new.name = old.name /\ new.first = old.first
                        /\ new.last = old.last /\ new.fs = old.fs /\ new.files = old.files
      BY <2>1, <2>3, DentedType
    <3> QED
      BY <1>0, <1>4, <2>1, <3>1, <3>2 DEF SlotKept, At
  <2> QED
    BY <1>4, <2>2, <2>3 DEF Fills
<1> QED
  BY <1>0, <1>1, <1>2, <1>3, <1>4, ImgStep DEF Quiet, Misses, Chooses

\* A run leaves the partitions of other names alone, whatever it does or fails to do, but
\* for bytes of the image's first units that creating its own zeroes, and the partition it
\* creates takes no space that another one has.
THEOREM OthersKeptCorrect == Spec => OthersKept
<1> DEFINE Kept == \A i \in Images \ shared', n \in Nums : SlotKept(i, n)
<1>1. Inv /\ [Next]_vars => [Kept]_vars
  <2> SUFFICES ASSUME Inv, Next PROVE Kept
    OBVIOUS
  <2>1. ASSUME NEW r \in Runs, Step(r) \/ Kill(r) PROVE Kept
    BY <2>1, SlotStep, SharedKept
  <2>2. CASE img' = img
    BY <2>2 DEF SlotKept
  <2>3. ASSUME NEW r \in Runs, NEW i \in Images, NEW o \in Options, Start(r, i, o) PROVE img' = img
    BY <2>3 DEF Start, World
  <2>4. ASSUME NEW d \in Devs, SizeAppears(d) PROVE img' = img
    BY <2>4 DEF SizeAppears
  <2> QED
    BY <2>1, <2>2, <2>3, <2>4 DEF Next
<1>2. OthersKept <=> [][Kept]_vars
  BY PTL DEF OthersKept, SlotKept
<1> HIDE DEF Kept
<1> QED
  BY <1>1, <1>2, InvCorrect, PTL DEF Spec
=============================================================================
