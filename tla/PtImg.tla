-------------------------------- MODULE PtImg -----------------------------
(***************************************************************************)
(* ptimg (ptimg/main.go): runs of the tool, each a process that connects   *)
(* a disk image to a loop or nbd device, finds or creates a partition in   *)
(* it, formats, mounts and fills it, and takes everything down again in    *)
(* deferred functions.  Any command may fail and any run may be killed.    *)
(***************************************************************************)
EXTENDS Integers, FiniteSets, FiniteSetsExt

CONSTANTS
  Runs,
  Images,    \* the image files
  Raw,       \* those of format raw
  Loops,     \* loop devices
  Nbds,      \* nbd devices, numbers
  Options,   \* the ways the tool is called
  Nums,      \* partition numbers, from 1 on
  LastUnit,  \* an image's units are 0..LastUnit, the first and the last reserved; a unit
             \* is several MiB, so unit 1 holds the bytes at 1 and at 2 MiB
  MinSize,   \* the smallest free space that will do (100 MiB)
  MaxSize,   \* --max-size
  SfdiskEnd, \* the last unit of the partition a new image gets
  Polls,     \* how often waitForFileSize looks at the size
  MaxKills,
  None

ASSUME OptionsAssumption ==
  Options \subseteq [name : STRING, copy : BOOLEAN, exec : BOOLEAN, skipMkfs : BOOLEAN,
                     skipMount : BOOLEAN, forceNBD : BOOLEAN]
\* ptimg counts devices from 0 and partitions from 1 on, and sizes are not zero
ASSUME NumbersAssumption ==
  /\ Nbds \subseteq Nat /\ Nums \subseteq Nat \ {0}
  /\ {LastUnit, MinSize, MaxSize, SfdiskEnd} \subseteq Nat \ {0}

\* sfdisk names the partition it makes nothing
Unnamed == ""
Partitions ==
  [name : {"old", Unnamed} \union {o.name : o \in Options}, first : Nat, last : Nat,
   fs : Runs \union {"old", None},
   files : SUBSET Runs,   \* the runs whose copies are in the filesystem
   hit : SUBSET Runs]     \* those that have zeroed bytes in the middle of it
\* None stands for nothing, wherever it does
ASSUME NoneAssumption ==
  /\ None \notin Runs /\ None \notin Images /\ None \notin Partitions
  /\ None \notin Images \X Nums \X (Loops \union Nbds)

VARIABLES
  img,      \* the image files
  dev,      \* the block devices: what they show, and who connected it
  mnt,      \* what is mounted on a run's temporary directory
  tmp,      \* the temporary directory is there
  st,       \* each run's place and variables
  shared,   \* images two runs have worked on at a time
  kills

vars == <<img, dev, mnt, tmp, st, shared, kills>>

Devs == Loops \union Nbds
NoParts == [n \in Nums |-> None]
NoDev == [img |-> None, by |-> None, size |-> FALSE, parts |-> {}]
Part(name, first, last) ==
  [name |-> name, first |-> first, last |-> last, fs |-> None, files |-> {},
   hit |-> {}]
Begin ==
  [pc |-> "start", img |-> None, opt |-> None, dev |-> None, num |-> 0, plan |-> None,
   polls |-> 0, copied |-> FALSE, stuck |-> FALSE]

\* an image is missing, empty, or has a partition with a filesystem of earlier
Init ==
  /\ \E there \in SUBSET Images, old \in SUBSET Images :
       /\ old \subseteq there
       /\ img = [i \in Images |->
            [there |-> i \in there,
             parts |-> IF i \in old
                         THEN [NoParts EXCEPT ![1] = [Part("old", 1, 3) EXCEPT !.fs = "old"]]
                         ELSE NoParts]]
  /\ dev = [d \in Devs |-> NoDev]
  /\ mnt = [r \in Runs |-> None] /\ tmp = [r \in Runs |-> FALSE]
  /\ st = [r \in Runs |-> Begin]
  /\ shared = {} /\ kills = 0

Live(r) == st[r].pc \notin {"start", "end", "killed"}
At(r, pc) == st[r].pc = pc
\* a run goes on, with success or after a failure, and forgets what it has no more use for
Goto(r, pc) == st' = [st EXCEPT ![r].pc = pc, ![r].polls = 0, ![r].plan = None]
Fail(r, pc) == Goto(r, pc)
World == <<img, dev, mnt, tmp>>
Others == <<shared, kills>>

\* a command that changes nothing a run looks at: it does its work or fails
Command(r, from, ok, bad) ==
  /\ At(r, from)
  /\ Goto(r, ok) \/ Fail(r, bad)
  /\ UNCHANGED World /\ UNCHANGED Others
-----------------------------------------------------------------------------
\* partCreate: the arguments; --skip-mount and --copy exclude each other
Start(r, i, o) ==
  /\ At(r, "start")
  /\ LET s == [Begin EXCEPT !.img = i, !.opt = o]
     IN  st' = [st EXCEPT ![r] = IF o.skipMount /\ o.copy
                  THEN [s EXCEPT !.pc = "end"] ELSE [s EXCEPT !.pc = "image"]]
  /\ shared' = shared \union {j \in {i} : \E q \in Runs \ {r} : Live(q) /\ st[q].img = i}
  /\ UNCHANGED World /\ UNCHANGED kills

\* pathExists(fname)
Image(r) ==
  /\ At(r, "image")
  /\ Goto(r, IF img[st[r].img].there THEN "info" ELSE "create")
  /\ UNCHANGED World /\ UNCHANGED Others

\* qemu-img create, then sfdisk, each without looking again
Create(r) ==
  /\ At(r, "create")
  /\ \/ /\ img' = [img EXCEPT ![st[r].img] = [there |-> TRUE, parts |-> NoParts]]
        /\ Goto(r, "sfdisk")
     \/ Fail(r, "end") /\ UNCHANGED img
  /\ UNCHANGED <<dev, mnt, tmp>> /\ UNCHANGED Others
Sfdisk(r) ==
  /\ At(r, "sfdisk")
  /\ \/ /\ img' = [img EXCEPT ![st[r].img].parts = [NoParts EXCEPT ![1] = Part(Unnamed, 1, SfdiskEnd)]]
        /\ Goto(r, "info")
     \/ Fail(r, "end") /\ UNCHANGED img
  /\ UNCHANGED <<dev, mnt, tmp>> /\ UNCHANGED Others

UsesLoop(r) == st[r].img \in Raw /\ ~st[r].opt.forceNBD
\* getImageInfo, and connectDevice's choice
Info(r) == Command(r, "info", IF UsesLoop(r) THEN "losetup" ELSE "find", "end")

Table(i) == {n \in Nums : img[i].parts[n] # None}
Connect(r, d, ready) ==
  /\ dev' = [dev EXCEPT ![d] = [img |-> st[r].img, by |-> r, size |-> ready,
                               parts |-> Table(st[r].img)]]
  /\ st' = [st EXCEPT ![r].pc = "wait", ![r].dev = d]

\* losetup --find --show --partscan finds and takes a free device in one step
Losetup(r) ==
  /\ At(r, "losetup")
  /\ \/ \E d \in Loops : dev[d].img = None /\ Connect(r, d, TRUE)
     \/ Fail(r, "end") /\ UNCHANGED dev
  /\ UNCHANGED <<img, mnt, tmp>> /\ UNCHANGED Others

\* connectNBD: the first nbd device without a pid file
FindNBD(r) ==
  /\ At(r, "find")
  /\ LET free == {d \in Nbds : dev[d].img = None}
     IN  IF free = {} THEN Fail(r, "end")
         ELSE st' = [st EXCEPT ![r].pc = "size0", ![r].dev = Min(free)]
  /\ UNCHANGED World /\ UNCHANGED Others

\* wrong, for comparison: a failure returns the cleanup that disconnects the device
NotStartedUndo(r) == Fail(r, "settle")
\* startQemuNBD fails: there is nothing to clean up
NotStarted(r) == Fail(r, "end")

\* startQemuNBD: the device must be of size 0 ...
SizeZero(r) ==
  /\ At(r, "size0")
  /\ \/ ~dev[st[r].dev].size /\ Goto(r, "qemu-nbd")
     \/ NotStarted(r)
  /\ UNCHANGED World /\ UNCHANGED Others
\* ... and qemu-nbd --connect refuses a device that is taken and an image another one has
QemuNBD(r) ==
  /\ At(r, "qemu-nbd")
  /\ \/ /\ dev[st[r].dev].img = None
        /\ \A d \in Nbds : dev[d].img # st[r].img
        /\ Connect(r, st[r].dev, FALSE)
     \/ NotStarted(r) /\ UNCHANGED dev
  /\ UNCHANGED <<img, mnt, tmp>> /\ UNCHANGED Others

\* the kernel shows an nbd device's size when qemu has told it
SizeAppears(d) ==
  /\ dev[d].img # None /\ ~dev[d].size
  /\ dev' = [dev EXCEPT ![d].size = TRUE]
  /\ UNCHANGED <<img, mnt, tmp, st>> /\ UNCHANGED Others

\* the deferred devCleanup
Undo(r) == IF st[r].dev \in Nbds THEN "settle" ELSE "detach"

\* wrong, for comparison: no limit
WaitForever(r) ==
  /\ At(r, "wait")
  /\ IF dev[st[r].dev].size THEN Goto(r, "scan")
     ELSE st' = [st EXCEPT ![r].polls = 1]
  /\ UNCHANGED World /\ UNCHANGED Others
\* waitForFileSize: look, sleep, give up when the time is over
Wait(r) ==
  /\ At(r, "wait")
  /\ IF dev[st[r].dev].size THEN Goto(r, "scan")
     ELSE IF st[r].polls + 1 < Polls
            THEN st' = [st EXCEPT ![r].polls = @ + 1] ELSE Fail(r, Undo(r))
  /\ UNCHANGED World /\ UNCHANGED Others
-----------------------------------------------------------------------------
\* FreeSpacesWithMin(size100M): the gaps between partitions
Unused(i) ==
  (1..LastUnit - 1) \ UNION {img[i].parts[n].first..img[i].parts[n].last : n \in Table(i)}
Gaps(i) ==
  {g \in Unused(i) \X Unused(i) :
     /\ g[1]..g[2] \subseteq Unused(i) /\ g[2] - g[1] + 1 >= MinSize
     /\ g[1] - 1 \notin Unused(i) /\ g[2] + 1 \notin Unused(i)}

\* wrong, for comparison: the number is taken whether or not it exists
AnyNumber(i) == 1
\* the first number no partition has; 0: none
OpenNumber(i) == IF Nums \ Table(i) = {} THEN 0 ELSE Min(Nums \ Table(i))

\* createOrFindPartition up to the creation: a partition of that name is used as it is
Find(r) ==
  /\ At(r, "scan")
  /\ LET i == dev[st[r].dev].img
         named == {n \in Table(i) : img[i].parts[n].name = st[r].opt.name}
     IN  \/ Fail(r, Undo(r))
         \/ i # None /\ \E n \in named :
              st' = [st EXCEPT ![r].pc = "rescan", ![r].num = n]
         \/ /\ i # None /\ named = {} /\ Gaps(i) # {} /\ OpenNumber(i) # 0
            /\ LET start == Min({g[1] : g \in Gaps(i)})
                   last == (CHOOSE g \in Gaps(i) : g[1] = start)[2]
               IN  st' = [st EXCEPT ![r].pc = "add", ![r].num = OpenNumber(i),
                            ![r].plan = <<start, IF last - start > MaxSize
                                                   THEN start + MaxSize - 1 ELSE last>>]
  /\ UNCHANGED World /\ UNCHANGED Others

\* zeroStartEnd for the new partition writes at the offsets 1 and 2 MiB of the disk, too
Dented(p, r) ==
  IF p # None /\ 1 \in p.first..p.last THEN [p EXCEPT !.hit = @ \union {r}] ELSE p
Zeroed(r) == [n \in Nums |-> Dented(img[dev[st[r].dev].img].parts[n], r)]

\* CreatePartition: the partition zeroed, the table's slot, the kernel's partition device
\* unless there is one; a failure may come before the first of them or after any
Add(r) ==
  /\ At(r, "add")
  /\ LET d == st[r].dev
         new == Part(st[r].opt.name, st[r].plan[1], st[r].plan[2])
         Writes(parts) == dev[d].img # None /\ img' = [img EXCEPT ![dev[d].img].parts = parts]
         added == [Zeroed(r) EXCEPT ![st[r].num] = new]
     IN  \/ Fail(r, Undo(r)) /\ UNCHANGED <<img, dev>>
         \/ Writes(Zeroed(r)) /\ Fail(r, Undo(r)) /\ UNCHANGED dev
         \/ Writes(added) /\ Fail(r, Undo(r)) /\ UNCHANGED dev
         \/ /\ Writes(added) /\ st[r].num \notin dev[d].parts
            /\ dev' = [dev EXCEPT ![d].parts = @ \union {st[r].num}]
            /\ Goto(r, "rescan")
  /\ UNCHANGED <<mnt, tmp>> /\ UNCHANGED Others

\* what follows the formatting: the command alone, nothing, or handleMount
AfterMkfs(o) ==
  IF o.skipMount THEN IF o.exec THEN "execute" ELSE "undo"
  ELSE IF ~o.copy /\ ~o.exec THEN "undo" ELSE "mkdir"
Place(r, pc) == IF pc = "undo" THEN Undo(r) ELSE pc

\* the second ScanDisk
Rescan(r) ==
  Command(r, "rescan", IF st[r].opt.skipMkfs THEN Place(r, AfterMkfs(st[r].opt)) ELSE "mkfs",
          Undo(r))

\* a run's partition device shows a partition
Shows(r) ==
  LET d == dev[st[r].dev]
  IN  d.img # None /\ st[r].num \in d.parts /\ img[d.img].parts[st[r].num] # None

Mkfs(r) ==
  /\ At(r, "mkfs")
  /\ \/ /\ Shows(r)
        /\ img' = [img EXCEPT ![dev[st[r].dev].img].parts[st[r].num] =
                     [@ EXCEPT !.fs = r, !.files = {}, !.hit = {}]]
        /\ Goto(r, Place(r, AfterMkfs(st[r].opt)))
     \/ Fail(r, Undo(r)) /\ UNCHANGED img
  /\ UNCHANGED <<dev, mnt, tmp>> /\ UNCHANGED Others
-----------------------------------------------------------------------------
\* handleMount: MkdirTemp, mount, rsync, the command
Mkdir(r) ==
  /\ At(r, "mkdir")
  /\ \/ tmp' = [tmp EXCEPT ![r] = TRUE] /\ Goto(r, "mount")
     \/ Fail(r, Undo(r)) /\ UNCHANGED tmp
  /\ UNCHANGED <<img, dev, mnt>> /\ UNCHANGED Others

\* wrong, for comparison: without a mount there is thought to be nothing to clean up
MountOrLeave(r) ==
  /\ At(r, "mount")
  /\ \/ /\ Shows(r) /\ img[dev[st[r].dev].img].parts[st[r].num].fs # None
        /\ mnt' = [mnt EXCEPT ![r] = <<dev[st[r].dev].img, st[r].num, st[r].dev>>]
        /\ Goto(r, IF st[r].opt.copy THEN "rsync" ELSE "execute")
     \/ Fail(r, Undo(r)) /\ UNCHANGED mnt
  /\ UNCHANGED <<img, dev, tmp>> /\ UNCHANGED Others
Mount(r) ==
  /\ At(r, "mount")
  /\ \/ /\ Shows(r) /\ img[dev[st[r].dev].img].parts[st[r].num].fs # None
        /\ mnt' = [mnt EXCEPT ![r] = <<dev[st[r].dev].img, st[r].num, st[r].dev>>]
        /\ Goto(r, IF st[r].opt.copy THEN "rsync" ELSE "execute")
     \/ Fail(r, "rmdir") /\ UNCHANGED mnt
  /\ UNCHANGED <<img, dev, tmp>> /\ UNCHANGED Others

Mounted(r) == img[mnt[r][1]].parts[mnt[r][2]]
Rsync(r) ==
  /\ At(r, "rsync")
  /\ \/ /\ Mounted(r) # None /\ dev[mnt[r][3]].img = mnt[r][1]
        /\ img' = [img EXCEPT ![mnt[r][1]].parts[mnt[r][2]].files = @ \union {r}]
        /\ st' = [st EXCEPT ![r].pc = IF st[r].opt.exec THEN "execute" ELSE "umount",
                            ![r].copied = TRUE]
     \/ Fail(r, "umount") /\ UNCHANGED img
  /\ UNCHANGED <<dev, mnt, tmp>> /\ UNCHANGED Others

\* handleCommand: the user's command, which leaves what ptimg has set up alone
Execute(r) ==
  LET after == IF mnt[r] # None THEN "umount" ELSE Undo(r) IN Command(r, "execute", after, after)

\* wrong, for comparison: a failed umount does not end the cleanup
UmountAnyway(r) ==
  /\ At(r, "umount")
  /\ \/ mnt' = [mnt EXCEPT ![r] = None] /\ Goto(r, "rmdir")
     \/ Fail(r, "rmdir") /\ UNCHANGED mnt
  /\ UNCHANGED <<img, dev, tmp>> /\ UNCHANGED Others
\* the deferred cleanup of handleMount: umount, which may fail, then RemoveAll
Umount(r) ==
  /\ At(r, "umount")
  /\ \/ mnt' = [mnt EXCEPT ![r] = None] /\ Goto(r, "rmdir")
     \/ st' = [st EXCEPT ![r].pc = Undo(r), ![r].stuck = TRUE] /\ UNCHANGED mnt
  /\ UNCHANGED <<img, dev, tmp>> /\ UNCHANGED Others

\* os.RemoveAll(tempDir) removes what is mounted there with it
Rmdir(r) ==
  /\ At(r, "rmdir")
  /\ \/ /\ tmp' = [tmp EXCEPT ![r] = FALSE] /\ Goto(r, Undo(r))
        /\ img' = IF mnt[r] = None THEN img
                  ELSE [img EXCEPT ![mnt[r][1]].parts[mnt[r][2]] = [@ EXCEPT !.files = {}]]
     \/ st' = [st EXCEPT ![r].pc = Undo(r), ![r].stuck = TRUE] /\ UNCHANGED <<tmp, img>>
  /\ UNCHANGED <<dev, mnt>> /\ UNCHANGED Others
-----------------------------------------------------------------------------
\* udevadm settle: a failure is noted, the disconnection follows all the same
Settle(r) == Command(r, "settle", "disconnect", "disconnect")

\* qemu-nbd --disconnect by the device's name, mounted or not: if umount has failed, what
\* the filesystem has not yet written back is lost
Disconnect(r) ==
  /\ At(r, "disconnect")
  /\ \/ /\ dev' = [dev EXCEPT ![st[r].dev] = NoDev] /\ Goto(r, "end")
        /\ \/ UNCHANGED img
           \/ /\ st[r].copied /\ mnt[r] # None /\ Mounted(r) # None
              /\ img' = [img EXCEPT ![mnt[r][1]].parts[mnt[r][2]].files = @ \ {r}]
     \/ st' = [st EXCEPT ![r].pc = "end", ![r].stuck = TRUE] /\ UNCHANGED <<img, dev>>
  /\ UNCHANGED <<mnt, tmp>> /\ UNCHANGED Others

\* losetup --detach: a device that is mounted stays until it is not
Detach(r) ==
  /\ At(r, "detach")
  /\ \/ /\ dev' = IF \E q \in Runs : mnt[q] # None /\ mnt[q][3] = st[r].dev THEN dev
                  ELSE [dev EXCEPT ![st[r].dev] = NoDev]
        /\ Goto(r, "end")
     \/ st' = [st EXCEPT ![r].pc = "end", ![r].stuck = TRUE] /\ UNCHANGED dev
  /\ UNCHANGED <<img, mnt, tmp>> /\ UNCHANGED Others

\* the process is killed: nothing deferred runs
Kill(r) ==
  /\ Live(r) /\ kills < MaxKills
  /\ Goto(r, "killed") /\ kills' = kills + 1
  /\ UNCHANGED World /\ UNCHANGED shared

Step(r) ==
  \/ Image(r) \/ Create(r) \/ Sfdisk(r) \/ Info(r) \/ Losetup(r) \/ FindNBD(r) \/ SizeZero(r)
  \/ QemuNBD(r) \/ Wait(r) \/ Find(r) \/ Add(r) \/ Rescan(r) \/ Mkfs(r) \/ Mkdir(r) \/ Mount(r)
  \/ Rsync(r) \/ Execute(r) \/ Umount(r) \/ Rmdir(r) \/ Settle(r) \/ Disconnect(r) \/ Detach(r)

Next ==
  \/ \E r \in Runs :
       Step(r) \/ Kill(r) \/ \E i \in Images, o \in Options : Start(r, i, o)
  \/ \E d \in Devs : SizeAppears(d)

\* commands return, and a process that can go on does
Spec == Init /\ [][Next]_vars /\ \A r \in Runs : WF_vars(Step(r))
-----------------------------------------------------------------------------
\* From the connection on to the cleanup, a run's device shows the run's own image: not
\* even runs that found the same nbd device free (main.go:313) take each other's device,
\* and the failure of the one that came late does not disconnect the other's.
OwnDevice ==
  \A r \in Runs :
    st[r].pc \in {"wait", "scan", "add", "rescan", "mkfs", "mkdir", "mount", "rsync", "execute",
                 "umount", "rmdir"} =>
      dev[st[r].dev].img = st[r].img /\ dev[st[r].dev].by = r

\* the run's umount failed, and its nbd device was taken away under the filesystem
LeftMounted(r) == At(r, "end") /\ mnt[r] # None /\ st[r].dev \in Nbds

\* What a run copied stays in its partition through its own cleanup, whichever step of it
\* fails but the umount before an nbd device is disconnected (main.go:479: what is mounted
\* is not removed with the directory), and through later runs, until one formats the
\* partition of that name again; of its bytes, only runs that create a partition of
\* another name zero some.
CopyKept ==
  \A r \in Runs :
    st[r].copied /\ st[r].img \notin shared =>
      LET p == img[st[r].img].parts[st[r].num]
      IN  /\ p # None /\ p.name = st[r].opt.name
          /\ \/ r \in p.files \/ LeftMounted(r)
             \/ p.fs \in Runs \ {r} /\ st[p.fs].opt.name = p.name
          /\ \A q \in p.hit : ~At(q, "start") /\ st[q].opt.name # p.name

\* A run leaves the partitions of other names alone, whatever it does or fails to do, but
\* for the bytes that zeroStartEnd writes at 1 and 2 MiB of the disk (linux/disk.go:402)
\* when it creates one; and the partition it creates takes no space that another one has.
OthersKept ==
  [][\A i \in Images \ shared', n \in Nums :
       LET old == img[i].parts[n]
           new == img'[i].parts[n]
       IN  new # old =>
             /\ old # None =>
                  /\ new # None /\ new.name = old.name
                  /\ new.first = old.first /\ new.last = old.last
                  /\ \E r \in Runs :
                       /\ Live(r) /\ st[r].img = i
                       /\ \/ st[r].opt.name = old.name
                          \/ /\ At(r, "add") /\ 1 \in old.first..old.last
                             /\ new.fs = old.fs /\ new.files = old.files
             /\ old = None => \A k \in Table(i) :
                  new.last < img[i].parts[k].first \/ img[i].parts[k].last < new.first]_vars

\* A run that ends by itself leaves no device connected, no mount and no directory,
\* wherever it failed, unless one of the commands that take them down failed.
Released ==
  \A r \in Runs :
    st[r].pc = "end" /\ ~st[r].stuck =>
      mnt[r] = None /\ ~tmp[r] /\ \A d \in Devs : dev[d].by # r

\* A run that is not killed ends, though the size of its device may never appear
\* (main.go:209).
Ends == \A r \in Runs : Live(r) ~> ~Live(r)
=============================================================================
