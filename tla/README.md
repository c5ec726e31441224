# A TLA+ model of disko

disko is a Go library that scans disks, creates, changes and deletes partitions, wipes disks,
drives LVM and asks RAID controllers about their drives. It has two implementations of its
interfaces `System` and `VolumeManager` (`src/system.go`, `src/lvm.go`): `src/linux`, which works on the machine,
and `src/mockos`, which works on a JSON description in memory. `src/demo` and `src/ptimg` are
programs on top of it.

The library keeps almost no state of its own. Its state is the disk, which other processes share,
and the kernel's idea of the disk; its hard behaviour is what happens when processes meet there,
when a step of several fails, and at the edges of ranges. That is what is modelled.

## Inventory

| Part | State | Operations | Meets | Hard | Correct when |
|---|---|---|---|---|---|
| Partition operations, `linux/disk.go`, `linux/system.go` | on disk: MBR, two copies of the GPT, contents; in the kernel: partition devices, the flock; in the caller: a `Disk` scanned some time ago | `ScanDisk`, `CreatePartition(s)`, `UpdatePartition(s)`, `DeletePartition`, `Wipe` | other processes through the disk, the kernel and the flock; udev | interleaving, stale `Disk` values, failure between writes, who has the lock | the table is changed in one piece; no call undoes another; success means it is done; kernel and table agree; one copy of the table survives; calls end |
| Wiping, `wipeDisk`, `zeroStartEnd` | bytes of the disk | `Wipe`, and zeroing of new partitions | the above | inclusive and exclusive ends, short partitions, bad tables | the right bytes are zero, no others |
| Free space, `disk.go`, `util.go` | a slice of gaps, changed in place | `FreeSpaces`, `FreeSpacesWithMin`, `findRangeGaps` | `rangeCheckParts` must accept the result | unsigned wrap-around, slice aliasing, bad tables | gaps are exactly the unused bytes |
| Linux LVM, `linux/lvm.go`, `linux/lvmdump.go` | none; the kernel and the disks keep it | PV, VG, LV: create, delete, extend, rename, encrypt; scans | `lvm`, `cryptsetup`, `dmsetup`, other processes | several commands per call, failure in between, a scan made of four commands | what a call returns is so; what it sets up is set up whole |
| Mock system and volume manager, `mockos` | partitions, PVs, VGs, LVs in maps | the same interfaces | one caller | bookkeeping in several maps, partial failure, Go's copies of records | a PV has one owner, sizes add up |
| RAID controllers, `megaraid`, `smartpqi`, `mpi3mr` | `megaraid`: a cache of answers, with their age | `Query`, `List`, `GetDiskType` | `storcli`, `arcconf`, `storcli2`, the scan of `linux/system.go` | stale answers, two commands per query, map order | the type of a disk is that of its own drives, now or minutes ago |
| Image tool, `ptimg` | loop and nbd devices, partitions of images, mounts, directories | connect, partition, format, copy, take down | `System`, `qemu-nbd`, `losetup`, `mount`, other runs | waiting with a limit, a free device that is taken meanwhile, failure anywhere, undo in reverse | nobody's device or data is touched; everything is given back; it ends |
| Virtualisation type, `linux/virt.go` | a package variable | `getVirtType` | goroutines, `systemd-detect-virt` | no lock | one answer |
| Utilities, `linux/util.go` | none | commands, udev output, sysfs | the kernel | parsing | |
| Demo, `demo` | none | prints; `updown` runs the library's calls in a row | `System`, `VolumeManager` | | |
| Identifiers, `partid`, `guid.go` | none | conversions | | | |

## What is modelled

### DiskOps: partition calls of several processes on one disk

`DiskOps.tla` follows a call of `linuxSystem` step by step. `pc[c]` is the place of client `c` in
its call; every write of the disk, every `addpart` and `delpart`, taking and leaving the lock are
steps of their own.

| Model | Code |
|---|---|
| `mbr`, `pri`, `bak` | sector 0, the primary and the backup GPT. A copy has two halves, the header with its checksum and the entries, that are written one after the other; `ReadCopy` is what `gpt.ReadTable` makes of them (no table, a table, or a checksum error: `Torn`) |
| `data` | whether a block of 1 MiB holds old contents, zeros, or old contents with four bytes zeroed |
| `kern` | the partition devices the kernel has, for `addpart`, `delpart` and `uevent` |
| `lock` | the flock of `withLockedFile` |
| `snap`, `req`, `op` | the caller's `Disk`, its `PartitionSet`, its call |
| `mem`, `fresh`, `todo`, `left` | the handler's table in memory, whether it is the empty one of `writeNewGPTTable`, what its loop has to do |
| `committed`, `doubt` | history: the table that the primary copy last showed; numbers whose last create or delete wrote the table and was not confirmed by the kernel |

| Actions | Code |
|---|---|
| `Scan` | `ScanDisk`, `findPartitions`; takes no lock |
| `Call`, `Reject` | the entry points of `linuxSystem`, `rangeCheckParts` |
| `Acquire`, `Sync` | `withLockedFile`: flock; fsync and close |
| `AddGPT`, `Zero` | `addPartitionSetGPT`: read the table, the loop over new partitions |
| `AddMBR`, `Zero`, `WriteDos` | `addPartitionSetMBR` |
| `Update` | `updatePartitions`, `updatePartitionSetGPT`, `updatePartitionSetMBR` |
| `DeleteGPT` | `deletePartitionSetGPT` |
| `DeleteMBR`, `WriteBehind` | `deletePartitionSetMBR`: entries emptied in memory; the image written where `mbr.Read` left the file, in sector 1 |
| `WriteProtectiveMBR`, `WritePrimary`, `WriteBackup`, `Check` | `writeGPTTable` |
| `AddPart`, `DelPart` | `kernelAddParts`, `kernelDelParts` |
| `Uevent` | `genPartChangeUEvent`, after the lock is gone |
| `WipeFirst`, `WipeLast`, `WipePart` | `wipeDisk` |
| `Fault` | any I/O error, failing command or death of the process: from outside they look the same, the call ends where it is and the kernel closes the file |

Abstractions: offsets count blocks of 1 MiB, and sectors have 512 bytes, so that sector 1 is where
the header of a primary GPT is; `MBRSlots` and `MBRLast` are the limits of `rangeCheckParts` on an MBR
disk (partitions 1 to 4; an end that 32 bits can address, wherever the disk ends), so a partition
there may reach the backup GPT or leave the device, where a write fails. An image file would grow
instead: only devices are wiped or have an MBR in the runs. Of a partition's GUID, type and name only the type is
kept, because it alone decides whether a GPT entry is in use; an MBR whose signature is missing
has no entries; partition types have an MBR code. `delpart` may refuse a partition (somebody has
it open), `addpart` refuses one whose number or sectors the kernel has in use: that is how the
code uses the kernel, and it is marked external.

### PartitionTable, DiskOpsRefinement: what the calls promise

`PartitionTable.tla` is the abstract specification: a table and calls that take effect in one
piece between their start and their end, on the table of that moment and on the slots they name; success means the call
has taken effect. `DiskOpsRefinement.tla` gives the mapping: the moment is the
second half of the write of the primary GPT copy.

### WipeDisk: the bytes a Wipe zeroes

`WipeDisk.tla` takes the same `wipeDisk` and `zeroStartEnd` byte by byte: the three cases of
`zeroStartEnd`, clipping at the end of the disk, one write after the other, each of which may fail
after any number of bytes. Offsets in a table are 64 bits without a sign and become `int64` on the
way (`Signed`): from `Int63` = 2^63 on they are negative, and the first seek fails.

### FreeSpaces: the gaps

`FreeSpaces.tla` runs the loop of `findRangeGaps` on the ranges that `FreeSpacesWithMin` collects.
The five cases are five actions. The slice is changed in place, so `Inserted` does what Go's
`append` does to the array underneath. `Accepted` is `rangeCheckParts`.

### MockSystem, MockLVM: the mock, and PVOwnership: what it promises

`MockSystem.tla` has the partitions, `MockLVM.tla` extends it with physical volumes, groups and
volumes. One call is one step: the mock has no threads and its callers are tests. `ok` is whether
the call returned without an error.

| Model | Code |
|---|---|
| `parts` | `Disks[d].Partitions`; a caller's `Disk` shares this map with the mock |
| `pvs`, `free` | `lvm.PVs`, `lvm.freePVs` |
| `vgs`, `owned`, `size`, `space`, `lvs` | `lvm.VGs`, and of each `VG` its `PVs`, `Size`, `FreeSpace`, `Volumes` |
| `Done` | Go goes over a map in any order: what a loop has done when it meets a refusal is any subset of the rest |
| `Refused`, `Taken` | the loop of `CreateVG`, which stops at the first PV that is not free and has taken those before |
| `Books` | a `VG` is a copy until it is put back; the maps in it are not |

`PVOwnership.tla` is the abstract specification: a PV is unknown, free, of one group, or lost. It
moves in six ways only. The mapping (`Owner`, `Ownership`) reads the owner off the three maps.

### LVMCommands, LinuxLVM: calls as sequences of commands

`LVMCommands.tla` is what `lvm`, `cryptsetup` and `dmsetup` do, as functions from a world (labels of
devices, volumes with their size, LUKS header and mapping) to the worlds they may leave; it is
external. `LinuxLVM.tla` is `linux/lvm.go`: a call (`req`) is at a command (`pc`), keeps what its
scans have read (`got`) and leaves a result (`out`).

| Actions | Code |
|---|---|
| `Run` | `runCommandSettled`: done or refused or failed, and after it `udevadm settle`, which may fail too |
| `PvcreateStep` .. `CloseStep` | one command each of `CreatePV`, `ExtendVG`, `DeletePV`, `CreateVG`, `RemoveVG`, `CreateLV`, `ExtendLV`, `RenameLV`, `RemoveLV`, `CryptFormat`, `CryptOpen`, `CryptClose` |
| `Luks2Wipe` | `luks2Wipe` after the `lvcreate` of a thick volume |
| `GetLuksInfo`, `Resize` | the second half of `ExtendLV` |
| `Vgs`, `Lvs`, `Luks`, `Pvs` | the reports of `scanVGs`, `scanLVs`, `getLuksInfo`, `scanPVs` and how they are put together |
| `Fail` | errors: `HasPV` and `HasVG` say no, `HasLV` panics, the others return them |
| `Other` | a command of another process between two of the call's |

`spoiled` is history: the groups for which the call was disturbed, because another process changed
them or because they share a volume name with another group.

### RaidTools, RaidControllers, DiskType: what type a disk is

`RaidTools.tla` is the hardware and what the three tools print of it (external, but for the
fields disko picks out of the output); `RaidControllers.tla` turns output into controllers and
reads a type off them; `DiskType.tla` runs callers: `GetDiskType` from a scan and `Query`, one
tool command at a time, while the hardware changes (`Change`: a virtual drive is made or removed, a
drive is lost, a controller goes, the tool is installed or removed; `Moved`) and time passes (`Tick`).
A controller is one with RAID support, a plain one or none (`mode`); disko tells the three apart
by `ErrUnsupported` and `ErrNoController`.

| Model | Code |
|---|---|
| `cache`, `Cached`, `Remember` | `cachingStorCli.cache`, its `Get` and `Set`; `TTL` is its five minutes |
| `MegaShow`, `MegaVall` | the two commands of `storCli.Query` |
| `List`, `Advance`, `PqiConfig`, `MpiShow`, `MpiVall` | `GetDiskType`, `Query`, `GetConfig` and `List` of `smartpqi` and `mpi3mr` |
| `FirstTypes` | the loop over the drives, in the order of a Go map |
| `CheckVirt`, `DetectVirt`, `AssignVirt`, `ReturnVirt`, `KernelType` | `getVirtTypeIface` and `getDiskType` for a disk that is on no controller |

`past` keeps the hardware of before with times, so that a property can say that an answer was
true some time ago.

### PtImg: the image tool

`PtImg.tla` follows each run of `ptimg` from its arguments to its end. `st[r]` is the run's place and
its variables, `img` the images with their partitions, `dev` the loop and nbd devices, `mnt` and
`tmp` mounts and temporary directories. Each command of `partCreate` is an action with its failure;
`Undo`, `Settle`, `Disconnect`, `Detach`, `Umount`, `Rmdir` are the deferred functions in the order
Go runs them. `Kill` ends a run anywhere with none of them run. `SizeAppears` is the kernel
learning the size of an nbd device, now, later or never. The library's calls that ptimg makes
(`ScanDisk`, `FreeSpacesWithMin`, `CreatePartition`) are taken whole: FreeSpaces and DiskOps open
them. Offsets count units of several MiB: `CreatePartition` zeroes bytes at 1 and 2 MiB of the
disk as well, which are in unit 1 and so in whatever partition begins there (`Dented`; `hit` is
whose runs have done it since the partition was formatted). An nbd device that is disconnected
under a filesystem whose `umount` has failed may lose what was copied and not yet written
(`Disconnect`). `shared` is history: images on which two runs worked at a time, which nothing in the code
prevents and for which nothing but `OwnDevice`, `Released` and `Ends` is claimed.

## Runs

Each run is a `.cfg` of its name for an MC module. In DiskOps two slots and two processes are
enough: every property is about one slot, or two slots, and a call and those that meet it; a third
process can do to the pair what the second can do again and again.

| Run | What it asks | Bounds |
|---|---|---|
| `race` | Is read, modify, write of the table atomic (`LockHolder`, `HolderAgrees`, `NoLostUpdate`)? Does DiskOps implement PartitionTable (`AtomicCalls`)? | 2 processes, image file with a GPT, create, update, delete, callers that ask for anything (`Careful = FALSE`), 1 fault |
| `faults` | Does success mean the table and the kernel (`SuccessIsDone`, `KernelMatches`)? Do racing creates for the same space end with an overlap that everybody takes for good (`NoSilentOverlap`)? Does one failure leave one good copy (`OneCopySurvives`)? Are new partitions zeroed before they show (`ZeroedBeforeVisible`)? Does every call end (`CallsEnd`)? | 2 processes, block device with a GPT, creates of overlapping extents and deletes, 1 fault at any step of either |
| `dos` | Everything one process can do, Wipe included, from a disk with an MBR, with `Disk` values of any age. After a Wipe the disk is blank, and the next create goes through the branch of its `Disk`: with an empty GPT first, or with an MBR (`CreatedOverBlank`). Contents outside the request survive (`OthersKept`); what was wiped stays wiped (`WipedStaysWiped`) | 1 process, 1 fault, 5 blocks so that a partition can lie behind the offsets 1 and 2 MiB, 1 MBR slot of 2, extents that are refused, that reach the backup GPT and that leave the device |
| `free` | `GapsExact`, `FreeUsable`, `OnlyLastCut` | disks of 10 units with MiB = 2, up to 2 partitions that overlap, have no length or reach past the end, and disks too small for a backup GPT |
| `wipe` | `InsideDisk`, `EndsGone`, `OnlyEnds`, `TableFirst` | MiB = 3, Int63 = 20, 7 disk sizes on both sides of each boundary, up to 2 partitions with offsets on both sides of Int63, a write that fails |
| `mock` | One owner (`OneOwner`), no promise beyond the group's size (`NoOversell`), books that follow contents (`BooksKept`), losses only in failed calls (`LostByError`), open means encrypted (`OpenIsEncrypted`), and the refinement `OwnedOnce` | 2 disks of sizes 2 and 1, 2 partition numbers and one name, 2 groups, 2 volume names, lists of up to 2 PVs with repetitions, at most 4 things at a time: enough for a create that fails after its first PV, a PV named twice, a rename onto a volume in use |
| `lvm` | What scans and creations report is there (`ScanExact`), a new volume is not taken for an encrypted one (`FreshIsPlain`), an open volume grows with its device (`ResizedWithLV`) | 2 devices, 2 groups, 2 names, 1 mapping, at most 5 things, 1 command of another process in a call: two would have to undo each other to matter |
| `raid` | How old an answer can be (`FreshAnswer`), whether two outputs mix (`NothingInvented`), whether an SSD is one (`SolidIsSolid`), what brings the program down (`PanicExplained`), whether the race on the virtualisation type shows (`PlainTrue`) | 2 callers, 4 machines with up to 2 controllers (one of them without RAID support) and 3 drives; with the cache 1 change and 4 instants with TTL = QueryTime = 1, without it 2 changes |
| `ptimg` | Whose device it is (`OwnDevice`), what survives (`CopyKept`, `OthersKept`), what is given back (`Released`), whether it ends (`Ends`) | 2 runs, a raw image and one of another format, 1 loop and 2 nbd devices, 4 ways to call it, 2 looks at the size, 1 kill |

Deadlock is not checked in `free`, `wipe` and `ptimg`: an algorithm or a run of the tool ends. In
`raid` an answer is looked at when it is given (`MCPrompt`), a call on the controllers without a
cache does not overlap another, because they share nothing, and the disks without controller are
looked at on a machine where nothing else moves.

Three runs show a disagreement between the code and what its comments say. Each checks one property,
which TLC finds violated:

| Run | What happens |
|---|---|
| `mbr_create` | On a disk with a valid MBR `addPartitionSetMBR` returns the nil error of `mbr.Read` before it writes anything. `CreatePartition` succeeds, the kernel gets a device, the table has no partition |
| `mbr_delete` | `deletePartitionSetMBR` reads the MBR and writes it back without a seek in between: the image lands in sector 1 and sector 0 keeps the partition. `DeletePartition` succeeds, the kernel's device is gone until the table is read again |
| `raid_type` | `GetDiskType` of `smartpqi` returns inside the first turn of its loop over the logical drives: with two arrays, one solid state and one rotating, and every drive in one of them, the disk on the first is called HDD when Go's map order puts the other one first. `mpi3mr` has the same loop |

What a call does has to be part of the statement of some properties, where the code differs from
what one would expect:

- `race` and `faults` start from a disk with a GPT. On a blank disk `AtomicCalls` does not hold: a
  scan takes no lock, and between the protective MBR and the GPT of a first create it takes the disk
  for an MBR disk; `DeletePartition` with that `Disk` succeeds and writes into sector 1, on the header of
  the primary GPT that is there by then. `NoLostUpdate` and `OneCopySurvives` break the same way.
- `SuccessIsDone` is about calls with the `Disk` of a GPT or a blank disk. On an MBR disk neither call
  does what it says (`mbr_create`, `mbr_delete`), unless the signature has gone since the scan
  (`CreatedOverBlank`).
- Updates have a type. `updatePartitionSetGPT` tests the type on the disk where the caller's was
  meant (`linux/disk.go:505`), so an update without one marks the entry unused. (The mock keeps
  the old type.)
- `Wipe` takes no lock, so `HolderAgrees` and `NoLostUpdate` are claimed without it, and
  `WipedStaysWiped` of one process: another's create that is under way brings partitions back.
- `OthersKept` of DiskOps excepts four bytes at 1 MiB and at 2 MiB of the disk: `zeroStartEnd` zeroes
  them at these offsets also when it is called for a partition of 3 MiB and more that lies elsewhere.
  `OthersKept` of PtImg excepts them in the partition that begins there (that of `sfdisk` does), and
  `CopyKept` says which runs may have zeroed bytes in a copy: those of another partition name.
- `EndsGone` leaves out a partition's last byte: `zeroStartEnd` takes `last` as the first byte
  behind, and its callers pass `Partition.Last`, the last byte inside. And it is about a Wipe that
  succeeds: a partition past the end of the disk ends one with a range error.
- On an MBR disk beyond what an MBR can address `FreeSpaces` offers space that `rangeCheckParts`
  refuses, so `free` gives `MBRBytes` a value above the size of its disks.
- Mock: a `CreateVG` that fails loses the PVs it has taken (`LostByError`); `ExtendVG` counts a PV
  named twice twice, and `RenameLV` onto an existing volume loses that volume's space (`BooksKept`);
  `ExtendLV` succeeds and changes nothing, because it changes copies; a PV on a partition has size 0.
- Linux LVM: volumes of two groups with one name collide in a scan, so `ScanExact` excepts groups
  that share a name. `CreateLV` with type `LVTypeUnknown` runs no `lvcreate` and returns what is
  there; no caller passes it and the run does not. An `ExtendLV` whose `lvextend` worked and whose
  resize failed cannot be repeated: `lvextend` refuses the same size. `pvremove` is forced, and
  callers are assumed to delete only PVs of no group. An `ExtendVG` that fails in `vgextend` leaves
  its devices labelled.
- RAID: `megaraid` asks controller 0 only, whichever holds the disk, and panics on a virtual drive
  whose drives are all gone, or that was made between its two commands; `mpi3mr` panics without
  its tool (`storcli2.go:507`) and for a controller other than 0, and keeps all drives under one
  key. `smartpqi` leaves `ArrayID` 0 for a drive that is in no array (`arcconf.go:216`, 261) and counts
  it as one of array 0, so a spare rotating drive makes an SSD an HDD, too. A slow query may replace a newer entry of the cache; `FreshAnswer` holds all the same, because the
  entry's time starts at the end of its own query, and `NothingInvented` allows for the time of one
  query. Each of these is named in `PanicExplained` or in the model.
- ptimg: of two runs on one image none waits for the other; a second run with the same partition
  name formats the first one's partition again, which `CopyKept` allows. If `umount` fails, `qemu-nbd
  --disconnect` follows all the same, under a mounted filesystem: what it had not written back is
  lost, which `CopyKept` excepts (`LeftMounted`). A loop device stays until it is unmounted. The command given with
  `--execute` is assumed to end and to leave devices and mounts alone.

The definitions marked "wrong, for comparison" in the modules are what the code might have been
with a plausible bug. Nothing uses them; each shows that a property notices it.

### Fairness

`CallsEnd` and `Ends` need some. For `CallsEnd`, a process that runs takes its next step (`WF` of `Step`): the code has
no loop without an end, and the commands it runs are assumed to end. A process that waits in flock
gets the lock if it becomes free again and again (`SF` of `Acquire`): the kernel keeps the waiters
in a queue. `Scan` and `Call` are not fair: nobody has to call. For `Ends`, a run of ptimg takes its
next step (`WF` of `Step(r)`), since the commands it runs return; `SizeAppears` is not fair, because
an nbd device may never get its size, and neither are `Start` and `Kill`.

## Proofs

Checked by TLAPS, for every value of the constants that the named assumptions allow: any number of
processes, slots, extents, devices, disks, names, sizes, faults. A theorem that needs more says so
as a hypothesis.

| Module | Theorems | Hypotheses |
|---|---|---|
| `DiskOpsProofs` | `TypeCorrect`, `LockCorrect` (`LockHolder`) | |
| | `HolderAgreesCorrect` | nobody wipes |
| `DiskOpsCallProofs` | `ZeroedBeforeVisibleCorrect`, `OthersKeptCorrect` | |
| | `WipedStaysWipedCorrect` | one process |
| | `NoLostUpdateCorrect`, `OneCopySurvivesCorrect`, `SuccessIsDoneCorrect` | nobody wipes; the disk has a GPT |
| | `KernelMatchesCorrect`, `AtomicCallsCorrect` | nobody wipes; the disk has a GPT; updates have a type |
| | `NoSilentOverlapCorrect` | those, a block device, and no overlap to begin with |
| `WipeDiskProofs` | `InsideDiskCorrect`, `OnlyEndsCorrect`, `EndsGoneCorrect`, `TableFirstCorrect` | |
| `FreeSpacesProofs` | `OnlyLastCutCorrect` | |
| | `GapsExactCorrect` | `Even`: no partition ends more than a byte before it starts |
| | `FreeUsableCorrect` | an MBR can address the whole of an MBR disk |
| `MockLVMProofs` | `OneOwnerCorrect`, `LostByErrorCorrect`, `OwnedOnceCorrect` (the mock implements PVOwnership), `OpenIsEncryptedCorrect`, `NoOversellCorrect`, `BooksKeptCorrect` | |
| `LinuxLVMProofs` | `ScanExactCorrect`, `ResizedWithLVCorrect` | |
| | `FreshIsPlainCorrect` | nobody asks for a volume of type `LVTypeUnknown` |
| `DiskTypeProofs` | `FreshAnswerCorrect`, `NothingInventedCorrect`, `SolidIsSolidCorrect`, `PanicExplainedCorrect`, `PlainTrueCorrect` | |
| `PtImgProofs` | `OwnDeviceCorrect`, `ReleasedCorrect`, `CopyKeptCorrect`, `OthersKeptCorrect` | |

Each is `Spec => []P`, or `Spec => P` for an action property or a refinement, for the property `P`
of that name that a run checks. The hypotheses are those under which the code keeps the property;
what happens without them is under Runs, above.

### Partition calls

`HolderAgrees` is not inductive: nothing in it says that the table on the disk stays what it is
while a call works. `WriteInv` adds that: the lock (`LockHolder`), that a readable primary copy is
the `committed` table (`NotTorn`), and for each place of a call what it has read and whether it is
the empty table of `writeNewGPTTable` (`AtWork`). `WriteStep` is the inductive step, with a case
per action; the cases that matter read the table under the lock (`AddGPT`, `Update`, `DeleteGPT`,
`Check`), change it in memory (`Zero`) or publish it (`WritePrimary`, by `HalfWritten`).
`OnlyRequestedSlots` says of a write of the primary copy that it changes the slots of its request
only; with `GptInv`, below, no other step changes the table, which is `NoLostUpdate`.

The properties of calls rest on `PlaceInv`, which holds without any hypothesis: what a call was
asked for fits its kind (`Asked`), its loop variables fit its place (`Placed`), and what the
kernel has been told is so (`Knows`). On top of it:

- `ZeroedBeforeVisible`: `CleanInv` says that everything on the way to the primary copy, the
  handler's table and each half of the copies, names only partitions that were zeroed. It is kept
  by every other process's step because zeros are only ever written.
- `OneCopySurvives`: `CopiesInv` says, for each place of the writing call, which of the two copies
  is whole, as long as at most one call has failed; the lock makes sure that one call writes at a
  time, and on a GPT disk no call takes the branch that writes into sector 1.
- `WipedStaysWiped`: `OnlyInv` says that a table on its way to the disk has no partition that
  neither the disk has nor the call creates. It needs one process: `mem` of another one may hold a
  partition that a Wipe has just removed.
- `KernelMatches`, `NoSilentOverlap`, `SuccessIsDone` and `AtomicCalls` share `GptInv`: on a GPT
  disk a call's table in memory is the one on the disk with the request merged in (`Wanted`), up
  to the entries its loop has not come to, and after the write of the primary copy the disk has
  it. For `AtomicCalls` every step is mapped: to `Call` and `Return` at the ends, to the taking
  effect at the second half of the primary copy, to a stutter otherwise.

### Wiping and free space

`WithinInv` says of every planned write of a Wipe that it lies inside the disk and in a place
`OnlyEnds` allows; `ReachInv` says that what has to be zeroed by now is zeroed or planned. Both
are by the three cases of `Planned`. In `FreeSpaces` `Inv` has four parts: the loop's variables
(`Place`), that all gaps but the last lie before the ranges still to come (`Behind`, which is why
the `append` overwrites nothing), that no gap meets a range already seen (`Clear`) and that every
other byte is in a gap (`Cover`). `Even` excludes partitions that end two bytes or more before
they start: the loop splits a gap around such a partition into two gaps that overlap. Partitions
of length zero are within it, and `free` has no others either.

### LVM

`OneOwner` is inductive with the types of the four variables it is about (`Inv`). `Moves` says
which calls touch them; the one that is not obvious is `CreateVG`, which goes through a list and
may stop in it, and `TakenFree` is what it needs: whatever the loop has taken was free. For the
refinement, `OwnerPlaced` shows that the mapping says of a PV just what the maps say (under `Inv`
its `CHOOSE` has one candidate), so that each call's effect on the maps is an effect on owners:
`CreatePVOwner` to `RemoveVGOwner`, with `Given` and `GivenAway` for the two calls that give, one
of which may give to nobody. `OpenIsEncrypted` needs the type of the volumes as well
(`VolumesOK`), because a volume is changed by building a record from the old one.

`NoOversell` and `BooksKept` are about sums. `SumOf` counts the units of a function's values, as
the size of a set of pairs, so that facts about sums are facts about finite sets: `SumPut` (one
value changes), `SumJoin` (two sets without a common element) and `SumRenamed` (counting along a
list without repetitions and counting the set it names is the same). `OnVolumeSpace` then says of
all calls on a volume that what they put into the books takes from the free space what it adds to
the volumes, or more: `RenameLV` onto another volume.

For Linux LVM `Base` says that the world is one the commands can leave (`Possible`) and that a
call's variables fit its command. `FreshInv` and `ResizeInv` follow the volume from the command
that makes or extends it to the end of the call; both properties are about calls that nobody
disturbed. `ScanInv` says for each of the four reports of a scan what it has of the groups that
are not `spoiled`, whatever commands of others ran in between.

### RAID

One invariant, `Inv`, carries the first four properties. `EntryInv` says of an entry of the cache
that its result was right (`Result`) when the query that wrote it ended, which is `TTL` before it
expires; `ShownInv` says the same of what a query holds between its two commands; and `Right` of
an answer. `SinceGrows` is why such a fact stays true: what was so at some time since `t` stays so
while the hardware changes and time passes. The proof showed more than the runs had asked for:
`FreshAnswer` had allowed for the time of a query on top of `TTL`, which is not needed. A slow
query may replace a newer entry, and is then as old as its own end. `NothingInvented` does need
the time of the query, because the two commands see different moments. `VirtInv` is for
`PlainTrue`: the package variable is unset or right, and so is what each caller is about to
assign.

### Image tool

`Base` says for each place of a run which device, mount and directory it has (`OwnInv`,
`MountInv`), and where a device can stay behind: in a run that was killed or whose cleanup failed.
`CopyInv` adds what a run relies on between its look at the image and its change (`Relies`) and
what is kept of a copy (`Keeps`), for images on which runs work one at a time; `Solo` ties that to
`shared`. `HitInv` says that whoever zeroed bytes in a partition was a run of another name, and
`Keeps` follows a mount that a failed `umount` left behind. That `Min` has a value, for the device or the partition number a run takes, is by the
well-foundedness of `<` on the numbers.

### Assumptions

The named ones of the modules, which TLC evaluates in every run: `None`, `Torn` and the like
differ from everything else; slots, controllers and volume names are finitely many; sizes,
offsets, times and numbers are natural numbers, lists are sequences; slot 1 and controller 0
exist; a table or machine given at the start is one the types allow, and a machine is `Wired` (its
virtual drives are on RAID controllers, with numbers and devices of their own). An MBR that a disk
starts with has entries in `MBRSlots` only. In WipeDisk a disk is smaller than `Int63`. In FreeSpaces an offset that wraps around is one of `Word`, and a disk is smaller than that.

### Only model-checked

`CallsEnd` and `Ends`: liveness under fairness is out of the prover's reach. `CreatedOverBlank`, which
is about a disk that is wiped, outside the hypothesis of `GptInv`. All other properties
of the passing runs are theorems, under the hypotheses above.

## Plan

What is left, in the order of what it would say about the code:

1. DiskOps without its hypotheses: the calls next to a Wipe, where `AtomicCalls` would need an
   abstract specification in which a Wipe may come between the two halves of a call's effect.
2. `SuccessIsDone` of several processes from a blank disk: a process that scans during the first
   create of another takes the disk for an MBR disk, and what it deletes there hits sector 1.
3. LinuxLVM: `FreshIsPlain` and `ResizedWithLV` next to commands of others that leave the call's
   own group alone.

## Not modelled

- The demo programs: they call the library and print. `updown` of `demo/misc.go` calls one after
  the other what DiskOps and LinuxLVM have as calls, stops at the first error and undoes nothing
  but a partition of its own.
- Parsing of `udevadm`, `storcli`, `arcconf`, `lvm`, `cryptsetup` and `qemu-img` output, JSON and string
  conversions, GUIDs and partition type tables: functions of text without state. What the parsers
  of the RAID tools extract is in RaidTools.
- `ScanAllDisks`, `ScanDisks` and the filters: loops over `ScanDisk` without state.
- Partition numbers above 128 or 0 given to update and delete, which index outside the table (a
  panic). The encoding of MBR entries in 32 bits. In DiskOps `udevadm settle`, which changes nothing
  that model has.
- Thin pools that fill up, snapshots and RAID volumes of LVM: disko does not make them.
