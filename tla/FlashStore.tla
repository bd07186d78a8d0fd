----------------------------- MODULE FlashStore -----------------------------
(* The settings of a device: littlefs partitions on a 64 KB flash device    *)
(* (yiot-littlefs-hal.c, yiot-littlefs.c, yiot-littlefs-storage.c) that the *)
(* daemon security-provisioner and the command line tool license-processor  *)
(* use at the same time (firmware-verifier opens it too, and never writes). *)
(* Each process copies the whole device into _cache when it opens it,       *)
(* changes only the copy, and iot_flash_hw_sync() writes the whole copy     *)
(* back, with no lock between the processes. littlefs itself is external:   *)
(* an element is a file. Its content is told by the saves it comes from, of *)
(* which there may be two: the beginning of the file, and what lies behind  *)
(* the end of a shorter save. A partition that littlefs cannot mount holds  *)
(* nothing.                                                                 *)
EXTENDS Naturals

CONSTANTS
  Daemons,      \* processes that run security-provisioner
  Tools,        \* processes that run license-processor
  Element,      \* the files
  License,      \* the file with the license
  Partition,    \* SLOTS, TRUST_LIST and SECBOX
  Home,         \* Home[e]: the partition of e
  ToolMounts,   \* the partitions the tools mount (the daemon mounts all)
  MaxVersion,   \* bound: how many times an element is saved
  MayFail       \* are there devices whose I/O fails and that lose power?

Process == Daemons \cup Tools

ASSUME ElementAssumption == /\ License \in Element
                            /\ Home \in [Element -> Partition]
                            /\ Home[License] \in ToolMounts
ASSUME ProcessAssumption == Daemons \cap Tools = {}
ASSUME FailAssumption == MayFail \in BOOLEAN

VARIABLES
  useMtd,     \* _use_mtd: an MTD device, not the plain file that emulates it
  mayFail,    \* I/O of this device may fail, and it may lose power
  flash,      \* the device
  cache,      \* cache[p]: _cache of process p, a copy of the device, which ends with p
  at,         \* what each process does
  versions,   \* the number of versions so far
  told,       \* the version of the license reported last as stored
  lastSync,   \* what the last sync that returned had to write
  hurt        \* was the device left incomplete, and not rewritten since?

flashVars == <<useMtd, mayFail, flash, cache, at, versions, told, lastSync, hurt>>

Content == [head : Nat, tail : Nat]
Nothing == [head |-> 0, tail |-> 0]   \* no such file

\* An image of the device: which partitions littlefs can mount, and the
\* files. There are none in any other partition.
AnyImage == [state : [Partition -> {"formatted", "erased", "torn"}],
             data  : [Element -> Content]]
Image == {img \in AnyImage :
            \A e \in Element : img.state[Home[e]] # "formatted" => img.data[e] = Nothing}

Blank == [state |-> [q \in Partition |-> "erased"], data |-> [e \in Element |-> Nothing]]

\* Mutant of Mounted: no partition is formatted.
MountedNone(img, parts) == img

\* A partition that cannot be mounted is formatted, in the copy.
Mounted(img, parts) ==
  [state |-> [q \in Partition |-> IF q \in parts THEN "formatted" ELSE img.state[q]],
   data  |-> img.data]

\* The partitions in `lost` could not be read.
Unread(img, lost) ==
  [state |-> [q \in Partition |-> IF q \in lost THEN "torn" ELSE img.state[q]],
   data  |-> [e \in Element |-> IF Home[e] \in lost THEN Nothing ELSE img.data[e]]]

\* A save writes at an offset into the file, which is not truncated when it is
\* opened: behind the end of a shorter save the older content stays.
WithVersion(img, e, v, long) ==
  [state |-> img.state,
   data  |-> [img.data EXCEPT ![e] = [head |-> v, tail |-> IF long THEN v ELSE @.tail]]]

FlashInit ==
  /\ useMtd \in BOOLEAN /\ mayFail \in {FALSE, MayFail}
  /\ flash = Blank
  /\ cache = [p \in Process |-> Blank]
  /\ at = [p \in Process |-> "down"]
  /\ versions = 0 /\ told = 0
  /\ lastSync = flash.data
  /\ hurt = FALSE

Moves(p, from, to) == at[p] = from /\ at' = [at EXCEPT ![p] = to]

(***************************************************************************)
(* The programs                                                            *)
(***************************************************************************)

\* Mutant of DaemonStart: a daemon that starts again does not read the device.
DaemonStartStale(d) ==
  /\ Moves(d, "down", "up")
  /\ cache' = [cache EXCEPT ![d] = Mounted(cache[d], Partition)]
  /\ UNCHANGED <<useMtd, mayFail, flash, versions, told, lastSync, hurt>>

\* A process that opens the device reads it all into _cache. When the read
\* fails this is logged, and the process goes on with what it has.
Loads(p, parts) ==
  \E lost \in (IF mayFail THEN SUBSET Partition ELSE {{}}) :
    cache' = [cache EXCEPT ![p] = Mounted(Unread(flash, lost), parts)]

\* The daemon mounts SLOTS, TRUST_LIST and SECBOX.
DaemonStart(d) ==
  /\ Moves(d, "down", "up")
  /\ Loads(d, Partition)
  /\ UNCHANGED <<useMtd, mayFail, flash, versions, told, lastSync, hurt>>

\* A tool goes on only when it has loaded a license.
ToolStart(t) ==
  /\ Moves(t, "down", "up")
  /\ Loads(t, ToolMounts)
  /\ cache'[t].data[License] # Nothing
  /\ UNCHANGED <<useMtd, mayFail, flash, versions, told, lastSync, hurt>>

\* Saving is open, seek, write and close of the file, all in _cache; the sync
\* that littlefs asks for on close does nothing. A removal counts as a save of
\* the whole file.
SaveElement(p, e) ==
  /\ versions < MaxVersion
  /\ versions' = versions + 1
  /\ \E long \in BOOLEAN : cache' = [cache EXCEPT ![p] = WithVersion(@, e, versions + 1, long)]
  /\ UNCHANGED <<useMtd, mayFail, flash, told, lastSync, hurt>>

\* Provisioning, a new list of users, a new device name.
DaemonSave(d, e) == Moves(d, "up", "up") /\ SaveElement(d, e)

\* The provision and users callbacks: sync.
DaemonUpdate(d) ==
  /\ Moves(d, "up", "compare")
  /\ UNCHANGED <<useMtd, mayFail, flash, cache, versions, told, lastSync, hurt>>

\* _cmd_save: save the license, then sync.
ToolSave(t) == Moves(t, "up", "compare") /\ SaveElement(t, License)

\* The license is loaded again, from _cache, and printed as "Stored license".
ToolReport(t) ==
  /\ Moves(t, "synced", "down")
  /\ told' = cache[t].data[License].head
  /\ cache' = [cache EXCEPT ![t] = Blank]
  /\ UNCHANGED <<useMtd, mayFail, flash, versions, lastSync, hurt>>

\* The end of the daemon, or of a tool that was to print or to verify only.
Exit(p) ==
  /\ Moves(p, "up", "down")
  /\ cache' = [cache EXCEPT ![p] = Blank]
  /\ UNCHANGED <<useMtd, mayFail, flash, versions, told, lastSync, hurt>>

(***************************************************************************)
(* iot_flash_hw_sync                                                       *)
(***************************************************************************)

AfterSync(p) == IF p \in Daemons THEN "up" ELSE "synced"

Synced(p) == /\ Moves(p, at[p], AfterSync(p))
             /\ lastSync' = cache[p].data

\* What is in partition q of the device when it is programmed with img. Flash
\* that was not erased keeps the bits it had.
Programs(q, img) ==
  \/ ~useMtd \/ flash.state[q] = "erased"
  \/ /\ flash.state[q] = img.state[q]
     /\ \A e \in Element : Home[e] = q => flash.data[e] = img.data[e]

\* The device after the partitions in `whole` were written from img and the
\* write stopped somewhere in those of `torn`.
Written(img, whole, torn) ==
  LET good == {q \in whole : Programs(q, img)}
      bad  == torn \cup (whole \ good)
  IN  [state |-> [q \in Partition |-> IF q \in bad THEN "torn"
                                      ELSE IF q \in good THEN img.state[q]
                                      ELSE flash.state[q]],
       data  |-> [e \in Element |-> IF Home[e] \in bad THEN Nothing
                                    ELSE IF Home[e] \in good THEN img.data[e]
                                    ELSE flash.data[e]]]

\* Is another process between its erase and its write?
Overlap(p) == \E o \in Process \ {p} : at[o] = "write"

\* The device already holds the copy: nothing is written.
SyncSame(p) ==
  /\ at[p] = "compare"
  /\ flash = cache[p]
  /\ Synced(p)
  /\ UNCHANGED <<useMtd, mayFail, flash, cache, versions, told, hurt>>

\* It does not, or could not be read. Two torn partitions need not be equal.
SyncDiffers(p) ==
  /\ Moves(p, "compare", IF useMtd THEN "erase" ELSE "write")
  /\ flash # cache[p] \/ mayFail \/ \E q \in Partition : flash.state[q] = "torn"
  /\ UNCHANGED <<useMtd, mayFail, flash, cache, versions, told, lastSync, hurt>>

SyncErase(p) ==
  /\ Moves(p, "erase", "write")
  /\ flash' = Blank
  /\ hurt' = (hurt \/ Overlap(p))
  /\ UNCHANGED <<useMtd, mayFail, cache, versions, told, lastSync>>

\* MEMERASE failed; its result is not looked at.
EraseFails(p) ==
  /\ mayFail
  /\ Moves(p, "erase", "write")
  /\ hurt' = TRUE
  /\ UNCHANGED <<useMtd, mayFail, flash, cache, versions, told, lastSync>>

\* Mutant of SyncWrite: writes what the process mounted, not the whole device.
SyncWriteMounted(p) ==
  /\ at[p] = "write"
  /\ Synced(p)
  /\ flash' = Written(cache[p], IF p \in Daemons THEN Partition ELSE ToolMounts, {})
  /\ hurt' = (useMtd /\ (flash # Blank \/ Overlap(p)))
  /\ UNCHANGED <<useMtd, mayFail, cache, versions, told>>

SyncWrite(p) ==
  /\ at[p] = "write"
  /\ Synced(p)
  /\ flash' = Written(cache[p], Partition, {})
  /\ hurt' = (useMtd /\ (flash # Blank \/ Overlap(p)))
  /\ UNCHANGED <<useMtd, mayFail, cache, versions, told>>

\* write() or lseek() failed: this is logged, and the sync still returns 0.
WriteFails(p) ==
  /\ mayFail
  /\ at[p] = "write"
  /\ Synced(p)
  /\ \E whole, torn \in SUBSET Partition : flash' = Written(cache[p], whole \ torn, torn)
  /\ hurt' = TRUE
  /\ UNCHANGED <<useMtd, mayFail, cache, versions, told>>

SyncStep(p) == \/ SyncSame(p) \/ SyncDiffers(p) \/ SyncErase(p) \/ EraseFails(p)
               \/ SyncWrite(p) \/ WriteFails(p)

(***************************************************************************)
(* Kills and power loss                                                    *)
(***************************************************************************)

Interrupted(p) == useMtd /\ at[p] = "write"

Kill(p) ==
  /\ at[p] # "down"
  /\ at' = [at EXCEPT ![p] = "down"]
  /\ cache' = [cache EXCEPT ![p] = Blank]
  /\ hurt' = (hurt \/ Interrupted(p))
  /\ UNCHANGED <<useMtd, mayFail, flash, versions, told, lastSync>>

\* All processes end at once, one of them perhaps inside write().
PowerLoss ==
  /\ mayFail
  /\ at' = [p \in Process |-> "down"]
  /\ cache' = [p \in Process |-> Blank]
  /\ \/ /\ UNCHANGED flash
        /\ hurt' = (hurt \/ \E p \in Process : Interrupted(p))
     \/ \E p \in Process, whole, torn \in SUBSET Partition :
          /\ at[p] = "write"
          /\ flash' = Written(cache[p], whole \ torn, torn)
          /\ hurt' = TRUE
  /\ UNCHANGED <<useMtd, mayFail, versions, told, lastSync>>

FlashNext ==
  \/ PowerLoss
  \/ \E d \in Daemons : \/ DaemonStart(d) \/ DaemonUpdate(d)
                        \/ \E e \in Element : DaemonSave(d, e)
  \/ \E t \in Tools : ToolStart(t) \/ ToolSave(t) \/ ToolReport(t)
  \/ \E p \in Process : SyncStep(p) \/ Exit(p) \/ Kill(p)

FlashSpec == FlashInit /\ [][FlashNext]_flashVars

(***************************************************************************)
(* Properties                                                              *)
(***************************************************************************)

FlashTypeOK ==
  /\ useMtd \in BOOLEAN /\ mayFail \in BOOLEAN /\ hurt \in BOOLEAN
  /\ flash \in Image
  /\ cache \in [Process -> Image]
  /\ at \in [Process -> {"down", "up", "compare", "erase", "write", "synced"}]
  /\ versions \in Nat /\ told \in Nat
  /\ lastSync \in [Element -> Content]

\* An undamaged device outside the window between erase and write holds
\* exactly what the last sync that returned had to write, whatever syncs of
\* other processes it was interleaved with, and whatever kills and power cuts
\* went before: a sync compares with the device and not with what it wrote
\* last, so it also repairs what an interrupted sync left.
RestoredBySync ==
  ~hurt /\ (\A p \in Process : ~Interrupted(p)) => flash.data = lastSync

Store == INSTANCE SharedStore
           WITH durable <- flash.data,
                view    <- [p \in Process |-> cache[p].data],
                open    <- {p \in Process : at[p] # "down"},
                lossy   <- useMtd \/ mayFail

\* The processes share the elements as SharedStore says: what is not lost is
\* what one of them saw, file by file, and on a plain file without failures the
\* device holds the whole view of one process. What a process saw may be a
\* mixture of two saves.
ImplementsStore == Store!StoreSpec

\* license-processor goes on after the sync only if the license is on the
\* device: otherwise it was to end with "Cannot synchronize data storage".
SyncErrorStopsSave ==
  \A t \in Tools : at[t] = "synced" => flash.data[License] = cache[t].data[License]

\* What license-processor printed as "Stored license" is the license on the
\* device, or an older one than there is, when no sync is under way.
ReportedIsStored ==
  (\A p \in Process : at[p] \in {"down", "up"}) => flash.data[License].head >= told
=============================================================================
