------------------------- MODULE FlashStore_proofs -------------------------
(* The device always holds views of its processes, and a sync that nothing  *)
(* disturbs restores it, for every number of processes, files, partitions.  *)
EXTENDS FlashStore, TLAPS

\* Between its erase and its write, an undisturbed process is alone and the
\* device is blank; only an MTD device is erased.
WindowInv ==
  \A p \in Process : /\ at[p] = "erase" => useMtd
                     /\ useMtd /\ ~hurt /\ at[p] = "write" => flash = Blank /\ ~Overlap(p)

\* A process that runs has every partition it uses formatted in its copy.
MountedInv ==
  \A p \in Process : at[p] # "down" =>
    \A q \in (IF p \in Daemons THEN Partition ELSE ToolMounts) \cap Partition :
      cache[p].state[q] = "formatted"

FlashInv == FlashTypeOK /\ MountedInv /\ WindowInv /\ RestoredBySync

LEMMA NothingContent == Nothing \in Content
  BY DEF Nothing, Content

\* Writing any parts of an image on the device gives an image again.
LEMMA WrittenType ==
  ASSUME FlashTypeOK, NEW img \in Image,
         NEW whole \in SUBSET Partition, NEW torn \in SUBSET Partition
  PROVE  Written(img, whole, torn) \in Image
  BY ElementAssumption, NothingContent DEF FlashTypeOK, Image, AnyImage, Written

\* A whole image written over a blank device, or on a plain file, is what the
\* device then holds.
LEMMA WrittenWhole ==
  ASSUME NEW img \in Image, ~useMtd \/ flash = Blank
  PROVE  Written(img, Partition, {}).data = img.data
  <1>1. \A q \in Partition : Programs(q, img)
    BY DEF Programs, Blank
  <1>2. \A e \in Element : Written(img, Partition, {}).data[e] = img.data[e]
    BY <1>1, ElementAssumption DEF Written
  <1> QED
    BY <1>2 DEF Written, Image, AnyImage

\* Whatever is written, and however far, each element is as before, as in the
\* image, or lost.
LEMMA WrittenData ==
  ASSUME FlashTypeOK, NEW img \in Image,
         NEW whole \in SUBSET Partition, NEW torn \in SUBSET Partition
  PROVE  /\ Written(img, whole, torn).data \in [Element -> Content]
         /\ \A e \in Element :
              Written(img, whole, torn).data[e] \in {Nothing, flash.data[e], img.data[e]}
  BY ElementAssumption, NothingContent DEF FlashTypeOK, Image, AnyImage, Written

\* What was read is an image, and each of its files is on the device or lost.
LEMMA UnreadImage ==
  ASSUME NEW img \in Image, NEW lost
  PROVE  /\ Unread(img, lost) \in Image
         /\ \A e \in Element : Unread(img, lost).data[e] \in {Nothing, img.data[e]}
  BY ElementAssumption, NothingContent DEF Unread, Image, AnyImage

\* Mounting formats partitions of the copy and changes no file.
LEMMA MountedImage ==
  ASSUME NEW img \in Image, NEW parts
  PROVE  /\ Mounted(img, parts) \in Image
         /\ Mounted(img, parts).data = img.data
  BY ElementAssumption DEF Mounted, Image, AnyImage

\* A process that loads the device has a copy in which what it mounts is
\* formatted, and each file is as on the device or lost.
LEMMA LoadsImage ==
  ASSUME FlashTypeOK, NEW p \in Process, NEW parts, Loads(p, parts)
  PROVE  /\ cache' = [cache EXCEPT ![p] = cache'[p]]
         /\ cache'[p] \in Image
         /\ \A q \in parts \cap Partition : cache'[p].state[q] = "formatted"
         /\ \A e \in Element : cache'[p].data[e] \in {Nothing, flash.data[e]}
         /\ ~mayFail => cache'[p].data = flash.data
  <1> PICK lost \in (IF mayFail THEN SUBSET Partition ELSE {{}}) :
             cache' = [cache EXCEPT ![p] = Mounted(Unread(flash, lost), parts)]
    BY DEF Loads
  <1>1. cache'[p] = Mounted(Unread(flash, lost), parts)
    BY DEF FlashTypeOK
  <1>2. flash \in Image
    BY DEF FlashTypeOK
  <1>3. ~mayFail => Unread(flash, lost).data = flash.data
    BY <1>2, ElementAssumption DEF Unread, Image, AnyImage
  <1>4. /\ Unread(flash, lost) \in Image
        /\ \A e \in Element : Unread(flash, lost).data[e] \in {Nothing, flash.data[e]}
    BY <1>2, UnreadImage
  <1>5. cache'[p] \in Image /\ cache'[p].data = Unread(flash, lost).data
    BY <1>1, <1>4, MountedImage
  <1>6. \A q \in parts \cap Partition : cache'[p].state[q] = "formatted"
    BY <1>1 DEF Mounted
  <1> QED
    BY <1>1, <1>3, <1>4, <1>5, <1>6

\* The blank device is an image.
LEMMA BlankImage == Blank \in Image
  BY NothingContent DEF Blank, Image, AnyImage

\* A new version of a file in a formatted partition makes an image again, and
\* differs from the old one in that file only, whose rest may stay.
LEMMA WithVersionImage ==
  ASSUME NEW img \in Image, NEW e \in Element, NEW v \in Nat, NEW long \in BOOLEAN,
         img.state[Home[e]] = "formatted"
  PROVE  LET new == WithVersion(img, e, v, long)
         IN  /\ new \in Image /\ new.state = img.state
             /\ new.data = [img.data EXCEPT ![e] = new.data[e]]
             /\ new.data[e] \in Content
             /\ new.data[e].tail \in {new.data[e].head, img.data[e].tail}
  <1> DEFINE c == [head |-> v, tail |-> IF long THEN v ELSE img.data[e].tail]
             new == WithVersion(img, e, v, long)
  <1>1. img.data \in [Element -> Content] /\ img.data[e] \in Content
    BY DEF Image, AnyImage
  <1>2. img.data[e].tail \in Nat
    BY <1>1 DEF Content
  <1>3. c \in Content /\ c.tail \in {c.head, img.data[e].tail}
    BY <1>2 DEF Content
  <1>4. new.state = img.state /\ new.data = [img.data EXCEPT ![e] = c]
    BY DEF WithVersion
  <1> HIDE DEF c
  <1>5. new.data[e] = c /\ new.data \in [Element -> Content]
    BY <1>1, <1>3, <1>4
  <1>6. new \in AnyImage
    BY <1>3, <1>4, <1>5 DEF WithVersion, Image, AnyImage
  <1>7. ASSUME NEW f \in Element, new.state[Home[f]] # "formatted"
        PROVE  new.data[f] = Nothing
    BY <1>1, <1>4, <1>7 DEF Image
  <1> HIDE DEF new
  <1>8. new \in Image
    BY <1>6, <1>7 DEF Image
  <1> QED
    BY <1>3, <1>4, <1>5, <1>8 DEF new

\* A saved element is a new version of a file in the copy.
LEMMA SaveElementType ==
  ASSUME FlashTypeOK, NEW p \in Process, NEW e \in Element, SaveElement(p, e),
         cache[p].state[Home[e]] = "formatted"
  PROVE  /\ cache' \in [Process -> Image] /\ versions' \in Nat
         /\ cache' = [cache EXCEPT ![p] = cache'[p]]
         /\ cache'[p].state = cache[p].state
         /\ cache'[p].data = [cache[p].data EXCEPT ![e] = cache'[p].data[e]]
         /\ cache'[p].data[e] \in Content
         /\ cache'[p].data[e].tail \in {cache'[p].data[e].head, cache[p].data[e].tail}
  <1>1. cache[p] \in Image /\ versions + 1 \in Nat
    BY DEF FlashTypeOK
  <1>2. PICK long \in BOOLEAN :
          cache' = [cache EXCEPT ![p] = WithVersion(cache[p], e, versions + 1, long)]
    BY DEF SaveElement
  <1>3. cache'[p] = WithVersion(cache[p], e, versions + 1, long)
    BY <1>2 DEF FlashTypeOK
  <1>4. versions' \in Nat
    BY <1>1 DEF SaveElement
  <1> QED
    BY <1>1, <1>2, <1>3, <1>4, WithVersionImage DEF FlashTypeOK

LEMMA FlashInitInv == FlashInit => FlashInv
  <1>0. Blank.data \in [Element -> Content]
    BY NothingContent DEF Blank
  <1>1. ASSUME FlashInit PROVE FlashTypeOK
    <2>1. flash \in Image /\ cache \in [Process -> Image]
      BY <1>1, BlankImage DEF FlashInit
    <2>2. lastSync \in [Element -> Content]
      BY <1>0, <1>1 DEF FlashInit
    <2>3. useMtd \in BOOLEAN /\ mayFail \in BOOLEAN /\ hurt \in BOOLEAN
      BY <1>1, FailAssumption DEF FlashInit
    <2> QED
      BY <1>1, <2>1, <2>2, <2>3 DEF FlashInit, FlashTypeOK
  <1>2. FlashInit => MountedInv /\ WindowInv /\ RestoredBySync
    BY DEF FlashInit, MountedInv, WindowInv, RestoredBySync
  <1> QED
    BY <1>1, <1>2 DEF FlashInv

LEMMA ProgramStepInv ==
  ASSUME FlashInv, NEW p \in Process,
         \/ p \in Daemons /\ (DaemonStart(p) \/ DaemonUpdate(p)
                                \/ \E e \in Element : DaemonSave(p, e))
         \/ p \in Tools /\ (ToolStart(p) \/ ToolSave(p) \/ ToolReport(p))
         \/ Exit(p)
  PROVE  FlashInv'
  <1>1. FlashTypeOK' /\ MountedInv'
    <2> USE DEF FlashInv, Moves
    <2>1. CASE p \in Daemons /\ DaemonStart(p)
      <3>1. FlashTypeOK'
        BY <2>1, LoadsImage DEF FlashTypeOK, DaemonStart
      <3>2. MountedInv'
        BY <2>1, LoadsImage DEF FlashTypeOK, DaemonStart, MountedInv
      <3> QED
        BY <3>1, <3>2
    <2>2. CASE p \in Tools /\ ToolStart(p)
      <3>1. FlashTypeOK'
        BY <2>2, LoadsImage DEF FlashTypeOK, ToolStart
      <3>2. MountedInv'
        BY <2>2, LoadsImage, ProcessAssumption DEF FlashTypeOK, ToolStart, MountedInv
      <3> QED
        BY <3>1, <3>2
    <2>3. ASSUME NEW e \in Element, SaveElement(p, e), at[p] # "down",
                 \E to \in {"up", "compare"} : at' = [at EXCEPT ![p] = to],
                 p \in Daemons \/ e = License
          PROVE  FlashTypeOK' /\ MountedInv'
      <3>1. cache[p].state[Home[e]] = "formatted"
        BY <2>3, ElementAssumption DEF MountedInv
      <3>2. FlashTypeOK'
        BY <2>3, <3>1, SaveElementType DEF SaveElement, FlashTypeOK
      <3>3. /\ cache' = [cache EXCEPT ![p] = cache'[p]]
            /\ cache'[p].state = cache[p].state
        BY <2>3, <3>1, SaveElementType
      <3>4. \A o \in Process : cache'[o].state = cache[o].state
        BY <3>3 DEF FlashTypeOK
      <3>5. MountedInv'
        BY <2>3, <3>4 DEF MountedInv, FlashTypeOK
      <3> QED
        BY <3>2, <3>5
    <2>4. CASE \/ p \in Daemons /\ \E e \in Element : DaemonSave(p, e)
               \/ p \in Tools /\ ToolSave(p)
      BY <2>3, <2>4, ElementAssumption DEF DaemonSave, ToolSave
    <2>5. CASE DaemonUpdate(p) \/ Exit(p)
      BY <2>5, BlankImage DEF FlashTypeOK, MountedInv, DaemonUpdate, Exit
    <2>6. CASE ToolReport(p)
      <3>1. cache[p].data[License] \in Content
        BY ElementAssumption DEF FlashTypeOK, Image, AnyImage
      <3>2. cache[p].data[License].head \in Nat
        BY <3>1 DEF Content
      <3> QED
        BY <2>6, <3>2, BlankImage DEF FlashTypeOK, MountedInv, ToolReport
    <2> QED
      BY <2>1, <2>2, <2>4, <2>5, <2>6
  <1>2. /\ UNCHANGED <<useMtd, mayFail, flash, lastSync, hurt>>
        /\ at[p] \notin {"erase", "write"}
        /\ \E to \in {"up", "compare", "down"} : at' = [at EXCEPT ![p] = to]
    BY DEF DaemonStart, DaemonUpdate, DaemonSave, ToolStart, ToolSave, ToolReport, Exit,
           SaveElement, Moves
  <1>3. \A o \in Process : /\ at'[o] = "write" <=> at[o] = "write"
                           /\ at'[o] = "erase" <=> at[o] = "erase"
    BY <1>2 DEF FlashInv, FlashTypeOK
  <1>4. WindowInv'
    BY <1>2, <1>3 DEF FlashInv, WindowInv, Overlap
  <1>5. RestoredBySync'
    BY <1>2, <1>3 DEF FlashInv, RestoredBySync, Interrupted
  <1> QED
    BY <1>1, <1>4, <1>5 DEF FlashInv

LEMMA SyncStepInv ==
  ASSUME FlashInv, NEW p \in Process, SyncStep(p)
  PROVE  FlashInv'
  <1> USE DEF FlashInv
  <1>0. MountedInv'
    BY DEF SyncStep, SyncSame, SyncDiffers, SyncErase, EraseFails, SyncWrite, WriteFails,
           Synced, Moves, AfterSync, MountedInv, FlashTypeOK
  <1>1. CASE SyncSame(p)
    <2>1. FlashTypeOK' /\ lastSync' = flash'.data
      BY <1>1 DEF FlashTypeOK, SyncSame, Synced, Moves, AfterSync, Image, AnyImage
    <2>2. WindowInv' /\ RestoredBySync'
      BY <1>1, <2>1
      DEF WindowInv, RestoredBySync, Overlap, FlashTypeOK, SyncSame, Synced, Moves, AfterSync
    <2> QED
      BY <1>0, <2>1, <2>2
  <1>2. CASE SyncDiffers(p)
    <2>1. FlashTypeOK'
      BY <1>2 DEF FlashTypeOK, SyncDiffers, Moves
    <2>2. WindowInv'
      BY <1>2 DEF WindowInv, Overlap, FlashTypeOK, SyncDiffers, Moves
    <2>3. RestoredBySync'
      BY <1>2 DEF RestoredBySync, Interrupted, FlashTypeOK, SyncDiffers, Moves
    <2> QED
      BY <1>0, <2>1, <2>2, <2>3
  <1>3. CASE SyncErase(p)
    <2>1. FlashTypeOK'
      BY <1>3, BlankImage DEF FlashTypeOK, SyncErase, Moves
    <2>2. WindowInv'
      BY <1>3 DEF WindowInv, Overlap, FlashTypeOK, SyncErase, Moves
    <2>3. RestoredBySync'
      BY <1>3 DEF WindowInv, RestoredBySync, Interrupted, FlashTypeOK, SyncErase, Moves
    <2> QED
      BY <1>0, <2>1, <2>2, <2>3
  <1>4. CASE EraseFails(p)
    BY <1>0, <1>4 DEF EraseFails, WindowInv, RestoredBySync, FlashTypeOK, Moves
  <1>5. CASE SyncWrite(p)
    <2>1. cache[p] \in Image
      BY DEF FlashTypeOK
    <2>2. FlashTypeOK'
      BY <1>5, <2>1, WrittenType
      DEF FlashTypeOK, SyncWrite, Synced, Moves, AfterSync, Image, AnyImage
    <2>3. WindowInv'
      BY <1>5 DEF WindowInv, Overlap, FlashTypeOK, SyncWrite, Synced, Moves, AfterSync
    <2>4. ~hurt' => flash'.data = lastSync'
      BY <1>5, <2>1, WrittenWhole DEF SyncWrite, Synced
    <2> QED
      BY <1>0, <2>2, <2>3, <2>4 DEF RestoredBySync
  <1>6. CASE WriteFails(p)
    <2>1. cache[p] \in Image
      BY DEF FlashTypeOK
    <2>2. flash' \in Image
      <3> PICK whole \in SUBSET Partition, torn \in SUBSET Partition :
                 flash' = Written(cache[p], whole \ torn, torn)
        BY <1>6 DEF WriteFails
      <3> QED
        BY <2>1, WrittenType
    <2>3. FlashTypeOK'
      BY <1>6, <2>1, <2>2 DEF FlashTypeOK, WriteFails, Synced, Moves, AfterSync, Image, AnyImage
    <2>4. WindowInv' /\ RestoredBySync'
      BY <1>6 DEF WindowInv, RestoredBySync, FlashTypeOK, WriteFails, Synced, Moves, AfterSync
    <2> QED
      BY <1>0, <2>3, <2>4
  <1> QED
    BY <1>1, <1>2, <1>3, <1>4, <1>5, <1>6 DEF SyncStep

LEMMA CrashInv ==
  ASSUME FlashInv, PowerLoss \/ \E p \in Process : Kill(p)
  PROVE  FlashInv'
  <1> USE DEF FlashInv
  <1>0. MountedInv'
    BY DEF PowerLoss, Kill, MountedInv, FlashTypeOK
  <1>1. ASSUME NEW p \in Process, Kill(p)
        PROVE  FlashInv'
    <2>1. FlashTypeOK'
      BY <1>1, BlankImage DEF FlashTypeOK, Kill
    <2>2. WindowInv'
      BY <1>1 DEF WindowInv, Overlap, FlashTypeOK, Kill
    <2>3. RestoredBySync'
      BY <1>1 DEF RestoredBySync, Interrupted, FlashTypeOK, Kill
    <2> QED
      BY <1>0, <2>1, <2>2, <2>3
  <1>2. CASE PowerLoss
    <2>1. flash' \in Image
      <3>1. CASE UNCHANGED flash
        BY <3>1 DEF FlashTypeOK
      <3>2. CASE \E p \in Process, whole, torn \in SUBSET Partition :
                   flash' = Written(cache[p], whole \ torn, torn)
        BY <3>2, WrittenType DEF FlashTypeOK
      <3> QED
        BY <1>2, <3>1, <3>2 DEF PowerLoss
    <2>2. FlashTypeOK'
      BY <1>2, <2>1, BlankImage DEF FlashTypeOK, PowerLoss
    <2>3. WindowInv' /\ RestoredBySync'
      BY <1>2 DEF WindowInv, RestoredBySync, Interrupted, FlashTypeOK, PowerLoss
    <2> QED
      BY <1>0, <2>2, <2>3
  <1> QED
    BY <1>1, <1>2

LEMMA FlashInvHolds == FlashSpec => []FlashInv
  <1>1. FlashInv /\ [FlashNext]_flashVars => FlashInv'
    <2> SUFFICES ASSUME FlashInv, [FlashNext]_flashVars PROVE FlashInv'
      OBVIOUS
    <2>1. CASE UNCHANGED flashVars
      BY <2>1 DEF flashVars, FlashInv, FlashTypeOK, MountedInv, WindowInv,
                  RestoredBySync,
                  Interrupted, Overlap
    <2> QED
      BY <2>1, ProgramStepInv, SyncStepInv, CrashInv DEF FlashNext, Process
  <1> QED
    BY <1>1, FlashInitInv, PTL DEF FlashSpec

\* Every variable of FlashStore keeps its type.
THEOREM FlashTypeCorrect == FlashSpec => []FlashTypeOK
  BY FlashInvHolds, PTL DEF FlashInv

\* After any number of kills, failures and interleaved syncs, a sync that runs
\* undisturbed leaves on the device exactly what it had to write.
THEOREM FlashRestoredBySync == FlashSpec => []RestoredBySync
  BY FlashInvHolds, PTL DEF FlashInv

(***************************************************************************)
(* FlashStore implements SharedStore                                       *)
(***************************************************************************)

\* A process that ended sees nothing.
LEMMA BlankUnseen == Blank.data = Store!Unseen
  BY DEF Blank, Store!Unseen, Nothing, Store!Nothing

LEMMA ProgramStepStore ==
  ASSUME FlashInv, NEW p \in Process,
         \/ p \in Daemons /\ (DaemonStart(p) \/ DaemonUpdate(p)
                                \/ \E e \in Element : DaemonSave(p, e))
         \/ p \in Tools /\ (ToolStart(p) \/ ToolSave(p) \/ ToolReport(p))
         \/ Exit(p) \/ Kill(p)
  PROVE  [Store!StoreNext]_(Store!storeVars)
  <1> USE DEF FlashInv, FlashTypeOK, Moves
  <1>1. CASE DaemonStart(p) \/ ToolStart(p)
    <2>1. \E parts : Loads(p, parts)
      BY <1>1 DEF DaemonStart, ToolStart
    <2> DEFINE view == [o \in Process |-> cache[o].data]
    <2>2. /\ view' = [view EXCEPT ![p] = cache'[p].data]
          /\ view'[p] = cache'[p].data
      <3>1. cache' = [cache EXCEPT ![p] = cache'[p]]
        BY <2>1, LoadsImage
      <3> QED
        BY <3>1
    <2>3. /\ at[p] = "down" /\ at' = [at EXCEPT ![p] = "up"]
          /\ UNCHANGED <<useMtd, mayFail, flash>>
      BY <1>1 DEF DaemonStart, ToolStart
    <2>4. \A o \in Process : o # p => (at'[o] # "down" <=> at[o] # "down")
      BY <2>3
    <2>5. {o \in Process : at'[o] # "down"} = {o \in Process : at[o] # "down"} \cup {p}
      BY <2>3, <2>4
    <2>6. /\ view'[p] \in [Element -> Content]
          /\ \A e \in Element : view'[p][e] \in {Nothing, flash.data[e]}
          /\ ~mayFail => view'[p] = flash.data
      BY <2>1, <2>2, LoadsImage DEF Image, AnyImage
    <2>7. view' = [view EXCEPT ![p] = view'[p]]
      BY <2>2
    <2> HIDE DEF view
    <2>8. mayFail => Store!OpenPartly(p)
      BY <2>3, <2>5, <2>6, <2>7
      DEF Store!OpenPartly, view, Nothing, Store!Nothing, Content, Store!Content
    <2>9. ~mayFail => Store!Open(p)
      BY <2>3, <2>5, <2>6, <2>7 DEF Store!Open, view
    <2> QED
      BY <2>8, <2>9 DEF Store!StoreNext
  <1>2. ASSUME NEW e \in Element, p \in Daemons \/ e = License,
               SaveElement(p, e), at[p] # "down", at'[p] # "down",
               \A o \in Process : at'[o] # "down" <=> at[o] # "down"
        PROVE  [Store!StoreNext]_(Store!storeVars)
    <2>1. cache[p].state[Home[e]] = "formatted"
      BY <1>2, ElementAssumption DEF MountedInv
    <2>2. /\ cache' = [cache EXCEPT ![p] = cache'[p]]
          /\ cache'[p].data = [cache[p].data EXCEPT ![e] = cache'[p].data[e]]
          /\ cache'[p].data[e] \in Content
          /\ cache'[p].data[e].tail \in {cache'[p].data[e].head, cache[p].data[e].tail}
      BY <1>2, <2>1, SaveElementType
    <2>3. [o \in Process |-> cache'[o].data]
            = [[o \in Process |-> cache[o].data] EXCEPT ![p][e] = cache'[p].data[e]]
      BY <2>2
    <2>4. Store!Save(p, e)
      BY <1>2, <2>2, <2>3 DEF SaveElement, Store!Save, Content, Store!Content
    <2> QED
      BY <2>4 DEF Store!StoreNext
  <1>3. CASE \/ p \in Daemons /\ \E e \in Element : DaemonSave(p, e)
             \/ p \in Tools /\ ToolSave(p)
    BY <1>2, <1>3, ElementAssumption DEF DaemonSave, ToolSave
  <1>4. CASE DaemonUpdate(p)
    BY <1>4 DEF DaemonUpdate, Store!storeVars
  <1>5. CASE ToolReport(p) \/ Exit(p) \/ Kill(p)
    <2>1. /\ at[p] # "down" /\ at' = [at EXCEPT ![p] = "down"]
          /\ cache' = [cache EXCEPT ![p] = Blank]
          /\ UNCHANGED <<useMtd, mayFail, flash>>
      BY <1>5 DEF ToolReport, Exit, Kill
    <2>2. {o \in Process : at'[o] # "down"} = {o \in Process : at[o] # "down"} \ {p}
      BY <2>1
    <2>3. [o \in Process |-> cache'[o].data]
            = [[o \in Process |-> cache[o].data] EXCEPT ![p] = Store!Unseen]
      BY <2>1, BlankUnseen
    <2>4. Store!Close(p)
      BY <2>1, <2>2, <2>3 DEF Store!Close
    <2> QED
      BY <2>4 DEF Store!StoreNext
  <1> QED
    BY <1>1, <1>3, <1>4, <1>5

LEMMA SyncStepStore ==
  ASSUME FlashInv, NEW p \in Process, SyncStep(p)
  PROVE  [Store!StoreNext]_(Store!storeVars)
  <1> USE DEF FlashInv
  <1>1. /\ \A o \in Process : at'[o] # "down" <=> at[o] # "down"
        /\ at[p] # "down"
        /\ UNCHANGED <<useMtd, mayFail, cache>>
    BY DEF SyncStep, SyncSame, SyncDiffers, SyncErase, EraseFails, SyncWrite, WriteFails,
           Synced, Moves, AfterSync, FlashTypeOK
  <1>2. CASE UNCHANGED flash
    BY <1>1, <1>2 DEF Store!storeVars
  <1>3. CASE SyncErase(p)
    <2>1. useMtd
      BY <1>3 DEF SyncErase, Moves, WindowInv
    <2>2. flash'.data = Store!Unseen
      BY <1>3, BlankUnseen DEF SyncErase
    <2>3. Store!Unseen \in [Element -> Store!Content]
      BY DEF Store!Unseen, Store!Nothing, Store!Content
    <2>4. Store!Damaged(p)
      BY <2>2 DEF Store!Damaged, Store!Unseen
    <2>5. Store!PublishPartly(p)
      BY <1>1, <2>1, <2>2, <2>3, <2>4 DEF Store!PublishPartly
    <2> QED
      BY <2>5 DEF Store!StoreNext
  <1>4. ASSUME NEW whole \in SUBSET Partition, NEW torn \in SUBSET Partition,
               flash' = Written(cache[p], whole, torn), useMtd \/ mayFail
        PROVE  [Store!StoreNext]_(Store!storeVars)
    <2>1. cache[p] \in Image
      BY DEF FlashTypeOK
    <2>2. Store!PublishPartly(p)
      BY <1>1, <1>4, <2>1, WrittenData
      DEF Store!PublishPartly, Store!Damaged, Nothing, Store!Nothing, Content, Store!Content
    <2> QED
      BY <2>2 DEF Store!StoreNext
  <1>5. CASE SyncWrite(p) /\ ~useMtd
    <2>1. flash'.data = cache[p].data
      BY <1>5, WrittenWhole DEF SyncWrite, FlashTypeOK
    <2>2. Store!Publish(p)
      BY <1>1, <2>1 DEF Store!Publish
    <2> QED
      BY <2>2 DEF Store!StoreNext
  <1>6. CASE SyncWrite(p) /\ useMtd
    BY <1>4, <1>6 DEF SyncWrite
  <1>7. CASE WriteFails(p)
    <2> PICK whole \in SUBSET Partition, torn \in SUBSET Partition :
               flash' = Written(cache[p], whole \ torn, torn)
      BY <1>7 DEF WriteFails
    <2> QED
      BY <1>4, <1>7 DEF WriteFails
  <1> QED
    BY <1>2, <1>3, <1>5, <1>6, <1>7 DEF SyncStep, SyncSame, SyncDiffers, EraseFails

LEMMA PowerLossStore ==
  ASSUME FlashInv, PowerLoss
  PROVE  Store!PowerCut
  <1> USE DEF FlashInv
  <1>0. /\ {o \in Process : at'[o] # "down"} = {}
        /\ [o \in Process |-> cache'[o].data] = [o \in Process |-> Store!Unseen]
        /\ UNCHANGED <<useMtd, mayFail>> /\ mayFail
    BY BlankUnseen DEF PowerLoss
  <1>1. CASE UNCHANGED flash
    BY <1>0, <1>1 DEF Store!PowerCut
  <1>2. ASSUME NEW p \in Process, at[p] = "write",
               NEW whole \in SUBSET Partition, NEW torn \in SUBSET Partition,
               flash' = Written(cache[p], whole, torn)
        PROVE  Store!PowerCut
    <2>1. cache[p] \in Image
      BY DEF FlashTypeOK
    <2>2. flash'.data \in [Element -> Content] /\ Store!Damaged(p)
      BY <1>2, <2>1, WrittenData DEF Store!Damaged, Nothing, Store!Nothing
    <2>3. p \in {o \in Process : at[o] # "down"}
      BY <1>2
    <2> QED
      BY <1>0, <2>2, <2>3 DEF Store!PowerCut, Content, Store!Content
  <1>3. CASE \E p \in Process, whole, torn \in SUBSET Partition :
               at[p] = "write" /\ flash' = Written(cache[p], whole \ torn, torn)
    <2> PICK p \in Process, whole \in SUBSET Partition, torn \in SUBSET Partition :
               at[p] = "write" /\ flash' = Written(cache[p], whole \ torn, torn)
      BY <1>3
    <2>1. whole \ torn \in SUBSET Partition
      OBVIOUS
    <2> QED
      BY <1>2, <2>1
  <1> QED
    BY <1>1, <1>3 DEF PowerLoss

\* The processes share the device as SharedStore says, through kills, power
\* losses, failed writes and unsynchronised syncs: no file is ever mixed from
\* those of two processes, and without MTD and failures a sync is atomic.
THEOREM FlashImplementsStore == FlashSpec => ImplementsStore
  <1>1. FlashInit => Store!StoreInit
    <2> SUFFICES ASSUME FlashInit PROVE Store!StoreInit
      OBVIOUS
    <2>1. (useMtd \/ mayFail) \in BOOLEAN
      OBVIOUS
    <2>2. flash.data = Store!Unseen
      BY BlankUnseen DEF FlashInit
    <2>3. [o \in Process |-> cache[o].data] = [o \in Process |-> Store!Unseen]
      BY BlankUnseen DEF FlashInit
    <2>4. {o \in Process : at[o] # "down"} = {}
      BY DEF FlashInit
    <2> QED
      BY <2>1, <2>2, <2>3, <2>4 DEF Store!StoreInit
  <1>2. FlashInv /\ [FlashNext]_flashVars => [Store!StoreNext]_(Store!storeVars)
    <2> SUFFICES ASSUME FlashInv, [FlashNext]_flashVars
                 PROVE  [Store!StoreNext]_(Store!storeVars)
      OBVIOUS
    <2>1. CASE UNCHANGED flashVars
      BY <2>1 DEF flashVars, Store!storeVars
    <2>2. CASE PowerLoss
      BY <2>2, PowerLossStore DEF Store!StoreNext
    <2> QED
      BY <2>1, <2>2, ProgramStepStore, SyncStepStore DEF FlashNext, Process
  <1> QED
    BY <1>1, <1>2, FlashInvHolds, PTL DEF FlashSpec, ImplementsStore, Store!StoreSpec
=============================================================================
