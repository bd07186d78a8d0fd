# Verification of yiot-openwrt

TLA+ specifications of the OpenWrt part of YIoT: the daemon
`security-provisioner`, the command line tools `license-processor` and
`firmware-verifier`, and the C and C++ code they share (`src/src/common`). TLC
checks them on small instances, and TLAPS proves theorems about them for every
value of the constants.

Contents: [1 Inventory](#1-inventory) - [2 Modules](#2-modules) -
[3 Runs](#3-runs) - [4 Fairness](#4-fairness) - [5 Proofs](#5-proofs) -
[6 Disagreements found](#6-disagreements-found) -
[7 Not modelled](#7-not-modelled) - [8 Plan](#8-plan)

`PROJECT.json` is the index: components, runs, mutants, the source lines of
each definition ("map"), hazards, findings and theorems.

## 1 Inventory

The repository has no documentation beyond a title and no tests. `yiot-core`
(SNAP, IoTKit, the security module, `KSResendContainer`) and littlefs are git
submodules that are not in it: they are external and modelled only as the code
here uses them.

### The daemon and its threads

    network --> receive thread --push--> queue --pop--> reader --callback--> SNAP services
                     |   ^                 ^                                      |
          ack (QoS1) |   | socket          | push, once a second                  | add()
                     v   |                 |                                      v
               resend container     periodical thread                    timer threads --> script
                     ^   ^
    connection thread --+            main: starts all, sleeps until a signal, stops all

    security-provisioner, license-processor, firmware-verifier
        --> own copy (_cache) of one 64 KB flash device --> iot_flash_hw_sync()

| Part (under `src/src/`) | State | Operations | What is hard | What makes it correct |
|---|---|---|---|---|
| Message queue `common/src/helpers/msg-queue.c` | ring of `mem` slots, `head`, `tail`, `n`, `state`, adder and getter counts, a mutex and two condition variables, heap blocks | push, pop, reset, free (and the queries data_present, is_full) | several adders and getters, signals that wake one thread, spurious wakeups, closing, memory of the blocks | bounded FIFO; no lost wakeup; nobody sleeps on a closed queue; each block is freed once |
| Packets queue `common/src/iotkit-impl/packets-queue.c` | the queue, two threads, four flags | init, add, deinit; the loops of both threads | the shutdown meets a full or an empty queue, and threads of the network interface that still run | every queued packet is read; the reader stops; the queue is not used after it was freed; deinit ends |
| UDP network interface `common/src/iotkit-impl/netif/netif-udp.cpp` | socket, `_ready`, `_connecting`, `_resendContainer`, two threads | init, tx, deinit, receive, the acknowledgements of QoS 1 | lost and reordered datagrams; an acknowledgement that overtakes `addPacket`, or is for another packet with the same transaction id; attempts that fail half-way; packets before ready; a kill between acknowledgement and hand-over | of the packets that an acknowledgement cannot tell apart, one arrives; resending stops |
| One-shot timer `common/src/helpers/timer.cpp` | `m_running`, `m_callback`, `m_start`, `m_delay`, two mutexes | `add`, the loop of the detached thread | the two mutexes are taken in both orders; a callback takes as long as a script | no deadlock; an accepted callback runs once; a busy timer refuses without waiting |
| PC and reset commands `security-provisioner/src/commands/*.cpp`, `common/include/common/helpers/command.h` | a static timer, the child process and its pipes | a request, the callback, `Command::execute`, the response | the pipe fills, or stays open when the script has ended; the script is killed or hangs; fork, write or read fails | each accepted request is answered once, as its own script ended; packets go on |
| Flash device `common/src/yiot-littlefs-hal.c` | `_cache`, `_use_mtd`, the device | init, read, prog, erase, `iot_flash_hw_sync` | processes that share the device without a lock; erase and write are two steps; kills and power cuts; errors that are only logged | a sync makes the device equal to the copy; what was reported as stored is there |
| littlefs glue and settings storage `common/src/yiot-littlefs.c`, `yiot-littlefs-storage.c` | mounted partitions, open files | mount or format, save, load, delete an element | a partition that was torn is formatted and thereby emptied; a save writes at an offset of a file it does not truncate | an element is never mixed from the copies of two processes |
| Daemon `security-provisioner/src/main.c`, `init.c` | settings of the device, the callbacks | start, provision, users, device name, stop | the order of shutdown; what is synced and what is not | as above, composed |
| `license-processor` | a copy of the device, the current license, the exit status | get, verify, save a license | several run at once and beside the daemon; a license is compared with the one before it only | a license reported as stored is stored; licenses of other devices never are; the exit status says what became of the license |
| `firmware-verifier` | the size and the offset in a file, the hash, the signature | hash a file or a text, verify | the file is opened again for each chunk and may change; a key may not load | the verdict is about the whole file |
| Application helpers `app-helpers.c` | the mutex main sleeps on | sleep until a signal, restart | signals before the mutex is locked | a signal ends the program |
| Event group `event-group-bits.c` | the bits, a mutex and a condition variable | wait for, set, clear bits | timeouts, clearing on exit, a broadcast after the unlock | no wakeup is lost; each bit is reported to the one who takes it |
| Firmware installation `iotkit-impl/firmware/firmware-impl.c` | the program, its backup, the new program | collect, back up, replace, execute, restore | calls and shell commands that fail unnoticed, kills between any two, power cuts before the kernel has written | a program that works is left |
| File I/O `file-io.c`, nix storage `storage-nix-impl.c` | files, one static buffer | write, read, remove | a file is emptied and written again; threads share the buffer | what was written is read back |

The hazards (`PROJECT.json`, "hazards") list, line by line, what a test of this
code would hardly reach. Almost all of them come from five sources: condition
variables and mutexes between threads; the order of a shutdown; a network that
loses and reorders; processes that share a device they each copied; and files
that are replaced in several steps, each of which may fail or be the last.

## 2 Modules

| Module | Models | Builds on |
|---|---|---|
| `BoundedFifo` | what a queue promises: put, take, refuse, on a sequence of items | |
| `MsgQueue` | `msg-queue.c` | implements `BoundedFifo` |
| `PacketsQueue` | `packets-queue.c`, the threads of `netif-udp.cpp` that push, the sleep until a signal in `app-helpers.c`, start and shutdown in `main.c` | extends `MsgQueue`: each call is one of its actions |
| `OneShot` | what a timer promises | |
| `KsTimer` | `timer.cpp` | implements `OneShot` |
| `PcCommand` | `pc.cpp`, `reset.cpp`, `command.h` | extends `KsTimer` |
| `SharedStore` | what processes with a copy each of a shared store may see | |
| `FlashStore` | `yiot-littlefs-hal.c`, `yiot-littlefs.c`, `yiot-littlefs-storage.c`, and the steps of `init.c` and of license-processor that use them | implements `SharedStore` |
| `AtLeastOnce` | what the acknowledgements promise: of the packets alike to them, one stays with the sender until the device they are for had one | |
| `UdpNetif` | `netif-udp.cpp` on the devices of a network | implements `AtLeastOnce` |
| `EventGroup` | `event-group-bits.c` | |
| `FirmwareVerifier` | `firmware-verifier/src/main.c` | |
| `FirmwareUpdate` | `firmware-impl.c` and `vs_app_restart` | |
| `FileIo` | `file-io.c` as `storage-nix-impl.c` uses it | |
| `LicenseTool` | the commands of `license-processor/src/main.c` | the device is that of `FlashStore`, in one variable |
| `MCStandalone` | the sum of the last five: a behaviour is one of one of them | extends them |
| `MCPacketsQueue`, `MCFlashStore`, `MCUdpNetif` | values of constants that are functions or name the threads; the other modules get theirs from the cfg | |
| `*_proofs` | theorems and proofs | |

**MsgQueue.** An action is a critical section: `pthread_mutex_lock` to
`pthread_cond_wait` or to `pthread_mutex_unlock`. `AddEnter(t)` is `_queue_add`
up to its wait or to its end, `AddResume(t)` is what follows a wakeup; likewise
`GetEnter` and `GetResume`. `waiters` has the two sets of sleepers,
`notFull` and `notEmpty`; a signal removes one of them if it is sent, which the
code decides from `n` (`SignalFull`, `SignalEmpty`); `SpuriousWakeup` is what
POSIX allows. `blk[t]` is the heap block a thread holds, `heap` the allocated
blocks: `PushAlloc` is the copy that `vs_msg_queue_push` makes before it takes
the lock, `FreeBlock` the free after a refusal or after a pop. `Reset` and
`DestroyClose`/`DestroyFree` are `vs_msg_queue_reset` and `vs_msg_queue_free`;
the latter broadcasts, unlocks and frees without waiting for those it woke, so
`Next` allows it only when its caller knows that nobody is inside
(`DestroyQuiet`), and `PacketsQueue` checks that its caller does.

**PacketsQueue.** Four threads with a program counter each (`mainAt`,
`readerAt`, `periodicalAt`, `rxAt`) and the connection thread (`connAt`).
`vs_app_sleep_until_stop` is spelled out: main installs the handlers, initialises
`_sleep_lock`, locks it twice, and `StopSignal` is the handler that unlocks it,
which does nothing before the first lock. A step of the start that fails
(`StartFails`) leads to the same shutdown: before `_udp_init` was reached
(`StartNetif`), when there is no connection thread yet, or after it.
`pthread_create` may fail for each of the four threads, and the program goes on
without: for the reader and the periodical thread their flags tell; nobody
knows that there is no connection thread, so that the interface never becomes
ready, nor that there is no receive thread, so that `_udp_deinit` joins a
thread that never was. What that does is undefined: `JoinRx` returns, or the
process is killed.
`PacketsQueue` uses `DestroyFree` without the condition: the property
`UsesQueueWell == Spec` says that the composition still is a behaviour of
`MsgQueue`, which carries over all that is proved there.

**KsTimer.** An action is a lock, an unlock, or what lies between. The thread is
`timerAt`: sleep 100 ms, lock `m_changingMutex`, look, call, lock
`m_stateMutex`, clear `m_running`, unlock. `add()` is `callerAt[c]`. Time is one
bit, `elapsed`: has the delay of the stored callback passed?

**PcCommand.** The callback that the timer calls is spelled out: fork, waitpid,
read the pipe up to the end of file, respond. The script is the environment: it
prints, exits with or without an error, is killed, or waits for ever for room in
its pipe. `held` says that some other process has the write end of the pipe: one
that the script left in the background, or one that another timer forked
meanwhile. While it does, the read does not end. A response (`answer`) is
recorded with the exit status it tells and the requests whose output it holds, so
that one of another script, or a second one, would show. The step
`TimerCallback` of `KsTimer` happens when the callback returned.

**FlashStore.** The content of a file is told by the saves it comes from:
`head` is the version of the save that wrote its beginning, `tail` that of the
end. A save writes at an offset and the file is not truncated, so a shorter one
leaves the old tail (`WithVersion`). `flash` is the device, `cache[p]` the copy of
process `p`, both with the state of each partition: formatted, erased, or torn
(written in part). A process that starts copies the device and formats in its
copy what it cannot mount.
`iot_flash_hw_sync` is `SyncSame` or `SyncDiffers`, then `SyncErase` on an MTD
device, then `SyncWrite`; each may fail, and the failure is dropped as it is in
the code. `Kill` ends a process between any two steps, `PowerLoss` all of them,
perhaps inside a write. `told`, `lastSync` and `hurt` are history variables.

**UdpNetif.** Each packet is sent once by the application. `_udp_tx` is
`TxNotReady`, or `TxSend` and then `TxAddPacket`: between them the datagram may
be received and acknowledged. The network is a set of datagrams that will
arrive; at every send some of the datagrams are chosen to be lost. The socket
sends to the broadcast address of the network, so every packet goes to all
devices, the sender's own receive thread included, and its MAC says whom it is
for. `ReceiveData` acknowledges a packet that has this device's MAC (`Acks`), and
then `Deliver` hands it on; SNAP drops there what is for another device
(`Accepts`, external). An acknowledgement has no more than the MACs and the
transaction id (`Key`), and every response of the commands has the id 0, so
packets may be alike (`Alike`): `ReceiveAck` removes some packet that has the
acknowledged key, and what the container, which is external, does with two
packets alike is left open. `Kill` ends a device's process at any step, with what
it held in memory. A connection attempt may fail with or without a descriptor
(`ConnectFails`), for ever. The refinement of `AtLeastOnce` leaves out what SNAP
drops (`Given`); a packet between `sendto` and `addPacket` counts as kept.

**EventGroup.** `evAt[t]` is where a thread is: asleep in the condition
variable, on the way out of it (`woken`, or `late` after its time), or between
the unlock and the broadcast of `vs_event_group_set_bits`. `EvWaitBits` is a
call up to its wait or to its end, `EvLooks` what follows a wakeup. `evStat` is
what the last step returned to a waiter. A waiter whose time is over takes and
clears what it finds of its bits: that is the code's promise, `EachBitIsReported`.

**FirmwareVerifier.** A byte of a file is the version of the file and its
position, so the hash shows which bytes it has and whether they are of one
version. `FvHashChunk` is one round of the loop of `_file_hash`: `ReadSize` is
what `_load_file_chunk` computes from a seek behind the end of the file, which is
the size of the file and not of its rest. Only the first chunk can be shorter
than required, and then bytes of the stack are hashed (`Garbage`); so
`VerdictIsRight` is about a file that does not change. The keys are tried in
turn, and one that does not load ends the loop.

**FirmwareUpdate.** A file is a sequence of chunks of programs; a program works,
cannot be executed, or ends soon after its start, for instance since its footer
is of another device. In the transfer, `FuPrepare` may leave the part of an
earlier one when `remove()` fails, and `FuAppend` may return success with the chunk
written in part or not at all, when `fclose` fails. `FuBackup` and `FuMove` have
the four outcomes of `system()`: the command worked, or failed unnoticed, or
`system()` itself failed, or `chmod` did. `FuCrash` ends the process between any
two steps, or inside the `cp`. `fuDirty` has the files that the kernel did not
write yet (nothing is synced here): `FuPowerCut` may leave a part of them, until
`FuWriteback`. `fuMissed` records the mishaps that `UpdateRecovers` excepts, each
by name.

**FileIo.** `IoRead`, `IoOpen`, `IoFwrite` and `IoClose` are the steps of
`vs_files_write` between which another thread, a failure or a crash makes a
difference: the old content is read, the file emptied, the static buffer filled
byte by byte (`ioPos`, so that the bytes of two threads mix), and written at
`fclose`. `IoReadMisses` is the first `fopen` that fails for a file which
exists and is then taken for a missing one, `IoOpenFails` the second one,
`IoRemoveFails` a `remove()` that failed: the code returns true in each case.
`ioTrue` holds what the calls that returned true mean, `ioSpoilt` the files that
an overlap or a failure spoilt. `vs_files_read` opens, seeks and reads in several
calls; `Loaded` is what it gives when no write of the file goes on meanwhile.

**LicenseTool.** Several tools with a copy each of the device, which is here the
license on it. What the license library decides is part of the license: its
device, whether it verifies, whether it parses. `ltRes` is `res` of `main`, which
the code leaves unset when the initialisation fails; `ltSynced` is a history
variable. `LtSaveFails` may leave the copy changed in part, which is not synced;
`LtReload` may fail for any reason after the sync, and ends with exit status 1.

## 3 Runs

With two workers `standalone` (386,000 states) takes about two minutes and the
others a minute and a half or less.

| Run | Bounds | Shows |
|---|---|---|
| `queue` | 3 threads, 4 blocks, capacity 2, with and without adders and getters, one reset | type, ownership of blocks, no stranded sleeper on either condition variable, nobody asleep when closed, bounded FIFO, getters and adders are served |
| `packets` | capacity 1, 4 threads and the connection thread, each with and without (but for main), no stop while a connection attempt goes on | the composition uses the queue as it must, each queued message is read, and a stop ends the program, with the exceptions that `ShutdownEndsOrFull` names: a signal that is lost, a full queue, no reader, no receive thread; the states in which all threads wait are listed one by one (`HangsNowhereElse`), and a shutdown that ends frees everything (`CleanExit`) |
| `shutdown_hang` | the same, with the threads of the interface | **violation**: the shutdown ends |
| `early_stop` | the same, stop at any time | **violation**: the queue is not used after it was freed |
| `command` | 2 callers, 3 requests, a script prints 0 or 2 units into a pipe of 1 | whoever is in `add()` is let out of it, whatever the script does and in whichever order the two mutexes are taken; no data race, each accepted callback runs once, each request has one answer, with the status and the output of its own script; packets go on; each is answered unless the script blocks, the pipe stays open or a call fails; a deadlock is one of a script with a full pipe or of a pipe that stays open, and it keeps nobody in `add()` |
| `command_hang` | 1 caller, without failing calls and processes left | **violation**: each is answered |
| `flash` | one daemon, one tool, a file in a partition both mount and one in a partition only the daemon mounts, 3 versions, MTD and file, with and without failures and power cuts | a sync repairs what others left, and the processes implement `SharedStore`: in particular, without failures on a plain file, the device holds the whole view of one process |
| `sync_error` | the same | **violation**: a sync that failed stops license-processor |
| `lost_update` | the same, without failures | **violation**: what was reported as stored is stored |
| `udp` | two devices, two responses with the same transaction id, 1 descriptor, one event: a kill, a thread that is not created, or an arrival at a device that a packet is not for | the interfaces implement `AtLeastOnce`: of packets alike one is kept until the other device had one, and what is acknowledged is handed on or in hand at a kill; one of them arrives, resending stops |
| `start_notification` | two devices, the broadcast about the start | **violation**: the broadcast about the start is sent |
| `standalone` | 3 threads, 2 bits and 3 ways to wait; a file of at most 5 bytes, chunks of 2, one change; programs of 2 chunks, 2 updates; 2 threads, 2 files of at most 2 bytes, 2 writes; 2 tools, 5 licenses | no missed broadcast, each bit is reported, nobody waits for ever; the verdict is about the whole file; a program that works is left; files are read as written, with the exceptions of `LoadsWhatWasWritten`; the device keeps its own license, and the exit status is true |

Why the bounds are enough to make the interesting cases happen:

- `queue`: with three threads a third one can take the block or the slot that a
  signal announced to a second, and two sleepers can wait for one signal;
  capacity 2 makes head and tail wrap and meet; one block per thread and one
  more for the ring show a reused block; a reset shows the adder it strands.
- `packets`: capacity 1 (100 in the code) is the smallest queue that can be full
  while the reader is in its callback; the threads are those of the program.
- `command`: two callers compete for both mutexes, a third request comes while the
  second is refused (the program has one caller for each timer); a script
  prints nothing, or more than the pipe holds; in `command_hang` also just as
  much.
- `flash`: two processes make every pair of stale copies; the partitions one
  mounts and the other does not are one each; with three versions a process can
  overwrite the newer by an older one and both differ from the empty device. An
  interrupted sync followed by another process's sync needs no third process.
- `udp`: two devices show both ends of a packet, and since each gets every
  datagram also the one that a packet is not for; two responses with one id are
  the fewest where an acknowledgement takes one packet for another; one
  descriptor is the attempt that takes the last one.
- `standalone`: a third thread can clear what a second one was woken for; a size
  of 5 and chunks of 2 give sizes below, at, next to and between multiples of the
  chunk; the second update meets what the first one, or a broken-off transfer,
  left; two threads on one file and on two meet in the file and in the buffer,
  and a second write follows one that failed; two tools, each of which can be run
  again, make chains of saves. The parts do not interact, so the states of the
  run are the sum and not the product of theirs.

Constants that are bounds: `MaxResets`, `MaxVersion`, `MaxSockets`, `MaxEvents`, `MaxFile`,
`MaxChanges`, `MaxUpdates`, `MaxLen`, `MaxWrites`, and the sets `Block`,
`Request`, `Packet` (each request or packet happens once). The runs without a deadlock check are those of systems that may stop: a program
ends, or all packets were sent.

Every property of a passing run has a mutant of the code, listed in
`PROJECT.json`, that violates it: a signal that comes late, an unlock too early,
a missing join, an acknowledgement for the first copy only, and so on. Their
definitions stand in the modules before the ones they change.

## 4 Fairness

- `MsgQueue`: a thread inside push or pop that is not asleep goes on. Nothing
  obliges a thread to call.
- `PacketsQueue`: every thread goes on; the callback returns. Packets and the
  stop signal need not come. The receive thread competes for the slots with the
  periodical one, which sleeps a second between two messages, so it is
  neither passed over by every signal nor overtaken at every slot: strong
  fairness of those two steps. Without it, the code would promise nothing to the
  receive thread, since a mutex and a condition variable do not.
- `KsTimer`, `PcCommand`: the threads go on, the delay passes, the callback
  returns (in `PcCommand`, when it can). Strong fairness of the locks: their
  holders leave them for 100 ms between two rounds. A script that can go on does;
  none has to be
  killed, and a process it left need not end.
- `UdpNetif`: the receive thread and `_udp_tx` go on, and of copies sent without
  end some arrive and are received where they are for. Nothing is assumed of the
  connection attempts, which may fail for ever: `Arrives` excepts a device that
  does not listen from some time on.
- `EventGroup`: a thread that is awake goes on, and time does not stop: strong
  fairness of a timeout, since a waiter that is woken in vain is for a moment not
  asleep.
- `FlashStore`, `FirmwareVerifier`, `FirmwareUpdate`, `FileIo` and `LicenseTool`
  have safety properties only.

## 5 Proofs

`tlapm` proves all of these modules from the named assumptions on the constants
(for instance `MemAssumption`, `ElementAssumption`); nothing is left without a
proof.

**MsgQueue_proofs**: for any threads, blocks and capacity. There are two
inductive invariants. `MemInv` is `TypeOK`, `RingInv`, `Ownership` and
`QuietWhenFreed`: that a block in the ring has one owner needs the ring
arithmetic, and that a block is not freed twice needs that nobody is inside a
freed queue. `WakeInv` is the three properties of sleepers and
`SleepersInLoop`: that somebody is awake to take a block (`NoStrandedGetter`)
needs that those who sleep are in the loop they sleep in, so that a thread that
acts is not one of them.
`QueueImplementsFifo` maps the ring to a sequence (`Items`); its lemmas
say that an add appends and a get removes the first, wherever `head` and `tail`
are.

**PacketsQueue_proofs**: for any capacity and any failures of `pthread_create`,
when no stop comes while a connection attempt goes on (`EarlyStop = FALSE`, as in
the run `packets`; otherwise the run `early_stop` refutes it). The invariant says
how far main is, which threads it joined, and that a thread is inside push or pop
only where its own loop calls them. Then nobody is inside when the queue is freed: every behaviour of
`PacketsQueue` is one of `MsgQueue` (`PQUsesQueueWell`), so that its theorems
hold of the queue of received packets (`PQQueueCorrect`). `PQTypeCorrect` adds
the types. `HangsNowhereElse` and `CleanExit` need more: the place of a thread in
its loop says where it is in the queue (`CallsMatch`); the queue is open until
main frees it (`OpenInv`); a thread ends only after main set its flag, and after
the wake-up message a reader on its way to a pop finds one (`StopInv`); and the
invariants of `MsgQueue` about blocks and sleepers, which come with
`PQUsesQueueWell`.

**KsTimer_proofs**: for any number of callers. The invariant says which thread
holds which mutex at which point, and that `m_running` stands between the two
orders of locking: a caller that wants `m_changingMutex` saw `m_running` unset
while it held `m_stateMutex`, so the thread cannot be past its check.
From it follow `NoLockCycle`, `BusyAddDoesNotWait`, `NoDataRace`, `AddGoesOn`
(somebody in `add()` can go on, or the thread is about to unlock, without a
callback in between) and the refinement of `OneShot`.

**PcCommand_proofs**: every step of `PcCommand` is a step of `KsTimer` or a
stutter (`PcUsesTimer`), so the theorems above hold of it (`PcTimerCorrect`,
`PcAddGoesOn`); `AnsweredInTurn` (exactly one response, with the status and
the output of the request's own script) needs that the thread, while it is in the
callback, knows of that script only (`CallbackInv`), that nothing was sent before
(`UnansweredInv`), and that what was sent stays right (`RightInv`).
`PcOnlyScriptHangs` needs that there is a child while the thread waits for one:
then a state in which no thread can go on is one of a script with a full pipe, or
of one that has ended while another process keeps its pipe open, with every
caller out of `add()`.

**FlashStore_proofs**: for any processes, files and partitions.
`RestoredBySync` is not inductive: it speaks only of the time outside the window
between erase and write. `WindowInv` adds that inside it an undamaged device is
blank and no other process is there, so that the write puts the whole copy on
it; `MountedInv` adds that a running process has the partitions it uses formatted
in its copy. `FlashImplementsStore` maps the device to `durable` and the copies
to `view`, with the beginning and the end of each file as its saves left them.
What `sync_error` and `lost_update` refute is not proved under other assumptions.

**UdpNetif_proofs**: for any devices, packets and transaction ids, with kills.
`NotGivenUp` says that the sender keeps one of the packets alike to one it sent,
until the destination had one of them. It needs that an
acknowledgement in the network means that the destination had a packet with its
key (`AckInv`). `UdpImplementsChannel` needs also that only packets that were
sent are in the network (`SentInv`), and that a packet with one device's MAC is
for that device alone (`ForWhom`), since every device receives all of them;
`SocketInv` says that a socket in use is one of the open descriptors.

**EventGroup_proofs**: for any threads and bits. `NoMissedBits` is
inductive with the types: a waiter falls asleep only when its bits are
not set, and who sets them is to broadcast until it did. `EvBitsReported` follows
step by step, since only `EvReturns` and `EvClearBits` take bits away.

**Tools_proofs** has five parts.
`LicenseTool`, for any tools and licenses: the inductive invariant says that a
license in a copy or in `cur_license` is of this device unless it is none
(`OurOwn`), and that one that was saved verifies; `LtExitTellsTruth` needs besides
that the copy is what was read until the command saves, and from then on the
license it was asked to save, also when it cannot be loaded again (`ToolInv`).
`FirmwareUpdate`, for programs of any number of chunks and any number of updates
(`FuInv`): as long as no error of the transfer was ignored (`Clean`), the file of
the new program is what was sent, so that at the restart it is one whole program;
the backup is always a beginning of a working program (`BackedUp`), and a whole
one from the `cp` until the restoring, unless the `cp` failed unnoticed.
`FirmwareVerifier`, for every size of file and chunk: while the file does
not change, the hashed bytes are its first ones, and each chunk loads in full
(`FvHashesWholeFile`); the verdict follows.
`FileIo`, for any threads, files and lengths (`IoFileInv`): a file that nothing
has spoilt has at most one writer; while there is none that opened it, it holds
what the writes before left; then it is empty until `fclose`; and the bytes that
the writer has copied so far are still in the static buffer. `MergedIsMeant` shows
that the buffer `vs_files_write` builds is what a write means.
`MCStandalone`: every behaviour of the sum is one of each of its parts
(`StandaloneParts`), so the theorems about the parts are about the run, and
`StandaloneTypeCorrect` joins their type invariants.

Every invariant of every passing run, and every refinement, is stated by one of
these theorems. Some properties are theorems only, since a run checks a
stronger one: `RingInv` (`ImplementsFifo`), `NoLockCycle` and
`BusyAddDoesNotWait` (`AddGoesOn`), `NotGivenUp` and `AcknowledgedIsKept`
(`ImplementsChannel`). Only model-checked are the liveness properties, since
fairness and ENABLED are beyond the prover: `GetterServed` and `AdderServed` of
the queue, `QueuedIsRead` and `ShutdownEndsOrFull` of the packets queue,
`ReaderReturns` and `AnsweredUnlessBlocked` of the commands,
`Arrives` and `ResendingStops` of the network interface, `NoWaitForever` of the
event group. What can be said of them without fairness is proved: which sleeper
has somebody awake to wake it (`NoStrandedGetter`, `NoStrandedAdder`,
`NoMissedBits`), and in which states alone nothing moves (`HangsNowhereElse`,
`AddGoesOn`, `OnlyScriptHangs`).

## 6 Disagreements found

Six runs show the code not doing what its own comments, messages and checks
say. `PROJECT.json`, "findings", quotes each line.

1. `shutdown_hang`: with a full queue main waits for ever in the push that is to
   wake the reader (`packets-queue.c:138`).
2. `early_stop`: a stop signal, or a step of the start that failed, before the
   interface is ready; the receive thread starts later and uses the queue that
   was freed (`netif-udp.cpp:477`, `packets-queue.c:146`).
3. `sync_error`: `iot_flash_hw_sync` logs that a write failed and returns 0, so
   license-processor reports a license as stored that is not
   (`yiot-littlefs-hal.c:251`).
4. `lost_update`: each process writes its whole copy, so the daemon undoes what
   license-processor stored, with exit status 0, since the daemon started
   (`yiot-littlefs-hal.c:246`).
5. `start_notification`: the notification about the start is dropped when the
   connection thread is not done yet (`netif-udp.cpp:428`).
6. `command_hang`: `waitpid` comes before the pipe is read
   (`command.h:115`).

Other weak points have no line that promises the contrary. Each is an exception,
by name, in a property that holds of the model. The models take the errors that
the code ignores at the lines named here, one by one; a run says nothing of an
error that no model has.

- `ShutdownEndsOrFull`: a signal between `sigaction` and the first lock is lost
  (`app-helpers.c:169`); without a reader, which init reports as success
  (`packets-queue.c:110`), main waits for a thread that sleeps in its push; a
  receive thread that was not created is joined (`netif-udp.cpp:323`, `:488`).
- `OnlyScriptHangs`, `AnsweredUnlessBlocked`: the pipe is read until the end of
  file (`command.h:120`), which does not come while a process that the script
  left, or that another timer forked, has the write end; a `read` that fails
  throws, which ends the daemon.
- `Arrives`, `ImplementsChannel`: an acknowledgement carries no more than the MACs
  and the transaction id (`netif-udp.cpp:124`), and every response has the id 0
  (`pc.cpp:176`, `reset.cpp:52`). A late one can take a lost response out of the
  container: of several responses to one peer, the QoS 1 of `netif-udp.cpp:189`
  promises one. What was acknowledged and not handed on is lost at a kill.
- `UdpNetif`: a connection attempt that fails after `socket()` keeps its
  descriptor (`netif-udp.cpp:329`), once a try; `Arrives` excepts a device that
  does not listen from some time on, for this or any other reason.
- `ImplementsStore`: a file saved shorter keeps the end of the longer one
  (`yiot-littlefs-storage.c:149`), an element may be lost with its partition, and
  an update with a stale copy.
- `VerdictIsRight`: the second key is not tried when the first does not load
  (`firmware-verifier/src/main.c:238`); a file that shrinks may be hashed with
  bytes of the stack.
- `ExitTellsTruth`: `res` is not set when the initialisation fails
  (`license-processor/src/main.c:97`); the status is 1 although the license was
  stored when it cannot be loaded again after the sync (`main.c:351`).
- `UpdateRecovers`: a `remove()` that fails leaves a part of an earlier transfer
  (`firmware-impl.c:60`), and an `fclose` that cannot write reports success
  (`:82`), so that a program that is not whole is put in place, with the backup
  beside it; only -1 of `system()` is an error (`:144`), so a `cp` that failed
  leaves no backup that works; a `chmod` or a restoring that fails, or a kill,
  leaves a program that cannot be executed; and nothing is synced before a power
  cut.
- `LoadsWhatWasWritten`: a failing `fopen` is taken for a missing file, whose
  content is then replaced (`file-io.c:217`), or reported as a write (`:241`); a
  failing `remove()` is reported as a removal (`:329`), a failing flush as a
  write; a crash loses the file; two threads that write share one static buffer
  (`:231`). An empty file can never be written again (`:197`).

## 7 Not modelled

- `lock-nix-hal.c`: wrappers of mutexes for the submodule. Logger, settings,
  device information: no state of their own. Service scripts: procd restarts the
  daemon, which `FlashStore` has as a start after an end.
- `app-helpers.c`: the conversions of strings of the command line.
- `firmware-impl.c`: the layout of the footer; only that a wrong one ends the
  program. `file-io.c`, `storage-nix-impl.c`: directories, paths, the length of a
  file, `vs_files_sync`, which does nothing; files larger than the 2 MiB buffer,
  of which `fwrite` writes a part before `fclose`; what a load returns that overlaps
  a write of the same file, of which nothing is claimed.
- The data: base64, JSON, MAC addresses, the format of licenses and keys.
- In the other modelled parts: the choice of a broadcast address and of the MAC, the
  list of interfaces, the parsing of a JSON request, the script's standard
  error, the resizing of the file that emulates the device. A SNAP callback that
  still runs while main tears down SNAP (`main.c:207`) and what it does with a
  packet that came twice are decided in a submodule: `UdpNetif` promises at least
  once. The destruction of static objects at process exit has no later state.

## 8 Plan

Done, in this order: the queue and the packets queue, the timer and the commands,
the flash device, the network interface; then the sleep until a signal and the
failures of the start, the event group, the firmware update, the files, the
verifier and the commands of license-processor.

Proved after that, beyond types and data: where the threads can hang, the clean
end of a shutdown, the channel of the network interface, and the sum of the
standalone parts.

What would come next:

1. A refinement of `LicenseTool` by `FlashStore`: the license on the device is
   one file of it.
2. Abstract specifications of the event group (bits that are taken once), of the
   firmware update (an old or a new program) and of the files, with their
   refinements.
3. The conversions of strings (`app-helpers.c`, the state buffer of `pc.cpp`) as
   functions on bounded inputs, with their boundaries.
