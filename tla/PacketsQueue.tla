---------------------------- MODULE PacketsQueue ----------------------------
(* The path of received packets: common/src/iotkit-impl/packets-queue.c on  *)
(* top of MsgQueue, the threads of the UDP network interface that feed it   *)
(* (common/src/iotkit-impl/netif/netif-udp.cpp), and the shutdown in main   *)
(* of security-provisioner. Every call of the queue is an action of         *)
(* MsgQueue done by one of four threads: Reader (_msg_processing),          *)
(* Periodical (_periodical_processing), Rx (_udp_receive_processor) and     *)
(* Main; the connection thread does not call the queue. Main sleeps in      *)
(* vs_app_sleep_until_stop (common/src/helpers/app-helpers.c): it locks the *)
(* mutex _sleep_lock twice, and the handler of a signal unlocks it.         *)
(*                                                                          *)
(* A push allocates with CHOOSE: which free block malloc returns does not   *)
(* matter here. The packet's content, the QoS acknowledgements and the      *)
(* processing callback (SNAP, outside this repository) are left out: of the *)
(* callback only that it returns.                                           *)
EXTENDS MsgQueue

CONSTANTS
  Main, Reader, Periodical, Rx,   \* the threads
  ReaderStarts,      \* may pthread_create of the reader succeed, fail?
  PeriodicalStarts,  \* that of the periodical thread,
  ConnectStarts,     \* of the connection thread,
  RxStarts,          \* and of the receive thread?
  EarlyStop          \* may main be stopped before the netif is ready?

ASSUME ThreadAssumption ==
  /\ Thread = {Main, Reader, Periodical, Rx}
  /\ Main \notin {Reader, Periodical, Rx}
  /\ Reader \notin {Periodical, Rx}
  /\ Periodical # Rx
ASSUME StartAssumption == /\ ReaderStarts \subseteq BOOLEAN
                          /\ PeriodicalStarts \subseteq BOOLEAN
                          /\ ConnectStarts \subseteq BOOLEAN
                          /\ RxStarts \subseteq BOOLEAN
                          /\ EarlyStop \in BOOLEAN
\* One block more than can be in use: Mem queued and one per thread.
ASSUME HeapAssumption == IsFiniteSet(Block) => Cardinality(Block) > Mem + 4
\* vs_packets_queue_init creates the queue for one adder and one getter, and
\* nobody resets it.
ASSUME QueueAssumption == AdderCounts = {1} /\ GetterCounts = {1} /\ MaxResets = 0

VARIABLES
  mainAt, readerAt, periodicalAt, rxAt,  \* where each thread is
  connAt,                                \* the connection thread
  ready,                                 \* _ready of netif-udp.cpp
  sockOpen,                              \* FALSE once _udp_deinit closed it
  readerReady, periodicalReady,          \* the threads were created
  stopQueue, stopPeriodical,             \* _stop_queue, _stop_periodical
  sleepLock,                             \* is _sleep_lock locked?
  signalAt                               \* where main was at the last signal

netVars  == <<connAt, ready, sockOpen>>
flagVars == <<readerReady, periodicalReady, stopQueue, stopPeriodical>>
atVars   == <<mainAt, readerAt, periodicalAt, rxAt>>
sigVars  == <<sleepLock, signalAt>>
pqVars   == <<vars, atVars, netVars, flagVars, sigVars>>

NewBlock == CHOOSE b \in Block : b \notin heap

\* vs_packets_queue_init: the queue and its two threads (main ignores a
\* failure). Main has the rest of its initialisation before it.
PQInit ==
  /\ Init
  /\ readerReady \in ReaderStarts
  /\ periodicalReady \in PeriodicalStarts
  /\ mainAt = "starting"
  /\ readerAt = IF readerReady THEN "loop" ELSE "none"
  /\ periodicalAt = IF periodicalReady THEN "loop" ELSE "none"
  /\ rxAt = "none"
  /\ connAt = "none"
  /\ ready = FALSE /\ sockOpen = TRUE
  /\ stopQueue = FALSE /\ stopPeriodical = FALSE
  /\ sleepLock = FALSE /\ signalAt = "none"

(***************************************************************************)
(* The reader: _msg_processing                                             *)
(***************************************************************************)

ReaderLoop ==
  /\ readerAt = "loop"
  /\ readerAt' = IF stopQueue THEN "done" ELSE "pop"
  /\ UNCHANGED <<vars, mainAt, periodicalAt, rxAt, netVars, flagVars, sigVars>>

\* vs_msg_queue_pop; an error ends the thread.
ReaderPop ==
  /\ readerAt = "pop"
  /\ GetEnter(Reader) \/ GetResume(Reader)
  /\ readerAt' = CASE pc'[Reader] = "got" -> "callback"
                   [] pc'[Reader] = "getwait" -> "pop"
                   [] OTHER -> "done"
  /\ UNCHANGED <<mainAt, periodicalAt, rxAt, netVars, flagVars, sigVars>>

\* The callback returned, the data is freed.
ReaderCallback ==
  /\ readerAt = "callback"
  /\ FreeBlock(Reader)
  /\ readerAt' = "loop"
  /\ UNCHANGED <<mainAt, periodicalAt, rxAt, netVars, flagVars, sigVars>>

ReaderStep == ReaderLoop \/ ReaderPop \/ ReaderCallback

(***************************************************************************)
(* The periodical thread: _periodical_processing                           *)
(***************************************************************************)

\* The loop test; sleep(1) follows.
PeriodicalLoop ==
  /\ periodicalAt = "loop"
  /\ periodicalAt' = IF stopPeriodical THEN "done" ELSE "push"
  /\ UNCHANGED <<vars, mainAt, readerAt, rxAt, netVars, flagVars, sigVars>>

PeriodicalPush ==
  /\ periodicalAt = "push"
  /\ PushAlloc(Periodical, NewBlock)
  /\ periodicalAt' = "pushing"
  /\ UNCHANGED <<mainAt, readerAt, rxAt, netVars, flagVars, sigVars>>

\* vs_msg_queue_push goes on; an error ends the thread.
PeriodicalPushing ==
  /\ periodicalAt = "pushing"
  /\ \/ /\ AddEnter(Periodical) \/ AddResume(Periodical)
        /\ periodicalAt' = IF pc'[Periodical] = "idle" THEN "loop" ELSE "pushing"
     \/ /\ pc[Periodical] = "refused"
        /\ FreeBlock(Periodical)
        /\ periodicalAt' = "done"
  /\ UNCHANGED <<mainAt, readerAt, rxAt, netVars, flagVars, sigVars>>

PeriodicalStep == PeriodicalLoop \/ PeriodicalPush \/ PeriodicalPushing

(***************************************************************************)
(* The UDP interface                                                       *)
(***************************************************************************)

\* _udp_connect succeeded and created the receive thread, or could not: it does
\* not ask. An attempt that fails is repeated a second later and changes
\* nothing here.
Connected ==
  /\ connAt = "connecting"
  /\ connAt' = "created"
  /\ \E created \in RxStarts : rxAt' = IF created THEN "recv" ELSE "none"
  /\ UNCHANGED <<vars, mainAt, readerAt, periodicalAt, ready, sockOpen, flagVars, sigVars>>

SetReady ==
  /\ connAt = "created"
  /\ connAt' = "done"
  /\ ready' = TRUE
  /\ UNCHANGED <<vars, atVars, sockOpen, flagVars, sigVars>>

\* A packet arrived: vs_packets_queue_add. Its check of _queue_ctx passes,
\* also when the queue was freed: deinit leaves the pointer.
RxPacket ==
  /\ rxAt = "recv" /\ ready /\ sockOpen
  /\ \/ /\ alive
        /\ PushAlloc(Rx, NewBlock)
        /\ rxAt' = "pushing"
     \/ /\ ~alive
        /\ rxAt' = "usedFreed"
        /\ UNCHANGED vars
  /\ UNCHANGED <<mainAt, readerAt, periodicalAt, netVars, flagVars, sigVars>>

\* The receive thread ignores what vs_packets_queue_add returns.
RxPushing ==
  /\ rxAt = "pushing"
  /\ \/ /\ AddEnter(Rx) \/ AddResume(Rx)
        /\ rxAt' = IF pc'[Rx] = "idle" THEN "recv" ELSE "pushing"
     \/ /\ pc[Rx] = "refused"
        /\ FreeBlock(Rx)
        /\ rxAt' = "recv"
  /\ UNCHANGED <<mainAt, readerAt, periodicalAt, netVars, flagVars, sigVars>>

\* recvfrom fails on the closed socket.
RxStop ==
  /\ rxAt = "recv" /\ ready /\ ~sockOpen
  /\ rxAt' = "done"
  /\ UNCHANGED <<vars, mainAt, readerAt, periodicalAt, netVars, flagVars, sigVars>>

(***************************************************************************)
(* vs_app_sleep_until_stop                                                 *)
(***************************************************************************)

MainGoes(from, to) == mainAt = from /\ mainAt' = to

\* No connection attempt is under way, or the stop may come during one.
Settled == EarlyStop \/ ready \/ connAt = "none"

\* ks_iotkit_init reaches _udp_init, which creates the connection thread and
\* does not ask whether it could.
StartNetif ==
  /\ MainGoes("starting", "started")
  /\ \E created \in ConnectStarts : connAt' = IF created THEN "connecting" ELSE "none"
  /\ UNCHANGED <<vars, readerAt, periodicalAt, rxAt, ready, sockOpen, flagVars, sigVars>>

\* Another step of the initialisation fails, before or after that: main goes on
\* with its shutdown.
StartFails ==
  /\ Settled
  /\ MainGoes("starting", "netDeinit") \/ MainGoes("started", "netDeinit")
  /\ UNCHANGED <<vars, readerAt, periodicalAt, rxAt, netVars, flagVars, sigVars>>

\* sigaction, for both signals; before it a signal kills the process.
InstallHandlers ==
  /\ MainGoes("started", "initLock")
  /\ UNCHANGED <<vars, readerAt, periodicalAt, rxAt, netVars, flagVars, sigVars>>

InitSleepLock ==
  /\ MainGoes("initLock", "lock")
  /\ sleepLock' = FALSE
  /\ UNCHANGED <<vars, readerAt, periodicalAt, rxAt, netVars, flagVars, signalAt>>

FirstLock ==
  /\ ~sleepLock
  /\ MainGoes("lock", "sleep")
  /\ sleepLock' = TRUE
  /\ UNCHANGED <<vars, readerAt, periodicalAt, rxAt, netVars, flagVars, signalAt>>

\* The second lock, once the handler made it possible.
SecondLock ==
  /\ ~sleepLock
  /\ MainGoes("sleep", "netDeinit")
  /\ sleepLock' = TRUE
  /\ UNCHANGED <<vars, readerAt, periodicalAt, rxAt, netVars, flagVars, signalAt>>

SleepStep == StartNetif \/ StartFails \/ InstallHandlers \/ InitSleepLock \/ FirstLock \/ SecondLock

\* Mutant of StopSignal: the handler leaves the mutex locked.
StopSignalIgnored ==
  /\ Settled
  /\ mainAt \in {"initLock", "lock", "sleep"}
  /\ signalAt' = mainAt
  /\ UNCHANGED <<vars, atVars, netVars, flagVars, sleepLock>>

\* _wait_signal_process. It has no effect when the mutex is not locked; a
\* signal during the shutdown changes nothing.
StopSignal ==
  /\ Settled
  /\ mainAt \in {"initLock", "lock", "sleep"}
  /\ signalAt' = mainAt
  /\ sleepLock' = FALSE
  /\ UNCHANGED <<vars, atVars, netVars, flagVars>>

(***************************************************************************)
(* The shutdown: main after vs_app_sleep_until_stop                        *)
(***************************************************************************)

\* Mutant of NetDeinit: does not join the receive thread.
NetDeinitNoJoin ==
  /\ MainGoes("netDeinit", "stopPeriodical")
  /\ IF ready THEN sockOpen' = FALSE ELSE UNCHANGED sockOpen
  /\ UNCHANGED <<vars, readerAt, periodicalAt, rxAt, connAt, ready, flagVars, sigVars>>

\* ks_iotkit_deinit reaches _udp_deinit, which does nothing unless ready.
NetDeinit ==
  /\ IF ready THEN MainGoes("netDeinit", "joinRx") /\ sockOpen' = FALSE
              ELSE MainGoes("netDeinit", "stopPeriodical") /\ UNCHANGED sockOpen
  /\ UNCHANGED <<vars, readerAt, periodicalAt, rxAt, connAt, ready, flagVars, sigVars>>

\* pthread_join. When the receive thread could not be created, receive_thread
\* is still zero, and what its join does is undefined: it returns an error, or
\* the process is killed. (The other threads' steps after that stand for
\* nothing, and the properties claim nothing of them.)
JoinRx ==
  /\ \/ rxAt \in {"none", "done"} /\ MainGoes("joinRx", "stopPeriodical")
     \/ rxAt = "none" /\ MainGoes("joinRx", "crashed")
  /\ UNCHANGED <<vars, readerAt, periodicalAt, rxAt, netVars, flagVars, sigVars>>

\* vs_packets_queue_deinit.
StopPeriodical ==
  /\ IF periodicalReady
     THEN MainGoes("stopPeriodical", "joinPeriodical") /\ stopPeriodical' = TRUE
     ELSE MainGoes("stopPeriodical", "stopReader") /\ UNCHANGED stopPeriodical
  /\ UNCHANGED <<vars, readerAt, periodicalAt, rxAt, netVars, sigVars, readerReady,
                 periodicalReady, stopQueue>>

JoinPeriodical ==
  /\ periodicalAt = "done"
  /\ MainGoes("joinPeriodical", "stopReader")
  /\ periodicalReady' = FALSE
  /\ UNCHANGED <<vars, readerAt, periodicalAt, rxAt, netVars, sigVars, readerReady,
                 stopQueue, stopPeriodical>>

\* Mutant of StopReader: _stop_queue is not set.
StopReaderUnset ==
  /\ MainGoes("stopReader", IF readerReady THEN "push" ELSE "free")
  /\ UNCHANGED <<vars, readerAt, periodicalAt, rxAt, netVars, sigVars, flagVars>>

StopReader ==
  /\ IF readerReady
     THEN MainGoes("stopReader", "push") /\ stopQueue' = TRUE
     ELSE MainGoes("stopReader", "free") /\ UNCHANGED stopQueue
  /\ UNCHANGED <<vars, readerAt, periodicalAt, rxAt, netVars, sigVars, readerReady,
                 periodicalReady, stopPeriodical>>

\* The message that wakes the reader.
WakePush ==
  /\ MainGoes("push", "pushing")
  /\ PushAlloc(Main, NewBlock)
  /\ UNCHANGED <<readerAt, periodicalAt, rxAt, netVars, flagVars, sigVars>>

\* An error would end vs_packets_queue_deinit here, with the queue not freed.
WakePushing ==
  /\ mainAt = "pushing"
  /\ \/ /\ AddEnter(Main) \/ AddResume(Main)
        /\ mainAt' = IF pc'[Main] = "idle" THEN "joinReader" ELSE "pushing"
     \/ /\ pc[Main] = "refused"
        /\ FreeBlock(Main)
        /\ mainAt' = "exit"
  /\ UNCHANGED <<readerAt, periodicalAt, rxAt, netVars, flagVars, sigVars>>

\* Mutant of JoinReader: does not wait for the reader.
JoinReaderEarly ==
  /\ MainGoes("joinReader", "free")
  /\ readerReady' = FALSE
  /\ UNCHANGED <<vars, readerAt, periodicalAt, rxAt, netVars, sigVars, periodicalReady,
                 stopQueue, stopPeriodical>>

JoinReader ==
  /\ readerAt = "done"
  /\ MainGoes("joinReader", "free")
  /\ readerReady' = FALSE
  /\ UNCHANGED <<vars, readerAt, periodicalAt, rxAt, netVars, sigVars, periodicalReady,
                 stopQueue, stopPeriodical>>

FreeQueue ==
  /\ \/ DestroyClose(Main) /\ MainGoes("free", "freeing")
     \/ DestroyFree(Main) /\ MainGoes("freeing", "exit")
  /\ UNCHANGED <<readerAt, periodicalAt, rxAt, netVars, flagVars, sigVars>>

MainStep == \/ NetDeinit \/ JoinRx \/ StopPeriodical \/ JoinPeriodical
            \/ StopReader \/ WakePush \/ WakePushing \/ JoinReader \/ FreeQueue

Spurious == /\ \E t \in Thread : SpuriousWakeup(t)
            /\ UNCHANGED <<atVars, netVars, flagVars, sigVars>>

PQNext == \/ ReaderStep \/ PeriodicalStep
          \/ Connected \/ SetReady \/ RxPacket \/ RxPushing \/ RxStop
          \/ StartNetif \/ StartFails \/ InstallHandlers \/ InitSleepLock \/ FirstLock \/ SecondLock
          \/ StopSignal \/ MainStep \/ Spurious

PQSpec == PQInit /\ [][PQNext]_pqVars

\* Every thread that can run eventually runs (the callback returns, sleep(1)
\* ends); neither packets nor the stop signal have to come. The receive thread
\* competes with the periodical thread for the slots the reader empties. That
\* one sleeps a second between two messages and the scheduling policy picks
\* whom pthread_cond_signal wakes, so the receive thread is neither passed
\* over by every signal nor overtaken at every free slot: strong fairness.
PQFairSpec ==
  /\ PQSpec
  /\ WF_pqVars(ReaderStep) /\ WF_pqVars(PeriodicalStep)
  /\ WF_pqVars(RxPushing) /\ WF_pqVars(RxStop)
  /\ WF_pqVars(SleepStep) /\ WF_pqVars(MainStep)
  /\ SF_pqVars(RxPushing /\ rxAt' = "recv")
  /\ SF_pqVars(ReaderPop /\ Rx \in notFull \ notFull')

(***************************************************************************)
(* Properties                                                              *)
(***************************************************************************)

PQTypeOK ==
  /\ TypeOK
  /\ mainAt \in {"starting", "started", "initLock", "lock", "sleep", "netDeinit", "joinRx",
                 "stopPeriodical", "joinPeriodical", "stopReader", "push", "pushing",
                 "joinReader", "free", "freeing", "exit", "crashed"}
  /\ readerAt \in {"none", "loop", "pop", "callback", "done"}
  /\ periodicalAt \in {"none", "loop", "push", "pushing", "done"}
  /\ rxAt \in {"none", "recv", "pushing", "usedFreed", "done"}
  /\ connAt \in {"none", "connecting", "created", "done"}
  /\ {ready, sockOpen, readerReady, periodicalReady, stopQueue, stopPeriodical,
      sleepLock} \subseteq BOOLEAN
  /\ signalAt \in {"none", "initLock", "lock", "sleep"}

\* The threads use the queue as MsgQueue's callers must: in particular main
\* frees it when no thread is inside push or pop, so that all that is proved
\* of MsgQueue holds of the queue of received packets.
UsesQueueWell == Spec

\* vs_packets_queue_add is never reached with a queue that is gone: its assert
\* and its check "Queue context is Wrong" are there for that.
QueueContextValid == rxAt # "usedFreed" /\ QuietWhenFreed

\* A queued message is popped, whatever the others do, until the shutdown
\* stops the reader; unless the reader could not be created, which neither
\* vs_packets_queue_init nor main takes for an error, or the process was killed.
QueuedIsRead ==
  \A b \in Block :
    b \in Queued ~> b \notin Queued \/ stopQueue \/ readerAt = "none" \/ mainAt = "crashed"

\* A stop signal ends the program, with four exceptions. It comes after the
\* handlers were installed and before the mutex they unlock is locked: it is
\* lost, and main sleeps until the next one. Or the shutdown meets a full queue:
\* then the reader may see _stop_queue before it pops again, and main sleeps for
\* ever in its push of the wake-up message. Or there is no reader, and main
\* waits for a thread that sleeps in its push. Or the receive thread was never
\* created, and the join of it kills the process. It hangs nowhere else.
ShutdownEndsOrFull ==
  signalAt # "none" \/ mainAt = "netDeinit" ~>
     \/ mainAt = "exit"
     \/ mainAt = "crashed" /\ rxAt = "none"
     \/ mainAt = "sleep" /\ sleepLock /\ signalAt # "sleep"
     \/ mainAt = "pushing" /\ Main \in notFull /\ n = Mem /\ readerAt = "done"
     \/ mainAt = "joinRx" /\ Rx \in notFull /\ n = Mem /\ readerAt = "none"
     \/ mainAt = "joinPeriodical" /\ Periodical \in notFull /\ n = Mem /\ readerAt = "none"

\* The calls that block: pthread_cond_wait in push and pop, recvfrom,
\* pthread_join, pthread_mutex_lock of _sleep_lock; and who has ended.
ReaderWaits == readerAt \in {"none", "done"} \/ Reader \in notEmpty
PeriodicalWaits == periodicalAt \in {"none", "done"} \/ Periodical \in notFull
RxWaits == \/ rxAt \in {"none", "done"}
           \/ rxAt = "recv" /\ (ready => sockOpen)
           \/ Rx \in notFull
MainWaits == \/ mainAt \in {"exit", "crashed"}
             \/ mainAt \in {"lock", "sleep"} /\ sleepLock
             \/ mainAt = "joinRx" /\ rxAt \notin {"none", "done"}
             \/ mainAt = "joinPeriodical" /\ periodicalAt # "done"
             \/ mainAt = "joinReader" /\ readerAt # "done"
             \/ Main \in notFull
AllWait == ReaderWaits /\ PeriodicalWaits /\ RxWaits /\ MainWaits

\* Whatever the interleaving of the joins, the flags and the two condition
\* variables, the threads all wait at once only where ShutdownEndsOrFull says,
\* and while main sleeps: then everything received has been read, and no thread
\* is there to push every second, or there is no reader. In particular nobody
\* waits in a join while both a message and its reader are there.
HangsNowhereElse ==
  AllWait =>
    \/ mainAt = "exit" \/ (mainAt = "crashed" /\ rxAt = "none")
    \/ mainAt = "sleep" /\ (readerAt = "none" \/ (periodicalAt = "none" /\ n = 0))
    \/ mainAt = "pushing" /\ n = Mem /\ readerAt = "done"
    \/ mainAt = "joinRx" /\ n = Mem /\ Rx \in notFull /\ readerAt = "none"
    \/ mainAt = "joinPeriodical" /\ n = Mem /\ Periodical \in notFull /\ readerAt = "none"

\* A shutdown that ends is complete: vs_packets_queue_deinit was not left by
\* its error return, the queue is freed, the other threads have ended, and no
\* packet is left allocated, read or unread.
CleanExit ==
  mainAt = "exit" =>
    /\ ~alive /\ heap = {}
    /\ rxAt \in {"none", "done"}
    /\ readerAt \in {"none", "done"} /\ periodicalAt \in {"none", "done"}

\* Once main stopped sleeping the application terminates.
ShutdownEnds == mainAt = "netDeinit" ~> mainAt = "exit"
=============================================================================
