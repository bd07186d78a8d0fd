------------------------ MODULE PacketsQueue_proofs ------------------------
(* When the stop signal comes after the network interface is ready, the     *)
(* joins of the shutdown make the free of the queue safe: the threads of    *)
(* PacketsQueue use the queue as MsgQueue requires, so what is proved of    *)
(* the queue holds of the queue of received packets. (Without that, the run *)
(* early_stop shows the use of a freed queue.)                              *)
EXTENDS PacketsQueue, MsgQueue_proofs

\* Where main is once it was stopped.
Awake == {"netDeinit", "joinRx", "stopPeriodical", "joinPeriodical", "stopReader",
          "push", "pushing", "joinReader", "free", "freeing", "exit", "crashed"}

\* Once main was stopped, or can be, the interface is ready or has no thread
\* that makes it so, and each thread that main joined has ended.
JoinInv ==
  /\ connAt \in {"none", "connecting"} => rxAt = "none"
  /\ mainAt = "starting" => connAt = "none"
  /\ ready => connAt = "done"
  /\ mainAt \in Awake \/ (mainAt = "sleep" /\ ~sleepLock) => ready \/ connAt = "none"
  /\ mainAt \in Awake \ {"netDeinit", "joinRx"} => rxAt \in {"none", "done"}
  /\ mainAt \in {"stopReader", "push", "pushing", "joinReader", "free", "freeing", "exit"}
       => ~periodicalReady
  /\ ~periodicalReady => periodicalAt \in {"none", "done"}
  /\ mainAt \in {"free", "freeing"} => ~readerReady
  /\ ~readerReady => readerAt \in {"none", "done"}
  /\ ~alive => mainAt = "exit" /\ ~readerReady

\* A thread is inside push or pop only where its own loop calls them.
CallInv ==
  /\ readerAt # "pop" => Outside(Reader)
  /\ periodicalAt # "pushing" => Outside(Periodical)
  /\ rxAt # "pushing" => Outside(Rx)
  /\ mainAt \notin {"pushing", "freeing"} => Outside(Main)
  /\ rxAt # "usedFreed"

PQInv == TypeOK /\ JoinInv /\ CallInv

\* A call of the queue moves only the thread that makes it.
QueueCall(t) ==
  \/ AddEnter(t) \/ AddResume(t) \/ GetEnter(t) \/ GetResume(t) \/ FreeBlock(t)
  \/ \E b \in Block : PushAlloc(t, b)
  \/ DestroyClose(t) \/ DestroyFree(t)

LEMMA CallMovesOne ==
  ASSUME TypeOK, NEW t \in Thread, QueueCall(t)
  PROVE  /\ \A u \in Thread \ {t} : Outside(u)' <=> Outside(u)
         /\ alive' = alive \/ DestroyFree(t)
  BY DEF QueueCall, TypeOK, Outside, AddEnter, AddResume, GetEnter, GetResume, FreeBlock,
         PushAlloc, DestroyClose, DestroyFree, Enqueue, AddBlocked, AddRefused, Dequeue,
         GetBlocked, GetRefused, config

\* Where a call leaves its thread.
LEMMA CallEnds ==
  ASSUME TypeOK, NEW t \in Thread
  PROVE  /\ GetEnter(t) \/ GetResume(t) => pc'[t] \in {"got", "getwait", "idle"}
         /\ AddEnter(t) \/ AddResume(t) => pc'[t] \in {"idle", "addwait", "refused"}
         /\ FreeBlock(t) \/ DestroyFree(t) => pc'[t] = "idle"
  BY DEF TypeOK, PcState, AddEnter, AddResume, GetEnter, GetResume, FreeBlock, DestroyFree,
         Enqueue, AddBlocked, AddRefused, Dequeue, GetBlocked, GetRefused

LEMMA ReaderInv ==
  ASSUME PQInv, ReaderStep
  PROVE  [Next]_vars /\ JoinInv' /\ CallInv'
  <1> USE DEF PQInv, Awake, sigVars
  <1>0. Reader \in Thread /\ {Main, Periodical, Rx} \subseteq Thread \ {Reader}
    BY ThreadAssumption
  <1>1. CASE ReaderLoop
    BY <1>1 DEF ReaderLoop, JoinInv, CallInv, Outside, netVars, flagVars, sigVars, vars
  <1>2. CASE ReaderPop
    <2>1. [Next]_vars
      BY <1>0, <1>2 DEF ReaderPop, Next
    <2>2. /\ Outside(Main)' <=> Outside(Main)
          /\ Outside(Periodical)' <=> Outside(Periodical)
          /\ Outside(Rx)' <=> Outside(Rx)
          /\ alive' = alive
      BY <1>0, <1>2, CallMovesOne DEF ReaderPop, QueueCall, GetEnter, GetResume, config
    <2>3. readerAt' # "pop" => Outside(Reader)'
      BY <1>0, <1>2, CallEnds DEF ReaderPop, Outside
    <2>4. JoinInv'
      BY <1>2, <2>2 DEF ReaderPop, JoinInv, netVars, flagVars, sigVars
    <2>5. CallInv'
      BY <1>2, <2>2, <2>3 DEF ReaderPop, CallInv
    <2> QED
      BY <2>1, <2>4, <2>5
  <1>3. CASE ReaderCallback
    <2>1. [Next]_vars
      BY <1>0, <1>3 DEF ReaderCallback, Next
    <2>2. /\ Outside(Main)' <=> Outside(Main)
          /\ Outside(Periodical)' <=> Outside(Periodical)
          /\ Outside(Rx)' <=> Outside(Rx)
          /\ alive' = alive
      BY <1>0, <1>3, CallMovesOne DEF ReaderCallback, QueueCall, FreeBlock, config
    <2>3. Outside(Reader)'
      BY <1>0, <1>3, CallEnds DEF ReaderCallback, Outside
    <2> QED
      BY <1>3, <2>1, <2>2, <2>3 DEF ReaderCallback, JoinInv, CallInv, netVars, flagVars, sigVars
  <1> QED
    BY <1>1, <1>2, <1>3 DEF ReaderStep

LEMMA PeriodicalInv ==
  ASSUME PQInv, PeriodicalStep
  PROVE  [Next]_vars /\ JoinInv' /\ CallInv'
  <1> USE DEF PQInv, Awake, sigVars
  <1>0. Periodical \in Thread /\ {Main, Reader, Rx} \subseteq Thread \ {Periodical}
    BY ThreadAssumption
  <1>1. CASE PeriodicalLoop
    BY <1>1 DEF PeriodicalLoop, JoinInv, CallInv, Outside, netVars, flagVars, sigVars, vars
  <1>2. CASE PeriodicalPush \/ PeriodicalPushing
    <2>1. [Next]_vars /\ QueueCall(Periodical) /\ alive' = alive
      BY <1>0, <1>2
      DEF PeriodicalPush, PeriodicalPushing, Next, QueueCall, PushAlloc, AddEnter, AddResume,
          FreeBlock, config
    <2>2. /\ Outside(Main)' <=> Outside(Main)
          /\ Outside(Reader)' <=> Outside(Reader)
          /\ Outside(Rx)' <=> Outside(Rx)
      BY <1>0, <2>1, CallMovesOne
    <2>3. periodicalAt' # "pushing" => Outside(Periodical)'
      BY <1>0, <1>2, CallEnds DEF PeriodicalPush, PeriodicalPushing, Outside
    <2>4. JoinInv'
      BY <1>2, <2>1 DEF PeriodicalPush, PeriodicalPushing, JoinInv, netVars, flagVars, sigVars
    <2>5. CallInv'
      BY <1>2, <2>2, <2>3 DEF PeriodicalPush, PeriodicalPushing, CallInv
    <2> QED
      BY <2>1, <2>4, <2>5
  <1> QED
    BY <1>1, <1>2 DEF PeriodicalStep

\* The receive thread finds the queue alive: it ends before main goes on.
LEMMA RxInv ==
  ASSUME PQInv, Connected \/ SetReady \/ RxPacket \/ RxPushing \/ RxStop
  PROVE  [Next]_vars /\ JoinInv' /\ CallInv'
  <1> USE DEF PQInv, Awake, sigVars
  <1>0. Rx \in Thread /\ {Main, Reader, Periodical} \subseteq Thread \ {Rx}
    BY ThreadAssumption
  <1>1. CASE Connected \/ SetReady \/ RxStop
    <2>1. UNCHANGED <<vars, mainAt, readerAt, periodicalAt, flagVars>>
      BY <1>1 DEF Connected, SetReady, RxStop, atVars
    <2>2. JoinInv'
      BY <1>1, <2>1 DEF Connected, SetReady, RxStop, JoinInv, flagVars, netVars, atVars, vars
    <2>3. CallInv'
      BY <1>1, <2>1 DEF Connected, SetReady, RxStop, JoinInv, CallInv, Outside, atVars, vars
    <2> QED
      BY <2>1, <2>2, <2>3
  <1>2. CASE RxPacket \/ RxPushing
    <2>1. [Next]_vars /\ QueueCall(Rx) /\ alive' = alive
      BY <1>0, <1>2
      DEF RxPacket, RxPushing, Next, QueueCall, PushAlloc, AddEnter, AddResume, FreeBlock,
          config, JoinInv
    <2>2. /\ Outside(Main)' <=> Outside(Main)
          /\ Outside(Reader)' <=> Outside(Reader)
          /\ Outside(Periodical)' <=> Outside(Periodical)
      BY <1>0, <2>1, CallMovesOne
    <2>3. rxAt' # "pushing" => Outside(Rx)' /\ rxAt' # "usedFreed"
      BY <1>0, <1>2, CallEnds DEF RxPacket, RxPushing, Outside, JoinInv
    <2>4. JoinInv'
      BY <1>2, <2>1 DEF RxPacket, RxPushing, JoinInv, netVars, flagVars, sigVars
    <2>5. CallInv'
      BY <1>2, <2>2, <2>3 DEF RxPacket, RxPushing, CallInv
    <2> QED
      BY <2>1, <2>4, <2>5
  <1> QED
    BY <1>1, <1>2

\* Main is stopped only when no connection attempt is under way, by a failing
\* step or by a signal, which leaves its mark in sleepLock.
LEMMA MainSleepsInv ==
  ASSUME PQInv, EarlyStop = FALSE, SleepStep \/ StopSignal
  PROVE  [Next]_vars /\ JoinInv' /\ CallInv'
  <1> USE DEF PQInv, MainGoes, Awake
  <1>1. UNCHANGED <<vars, readerAt, periodicalAt, rxAt, ready, sockOpen, flagVars>>
    BY DEF SleepStep, StartNetif, StartFails, InstallHandlers, InitSleepLock, FirstLock,
           SecondLock, StopSignal, atVars, netVars
  <1>2. JoinInv'
    <2>1. CASE StartNetif
      BY <1>1, <2>1 DEF StartNetif, JoinInv, flagVars, sigVars, vars
    <2>2. CASE StartFails \/ InstallHandlers \/ InitSleepLock
      BY <1>1, <2>2 DEF StartFails, Settled, InstallHandlers, InitSleepLock, JoinInv, netVars,
                        flagVars, sigVars, vars
    <2>3. CASE FirstLock \/ SecondLock \/ StopSignal
      BY <1>1, <2>3 DEF FirstLock, SecondLock, StopSignal, Settled, JoinInv, atVars, netVars,
                        flagVars, vars
    <2> QED
      BY <2>1, <2>2, <2>3 DEF SleepStep
  <1>3. CallInv'
    BY <1>1 DEF SleepStep, StartNetif, StartFails, InstallHandlers, InitSleepLock,
                FirstLock, SecondLock, StopSignal, CallInv, Outside, atVars, vars
  <1> QED
    BY <1>1, <1>2, <1>3

\* Joins and flags of the shutdown.
LEMMA MainJoinsInv ==
  ASSUME PQInv, EarlyStop = FALSE,
         \/ NetDeinit \/ JoinRx \/ StopPeriodical \/ JoinPeriodical
         \/ StopReader \/ JoinReader
  PROVE  [Next]_vars /\ JoinInv' /\ CallInv'
  <1> USE DEF PQInv, MainGoes, Awake
  <1>1. UNCHANGED <<vars, readerAt, periodicalAt, rxAt>>
    BY DEF NetDeinit, JoinRx, StopPeriodical, JoinPeriodical, StopReader, JoinReader
  <1>2. JoinInv'
    <2>1. CASE NetDeinit \/ JoinRx
      BY <1>1, <2>1 DEF NetDeinit, JoinRx, JoinInv, netVars, flagVars, sigVars, vars
    <2>2. CASE StopPeriodical \/ JoinPeriodical
      BY <1>1, <2>2 DEF StopPeriodical, JoinPeriodical, JoinInv, netVars, flagVars, sigVars, vars
    <2>3. CASE StopReader \/ JoinReader
      BY <1>1, <2>3 DEF StopReader, JoinReader, JoinInv, netVars, flagVars, sigVars, vars
    <2> QED
      BY <2>1, <2>2, <2>3
  <1>3. CallInv'
    BY <1>1 DEF NetDeinit, JoinRx, StopPeriodical, JoinPeriodical, StopReader,
                JoinReader, CallInv, Outside, vars
  <1> QED
    BY <1>1, <1>2, <1>3

\* When main frees the queue the three other threads have ended.
LEMMA MainCallsInv ==
  ASSUME PQInv, WakePush \/ WakePushing \/ FreeQueue
  PROVE  [Next]_vars /\ JoinInv' /\ CallInv'
  <1> USE DEF PQInv, MainGoes, Awake
  <1>0. Main \in Thread /\ Thread \ {Main} = {Reader, Periodical, Rx}
    BY ThreadAssumption
  <1>1. DestroyFree(Main) /\ FreeQueue => DestroyQuiet(Main)
    <2> SUFFICES ASSUME DestroyFree(Main), FreeQueue, mainAt = "freeing"
                 PROVE  Outside(Reader) /\ Outside(Periodical) /\ Outside(Rx)
      BY <1>0 DEF DestroyQuiet, FreeQueue, DestroyFree, DestroyClose
    <2> QED
      BY DEF JoinInv, CallInv
  <1>2. [Next]_vars /\ QueueCall(Main)
    BY <1>0, <1>1 DEF WakePush, WakePushing, FreeQueue, Next, QueueCall, PushAlloc
  <1>3. /\ Outside(Reader)' <=> Outside(Reader)
        /\ Outside(Periodical)' <=> Outside(Periodical)
        /\ Outside(Rx)' <=> Outside(Rx)
    BY <1>0, <1>2, CallMovesOne
  <1>4. mainAt' \notin {"pushing", "freeing"} => Outside(Main)'
    BY <1>0, CallEnds DEF WakePush, WakePushing, FreeQueue, Outside
  <1>5. JoinInv'
    <2>1. CASE WakePush \/ WakePushing
      BY <2>1 DEF WakePush, WakePushing, PushAlloc, AddEnter, AddResume, FreeBlock, JoinInv,
                  netVars, flagVars, sigVars, config
    <2>2. CASE FreeQueue
      BY <2>2 DEF FreeQueue, DestroyClose, DestroyFree, JoinInv, netVars, flagVars, sigVars, config
    <2> QED
      BY <2>1, <2>2
  <1>6. CallInv'
    BY <1>3, <1>4 DEF WakePush, WakePushing, FreeQueue, CallInv
  <1> QED
    BY <1>2, <1>5, <1>6

LEMMA SpuriousInv ==
  ASSUME PQInv, Spurious
  PROVE  [Next]_vars /\ JoinInv' /\ CallInv'
  <1>1. [Next]_vars
    BY DEF Spurious, Next
  <1>2. UNCHANGED <<pc, alive, atVars, netVars, flagVars, sigVars>>
    BY DEF Spurious, SpuriousWakeup, config
  <1> QED
    BY <1>1, <1>2 DEF PQInv, JoinInv, CallInv, Outside, atVars, netVars, flagVars, sigVars

\* Each step is one of MsgQueue's and keeps the invariant.
LEMMA PQStep ==
  ASSUME EarlyStop = FALSE, PQInv, [PQNext]_pqVars
  PROVE  PQInv' /\ [Next]_vars
  <1>1. [Next]_vars /\ JoinInv' /\ CallInv'
    <2>1. CASE PQNext
      BY <2>1, ReaderInv, PeriodicalInv, RxInv, MainSleepsInv, MainJoinsInv, MainCallsInv, SpuriousInv
      DEF PQNext, SleepStep, MainStep
    <2>2. CASE UNCHANGED pqVars
      BY <2>2 DEF PQInv, JoinInv, CallInv, Outside, pqVars, vars, atVars, netVars, flagVars,
                  sigVars
    <2> QED
      BY <2>1, <2>2
  <1> QED
    BY <1>1, TypeStep DEF PQInv

LEMMA PQInitInv == PQInit => PQInv
  <1> SUFFICES ASSUME PQInit PROVE PQInv
    OBVIOUS
  <1>1. TypeOK
    BY TypeInit DEF PQInit
  <1>2. JoinInv
    BY StartAssumption DEF PQInit, Init, JoinInv, Awake
  <1>3. CallInv
    BY ThreadAssumption DEF PQInit, Init, CallInv, Outside
  <1> QED
    BY <1>1, <1>2, <1>3 DEF PQInv

\* Of a program that is not stopped before its interface is ready, every
\* behaviour is one of MsgQueue: nobody is inside push or pop when
\* vs_packets_queue_deinit frees the queue, for any capacity.
THEOREM PQUsesQueueWell == EarlyStop = FALSE => (PQSpec => UsesQueueWell)
  <1> SUFFICES ASSUME EarlyStop = FALSE PROVE PQSpec => UsesQueueWell
    OBVIOUS
  <1>1. PQInit => PQInv /\ Init
    BY PQInitInv DEF PQInit
  <1>2. PQInv /\ [PQNext]_pqVars => PQInv' /\ [Next]_vars
    BY PQStep
  <1> QED
    BY <1>1, <1>2, PTL DEF PQSpec, UsesQueueWell, Spec

\* vs_packets_queue_add is never called with the freed queue.
THEOREM PQContextValid == EarlyStop = FALSE => (PQSpec => []QueueContextValid)
  <1> SUFFICES ASSUME EarlyStop = FALSE PROVE PQSpec => []QueueContextValid
    OBVIOUS
  <1>1. PQInit => PQInv
    BY PQInitInv
  <1>2. PQInv /\ [PQNext]_pqVars => PQInv'
    BY PQStep
  <1>3. PQInv => QueueContextValid
    BY ThreadAssumption
    DEF PQInv, JoinInv, Awake, CallInv, QueueContextValid, QuietWhenFreed
  <1> QED
    BY <1>1, <1>2, <1>3, PTL DEF PQSpec

\* The places of the threads and the flags keep their types.
LEMMA PlacesStep ==
  ASSUME PQTypeOK, TypeOK', [PQNext]_pqVars
  PROVE  PQTypeOK'
  <1> USE DEF PQTypeOK, MainGoes
  <1>1. CASE ReaderStep
    <2>1. readerAt' \in {"loop", "pop", "callback", "done"}
      <3>1. ReaderPop => readerAt' \in {"pop", "callback", "done"}
        BY Zenon DEF ReaderPop
      <3> QED
        BY <1>1, <3>1 DEF ReaderStep, ReaderLoop, ReaderCallback
    <2>2. UNCHANGED <<mainAt, periodicalAt, rxAt, netVars, flagVars, sigVars>>
      BY <1>1 DEF ReaderStep, ReaderLoop, ReaderPop, ReaderCallback
    <2> QED
      BY <2>1, <2>2 DEF netVars, flagVars, sigVars
  <1>2. CASE PeriodicalStep
    BY <1>2 DEF PeriodicalStep, PeriodicalLoop, PeriodicalPush, PeriodicalPushing, netVars,
                flagVars, sigVars
  <1>3. CASE Connected \/ SetReady
    BY <1>3 DEF Connected, SetReady, atVars, flagVars, sigVars
  <1>4. CASE RxPacket \/ RxPushing \/ RxStop
    BY <1>4 DEF RxPacket, RxPushing, RxStop, netVars, flagVars, sigVars
  <1>5. CASE SleepStep \/ StopSignal
    BY <1>5 DEF SleepStep, StartNetif, StartFails, InstallHandlers, InitSleepLock, FirstLock,
                SecondLock, StopSignal, atVars, netVars, flagVars, sigVars
  <1>6. CASE NetDeinit \/ JoinRx \/ StopPeriodical \/ JoinPeriodical
    BY <1>6 DEF NetDeinit, JoinRx, StopPeriodical, JoinPeriodical, netVars, flagVars, sigVars
  <1>7. CASE StopReader \/ WakePush \/ WakePushing \/ JoinReader \/ FreeQueue
    BY <1>7 DEF StopReader, WakePush, WakePushing, JoinReader, FreeQueue, netVars, flagVars,
                sigVars
  <1>8. CASE Spurious
    BY <1>8 DEF Spurious, atVars, netVars, flagVars, sigVars
  <1>9. CASE UNCHANGED pqVars
    BY <1>9 DEF pqVars, atVars, netVars, flagVars, sigVars
  <1> QED
    BY <1>1, <1>2, <1>3, <1>4, <1>5, <1>6, <1>7, <1>8, <1>9 DEF PQNext, SleepStep, MainStep

\* The variables of the composition keep their types.
THEOREM PQTypeCorrect == EarlyStop = FALSE => (PQSpec => []PQTypeOK)
  <1> SUFFICES ASSUME EarlyStop = FALSE PROVE PQSpec => []PQTypeOK
    OBVIOUS
  <1>1. PQInit => PQInv /\ PQTypeOK
    <2> SUFFICES ASSUME PQInit PROVE PQTypeOK
      BY PQInitInv
    <2> QED
      BY PQInitInv, StartAssumption DEF PQInv, PQInit, PQTypeOK
  <1>2. PQInv /\ PQTypeOK /\ [PQNext]_pqVars => PQInv' /\ PQTypeOK'
    <2> SUFFICES ASSUME PQInv, PQTypeOK, [PQNext]_pqVars PROVE PQInv' /\ PQTypeOK'
      OBVIOUS
    <2>1. PQInv'
      BY PQStep
    <2> QED
      BY <2>1, PlacesStep DEF PQInv
  <1> QED
    BY <1>1, <1>2, PTL DEF PQSpec

(***************************************************************************)
(* Where the threads wait                                                  *)
(***************************************************************************)

\* The place of a thread in its loop says where it is in the queue.
CallsMatch ==
  /\ pc[Reader] \in (CASE readerAt = "pop" -> {"idle", "getwait"}
                       [] readerAt = "callback" -> {"got"}
                       [] OTHER -> {"idle"})
  /\ pc[Periodical] \in (IF periodicalAt = "pushing" THEN {"add", "addwait"} ELSE {"idle"})
  /\ pc[Rx] \in (IF rxAt = "pushing" THEN {"add", "addwait"} ELSE {"idle"})
  /\ pc[Main] \in (CASE mainAt = "pushing" -> {"add", "addwait"}
                     [] mainAt = "freeing" -> {"freeing"}
                     [] OTHER -> {"idle"})

\* The queue is open until main closes it to free it.
OpenInv ==
  /\ numAdders = 1 /\ numGetters = 1
  /\ state # "OK" => mainAt \in {"freeing", "exit"}
  /\ alive <=> mainAt # "exit"

\* A flag is set before the join that waits for its thread; a thread that was
\* created ends only after it saw its flag; and after the wake-up message, a
\* reader on its way to a pop finds a message.
StopInv ==
  /\ readerReady => readerAt # "none"
  /\ periodicalReady => periodicalAt # "none"
  /\ readerAt = "done" => stopQueue
  /\ periodicalAt = "done" => stopPeriodical
  /\ stopQueue => mainAt \in {"push", "pushing", "joinReader", "free", "freeing", "exit"}
  /\ stopPeriodical => mainAt \in {"joinPeriodical", "stopReader", "push", "pushing",
                                   "joinReader", "free", "freeing", "exit"}
  /\ mainAt \in {"push", "pushing", "joinReader"} => readerReady /\ stopQueue
  /\ mainAt = "joinPeriodical" => periodicalReady
  /\ mainAt = "joinRx" => ready /\ ~sockOpen
  /\ mainAt = "crashed" => rxAt = "none"
  /\ mainAt = "lock" => ~sleepLock
  /\ mainAt = "joinReader" /\ readerAt = "pop" => n > 0

WaitInv == PQInv /\ PQTypeOK /\ CallsMatch /\ OpenInv /\ StopInv

\* Nobody but main is inside a queue that is closed.
LEMMA OpenInside ==
  ASSUME WaitInv
  PROVE  /\ readerAt \in {"loop", "pop", "callback"} => state = "OK"
         /\ periodicalAt \in {"loop", "push", "pushing"} => state = "OK"
         /\ rxAt \notin {"none", "done"} => state = "OK"
         /\ mainAt = "pushing" => state = "OK"
  BY DEF WaitInv, PQInv, PQTypeOK, JoinInv, Awake, OpenInv

\* A push into an open queue is not refused, a pop from it gives a block or
\* waits; neither closes it.
LEMMA OpenCall ==
  ASSUME TypeOK, NEW t \in Thread, state = "OK", numAdders = 1, numGetters = 1
  PROVE  /\ AddEnter(t) \/ AddResume(t) =>
              /\ (pc'[t] = "idle" /\ n' = n + 1) \/ (pc'[t] = "addwait" /\ n' = n)
              /\ state' = "OK"
         /\ GetEnter(t) \/ GetResume(t) =>
              /\ pc'[t] = "got" \/ (pc'[t] = "getwait" /\ n = 0)
              /\ state' = "OK"
  <1>1. AddEnter(t) \/ AddResume(t) => \E nf, ne : Enqueue(t, nf, ne) \/ AddBlocked(t, nf, ne)
    BY DEF AddEnter, AddResume
  <1>2. GetEnter(t) \/ GetResume(t) => \E nf, ne : Dequeue(t, nf, ne) \/ GetBlocked(t, nf, ne)
    BY DEF GetEnter, GetResume
  <1>3. ASSUME NEW nf, NEW ne, Enqueue(t, nf, ne) \/ AddBlocked(t, nf, ne)
        PROVE  /\ (pc'[t] = "idle" /\ n' = n + 1) \/ (pc'[t] = "addwait" /\ n' = n)
               /\ state' = "OK"
    <2>1. Enqueue(t, nf, ne) => pc'[t] = "idle" /\ n' = n + 1 /\ state' = "OK"
      BY DEF TypeOK, Enqueue
    <2>2. AddBlocked(t, nf, ne) => pc'[t] = "addwait" /\ n' = n /\ state' = "OK"
      BY DEF TypeOK, AddBlocked, ring
    <2> QED
      BY <1>3, <2>1, <2>2
  <1>4. ASSUME NEW nf, NEW ne, Dequeue(t, nf, ne) \/ GetBlocked(t, nf, ne)
        PROVE  /\ pc'[t] = "got" \/ (pc'[t] = "getwait" /\ n = 0)
               /\ state' = "OK"
    BY <1>4 DEF TypeOK, Dequeue, GetBlocked
  <1> QED
    BY <1>1, <1>2, <1>3, <1>4

\* A call moves no other thread.
LEMMA CallMovesCaller ==
  ASSUME TypeOK, NEW t \in Thread, QueueCall(t)
  PROVE  /\ \A u \in Thread \ {t} : pc'[u] = pc[u]
         /\ UNCHANGED <<numAdders, numGetters>>
  BY DEF QueueCall, TypeOK, AddEnter, AddResume, GetEnter, GetResume, FreeBlock,
         PushAlloc, DestroyClose, DestroyFree, Enqueue, AddBlocked, AddRefused, Dequeue,
         GetBlocked, GetRefused, config

\* A step of the reader: a pop of the open queue ends with a block or waits for one.
LEMMA ReaderWaitInv ==
  ASSUME WaitInv, ReaderStep
  PROVE  CallsMatch' /\ OpenInv' /\ StopInv'
  <1> USE DEF WaitInv
  <1>0. /\ Reader \in Thread /\ {Main, Periodical, Rx} \subseteq Thread \ {Reader}
        /\ TypeOK /\ n \in Nat
    BY ThreadAssumption, MemAssumption DEF PQTypeOK, TypeOK
  <1>1. UNCHANGED <<mainAt, periodicalAt, rxAt, connAt, ready, sockOpen, readerReady, periodicalReady,
                    stopQueue, stopPeriodical, sleepLock>>
    BY DEF ReaderStep, ReaderLoop, ReaderPop, ReaderCallback, netVars, flagVars, sigVars
  <1>2. CASE ReaderLoop
    <2>1. UNCHANGED <<pc, n, state, alive, numAdders, numGetters>> /\ readerAt = "loop"
          /\ readerAt' = IF stopQueue THEN "done" ELSE "pop"
      BY <1>2 DEF ReaderLoop, vars
    <2>2. CallsMatch'
      BY <1>1, <2>1 DEF CallsMatch
    <2>3. OpenInv'
      BY <1>1, <2>1 DEF OpenInv
    <2>4. StopInv'
      BY <1>1, <2>1 DEF StopInv
    <2> QED
      BY <2>2, <2>3, <2>4
  <1>3. CASE ReaderPop
    <2>1. state = "OK" /\ numAdders = 1 /\ numGetters = 1 /\ readerAt = "pop"
      BY <1>3, OpenInside DEF ReaderPop, OpenInv
    <2>2. /\ pc'[Reader] = "got" \/ (pc'[Reader] = "getwait" /\ n = 0)
          /\ state' = "OK"
      BY <1>0, <1>3, <2>1, OpenCall DEF ReaderPop
    <2>3. /\ pc'[Main] = pc[Main] /\ pc'[Periodical] = pc[Periodical] /\ pc'[Rx] = pc[Rx]
          /\ numAdders' = 1 /\ numGetters' = 1
      BY <1>0, <1>3, <2>1, CallMovesCaller DEF ReaderPop, QueueCall
    <2>4. alive' = alive
      BY <1>3 DEF ReaderPop, GetEnter, GetResume, config
    <2>5. \/ (pc'[Reader] = "got" /\ readerAt' = "callback")
          \/ (pc'[Reader] = "getwait" /\ readerAt' = "pop" /\ n = 0)
      BY <1>3, <2>2 DEF ReaderPop
    <2>6. CallsMatch'
      BY <1>1, <2>3, <2>5 DEF CallsMatch
    <2>7. OpenInv'
      BY <1>1, <2>2, <2>3, <2>4 DEF OpenInv
    <2>8. StopInv'
      BY <1>0, <1>1, <2>1, <2>5 DEF StopInv
    <2> QED
      BY <2>6, <2>7, <2>8
  <1>4. CASE ReaderCallback
    <2>1. UNCHANGED <<n, state, alive, numAdders, numGetters>> /\ readerAt' = "loop"
          /\ readerAt = "callback"
      BY <1>4 DEF ReaderCallback, FreeBlock, ring, config
    <2>2. /\ pc'[Main] = pc[Main] /\ pc'[Periodical] = pc[Periodical] /\ pc'[Rx] = pc[Rx]
          /\ pc'[Reader] = "idle"
      BY <1>0, <1>4, CallMovesCaller, CallEnds DEF ReaderCallback, QueueCall
    <2>3. CallsMatch'
      BY <1>1, <2>1, <2>2 DEF CallsMatch
    <2>4. OpenInv'
      BY <1>1, <2>1 DEF OpenInv
    <2>5. StopInv'
      BY <1>1, <2>1 DEF StopInv
    <2> QED
      BY <2>3, <2>4, <2>5
  <1> QED
    BY <1>2, <1>3, <1>4 DEF ReaderStep

\* A step of the periodical thread: it is refused nothing while the queue is open.
LEMMA PeriodicalWaitInv ==
  ASSUME WaitInv, PeriodicalStep
  PROVE  CallsMatch' /\ OpenInv' /\ StopInv'
  <1> USE DEF WaitInv
  <1>0. /\ Periodical \in Thread /\ {Main, Reader, Rx} \subseteq Thread \ {Periodical}
        /\ TypeOK /\ n \in Nat
    BY ThreadAssumption, MemAssumption DEF PQTypeOK, TypeOK
  <1>1. UNCHANGED <<mainAt, readerAt, rxAt, connAt, ready, sockOpen, readerReady, periodicalReady,
                    stopQueue, stopPeriodical, sleepLock>>
    BY DEF PeriodicalStep, PeriodicalLoop, PeriodicalPush, PeriodicalPushing, netVars, flagVars,
           sigVars
  <1>2. CASE PeriodicalLoop
    <2>1. /\ UNCHANGED <<pc, n, state, alive, numAdders, numGetters>> /\ periodicalAt = "loop"
          /\ periodicalAt' = IF stopPeriodical THEN "done" ELSE "push"
      BY <1>2 DEF PeriodicalLoop, vars
    <2>2. CallsMatch'
      BY <1>1, <2>1 DEF CallsMatch
    <2>3. OpenInv'
      BY <1>1, <2>1 DEF OpenInv
    <2>4. StopInv'
      BY <1>1, <2>1 DEF StopInv
    <2> QED
      BY <2>2, <2>3, <2>4
  <1>3. CASE PeriodicalPush
    <2>1. /\ UNCHANGED <<n, state, alive, numAdders, numGetters>>
          /\ periodicalAt = "push" /\ periodicalAt' = "pushing" /\ pc'[Periodical] = "add"
      BY <1>0, <1>3 DEF PeriodicalPush, PushAlloc, ring, config, TypeOK
    <2>2. pc'[Main] = pc[Main] /\ pc'[Reader] = pc[Reader] /\ pc'[Rx] = pc[Rx]
      <3>1. QueueCall(Periodical)
        BY <1>3 DEF PeriodicalPush, PushAlloc, QueueCall
      <3> QED
        BY <1>0, <3>1, CallMovesCaller
    <2> QED
      BY <1>1, <2>1, <2>2 DEF CallsMatch, OpenInv, StopInv
  <1>4. CASE PeriodicalPushing
    <2>1. state = "OK" /\ numAdders = 1 /\ numGetters = 1 /\ periodicalAt = "pushing"
      BY <1>4, OpenInside DEF PeriodicalPushing, OpenInv
    <2>2. AddEnter(Periodical) \/ AddResume(Periodical)
      BY <1>4, <2>1 DEF PeriodicalPushing, CallsMatch
    <2>3. /\ (pc'[Periodical] = "idle" /\ n' = n + 1) \/ (pc'[Periodical] = "addwait" /\ n' = n)
          /\ state' = "OK"
      BY <1>0, <2>1, <2>2, OpenCall
    <2>4. /\ pc'[Main] = pc[Main] /\ pc'[Reader] = pc[Reader] /\ pc'[Rx] = pc[Rx]
          /\ numAdders' = 1 /\ numGetters' = 1
      BY <1>0, <2>1, <2>2, CallMovesCaller DEF QueueCall
    <2>5. alive' = alive
      BY <2>2 DEF AddEnter, AddResume, config
    <2>6. periodicalAt' = IF pc'[Periodical] = "idle" THEN "loop" ELSE "pushing"
      BY <1>4, <2>1, <2>2 DEF PeriodicalPushing, AddEnter, AddResume
    <2>7. n > 0 => n' > 0
      BY <1>0, <2>3
    <2> QED
      BY <1>1, <2>1, <2>3, <2>4, <2>5, <2>6, <2>7 DEF CallsMatch, OpenInv, StopInv
  <1> QED
    BY <1>2, <1>3, <1>4 DEF PeriodicalStep

\* A step of the socket's connecting and receiving thread.
LEMMA RxWaitInv ==
  ASSUME WaitInv, Connected \/ SetReady \/ RxPacket \/ RxPushing \/ RxStop
  PROVE  CallsMatch' /\ OpenInv' /\ StopInv'
  <1> USE DEF WaitInv
  <1>0. /\ Rx \in Thread /\ {Main, Reader, Periodical} \subseteq Thread \ {Rx}
        /\ TypeOK /\ n \in Nat
    BY ThreadAssumption, MemAssumption DEF PQTypeOK, TypeOK
  <1>1. UNCHANGED <<mainAt, readerAt, periodicalAt, sockOpen, readerReady, periodicalReady,
                    stopQueue, stopPeriodical, sleepLock>>
    BY DEF Connected, SetReady, RxPacket, RxPushing, RxStop, netVars, flagVars, sigVars, atVars
  <1>2. CASE Connected \/ SetReady \/ RxStop
    <2>1. UNCHANGED <<pc, n, state, alive, numAdders, numGetters>>
      BY <1>2 DEF Connected, SetReady, RxStop, vars
    <2>2. CallsMatch'
      BY <1>1, <1>2, <2>1 DEF CallsMatch, Connected, SetReady, RxStop, PQInv, JoinInv, atVars
    <2>3. OpenInv'
      BY <1>1, <2>1 DEF OpenInv
    <2>4. StopInv'
      BY <1>1, <1>2, <2>1
      DEF StopInv, Connected, SetReady, RxStop, netVars, atVars, PQInv, JoinInv, Awake
    <2> QED
      BY <2>2, <2>3, <2>4
  <1>3. CASE RxPacket
    <2>0. alive
      BY <1>3 DEF RxPacket, PQInv, JoinInv, Awake
    <2>1. /\ UNCHANGED <<n, state, alive, numAdders, numGetters, connAt, ready>>
          /\ rxAt = "recv" /\ rxAt' = "pushing" /\ pc'[Rx] = "add"
      BY <1>0, <1>3, <2>0 DEF RxPacket, PushAlloc, ring, config, netVars, TypeOK
    <2>2. pc'[Main] = pc[Main] /\ pc'[Reader] = pc[Reader] /\ pc'[Periodical] = pc[Periodical]
      <3>1. QueueCall(Rx)
        BY <1>3, <2>0 DEF RxPacket, PushAlloc, QueueCall
      <3> QED
        BY <1>0, <3>1, CallMovesCaller
    <2> QED
      BY <1>1, <2>1, <2>2 DEF CallsMatch, OpenInv, StopInv
  <1>4. CASE RxPushing
    <2>1. state = "OK" /\ numAdders = 1 /\ numGetters = 1 /\ rxAt = "pushing"
      BY <1>4, OpenInside DEF RxPushing, OpenInv
    <2>2. AddEnter(Rx) \/ AddResume(Rx)
      BY <1>4, <2>1 DEF RxPushing, CallsMatch
    <2>3. /\ (pc'[Rx] = "idle" /\ n' = n + 1) \/ (pc'[Rx] = "addwait" /\ n' = n)
          /\ state' = "OK"
      BY <1>0, <2>1, <2>2, OpenCall
    <2>4. /\ pc'[Main] = pc[Main] /\ pc'[Reader] = pc[Reader] /\ pc'[Periodical] = pc[Periodical]
          /\ numAdders' = 1 /\ numGetters' = 1
      BY <1>0, <2>1, <2>2, CallMovesCaller DEF QueueCall
    <2>5. UNCHANGED <<alive, connAt, ready>>
      BY <1>4, <2>2 DEF AddEnter, AddResume, config, RxPushing, netVars
    <2>6. rxAt' = IF pc'[Rx] = "idle" THEN "recv" ELSE "pushing"
      BY <1>4, <2>1, <2>2 DEF RxPushing, AddEnter, AddResume
    <2>7. n > 0 => n' > 0
      BY <1>0, <2>3
    <2> QED
      BY <1>1, <2>1, <2>3, <2>4, <2>5, <2>6, <2>7 DEF CallsMatch, OpenInv, StopInv
  <1> QED
    BY <1>2, <1>3, <1>4

\* main goes to sleep and is woken: no thread is in the way, no flag is set.
LEMMA SleepWaitInv ==
  ASSUME WaitInv, SleepStep \/ StopSignal
  PROVE  CallsMatch' /\ OpenInv' /\ StopInv'
  <1> USE DEF WaitInv, MainGoes
  <1>1. UNCHANGED <<vars, readerAt, periodicalAt, rxAt, ready, sockOpen, flagVars>>
    BY DEF SleepStep, StartNetif, StartFails, InstallHandlers, InitSleepLock, FirstLock,
           SecondLock, StopSignal, atVars, netVars
  <1>2. /\ mainAt \in {"starting", "started", "initLock", "lock", "sleep"}
        /\ mainAt' \in {"started", "initLock", "lock", "sleep", "netDeinit"}
        /\ mainAt' = "lock" => ~sleepLock'
    BY DEF SleepStep, StartNetif, StartFails, InstallHandlers, InitSleepLock, FirstLock,
           SecondLock, StopSignal, atVars, StopInv
  <1>3. CallsMatch'
    BY <1>1, <1>2 DEF CallsMatch, vars
  <1>4. OpenInv'
    BY <1>1, <1>2 DEF OpenInv, vars
  <1>5. StopInv'
    BY <1>1, <1>2 DEF StopInv, vars, flagVars
  <1> QED
    BY <1>3, <1>4, <1>5

\* main sets a flag before each join, and leaves a join when the thread has ended.
LEMMA JoinWaitInv ==
  ASSUME WaitInv,
         \/ NetDeinit \/ JoinRx \/ StopPeriodical \/ JoinPeriodical
         \/ StopReader \/ JoinReader
  PROVE  CallsMatch' /\ OpenInv' /\ StopInv'
  <1> USE DEF WaitInv, MainGoes
  <1>1. UNCHANGED <<vars, readerAt, periodicalAt, rxAt, connAt, ready, sleepLock>>
    BY DEF NetDeinit, JoinRx, StopPeriodical, JoinPeriodical, StopReader, JoinReader, netVars,
           sigVars
  <1>2. /\ mainAt \notin {"pushing", "freeing", "exit"}
        /\ mainAt' \notin {"pushing", "freeing", "exit"}
    BY DEF NetDeinit, JoinRx, StopPeriodical, JoinPeriodical, StopReader, JoinReader
  <1>3. CallsMatch'
    BY <1>1, <1>2 DEF CallsMatch, vars
  <1>4. OpenInv'
    BY <1>1, <1>2 DEF OpenInv, vars
  <1>5. StopInv'
    <2>1. CASE NetDeinit \/ JoinRx
      BY <1>1, <2>1 DEF StopInv, vars, NetDeinit, JoinRx, netVars, flagVars
    <2>2. CASE StopPeriodical \/ JoinPeriodical
      BY <1>1, <2>2 DEF StopInv, vars, StopPeriodical, JoinPeriodical, netVars
    <2>3. CASE StopReader \/ JoinReader
      BY <1>1, <2>3 DEF StopInv, vars, StopReader, JoinReader, netVars
    <2> QED
      BY <2>1, <2>2, <2>3
  <1> QED
    BY <1>3, <1>4, <1>5

\* main's own calls of the queue: the wake-up message, and the closing and freeing.
LEMMA MainCallWaitInv ==
  ASSUME WaitInv, WakePush \/ WakePushing \/ FreeQueue
  PROVE  CallsMatch' /\ OpenInv' /\ StopInv'
  <1> USE DEF WaitInv, MainGoes
  <1>0. /\ Main \in Thread /\ {Reader, Periodical, Rx} \subseteq Thread \ {Main}
        /\ TypeOK /\ n \in Nat
    BY ThreadAssumption, MemAssumption DEF PQTypeOK, TypeOK
  <1>1. UNCHANGED <<readerAt, periodicalAt, rxAt, connAt, ready, sockOpen, readerReady,
                    periodicalReady, stopQueue, stopPeriodical, sleepLock>>
    BY DEF WakePush, WakePushing, FreeQueue, netVars, flagVars, sigVars
  <1>2. QueueCall(Main)
    BY DEF WakePush, WakePushing, FreeQueue, QueueCall, PushAlloc
  <1>3. /\ pc'[Reader] = pc[Reader] /\ pc'[Periodical] = pc[Periodical] /\ pc'[Rx] = pc[Rx]
        /\ UNCHANGED <<numAdders, numGetters>>
    BY <1>0, <1>2, CallMovesCaller
  <1>4. CASE WakePush
    <2>1. /\ UNCHANGED <<n, state, alive>>
          /\ mainAt = "push" /\ mainAt' = "pushing" /\ pc'[Main] = "add"
      BY <1>0, <1>4 DEF WakePush, PushAlloc, ring, config, TypeOK
    <2> QED
      BY <1>1, <1>3, <2>1 DEF CallsMatch, OpenInv, StopInv
  <1>5. CASE WakePushing
    <2>1. state = "OK" /\ numAdders = 1 /\ numGetters = 1 /\ mainAt = "pushing"
      BY <1>5, OpenInside DEF WakePushing, OpenInv
    <2>2. AddEnter(Main) \/ AddResume(Main)
      BY <1>5, <2>1 DEF WakePushing, CallsMatch
    <2>3. /\ (pc'[Main] = "idle" /\ n' = n + 1) \/ (pc'[Main] = "addwait" /\ n' = n)
          /\ state' = "OK"
      BY <1>0, <2>1, <2>2, OpenCall
    <2>4. alive' = alive
      BY <2>2 DEF AddEnter, AddResume, config
    <2>5. mainAt' = IF pc'[Main] = "idle" THEN "joinReader" ELSE "pushing"
      BY <1>5, <2>1, <2>2 DEF WakePushing, AddEnter, AddResume
    <2>6. pc'[Main] = "idle" => n' > 0
      BY <1>0, <2>3
    <2> QED
      BY <1>1, <1>3, <2>1, <2>3, <2>4, <2>5, <2>6 DEF CallsMatch, OpenInv, StopInv
  <1>6. CASE FreeQueue
    <2>1. CASE DestroyClose(Main) /\ mainAt = "free" /\ mainAt' = "freeing"
      <3>1. UNCHANGED <<n, alive>> /\ pc'[Main] = "freeing"
        BY <1>0, <2>1 DEF DestroyClose, ring, config, TypeOK
      <3> QED
        BY <1>1, <1>3, <2>1, <3>1 DEF CallsMatch, OpenInv, StopInv
    <2>2. CASE DestroyFree(Main) /\ mainAt = "freeing" /\ mainAt' = "exit"
      <3>1. UNCHANGED <<n, state>> /\ ~alive' /\ pc'[Main] = "idle"
        BY <1>0, <2>2 DEF DestroyFree, ring, TypeOK
      <3> QED
        BY <1>1, <1>3, <2>2, <3>1 DEF CallsMatch, OpenInv, StopInv
    <2> QED
      BY <1>6, <2>1, <2>2 DEF FreeQueue
  <1> QED
    BY <1>4, <1>5, <1>6

\* The invariant is inductive.
LEMMA WaitInvStep ==
  ASSUME EarlyStop = FALSE, WaitInv, [PQNext]_pqVars
  PROVE  WaitInv'
  <1>1. PQInv' /\ PQTypeOK'
    BY PQStep, PlacesStep DEF WaitInv, PQInv
  <1>2. CASE PQNext /\ ~Spurious
    BY <1>1, <1>2, ReaderWaitInv, PeriodicalWaitInv, RxWaitInv, SleepWaitInv, JoinWaitInv,
       MainCallWaitInv DEF WaitInv, PQNext, SleepStep, MainStep
  <1>3. CASE Spurious \/ UNCHANGED pqVars
    <2>1. UNCHANGED <<pc, n, state, alive, numAdders, numGetters, atVars, netVars, flagVars,
                      sigVars>>
      BY <1>3 DEF Spurious, SpuriousWakeup, ring, config, pqVars, vars
    <2> QED
      BY <1>1, <2>1 DEF WaitInv, CallsMatch, OpenInv, StopInv, atVars, netVars, flagVars, sigVars
  <1> QED
    BY <1>2, <1>3

\* It holds when the threads have been created.
LEMMA WaitInvInit == PQInit => WaitInv
  <1> SUFFICES ASSUME PQInit PROVE WaitInv
    OBVIOUS
  <1>1. PQInv /\ PQTypeOK
    BY PQInitInv, StartAssumption DEF PQInv, PQInit, PQTypeOK
  <1>2. CallsMatch
    BY ThreadAssumption DEF PQInit, Init, CallsMatch
  <1>3. OpenInv
    BY QueueAssumption DEF PQInit, Init, OpenInv
  <1>4. StopInv
    BY DEF PQInit, StopInv
  <1> QED
    BY <1>1, <1>2, <1>3, <1>4 DEF WaitInv

\* It holds of every behaviour that frees the queue last.
LEMMA WaitInvHolds == EarlyStop = FALSE => (PQSpec => []WaitInv)
  <1> SUFFICES ASSUME EarlyStop = FALSE PROVE PQSpec => []WaitInv
    OBVIOUS
  <1>1. WaitInv /\ [PQNext]_pqVars => WaitInv'
    BY WaitInvStep
  <1> QED
    BY <1>1, WaitInvInit, PTL DEF PQSpec

\* When all threads wait, nobody in the queue is awake: a full queue is what
\* the adders wait for, and an empty one what the reader waits for.
LEMMA AllAsleep ==
  ASSUME WaitInv, WakeInv, AllWait
  PROVE  /\ notFull # {} => n = Mem
         /\ notEmpty # {} => n = 0
         /\ Reader \in notEmpty => readerAt = "pop"
         /\ Main \in notFull => mainAt = "pushing"
  <1> USE DEF WaitInv
  <1>1. Thread = {Main, Reader, Periodical, Rx} /\ resets = 0 /\ n \in 0..Mem
    BY ThreadAssumption, QueueAssumption DEF PQTypeOK, TypeOK
  <1>2. \A t \in notFull : pc[t] = "addwait"
    BY DEF WakeInv, SleepersInLoop
  <1>3. \A t \in notEmpty : pc[t] = "getwait"
    BY DEF WakeInv, SleepersInLoop
  <1>4. \A t \in Thread : pc[t] = "addwait" => t \in notFull
    BY <1>1, <1>2 DEF CallsMatch, AllWait, ReaderWaits, PeriodicalWaits, RxWaits, MainWaits
  <1>5. \A t \in Thread : pc[t] = "getwait" => t \in notEmpty
    BY <1>1, <1>3 DEF CallsMatch, AllWait, ReaderWaits, PeriodicalWaits, RxWaits, MainWaits
  <1>6. notFull # {} => n = Mem
    BY <1>1, <1>4, MemAssumption DEF WakeInv, NoStrandedAdder
  <1>7. notEmpty # {} => n = 0
    BY <1>1, <1>5, MemAssumption DEF WakeInv, NoStrandedGetter
  <1>8. Reader \in notEmpty => readerAt = "pop"
    BY <1>3 DEF CallsMatch
  <1>9. Main \in notFull => mainAt = "pushing"
    BY <1>2 DEF CallsMatch
  <1> QED
    BY <1>6, <1>7, <1>8, <1>9

\* Where the threads can all wait at once: the case analysis on what main waits for.
LEMMA WaitInvShows == WaitInv /\ WakeInv => HangsNowhereElse
  <1> SUFFICES ASSUME WaitInv, WakeInv, AllWait
               PROVE  \/ mainAt = "exit" \/ (mainAt = "crashed" /\ rxAt = "none")
                      \/ mainAt = "sleep" /\ (readerAt = "none" \/ (periodicalAt = "none" /\ n = 0))
                      \/ mainAt = "pushing" /\ n = Mem /\ readerAt = "done"
                      \/ mainAt = "joinRx" /\ n = Mem /\ Rx \in notFull /\ readerAt = "none"
                      \/ mainAt = "joinPeriodical" /\ n = Mem /\ Periodical \in notFull /\ readerAt = "none"
    BY DEF HangsNowhereElse
  <1> USE DEF WaitInv
  <1>1. /\ notFull = {} \/ notEmpty = {}
        /\ notFull # {} => n = Mem
        /\ notEmpty # {} => n = 0
        /\ Reader \in notEmpty => readerAt = "pop"
        /\ Main \in notFull => mainAt = "pushing"
    BY AllAsleep, MemAssumption
  <1>2. readerAt \in {"none", "done"} \/ Reader \in notEmpty
    BY DEF AllWait, ReaderWaits
  <1>3. CASE mainAt \in {"lock", "sleep"} /\ sleepLock
    <2>1. mainAt = "sleep" /\ readerAt # "done" /\ periodicalAt # "done"
      BY <1>3 DEF StopInv
    <2>2. Reader \in notEmpty => periodicalAt = "none" /\ n = 0
      BY <1>1, <2>1 DEF AllWait, PeriodicalWaits
    <2> QED
      BY <1>2, <2>1, <2>2
  <1>4. CASE mainAt = "joinRx" /\ rxAt \notin {"none", "done"}
    <2>1. Rx \in notFull
      BY <1>4 DEF AllWait, RxWaits, StopInv, PQInv, JoinInv
    <2> QED
      BY <1>1, <1>2, <1>4, <2>1 DEF StopInv
  <1>5. CASE mainAt = "joinPeriodical" /\ periodicalAt # "done"
    <2>1. Periodical \in notFull
      BY <1>5 DEF AllWait, PeriodicalWaits, StopInv
    <2> QED
      BY <1>1, <1>2, <1>5, <2>1 DEF StopInv
  <1>6. CASE mainAt = "joinReader" /\ readerAt # "done"
    BY <1>1, <1>2, <1>6 DEF StopInv
  <1>7. CASE Main \in notFull
    BY <1>1, <1>2, <1>7 DEF StopInv
  <1>8. CASE mainAt = "crashed"
    BY <1>8 DEF StopInv
  <1> QED
    BY <1>3, <1>4, <1>5, <1>6, <1>7, <1>8 DEF AllWait, MainWaits

\* For any capacity: the threads of the program all wait at once only in the
\* states that HangsNowhereElse names.
THEOREM PQHangsNowhereElse == EarlyStop = FALSE => (PQSpec => []HangsNowhereElse)
  <1> SUFFICES ASSUME EarlyStop = FALSE PROVE PQSpec => []HangsNowhereElse
    OBVIOUS
  <1>1. PQSpec => Spec
    BY PQUsesQueueWell DEF UsesQueueWell
  <1> QED
    BY <1>1, WaitInvHolds, WakeInvHolds, WaitInvShows, PTL

\* When main has ended nobody owns a block, so none is left.
LEMMA WaitInvExits == WaitInv /\ Ownership => CleanExit
  <1> SUFFICES ASSUME WaitInv, Ownership, mainAt = "exit"
               PROVE  /\ ~alive /\ heap = {}
                      /\ rxAt \in {"none", "done"}
                      /\ readerAt \in {"none", "done"} /\ periodicalAt \in {"none", "done"}
    BY DEF CleanExit
  <1> USE DEF WaitInv
  <1>1. ~alive
    BY DEF OpenInv
  <1>2. rxAt \in {"none", "done"} /\ readerAt \in {"none", "done"} /\ periodicalAt \in {"none", "done"}
    BY <1>1 DEF PQInv, JoinInv, Awake
  <1>3. \A t \in Thread : pc[t] = "idle"
    BY <1>2, ThreadAssumption DEF CallsMatch
  <1>4. Owned = {}
    BY <1>3 DEF Ownership, Owned
  <1> QED
    BY <1>1, <1>2, <1>4 DEF Ownership

\* For any capacity, and whatever was queued: when main ends, the queue and
\* every block are freed and nobody is left to use them.
THEOREM PQCleanExit == EarlyStop = FALSE => (PQSpec => []CleanExit)
  <1> SUFFICES ASSUME EarlyStop = FALSE PROVE PQSpec => []CleanExit
    OBVIOUS
  <1>1. PQSpec => Spec
    BY PQUsesQueueWell DEF UsesQueueWell
  <1> QED
    BY <1>1, WaitInvHolds, OwnershipCorrect, WaitInvExits, PTL

\* What is proved of the queue holds of the queue of received packets: nothing
\* is lost or leaked, no wakeup is missed, and it is a bounded FIFO queue.
COROLLARY PQQueueCorrect ==
  EarlyStop = FALSE =>
    (PQSpec => [](RingInv /\ Ownership /\ NoStrandedGetter /\ NoStrandedAdder) /\ ImplementsFifo)
  <1> SUFFICES ASSUME EarlyStop = FALSE
               PROVE  PQSpec => [](RingInv /\ Ownership /\ NoStrandedGetter /\ NoStrandedAdder)
                                /\ ImplementsFifo
    OBVIOUS
  <1>1. PQSpec => Spec
    BY PQUsesQueueWell DEF UsesQueueWell
  <1> QED
    BY <1>1, RingCorrect, OwnershipCorrect, GetterNeverStranded, AdderNeverStranded,
       QueueImplementsFifo, PTL
=============================================================================
