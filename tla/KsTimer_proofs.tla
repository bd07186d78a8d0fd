--------------------------- MODULE KsTimer_proofs ---------------------------
(* KSTimer is free of deadlock and of data races and runs each accepted     *)
(* callback once, for every number of callers.                              *)
EXTENDS KsTimer, TLAPS

\* Who holds which mutex is where each thread is.
LockInv ==
  /\ m_changingMutex = Timer <=> timerAt # "sleep"
  /\ m_stateMutex = Timer <=> timerAt = "clear"
  /\ \A c \in Caller :
       /\ m_stateMutex = c <=>
            callerAt[c] \in {"check", "lockChanging", "set", "return", "unlockState"}
       /\ m_changingMutex = c <=> callerAt[c] \in {"set", "return"}

\* m_running is what keeps the two lock orders apart: past its test in add()
\* it is FALSE, and from the callback on it is TRUE.
RunningInv ==
  /\ timerAt \in {"callback", "lockState", "clear"} => m_running
  /\ \A c \in Caller : callerAt[c] \in {"lockChanging", "set"} => ~m_running

\* Each caller in add() has a request of its own, and the stored one has run
\* or not yet, depending on how far the thread is.
RequestInv ==
  /\ \A c \in Caller :
       /\ callerAt[c] # "out" => asks[c] \in Request /\ status[asks[c]] # "new"
       /\ callerAt[c] \in {"lockState", "check", "lockChanging", "set"} =>
            status[asks[c]] = "asked"
  /\ \A c, d \in Caller : callerAt[c] # "out" /\ callerAt[d] # "out" /\ asks[c] = asks[d]
                            => c = d
  /\ m_running =>
       /\ m_callback \in Request
       /\ status[m_callback] = IF timerAt \in {"lockState", "clear"}
                               THEN "ran" ELSE "accepted"

TimerInv == TimerTypeOK /\ LockInv /\ RunningInv /\ RequestInv

LEMMA TimerInvInit == TimerInit => TimerInv
  BY RequestAssumption, OwnerAssumption
  DEF TimerInit, TimerInv, TimerTypeOK, LockInv, RunningInv, RequestInv

LEMMA TimerStepInv ==
  ASSUME TimerInv, TimerStep \/ Elapse
  PROVE  TimerInv'
  <1> USE RequestAssumption, OwnerAssumption
          DEF TimerInv, TimerTypeOK, LockInv, RunningInv, RequestInv, TimerMoves
  <1>1. CASE TimerLock
    BY <1>1 DEF TimerLock
  <1>2. CASE TimerCheck
    BY <1>2 DEF TimerCheck
  <1>3. CASE TimerCallback
    BY <1>3 DEF TimerCallback
  <1>4. CASE TimerLockState
    BY <1>4 DEF TimerLockState
  <1>5. CASE TimerClear
    <2>1. TimerTypeOK' /\ RunningInv' /\ RequestInv'
      BY <1>5 DEF TimerClear
    <2>2. LockInv'
      BY <1>5 DEF TimerClear
    <2> QED
      BY <2>1, <2>2
  <1>6. CASE TimerUnlock
    BY <1>6 DEF TimerUnlock
  <1>7. CASE Elapse
    BY <1>7 DEF Elapse
  <1> QED
    BY <1>1, <1>2, <1>3, <1>4, <1>5, <1>6, <1>7 DEF TimerStep

LEMMA AddStepInv ==
  ASSUME TimerInv, NEW c \in Caller, AddStep(c)
  PROVE  TimerInv'
  <1> USE RequestAssumption, OwnerAssumption
          DEF TimerInv, TimerTypeOK, LockInv, RunningInv, RequestInv, CallerMoves
  <1>1. CASE AddLockState(c)
    BY <1>1 DEF AddLockState
  <1>2. CASE AddBusy(c)
    BY <1>2 DEF AddBusy
  <1>3. CASE AddFree(c)
    BY <1>3 DEF AddFree
  <1>4. CASE AddLockChanging(c)
    BY <1>4 DEF AddLockChanging
  <1>5. CASE AddSet(c)
    <2>1. asks[c] \in Request /\ timerAt = "sleep"
      BY <1>5 DEF AddSet
    <2>2. TimerTypeOK' /\ LockInv'
      BY <1>5, <2>1 DEF AddSet
    <2>3. RunningInv'
      BY <1>5, <2>1 DEF AddSet
    <2>4. RequestInv'
      BY <1>5, <2>1 DEF AddSet
    <2> QED
      BY <2>2, <2>3, <2>4
  <1>6. CASE AddUnlockChanging(c)
    BY <1>6 DEF AddUnlockChanging
  <1>7. CASE AddUnlockState(c)
    BY <1>7 DEF AddUnlockState
  <1> QED
    BY <1>1, <1>2, <1>3, <1>4, <1>5, <1>6, <1>7 DEF AddStep

LEMMA AddCallInv ==
  ASSUME TimerInv, NEW c \in Caller, NEW r \in Request, AddCall(c, r)
  PROVE  TimerInv'
  <1> USE RequestAssumption, OwnerAssumption
          DEF TimerInv, TimerTypeOK, LockInv, RunningInv, RequestInv, CallerMoves
  <1>1. TimerTypeOK' /\ LockInv' /\ RunningInv'
    BY DEF AddCall
  <1>2. RequestInv'
    BY DEF AddCall
  <1> QED
    BY <1>1, <1>2

LEMMA TimerInvHolds == TimerSpec => []TimerInv
  <1>1. TimerInv /\ [TimerNext]_timerVars => TimerInv'
    <2> SUFFICES ASSUME TimerInv, [TimerNext]_timerVars PROVE TimerInv'
      OBVIOUS
    <2>1. CASE UNCHANGED timerVars
      BY <2>1 DEF timerVars, TimerInv, TimerTypeOK, LockInv, RunningInv, RequestInv
    <2> QED
      BY <2>1, TimerStepInv, AddStepInv, AddCallInv DEF TimerNext
  <1> QED
    BY <1>1, TimerInvInit, PTL DEF TimerSpec

\* Every variable of KSTimer keeps its type.
THEOREM TimerTypeCorrect == TimerSpec => []TimerTypeOK
  BY TimerInvHolds, PTL DEF TimerInv

\* The opposite lock orders of the thread and of add() never deadlock.
THEOREM TimerNoLockCycle == TimerSpec => []NoLockCycle
  <1>1. TimerInv => NoLockCycle
    BY DEF TimerInv, RunningInv, NoLockCycle
  <1> QED
    BY <1>1, TimerInvHolds, PTL

\* A caller that waits for m_stateMutex waits for one past it, which waits for
\* m_changingMutex at most, and then with the thread outside its callback.
LEMMA TimerInvGoesOn == TimerInv => AddGoesOn
  <1> SUFFICES ASSUME TimerInv, NEW c \in Caller, callerAt[c] # "out",
                      \A d \in Caller : CallerWaits(d)
               PROVE  timerAt \in {"check", "clear", "unlock"}
    BY DEF AddGoesOn
  <1> USE OwnerAssumption DEF TimerInv, TimerTypeOK, LockInv, RunningInv
  <1>1. m_stateMutex # Nobody
    BY DEF CallerWaits
  <1>2. CASE m_stateMutex = Timer
    BY <1>2
  <1>3. CASE m_stateMutex \in Caller
    <2>1. PICK d \in Caller : m_stateMutex = d
      BY <1>3
    <2>2. callerAt[d] = "lockChanging" /\ m_changingMutex # Nobody
      BY <2>1 DEF CallerWaits
    <2>3. m_changingMutex = Timer
      BY <2>1, <2>2
    <2> QED
      BY <2>2, <2>3
  <1> QED
    BY <1>1, <1>2, <1>3

\* For any number of callers: add() is never left waiting for a callback, nor
\* for a cycle of locks.
THEOREM TimerAddGoesOn == TimerSpec => []AddGoesOn
  BY TimerInvGoesOn, TimerInvHolds, PTL

\* add() never waits for a running callback.
THEOREM TimerBusyAddDoesNotWait == TimerSpec => []BusyAddDoesNotWait
  <1>1. TimerInv => BusyAddDoesNotWait
    BY DEF TimerInv, RunningInv, BusyAddDoesNotWait
  <1> QED
    BY <1>1, TimerInvHolds, PTL

\* The stored callback, start time and delay are never accessed concurrently.
THEOREM TimerNoDataRace == TimerSpec => []NoDataRace
  <1>1. TimerInv => NoDataRace
    BY OwnerAssumption DEF TimerInv, TimerTypeOK, LockInv, NoDataRace
  <1> QED
    BY <1>1, TimerInvHolds, PTL

LEMMA TimerStepShot ==
  ASSUME TimerInv, TimerStep \/ Elapse
  PROVE  [Shot!OneShotNext]_(Shot!oneShotVars)
  <1> USE DEF Held, TimerMoves
  <1>1. CASE TimerCallback
    <2>1. Shot!Run(m_callback) /\ m_callback \in Request
      BY <1>1 DEF TimerCallback, Shot!Run, TimerInv, RunningInv, RequestInv
    <2> QED
      BY <2>1 DEF Shot!OneShotNext
  <1>2. CASE TimerClear
    <2>1. Shot!Done(m_callback) /\ m_callback \in Request
      BY <1>2 DEF TimerClear, Shot!Done, TimerInv, RunningInv, RequestInv
    <2> QED
      BY <2>1 DEF Shot!OneShotNext
  <1>3. CASE TimerLock \/ TimerCheck \/ TimerLockState \/ TimerUnlock \/ Elapse
    BY <1>3 DEF TimerLock, TimerCheck, TimerLockState, TimerUnlock, Elapse,
                Shot!oneShotVars
  <1> QED
    BY <1>1, <1>2, <1>3 DEF TimerStep

LEMMA AddStepShot ==
  ASSUME TimerInv, NEW c \in Caller, AddStep(c)
  PROVE  [Shot!OneShotNext]_(Shot!oneShotVars)
  <1> USE DEF Held, CallerMoves
  <1>1. CASE AddBusy(c)
    <2>1. Shot!Refuse(asks[c]) /\ asks[c] \in Request
      BY <1>1, RequestAssumption
      DEF AddBusy, Shot!Refuse, TimerInv, TimerTypeOK, RequestInv
    <2> QED
      BY <2>1 DEF Shot!OneShotNext
  <1>2. CASE AddSet(c)
    <2>1. Shot!Accept(asks[c]) /\ asks[c] \in Request
      BY <1>2 DEF AddSet, Shot!Accept, TimerInv, TimerTypeOK, RunningInv, RequestInv
    <2> QED
      BY <2>1 DEF Shot!OneShotNext
  <1>3. CASE \/ AddLockState(c) \/ AddFree(c) \/ AddLockChanging(c)
             \/ AddUnlockChanging(c) \/ AddUnlockState(c)
    BY <1>3 DEF AddLockState, AddFree, AddLockChanging, AddUnlockChanging,
                AddUnlockState, Shot!oneShotVars
  <1> QED
    BY <1>1, <1>2, <1>3 DEF AddStep

\* KSTimer implements the one-shot executor: an accepted callback runs exactly
\* once before another is accepted, and only a busy timer refuses.
THEOREM TimerImplementsOneShot == TimerSpec => ImplementsOneShot
  <1>1. TimerInit => Shot!OneShotInit
    BY DEF TimerInit, Shot!OneShotInit, Held
  <1>2. TimerInv /\ [TimerNext]_timerVars => [Shot!OneShotNext]_(Shot!oneShotVars)
    <2> SUFFICES ASSUME TimerInv, [TimerNext]_timerVars
                 PROVE  [Shot!OneShotNext]_(Shot!oneShotVars)
      OBVIOUS
    <2>1. CASE UNCHANGED timerVars
      BY <2>1 DEF timerVars, Held, Shot!oneShotVars
    <2>2. ASSUME NEW c \in Caller, NEW r \in Request, AddCall(c, r)
          PROVE  [Shot!OneShotNext]_(Shot!oneShotVars)
      BY <2>2 DEF AddCall, Held, Shot!OneShotNext, Shot!Ask
    <2> QED
      BY <2>1, <2>2, TimerStepShot, AddStepShot DEF TimerNext
  <1> QED
    BY <1>1, <1>2, TimerInvHolds, PTL DEF TimerSpec, ImplementsOneShot, Shot!OneShotSpec
=============================================================================
