------------------------------ MODULE KsTimer ------------------------------
(* KSTimer of common/src/helpers/timer.cpp: a detached thread that looks    *)
(* every 100 ms whether a callback is due, and add(), which any thread may  *)
(* call. The thread takes m_changingMutex and then m_stateMutex, add()      *)
(* takes them the other way round. A request stands for one call of add()   *)
(* with its callback; the delay is the step Elapse.                         *)
EXTENDS Naturals, FiniteSets

CONSTANTS
  Caller,      \* threads that call add()
  Request,     \* the calls: each request is used once
  NoRequest,   \* no callback stored
  Timer,       \* the detached thread
  Nobody       \* owner of a free mutex

ASSUME RequestAssumption == NoRequest \notin Request
ASSUME OwnerAssumption == Timer \notin Caller /\ Nobody \notin Caller \cup {Timer}

VARIABLES
  m_running, m_callback,
  m_stateMutex, m_changingMutex,   \* their owners
  elapsed,                         \* now() - m_start > m_delay
  timerAt,                         \* where the detached thread is
  callerAt,                        \* where each caller is in add()
  asks,                            \* the request each caller is adding
  status                           \* what became of each request

timerVars == <<m_running, m_callback, m_stateMutex, m_changingMutex, elapsed,
               timerAt, callerAt, asks, status>>

TimerInit ==
  /\ m_running = FALSE
  /\ m_callback = NoRequest
  /\ m_stateMutex = Nobody /\ m_changingMutex = Nobody
  /\ elapsed = FALSE
  /\ timerAt = "sleep"
  /\ callerAt = [c \in Caller |-> "out"]
  /\ asks = [c \in Caller |-> NoRequest]
  /\ status = [r \in Request |-> "new"]

(***************************************************************************)
(* The thread of the constructor                                           *)
(***************************************************************************)

TimerMoves(from, to) == timerAt = from /\ timerAt' = to

\* sleep_for ended: lock m_changingMutex for the round.
TimerLock ==
  /\ TimerMoves("sleep", "check")
  /\ m_changingMutex = Nobody
  /\ m_changingMutex' = Timer
  /\ UNCHANGED <<m_running, m_callback, m_stateMutex, elapsed, callerAt, asks, status>>

TimerCheck ==
  /\ TimerMoves("check", IF m_running /\ elapsed THEN "callback" ELSE "unlock")
  /\ UNCHANGED <<m_running, m_callback, m_stateMutex, m_changingMutex, elapsed,
                 callerAt, asks, status>>

\* m_callback() returned.
TimerCallback ==
  /\ TimerMoves("callback", "lockState")
  /\ status' = [status EXCEPT ![m_callback] = "ran"]
  /\ UNCHANGED <<m_running, m_callback, m_stateMutex, m_changingMutex, elapsed,
                 callerAt, asks>>

TimerLockState ==
  /\ TimerMoves("lockState", "clear")
  /\ m_stateMutex = Nobody
  /\ m_stateMutex' = Timer
  /\ UNCHANGED <<m_running, m_callback, m_changingMutex, elapsed, callerAt, asks, status>>

TimerClear ==
  /\ TimerMoves("clear", "unlock")
  /\ m_running' = FALSE
  /\ m_stateMutex' = Nobody
  /\ UNCHANGED <<m_callback, m_changingMutex, elapsed, callerAt, asks, status>>

TimerUnlock ==
  /\ TimerMoves("unlock", "sleep")
  /\ m_changingMutex' = Nobody
  /\ UNCHANGED <<m_running, m_callback, m_stateMutex, elapsed, callerAt, asks, status>>

TimerStep == \/ TimerLock \/ TimerCheck \/ TimerCallback
             \/ TimerLockState \/ TimerClear \/ TimerUnlock

\* The delay of the stored callback has passed.
Elapse ==
  /\ m_running /\ ~elapsed
  /\ elapsed' = TRUE
  /\ UNCHANGED <<m_running, m_callback, m_stateMutex, m_changingMutex, timerAt,
                 callerAt, asks, status>>

(***************************************************************************)
(* add()                                                                   *)
(***************************************************************************)

CallerMoves(c, from, to) ==
  callerAt[c] = from /\ callerAt' = [callerAt EXCEPT ![c] = to]

AddCall(c, r) ==
  /\ CallerMoves(c, "out", "lockState")
  /\ status[r] = "new"
  /\ status' = [status EXCEPT ![r] = "asked"]
  /\ asks' = [asks EXCEPT ![c] = r]
  /\ UNCHANGED <<m_running, m_callback, m_stateMutex, m_changingMutex, elapsed, timerAt>>

AddLockState(c) ==
  /\ CallerMoves(c, "lockState", "check")
  /\ m_stateMutex = Nobody
  /\ m_stateMutex' = c
  /\ UNCHANGED <<m_running, m_callback, m_changingMutex, elapsed, timerAt, asks, status>>

\* Mutant of AddBusy: the early return leaves m_stateMutex locked.
AddBusyKeepsLock(c) ==
  /\ CallerMoves(c, "check", "out")
  /\ m_running
  /\ status' = [status EXCEPT ![asks[c]] = "refused"]
  /\ asks' = [asks EXCEPT ![c] = NoRequest]
  /\ UNCHANGED <<m_running, m_callback, m_stateMutex, m_changingMutex, elapsed, timerAt>>

\* Already running: return false.
AddBusy(c) ==
  /\ CallerMoves(c, "check", "out")
  /\ m_running
  /\ m_stateMutex' = Nobody
  /\ status' = [status EXCEPT ![asks[c]] = "refused"]
  /\ asks' = [asks EXCEPT ![c] = NoRequest]
  /\ UNCHANGED <<m_running, m_callback, m_changingMutex, elapsed, timerAt>>

\* Mutant of AddFree: add() does not look at m_running.
AddFreeAnyway(c) ==
  /\ CallerMoves(c, "check", "lockChanging")
  /\ UNCHANGED <<m_running, m_callback, m_stateMutex, m_changingMutex, elapsed,
                 timerAt, asks, status>>

AddFree(c) ==
  /\ CallerMoves(c, "check", "lockChanging")
  /\ ~m_running
  /\ UNCHANGED <<m_running, m_callback, m_stateMutex, m_changingMutex, elapsed,
                 timerAt, asks, status>>

\* Mutant of AddLockChanging: m_changingMutex is not taken.
AddLockChangingNone(c) ==
  /\ CallerMoves(c, "lockChanging", "set")
  /\ UNCHANGED <<m_running, m_callback, m_stateMutex, m_changingMutex, elapsed,
                 timerAt, asks, status>>

AddLockChanging(c) ==
  /\ CallerMoves(c, "lockChanging", "set")
  /\ m_changingMutex = Nobody
  /\ m_changingMutex' = c
  /\ UNCHANGED <<m_running, m_callback, m_stateMutex, elapsed, timerAt, asks, status>>

\* Mutants of AddSet: the callback is not stored; m_running is not set.
AddSetNoCallback(c) ==
  /\ CallerMoves(c, "set", "return")
  /\ elapsed' = FALSE
  /\ m_running' = TRUE
  /\ status' = [status EXCEPT ![asks[c]] = "accepted"]
  /\ UNCHANGED <<m_callback, m_stateMutex, m_changingMutex, timerAt, asks>>

AddSetNotRunning(c) ==
  /\ CallerMoves(c, "set", "return")
  /\ m_callback' = asks[c]
  /\ elapsed' = FALSE
  /\ status' = [status EXCEPT ![asks[c]] = "accepted"]
  /\ UNCHANGED <<m_running, m_stateMutex, m_changingMutex, timerAt, asks>>

\* Store callback, start time and delay, and set m_running.
AddSet(c) ==
  /\ CallerMoves(c, "set", "return")
  /\ m_callback' = asks[c]
  /\ elapsed' = FALSE
  /\ m_running' = TRUE
  /\ status' = [status EXCEPT ![asks[c]] = "accepted"]
  /\ UNCHANGED <<m_stateMutex, m_changingMutex, timerAt, asks>>

\* The two lock_guards end, the later one first; return true.
AddUnlockChanging(c) ==
  /\ CallerMoves(c, "return", "unlockState")
  /\ m_changingMutex' = Nobody
  /\ UNCHANGED <<m_running, m_callback, m_stateMutex, elapsed, timerAt, asks, status>>

AddUnlockState(c) ==
  /\ CallerMoves(c, "unlockState", "out")
  /\ m_stateMutex' = Nobody
  /\ asks' = [asks EXCEPT ![c] = NoRequest]
  /\ UNCHANGED <<m_running, m_callback, m_changingMutex, elapsed, timerAt, status>>

AddStep(c) == \/ AddLockState(c) \/ AddBusy(c) \/ AddFree(c)
              \/ AddLockChanging(c) \/ AddSet(c)
              \/ AddUnlockChanging(c) \/ AddUnlockState(c)

TimerNext == \/ TimerStep \/ Elapse
             \/ \E c \in Caller : AddStep(c) \/ \E r \in Request : AddCall(c, r)

TimerSpec == TimerInit /\ [][TimerNext]_timerVars

(***************************************************************************)
(* Properties                                                              *)
(***************************************************************************)

TimerTypeOK ==
  /\ m_running \in BOOLEAN /\ elapsed \in BOOLEAN
  /\ m_callback \in Request \cup {NoRequest}
  /\ m_running => m_callback \in Request
  /\ m_stateMutex \in Caller \cup {Timer, Nobody}
  /\ m_changingMutex \in Caller \cup {Timer, Nobody}
  /\ timerAt \in {"sleep", "check", "callback", "lockState", "clear", "unlock"}
  /\ callerAt \in [Caller -> {"out", "lockState", "check", "lockChanging", "set",
                             "return", "unlockState"}]
  /\ asks \in [Caller -> Request \cup {NoRequest}]
  /\ status \in [Request -> {"new", "asked", "accepted", "refused", "ran"}]

\* The two mutexes are taken in opposite orders, yet nobody waits in a cycle:
\* when the thread, holding m_changingMutex, wants m_stateMutex, its holder is
\* never waiting for m_changingMutex.
NoLockCycle ==
  ~ \E c \in Caller : /\ timerAt = "lockState"
                      /\ m_stateMutex = c
                      /\ callerAt[c] = "lockChanging"

\* While a callback runs, which can take as long as a script, add() refuses
\* without waiting for it: no caller waits for m_changingMutex.
BusyAddDoesNotWait ==
  timerAt \in {"callback", "lockState"} => \A c \in Caller : callerAt[c] # "lockChanging"

CallerWaits(c) == \/ callerAt[c] = "out"
                  \/ callerAt[c] = "lockState" /\ m_stateMutex # Nobody
                  \/ callerAt[c] = "lockChanging" /\ m_changingMutex # Nobody

\* The packets' thread and the others get out of add() whatever the callback
\* does: while anyone is inside, one of those inside can go on, or the thread
\* is about to unlock what they wait for, with neither a callback nor another
\* lock before that.
AddGoesOn ==
  (\E c \in Caller : callerAt[c] # "out") =>
    (\E d \in Caller : ~CallerWaits(d)) \/ timerAt \in {"check", "clear", "unlock"}

\* m_callback, m_start and m_delay are touched by one thread at a time: a
\* caller stores them only while the thread does not look at them.
NoDataRace ==
  /\ \A c \in Caller : callerAt[c] = "set" => timerAt \in {"sleep"}
  /\ \A c, d \in Caller : callerAt[c] = "set" /\ callerAt[d] \in {"set", "return"} => c = d

Held == IF m_running THEN m_callback ELSE NoRequest
Shot == INSTANCE OneShot WITH current <- Held

\* KSTimer runs every accepted callback exactly once and refuses one only
\* while another is held.
ImplementsOneShot == Shot!OneShotSpec
=============================================================================
