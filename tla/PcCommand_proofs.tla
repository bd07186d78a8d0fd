-------------------------- MODULE PcCommand_proofs --------------------------
(* The commands use KSTimer as it may be used, so what is proved of it      *)
(* holds for them, and their responses are never mixed up.                  *)
EXTENDS PcCommand, KsTimer_proofs

\* A step of the commands is one of the timer and its callers, or none.
LEMMA PcStepTimer == [PcNext]_pcVars => [TimerNext]_timerVars
  BY DEF PcNext, pcVars, CommandCb, CommandAdds, TimerGoes, TimerElapses, CallbackReturns,
         CmdFork, CmdThrows, CmdWaitpid, CmdDrain, CmdAnswer, ChildPrints, ChildExits,
         ChildKilled, ChildEnds, HolderEnds, TimerNext, TimerStep

\* The commands implement KSTimer with a callback that may take any time, or
\* never return: its lock order, its mutual exclusion and the one-shot
\* execution hold for them.
THEOREM PcUsesTimer == PcSpec => TimerSpec
  BY PcStepTimer, PTL DEF PcSpec, PcInit, TimerSpec

\* The callback runs for the stored request, while the thread is in it, and has
\* what it knows from that request's own script.
CallbackInv ==
  /\ cmdAt # "none" => timerAt = "callback" /\ script = m_callback
  /\ cmdAt = "none" => child = "none"
  /\ cmdAt = "wait" => child # "none"
  /\ cmdAt \in {"wait", "drain"} => status0 /\ stdOut = {}
  /\ cmdAt \in {"drain", "answer", "answered"} => child \in Ends
  /\ child \in Ends => ended[script] = child
  /\ cmdAt = "answer" => /\ status0 <=> child \in {"zero", "killed"}
                         /\ stdOut \subseteq {script}
  /\ cmdAt = "answered" => answer[m_callback] # << >>

\* A request has no response before its callback sends it.
UnansweredInv ==
  \A r \in Request :
    answer[r] # << >> => status[r] = "ran" \/ (cmdAt = "answered" /\ r = m_callback)

\* The callback does not end without one.
AnsweredInv == \A r \in Request : status[r] = "ran" => answer[r] # << >>

Response == [ok : BOOLEAN, output : SUBSET Request]

\* The response to r, if there is one, is the only one and tells of r's script.
Rightly(r) ==
  answer[r] # << >> =>
    \E a \in Response : /\ answer[r] = << a >>
                        /\ a.ok <=> ended[r] \in {"zero", "killed"}
                        /\ a.output \subseteq {r}

RightInv == \A r \in Request : Rightly(r)

CmdTypeOK ==
  /\ cmdAt \in {"none", "wait", "drain", "answer", "answered"}
  /\ script \in Request \cup {NoRequest}
  /\ child \in {"none", "running"} \cup Ends
  /\ toPrint \in Nat /\ pipe \in 0..PipeSize
  /\ stdOut \subseteq Request
  /\ answer \in [Request -> Seq(Response)]
  /\ ended \in [Request -> {"none"} \cup Ends]

FlagsOK == held \in BOOLEAN /\ status0 \in BOOLEAN /\ alive \in BOOLEAN

PcInv == TimerInv /\ CmdTypeOK /\ FlagsOK /\ CallbackInv /\ UnansweredInv /\ RightInv
         /\ AnsweredInv

LEMMA PcInitInv == PcInit => PcInv
  <1>1. PcInit => TimerInv
    BY TimerInvInit DEF PcInit
  <1>2. PcInit => FlagsOK
    BY DEF PcInit, FlagsOK
  <1>3. PcInit => CmdTypeOK
    BY OutputAssumption DEF PcInit, CmdTypeOK, Ends
  <1>4. PcInit => CallbackInv /\ UnansweredInv /\ RightInv /\ AnsweredInv
    BY DEF PcInit, TimerInit, CallbackInv, UnansweredInv, RightInv, Rightly, AnsweredInv, Ends
  <1> QED
    BY <1>1, <1>2, <1>3, <1>4 DEF PcInv

\* Where the callback has not sent its response, its request has none.
LEMMA NotYetAnswered ==
  ASSUME PcInv, timerAt = "callback", cmdAt # "answered"
  PROVE  /\ m_callback \in Request /\ status[m_callback] = "accepted"
         /\ answer[m_callback] = << >>
  BY DEF PcInv, TimerInv, RunningInv, RequestInv, UnansweredInv, TimerTypeOK

LEMMA RequestStepInv ==
  ASSUME PcInv, TimerInv', NEW c \in Caller,
         CommandAdds(c) \/ \E r \in Request : CommandCb(c, r)
  PROVE  PcInv'
  <1> USE DEF PcInv
  <1>1. UNCHANGED <<cmdVars, timerAt>>
    BY DEF CommandAdds, CommandCb, AddStep, AddCall, AddLockState, AddBusy, AddFree,
           AddLockChanging, AddSet, AddUnlockChanging, AddUnlockState
  <1>2. CmdTypeOK' /\ FlagsOK' /\ RightInv'
    BY <1>1 DEF CmdTypeOK, FlagsOK, RightInv, Rightly, cmdVars
  <1>3. cmdAt = "none" \/ UNCHANGED m_callback
    <2>1. CASE AddSet(c)
      BY <2>1 DEF CallbackInv, AddSet, CallerMoves, TimerInv, LockInv, TimerTypeOK, RunningInv
    <2> QED
      BY <2>1 DEF CommandAdds, CommandCb, AddStep, AddCall, AddLockState, AddBusy,
                  AddFree, AddLockChanging, AddUnlockChanging, AddUnlockState
  <1>4. CallbackInv'
    BY <1>1, <1>3 DEF CallbackInv, cmdVars
  <1>5. \A r \in Request : status[r] = "ran" <=> status'[r] = "ran"
    <2>1. CASE AddBusy(c) \/ AddSet(c)
      <3>1. asks[c] \in Request /\ status[asks[c]] = "asked"
        BY <2>1 DEF AddBusy, AddSet, CallerMoves, TimerInv, RequestInv
      <3> QED
        BY <2>1, <3>1 DEF AddBusy, AddSet, TimerInv, TimerTypeOK
    <2>2. CASE \E r \in Request : AddCall(c, r)
      BY <2>2 DEF AddCall, TimerInv, TimerTypeOK
    <2>3. CASE UNCHANGED status
      BY <2>3
    <2> QED
      BY <2>1, <2>2, <2>3
      DEF CommandAdds, CommandCb, AddStep, AddLockState, AddFree, AddLockChanging,
          AddUnlockChanging, AddUnlockState
  <1>6. UnansweredInv' /\ AnsweredInv'
    <2>1. UNCHANGED <<answer, cmdAt>>
      BY <1>1 DEF cmdVars
    <2>2. ASSUME NEW r \in Request, answer[r] # << >>
          PROVE  status'[r] = "ran" \/ (cmdAt = "answered" /\ r = m_callback')
      <3>1. status[r] = "ran" \/ (cmdAt = "answered" /\ r = m_callback)
        BY <2>2 DEF UnansweredInv
      <3>2. CASE status[r] = "ran"
        BY <1>5, <3>2
      <3>3. CASE cmdAt = "answered" /\ r = m_callback
        BY <1>3, <3>3
      <3> QED
        BY <3>1, <3>2, <3>3
    <2> QED
      BY <1>5, <2>1, <2>2 DEF UnansweredInv, AnsweredInv
  <1> QED
    BY <1>2, <1>4, <1>6

LEMMA TimerGoesInv ==
  ASSUME PcInv, TimerInv', TimerGoes \/ TimerElapses \/ CallbackReturns
  PROVE  PcInv'
  <1> USE DEF PcInv
  <1>1. CASE TimerGoes \/ TimerElapses
    <2>1. UNCHANGED <<cmdVars, status, m_callback>>
      BY <1>1 DEF TimerGoes, TimerElapses, TimerLock, TimerCheck, TimerLockState,
                  TimerClear, TimerUnlock, Elapse
    <2>2. timerAt = "callback" => timerAt' = "callback"
      BY <1>1 DEF TimerGoes, TimerElapses, TimerLock, TimerCheck, TimerLockState,
                  TimerClear, TimerUnlock, Elapse, TimerMoves
    <2> QED
      BY <2>1, <2>2
      DEF CmdTypeOK, FlagsOK, CallbackInv, UnansweredInv, AnsweredInv, RightInv, Rightly, cmdVars
  <1>2. CASE CallbackReturns
    <2>1. CmdTypeOK' /\ FlagsOK' /\ RightInv'
      BY <1>2 DEF CallbackReturns, CmdTypeOK, FlagsOK, RightInv, Rightly
    <2>2. CallbackInv'
      BY <1>2 DEF CallbackReturns, CallbackInv, Ends
    <2>3. UnansweredInv' /\ AnsweredInv'
      <3>1. status' = [status EXCEPT ![m_callback] = "ran"] /\ cmdAt = "answered"
            /\ UNCHANGED <<answer, m_callback>>
        BY <1>2 DEF CallbackReturns, TimerCallback
      <3> QED
        BY <3>1 DEF UnansweredInv, AnsweredInv, CallbackInv, TimerInv, TimerTypeOK
    <2> QED
      BY <2>1, <2>2, <2>3
  <1> QED
    BY <1>1, <1>2

\* The response is the first to its request and tells of that request's script.
LEMMA CmdAnswerInv ==
  ASSUME PcInv, TimerInv', CmdAnswer
  PROVE  PcInv'
  <1> USE DEF PcInv
  <1> DEFINE a == [ok |-> status0, output |-> stdOut]
  <1>1. UNCHANGED <<timerVars, script, child, toPrint, pipe, held, status0, stdOut, ended,
                    alive>> /\ cmdAt = "answer" /\ cmdAt' = "answered" /\ timerAt = "callback"
    BY DEF CmdAnswer, CmdMoves, CallbackInv
  <1>2. /\ m_callback \in Request /\ answer[m_callback] = << >>
    BY <1>1, NotYetAnswered
  <1>3. a \in Response
    <2>1. status0 \in BOOLEAN
      BY DEF FlagsOK
    <2> QED
      BY <2>1 DEF CmdTypeOK, Response
  <1>4. answer' = [answer EXCEPT ![m_callback] = << a >>]
    <2>1. Append(<< >>, a) = << a >>
      OBVIOUS
    <2> QED
      BY <1>2, <2>1 DEF CmdAnswer
  <1>5. << a >> \in Seq(Response) /\ << a >> # << >>
    BY <1>3
  <1>6. CmdTypeOK'
    BY <1>1, <1>2, <1>4, <1>5 DEF CmdTypeOK
  <1>7. FlagsOK'
    BY <1>1 DEF FlagsOK
  <1>8. CallbackInv'
    BY <1>1, <1>2, <1>4, <1>5 DEF CallbackInv, CmdTypeOK, timerVars
  <1>9. UnansweredInv' /\ AnsweredInv'
    BY <1>1, <1>2, <1>4, <1>5 DEF UnansweredInv, AnsweredInv, CmdTypeOK, timerVars
  <1>10. (a.ok <=> ended[m_callback] \in {"zero", "killed"}) /\ a.output \subseteq {m_callback}
    BY <1>1 DEF CallbackInv
  <1>11. RightInv'
    <2> SUFFICES ASSUME NEW r \in Request PROVE Rightly(r)'
      BY DEF RightInv
    <2>1. CASE r = m_callback
      <3>1. answer'[r] = << a >> /\ ended' = ended
        BY <1>1, <1>2, <1>4, <2>1 DEF CmdTypeOK
      <3> HIDE DEF a
      <3> QED
        BY <1>3, <1>10, <2>1, <3>1 DEF Rightly
    <2>2. CASE r # m_callback
      BY <1>1, <1>4, <2>2 DEF RightInv, Rightly, CmdTypeOK
    <2> QED
      BY <2>1, <2>2
  <1> QED
    BY <1>6, <1>7, <1>8, <1>9, <1>11

\* A script ends while its callback waits for it.
LEMMA ChildEndsInv ==
  ASSUME PcInv, TimerInv', NEW how \in Ends, ChildEnds(how)
  PROVE  PcInv'
  <1> USE DEF PcInv
  <1>1. /\ UNCHANGED <<timerVars, cmdAt, script, toPrint, pipe, status0, stdOut, answer, alive>>
        /\ child = "running" /\ child' = how
        /\ ended' = [ended EXCEPT ![script] = how]
    BY DEF ChildEnds
  <1>2. cmdAt = "wait" /\ script = m_callback /\ timerAt = "callback"
    BY <1>1 DEF CallbackInv, CmdTypeOK, Ends
  <1>3. script \in Request /\ answer[script] = << >>
    BY <1>2, NotYetAnswered
  <1>4. CmdTypeOK'
    BY <1>1, <1>3 DEF CmdTypeOK
  <1>5. FlagsOK'
    <2>1. held' \in BOOLEAN
      <3>1. held \in BOOLEAN /\ Leaves \in BOOLEAN
        BY OutputAssumption DEF FlagsOK
      <3> QED
        BY <3>1 DEF ChildEnds
    <2> QED
      BY <1>1, <2>1 DEF FlagsOK
  <1>6. CallbackInv'
    BY <1>1, <1>2, <1>3 DEF CallbackInv, CmdTypeOK, Ends, timerVars
  <1>7. UnansweredInv' /\ AnsweredInv'
    BY <1>1 DEF UnansweredInv, AnsweredInv, timerVars
  <1>8. RightInv'
    BY <1>1, <1>3 DEF RightInv, Rightly, CmdTypeOK
  <1> QED
    BY <1>4, <1>5, <1>6, <1>7, <1>8

LEMMA CmdStepInv ==
  ASSUME PcInv, TimerInv', CmdFork \/ CmdThrows \/ CmdWaitpid \/ CmdDrain
                           \/ ChildPrints \/ HolderEnds
  PROVE  PcInv'
  <1> USE DEF PcInv
  <1>1. UNCHANGED <<timerVars, answer, ended>>
    BY DEF CmdFork, CmdThrows, CmdWaitpid, CmdDrain, ChildPrints, HolderEnds
  <1>2. FlagsOK'
    <2>1. held' \in BOOLEAN
      <3>1. held \in BOOLEAN /\ Leaves \in BOOLEAN
        BY OutputAssumption DEF FlagsOK
      <3> QED
        BY <3>1 DEF CmdFork, CmdThrows, CmdWaitpid, CmdDrain, ChildPrints, HolderEnds
    <2>2. alive' \in BOOLEAN
      BY DEF FlagsOK, CmdFork, CmdThrows, CmdWaitpid, CmdDrain, ChildPrints, HolderEnds
    <2>3. status0' \in BOOLEAN
      BY DEF FlagsOK, CmdFork, CmdThrows, CmdWaitpid, CmdDrain, ChildPrints, HolderEnds
    <2> QED
      BY <2>1, <2>2, <2>3 DEF FlagsOK
  <1>3. UnansweredInv' /\ AnsweredInv' /\ RightInv'
    BY <1>1 DEF CmdFork, CmdThrows, CmdWaitpid, CmdDrain, ChildPrints, HolderEnds, CmdMoves,
                UnansweredInv, AnsweredInv, RightInv, Rightly, timerVars
  <1>4. CASE CmdFork
    <2>1. m_callback \in Request
      BY <1>4, NotYetAnswered DEF CmdFork, CmdMoves
    <2>2. CmdTypeOK'
      BY <1>1, <1>4, <2>1, OutputAssumption DEF CmdFork, CmdMoves, CmdTypeOK
    <2>3. CallbackInv'
      BY <1>1, <1>4 DEF CmdFork, CmdMoves, CallbackInv, Ends, timerVars
    <2> QED
      BY <1>2, <1>3, <2>2, <2>3
  <1>5. CASE CmdThrows \/ HolderEnds
    BY <1>1, <1>2, <1>3, <1>5 DEF CmdThrows, HolderEnds, CmdTypeOK, CallbackInv, timerVars
  <1>6. CASE CmdWaitpid
    BY <1>1, <1>2, <1>3, <1>6 DEF CmdWaitpid, CmdMoves, CmdTypeOK, CallbackInv, timerVars
  <1>7. CASE CmdDrain
    <2>1. script \in Request /\ child \in Ends /\ stdOut = {} /\ status0 /\ cmdAt = "drain"
      BY <1>7, NotYetAnswered DEF CmdDrain, CmdMoves, CallbackInv
    <2>2. CmdTypeOK'
      BY <1>1, <1>7, <2>1, OutputAssumption DEF CmdDrain, CmdMoves, CmdTypeOK
    <2>3. stdOut' \subseteq {script}
      BY <1>7, <2>1 DEF CmdDrain
    <2>4. status0' <=> child \in {"zero", "killed"}
      BY <1>7, <2>1 DEF CmdDrain, Ends
    <2>5. CallbackInv'
      BY <1>1, <1>7, <2>3, <2>4 DEF CmdDrain, CmdMoves, CallbackInv, timerVars
    <2> QED
      BY <1>2, <1>3, <2>2, <2>5
  <1>8. CASE ChildPrints
    <2>1. CmdTypeOK'
      BY <1>1, <1>8, OutputAssumption DEF ChildPrints, CmdTypeOK
    <2>2. CallbackInv'
      BY <1>1, <1>8 DEF ChildPrints, CallbackInv, timerVars
    <2> QED
      BY <1>2, <1>3, <2>1, <2>2
  <1> QED
    BY <1>4, <1>5, <1>6, <1>7, <1>8

LEMMA PcInvHolds == PcSpec => []PcInv
  <1>1. PcInv /\ TimerInv' /\ [PcNext]_pcVars => PcInv'
    <2> SUFFICES ASSUME PcInv, TimerInv', [PcNext]_pcVars PROVE PcInv'
      OBVIOUS
    <2>1. CASE UNCHANGED pcVars
      BY <2>1 DEF pcVars, timerVars, cmdVars, PcInv, CmdTypeOK, FlagsOK, CallbackInv,
                  UnansweredInv, AnsweredInv, RightInv, Rightly
    <2>2. CASE ChildExits \/ ChildKilled
      BY <2>2, ChildEndsInv DEF ChildExits, ChildKilled, Ends
    <2> QED
      BY <2>1, <2>2, RequestStepInv, TimerGoesInv, CmdStepInv, CmdAnswerInv DEF PcNext
  <1> QED
    BY <1>1, PcInitInv, PcUsesTimer, TimerInvHolds, PTL DEF PcSpec

\* Every variable of PcCommand keeps its type.
THEOREM PcTypeCorrect == PcSpec => []PcTypeOK
  <1>1. CmdTypeOK /\ FlagsOK /\ TimerTypeOK => PcTypeOK
    BY DEF CmdTypeOK, FlagsOK, PcTypeOK, Response
  <1> QED
    BY <1>1, PcInvHolds, PTL DEF PcInv, TimerInv

LEMMA PcInvAnswered == PcInv => AnsweredInTurn
  <1> SUFFICES ASSUME PcInv, NEW r \in Request
      PROVE /\ Len(answer[r]) <= IF status[r] \in {"accepted", "ran"} THEN 1 ELSE 0
            /\ status[r] = "ran" => answer[r] # << >>
            /\ \A i \in DOMAIN answer[r] :
                 /\ answer[r][i].ok <=> ended[r] \in {"zero", "killed"}
                 /\ answer[r][i].output \subseteq {r}
    BY DEF AnsweredInTurn
  <1>1. answer[r] # << >> => status[r] \in {"accepted", "ran"}
    BY NotYetAnswered DEF PcInv, UnansweredInv, CallbackInv, TimerInv, RunningInv, RequestInv
  <1>2. CASE answer[r] = << >>
    <2>1. status[r] # "ran" \/ answer[r] # << >>
      BY DEF PcInv, AnsweredInv
    <2> QED
      BY <1>2, <2>1
  <1>3. CASE answer[r] # << >>
    <2>1. PICK a \in Response : /\ answer[r] = << a >>
                                /\ a.ok <=> ended[r] \in {"zero", "killed"}
                                /\ a.output \subseteq {r}
      BY <1>3 DEF PcInv, RightInv, Rightly
    <2>2. answer[r] = << a >>
      BY <2>1
    <2>3. Len(answer[r]) = 1 /\ DOMAIN answer[r] = {1} /\ answer[r][1] = a
      <3>1. Len(<< a >>) = 1 /\ DOMAIN << a >> = {1} /\ << a >>[1] = a
        OBVIOUS
      <3> QED
        BY <2>2, <3>1, Zenon
    <2>4. Len(answer[r]) <= IF status[r] \in {"accepted", "ran"} THEN 1 ELSE 0
      BY <1>1, <1>3, <2>3
    <2>5. ASSUME NEW i \in DOMAIN answer[r]
          PROVE  /\ answer[r][i].ok <=> ended[r] \in {"zero", "killed"}
                 /\ answer[r][i].output \subseteq {r}
      <3>1. i = 1
        BY <2>3, <2>5
      <3>2. answer[r][i] = a
        BY <2>3, <3>1
      <3> QED
        BY <2>1, <3>2, Zenon
    <2> QED
      BY <1>3, <2>4, <2>5
  <1> QED
    BY <1>2, <1>3

\* For any scripts and callers, each request whose callback ran has exactly one
\* response, which tells how its own script ended, and no other request has any.
THEOREM PcAnsweredInTurn == PcSpec => []AnsweredInTurn
  BY PcInvHolds, PcInvAnswered, PTL

\* No command, however long it takes, makes the packets' thread wait for it.
THEOREM PcBusyAddDoesNotWait == PcSpec => []BusyAddDoesNotWait
  BY PcUsesTimer, TimerBusyAddDoesNotWait, PTL

\* When nobody can go on, the thread is in its callback: a mutex it could wait
\* for has an owner that goes on.
LEMMA PcInvHangs == PcInv => OnlyScriptHangs
  <1> SUFFICES ASSUME PcInv, TimerWaits, \A c \in Caller : CallerWaits(c)
               PROVE  (Blocked \/ KeptOpen) /\ \A c \in Caller : callerAt[c] = "out"
    BY DEF OnlyScriptHangs
  <1> USE OwnerAssumption DEF PcInv, TimerInv, TimerTypeOK, LockInv, RunningInv
  <1>1. timerAt # "sleep"
    <2> SUFFICES ASSUME timerAt = "sleep" PROVE FALSE
      OBVIOUS
    <2>1. m_changingMutex \in Caller
      BY DEF TimerWaits, CallbackInv
    <2> QED
      BY <2>1 DEF CallerWaits
  <1>2. timerAt # "lockState"
    <2> SUFFICES ASSUME timerAt = "lockState" PROVE FALSE
      OBVIOUS
    <2>1. m_stateMutex \in Caller
      BY DEF TimerWaits, CallbackInv
    <2> QED
      BY <2>1 DEF CallerWaits
  <1>3. cmdAt \in {"wait", "drain"} /\ timerAt = "callback"
    BY <1>1, <1>2 DEF TimerWaits, CallbackInv
  <1>4. Blocked \/ KeptOpen
    BY <1>3, OutputAssumption
    DEF TimerWaits, CallbackInv, CmdTypeOK, Blocked, KeptOpen, Ends
  <1>5. \A c \in Caller : callerAt[c] = "out"
    BY <1>3, TimerInvGoesOn DEF AddGoesOn
  <1> QED
    BY <1>4, <1>5

\* For any scripts and any number of callers: no deadlock but that of a script
\* that prints more than the pipe holds or leaves the pipe open behind it, and
\* not even those keep a caller.
THEOREM PcOnlyScriptHangs == PcSpec => []OnlyScriptHangs
  BY PcInvHolds, PcInvHangs, PTL

\* A caller in add() gets out of it whatever the script does.
THEOREM PcAddGoesOn == PcSpec => []AddGoesOn
  BY PcUsesTimer, TimerAddGoesOn, PTL

\* The timer of the commands is right with its real callback: no cycle of the
\* two mutexes, one thread at its members, and each accepted request runs once.
COROLLARY PcTimerCorrect ==
  PcSpec => [](NoLockCycle /\ NoDataRace) /\ ImplementsOneShot
  BY PcUsesTimer, TimerNoLockCycle, TimerNoDataRace, TimerImplementsOneShot, PTL
=============================================================================
