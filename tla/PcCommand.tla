----------------------------- MODULE PcCommand -----------------------------
(* Running a script on request of a remote device: ks_snap_pc_command_cb of *)
(* security-provisioner/src/commands/pc.cpp and reset.cpp, which the thread *)
(* that processes packets calls, hands a callback to KSTimer; the callback  *)
(* runs the script with Command::execute (common/helpers/command.h) on the  *)
(* timer's thread and sends the response. The step TimerCallback of KsTimer *)
(* is the return of that callback. The child process is the environment; of *)
(* its two pipes, which are treated alike, only standard output is kept.    *)
EXTENDS KsTimer, Sequences

CONSTANTS
  OutputSizes,   \* how much a script may print
  PipeSize,      \* how much a pipe holds
  CallsFail,     \* may pipe(), fork(), write() and read() fail?
  Leaves         \* may other processes be left that hold the pipe open?

ASSUME OutputAssumption == /\ OutputSizes \subseteq Nat /\ PipeSize \in Nat
                           /\ CallsFail \in BOOLEAN /\ Leaves \in BOOLEAN

VARIABLES
  cmdAt,     \* where the callback is, "none" outside
  script,    \* the request whose script was forked last
  child,     \* the script: "none", "running", or how it ended
  toPrint,   \* what the script has still to print
  pipe,      \* what it printed and nobody read
  held,      \* another process holds the write end of the pipe
  status0,   \* ExitStatus is 0
  stdOut,    \* the requests whose scripts printed what is in StdOut
  answer,    \* answer[r]: the responses sent to request r
  ended,     \* ended[r]: how the script of request r ended
  alive      \* the process did not end with an uncaught exception

cmdVars == <<cmdAt, script, child, toPrint, pipe, held, status0, stdOut, answer, ended, alive>>
pcVars  == <<timerVars, cmdVars>>

Ends == {"zero", "other", "killed"}   \* exit status 0, another one, a signal

PcInit ==
  /\ TimerInit
  /\ cmdAt = "none" /\ child = "none" /\ script = NoRequest
  /\ toPrint = 0 /\ pipe = 0 /\ held = FALSE
  /\ status0 = TRUE /\ stdOut = {}
  /\ answer = [r \in Request |-> << >>]
  /\ ended = [r \in Request |-> "none"]
  /\ alive = TRUE

(***************************************************************************)
(* The request and the timer                                               *)
(***************************************************************************)

\* A well-formed request: add() with the callback. Busy or not, the packet
\* itself gets no response.
CommandCb(c, r) == alive /\ AddCall(c, r) /\ UNCHANGED cmdVars
CommandAdds(c)  == alive /\ AddStep(c) /\ UNCHANGED cmdVars

\* The timer thread goes on; from "callback" it does so when that returned.
TimerGoes ==
  /\ alive
  /\ TimerLock \/ TimerCheck \/ TimerLockState \/ TimerClear \/ TimerUnlock
  /\ UNCHANGED cmdVars

TimerElapses == alive /\ Elapse /\ UNCHANGED cmdVars

CallbackReturns ==
  /\ alive /\ cmdAt = "answered"
  /\ TimerCallback
  /\ cmdAt' = "none" /\ child' = "none"
  /\ UNCHANGED <<script, toPrint, pipe, held, status0, stdOut, answer, ended, alive>>

(***************************************************************************)
(* The callback: Command::execute and the response                         *)
(***************************************************************************)

CmdMoves(from, to) == alive /\ cmdAt = from /\ cmdAt' = to

\* Mutant of CmdFork: one Command serves all requests and keeps its fields.
CmdForkStale ==
  /\ timerAt = "callback"
  /\ CmdMoves("none", "wait")
  /\ script' = m_callback /\ child' = "running"
  /\ toPrint' \in OutputSizes
  /\ pipe' = 0 /\ held' \in {FALSE, Leaves}
  /\ UNCHANGED <<timerVars, status0, stdOut, answer, ended, alive>>

\* A fresh Command, its pipe and its script. A process that another timer forks
\* before the parent closes its write end inherits that.
CmdFork ==
  /\ timerAt = "callback"
  /\ CmdMoves("none", "wait")
  /\ script' = m_callback /\ child' = "running"
  /\ toPrint' \in OutputSizes
  /\ pipe' = 0 /\ held' \in {FALSE, Leaves}
  /\ status0' = TRUE /\ stdOut' = {}
  /\ UNCHANGED <<timerVars, answer, ended, alive>>

\* execute throws where pipe(), fork() or write() fails, and append() does for
\* the -1 of a failing read(); nobody catches it on the timer's thread:
\* std::terminate.
CmdThrows ==
  /\ CallsFail
  /\ timerAt = "callback" /\ cmdAt \in {"none", "drain"}
  /\ alive /\ alive' = FALSE
  /\ UNCHANGED <<timerVars, cmdAt, script, child, toPrint, pipe, held, status0, stdOut,
                 answer, ended>>

\* waitpid returns; only then is the output read.
CmdWaitpid ==
  /\ CmdMoves("wait", "drain")
  /\ child \in Ends
  /\ UNCHANGED <<timerVars, script, child, toPrint, pipe, held, status0, stdOut, answer,
                 ended, alive>>

\* The output is read up to the end of file, which comes when no process holds
\* the write end any more. ExitStatus is left alone for a script that was
\* killed.
CmdDrain ==
  /\ CmdMoves("drain", "answer")
  /\ ~held
  /\ pipe' = 0
  /\ stdOut' = IF pipe > 0 THEN stdOut \cup {script} ELSE stdOut
  /\ status0' = IF child = "killed" THEN status0 ELSE child = "zero"
  /\ UNCHANGED <<timerVars, script, child, toPrint, held, answer, ended, alive>>

\* Mutant of CmdAnswer: a script that failed is not answered.
CmdAnswerOnlyOk ==
  /\ CmdMoves("answer", "answered")
  /\ answer' = [answer EXCEPT ![m_callback] =
                  IF status0 THEN Append(@, [ok |-> status0, output |-> stdOut]) ELSE @]
  /\ UNCHANGED <<timerVars, script, child, toPrint, pipe, held, status0, stdOut, ended, alive>>

CmdAnswer ==
  /\ CmdMoves("answer", "answered")
  /\ answer' = [answer EXCEPT ![m_callback] =
                  Append(@, [ok |-> status0, output |-> stdOut])]
  /\ UNCHANGED <<timerVars, script, child, toPrint, pipe, held, status0, stdOut, ended, alive>>

CmdStep == CmdFork \/ CmdThrows \/ CmdWaitpid \/ CmdDrain \/ CmdAnswer

(***************************************************************************)
(* The script                                                              *)
(***************************************************************************)

ChildPrints ==
  /\ child = "running"
  /\ toPrint > 0 /\ pipe < PipeSize
  /\ toPrint' = toPrint - 1
  /\ pipe' = pipe + 1
  /\ UNCHANGED <<timerVars, cmdAt, script, child, held, status0, stdOut, answer, ended, alive>>

\* The script ends and may leave a process of its own in the background.
ChildEnds(how) ==
  /\ child = "running"
  /\ child' = how
  /\ ended' = [ended EXCEPT ![script] = how]
  /\ held' \in {held, held \/ Leaves}
  /\ UNCHANGED <<timerVars, cmdAt, script, toPrint, pipe, status0, stdOut, answer, alive>>

ChildExits  == toPrint = 0 /\ (ChildEnds("zero") \/ ChildEnds("other"))
ChildKilled == ChildEnds("killed")

\* The last other process that holds the write end ends or closes it.
HolderEnds ==
  /\ held
  /\ held' = FALSE
  /\ UNCHANGED <<timerVars, cmdAt, script, child, toPrint, pipe, status0, stdOut, answer,
                 ended, alive>>

PcNext ==
  \/ \E c \in Caller : CommandAdds(c) \/ \E r \in Request : CommandCb(c, r)
  \/ TimerGoes \/ TimerElapses \/ CallbackReturns
  \/ CmdFork \/ CmdThrows \/ CmdWaitpid \/ CmdDrain \/ CmdAnswer
  \/ ChildPrints \/ ChildExits \/ ChildKilled \/ HolderEnds

PcSpec == PcInit /\ [][PcNext]_pcVars

\* The threads run and a script that can go on does; it need not be killed, and
\* a process it leaves need not end.
PcFairSpec ==
  /\ PcSpec
  /\ WF_pcVars(TimerGoes \/ CallbackReturns) /\ WF_pcVars(TimerElapses)
  /\ WF_pcVars(CmdStep) /\ WF_pcVars(ChildPrints \/ ChildExits)
  /\ SF_pcVars(TimerGoes /\ TimerLock) /\ SF_pcVars(TimerGoes /\ TimerLockState)
  /\ \A c \in Caller : /\ WF_pcVars(CommandAdds(c))
                       /\ SF_pcVars(CommandAdds(c) /\ AddLockState(c))
                       /\ SF_pcVars(CommandAdds(c) /\ AddLockChanging(c))

(***************************************************************************)
(* Properties                                                              *)
(***************************************************************************)

PcTypeOK ==
  /\ TimerTypeOK
  /\ cmdAt \in {"none", "wait", "drain", "answer", "answered"}
  /\ script \in Request \cup {NoRequest}
  /\ child \in {"none", "running"} \cup Ends
  /\ toPrint \in Nat /\ pipe \in 0..PipeSize /\ held \in BOOLEAN
  /\ status0 \in BOOLEAN /\ stdOut \subseteq Request
  /\ answer \in [Request -> Seq([ok : BOOLEAN, output : SUBSET Request])]
  /\ ended \in [Request -> {"none"} \cup Ends]
  /\ alive \in BOOLEAN

\* The script waits for a reader of its output, which waits for the script.
Blocked == cmdAt = "wait" /\ child = "running" /\ pipe = PipeSize /\ toPrint > 0

\* The script ended, but the end of its output does not come.
KeptOpen == cmdAt = "drain" /\ held

\* A response belongs to its own request although the timer is reused: each
\* request whose callback ran got exactly one, no request that was not accepted
\* got any, and the response tells how the script of that very request ended,
\* with no output of another. A script that was killed counts as successful.
AnsweredInTurn ==
  \A r \in Request :
    /\ Len(answer[r]) <= IF status[r] \in {"accepted", "ran"} THEN 1 ELSE 0
    /\ status[r] = "ran" => answer[r] # << >>
    /\ \A i \in DOMAIN answer[r] :
         /\ answer[r][i].ok <=> ended[r] \in {"zero", "killed"}
         /\ answer[r][i].output \subseteq {r}

\* The thread of the timer waits: for a mutex, in waitpid for a script that can
\* neither print nor exit, or in read() for the end of file.
TimerWaits == \/ timerAt = "sleep" /\ m_changingMutex # Nobody
              \/ timerAt = "lockState" /\ m_stateMutex # Nobody
              \/ /\ cmdAt = "wait" /\ child \notin Ends
                 /\ ~(child = "running" /\ (toPrint = 0 \/ pipe < PipeSize))
              \/ cmdAt = "drain" /\ held

\* The only deadlocks are those of the script: when no thread can go on, the
\* timer's waits for a script with a full pipe or for what it left in the
\* background, and nobody is kept in add().
OnlyScriptHangs ==
  alive /\ TimerWaits /\ (\A c \in Caller : CallerWaits(c)) =>
    (Blocked \/ KeptOpen) /\ \A c \in Caller : callerAt[c] = "out"

\* The thread that processes packets always returns from add(), also while a
\* script runs, and when it never ends.
ReaderReturns ==
  \A c \in Caller : callerAt[c] # "out" ~> callerAt[c] = "out" \/ ~alive

\* An accepted request is answered, unless its script fills the pipe for ever,
\* a process it left holds the pipe for ever, or a call of execute fails.
AnsweredUnlessBlocked ==
  \A r \in Request :
    status[r] = "accepted" ~> answer[r] # << >> \/ ~alive \/ []Blocked \/ []KeptOpen

\* The response is sent after complete processing: every accepted request
\* is answered at last.
Answered == \A r \in Request : status[r] = "accepted" ~> answer[r] # << >>
=============================================================================
