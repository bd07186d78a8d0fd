----------------------------- MODULE EventGroup -----------------------------
(* The event group of common/src/helpers/event-group-bits.c: threads wait   *)
(* for bits, set and clear them. An action is what happens under the mutex, *)
(* except that vs_event_group_set_bits unlocks it before it broadcasts.     *)
(* No program of the repository uses the component: its callers are any     *)
(* threads.                                                                 *)
EXTENDS Naturals

CONSTANTS
  EvThread,     \* the threads
  EvBit,        \* the bits
  EvWait,       \* the parameters of vs_event_group_wait_bits that occur
  EvNothing     \* a thread that waits for nothing

\* bits_to_wait_for, is_wait_for_all, is_clear_on_exit, and: timeout >= 0.
EvWaits == [bits : SUBSET EvBit \ {{}}, all : BOOLEAN, clear : BOOLEAN, timed : BOOLEAN]

ASSUME EvWaitAssumption == EvWait \subseteq EvWaits /\ EvNothing \notin EvWaits

VARIABLES
  evUp,      \* the group was initialised and not destroyed
  evFlags,   \* event_flags
  evAt,      \* "out"; "asleep" in the condition variable; "woken" or "late"
             \* on the way out of it, late with ETIMEDOUT; "broadcast"
  evWant,    \* what the thread waits for
  evStat     \* history: what the last step returned to a waiter

evVars == <<evUp, evFlags, evAt, evWant, evStat>>

EvInit ==
  /\ evUp = FALSE
  /\ evFlags = {}
  /\ evAt = [t \in EvThread |-> "out"]
  /\ evWant = [t \in EvThread |-> EvNothing]
  /\ evStat = {}

\* vs_event_group_init.
EvCreate ==
  /\ ~evUp
  /\ evUp' = TRUE
  /\ evFlags' = {}
  /\ evStat' = {}
  /\ UNCHANGED <<evAt, evWant>>

\* vs_event_group_destroy: only when nobody is inside, as for its condition
\* variable and its mutex.
EvDestroy ==
  /\ evUp
  /\ \A t \in EvThread : evAt[t] = "out"
  /\ evUp' = FALSE
  /\ evStat' = {}
  /\ UNCHANGED <<evFlags, evAt, evWant>>

(***************************************************************************)
(* vs_event_group_wait_bits                                                *)
(***************************************************************************)

\* The bits let a waiter go.
EvMet(w, flags) == IF w.all THEN w.bits \subseteq flags ELSE w.bits \cap flags # {}

\* Mutant of EvReturns: all bits go.
EvReturnsClearingAll(t, w) ==
  /\ evAt' = [evAt EXCEPT ![t] = "out"]
  /\ evWant' = [evWant EXCEPT ![t] = EvNothing]
  /\ evStat' = w.bits \cap evFlags
  /\ evFlags' = IF w.clear THEN {} ELSE evFlags
  /\ UNCHANGED evUp

\* Clear on exit, whether the condition holds or the time is over.
EvReturns(t, w) ==
  /\ evAt' = [evAt EXCEPT ![t] = "out"]
  /\ evWant' = [evWant EXCEPT ![t] = EvNothing]
  /\ evStat' = w.bits \cap evFlags
  /\ evFlags' = IF w.clear THEN evFlags \ w.bits ELSE evFlags
  /\ UNCHANGED evUp

EvSleeps(t, w) ==
  /\ evAt' = [evAt EXCEPT ![t] = "asleep"]
  /\ evWant' = [evWant EXCEPT ![t] = w]
  /\ evStat' = {}
  /\ UNCHANGED <<evUp, evFlags>>

EvWaitBits(t, w) ==
  /\ evUp /\ evAt[t] = "out"
  /\ IF EvMet(w, evFlags) THEN EvReturns(t, w) ELSE EvSleeps(t, w)

\* The thread has the mutex again and looks at the bits.
EvLooks(t) ==
  \/ /\ evAt[t] = "woken"
     /\ IF EvMet(evWant[t], evFlags) THEN EvReturns(t, evWant[t]) ELSE EvSleeps(t, evWant[t])
  \/ /\ evAt[t] = "late"
     /\ EvReturns(t, evWant[t])

\* The time is over; other threads may run before this one has the mutex.
EvTimeout(t) ==
  /\ evAt[t] = "asleep" /\ evWant[t].timed
  /\ evAt' = [evAt EXCEPT ![t] = "late"]
  /\ evStat' = {}
  /\ UNCHANGED <<evUp, evFlags, evWant>>

EvSpurious(t) ==
  /\ evAt[t] = "asleep"
  /\ evAt' = [evAt EXCEPT ![t] = "woken"]
  /\ evStat' = {}
  /\ UNCHANGED <<evUp, evFlags, evWant>>

(***************************************************************************)
(* vs_event_group_clear_bits, vs_event_group_set_bits                      *)
(***************************************************************************)

EvClearBits(t, bits) ==
  /\ evUp /\ evAt[t] = "out"
  /\ evFlags' = evFlags \ bits
  /\ evStat' = {}
  /\ UNCHANGED <<evUp, evAt, evWant>>

\* Mutant of EvSetBits: no broadcast when the bits were already set.
EvSetBitsQuiet(t, bits) ==
  /\ evUp /\ evAt[t] = "out"
  /\ evFlags' = evFlags \cup bits
  /\ evAt' = [evAt EXCEPT ![t] = IF bits \cap evFlags # {} THEN "out" ELSE "broadcast"]
  /\ evStat' = {}
  /\ UNCHANGED <<evUp, evWant>>

EvSetBits(t, bits) ==
  /\ evUp /\ evAt[t] = "out"
  /\ evFlags' = evFlags \cup bits
  /\ evAt' = [evAt EXCEPT ![t] = "broadcast"]
  /\ evStat' = {}
  /\ UNCHANGED <<evUp, evWant>>

\* Mutant of EvBroadcast: pthread_cond_signal, which wakes one thread.
EvBroadcastOne(t) ==
  /\ evAt[t] = "broadcast"
  /\ LET asleep == {u \in EvThread : evAt[u] = "asleep"} IN
       IF asleep = {} THEN evAt' = [evAt EXCEPT ![t] = "out"]
       ELSE \E u \in asleep : evAt' = [evAt EXCEPT ![t] = "out", ![u] = "woken"]
  /\ evStat' = {}
  /\ UNCHANGED <<evUp, evFlags, evWant>>

\* The mutex is free again: other threads may have run since.
EvBroadcast(t) ==
  /\ evAt[t] = "broadcast"
  /\ evAt' = [u \in EvThread |-> IF u = t THEN "out"
                                 ELSE IF evAt[u] = "asleep" THEN "woken" ELSE evAt[u]]
  /\ evStat' = {}
  /\ UNCHANGED <<evUp, evFlags, evWant>>

EvNext ==
  \/ EvCreate \/ EvDestroy
  \/ \E t \in EvThread : \/ EvLooks(t) \/ EvTimeout(t) \/ EvSpurious(t) \/ EvBroadcast(t)
                         \/ \E w \in EvWait : EvWaitBits(t, w)
                         \/ \E bits \in SUBSET EvBit \ {{}} :
                              EvClearBits(t, bits) \/ EvSetBits(t, bits)

EvSpec == EvInit /\ [][EvNext]_evVars

\* A thread that can go on does. Time does not stop, also for a waiter that is
\* woken and falls asleep again: strong fairness of its timeout.
EvFairness ==
  \A t \in EvThread : /\ WF_evVars(EvLooks(t)) /\ WF_evVars(EvBroadcast(t))
                      /\ SF_evVars(EvTimeout(t))

(***************************************************************************)
(* Properties                                                              *)
(***************************************************************************)

EvWaiting(t) == evAt[t] \in {"asleep", "woken", "late"}

EvTypeOK ==
  /\ evUp \in BOOLEAN
  /\ evFlags \subseteq EvBit
  /\ evAt \in [EvThread -> {"out", "asleep", "woken", "late", "broadcast"}]
  /\ evWant \in [EvThread -> EvWaits \cup {EvNothing}]
  /\ \A t \in EvThread : EvWaiting(t) <=> evWant[t] # EvNothing
  /\ evStat \subseteq EvBit

\* No wakeup is lost although the broadcast comes after the unlock: while a
\* thread sleeps whose bits are set, some thread is still to broadcast.
NoMissedBits ==
  \A t \in EvThread : evAt[t] = "asleep" /\ EvMet(evWant[t], evFlags)
                        => \E u \in EvThread : evAt[u] = "broadcast"

\* A bit goes away only when it is cleared, or is returned to the one waiter
\* whose exit clears it, also when that waiter's time is over.
EvTaken == evFlags \ evFlags' \subseteq evStat'
EachBitIsReported ==
  [][evUp => EvTaken \/ \E t \in EvThread, bits \in SUBSET EvBit : EvClearBits(t, bits)]_evVars

\* No thread waits for ever while its bits stay set, and none with a timeout
\* waits for ever.
NoWaitForever ==
  \A t \in EvThread :
    ~ <>[](EvWaiting(t) /\ (EvMet(evWant[t], evFlags) \/ evWant[t].timed))
=============================================================================
