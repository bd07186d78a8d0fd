-------------------------- MODULE EventGroup_proofs --------------------------
(* Proofs about EventGroup, for any number of threads, any bits and any     *)
(* ways to wait for them.                                                   *)
EXTENDS EventGroup, TLAPS

\* Fewer bits let nobody go whom more bits do not.
LEMMA MetMonotone ==
  ASSUME NEW w \in EvWaits, NEW more, NEW less \in SUBSET more, EvMet(w, less)
  PROVE  EvMet(w, more)
BY DEF EvMet, EvWaits

\* A thread that returns keeps the types, and only takes bits away.
LEMMA ReturnsStep ==
  ASSUME EvTypeOK, NEW t \in EvThread, NEW w \in EvWaits, EvReturns(t, w)
  PROVE  EvTypeOK' /\ evFlags' \subseteq evFlags
<1>1. evFlags' \subseteq evFlags
  BY DEF EvReturns
<1>2. \A u \in EvThread : evAt'[u] = (IF u = t THEN "out" ELSE evAt[u])
  BY DEF EvReturns, EvTypeOK
<1>3. \A u \in EvThread : evWant'[u] = (IF u = t THEN EvNothing ELSE evWant[u])
  BY DEF EvReturns, EvTypeOK
<1>4. \A u \in EvThread : (EvWaiting(u) <=> evWant[u] # EvNothing)'
  BY <1>2, <1>3 DEF EvTypeOK, EvWaiting
<1>5. evAt' \in [EvThread -> {"out", "asleep", "woken", "late", "broadcast"}]
  BY DEF EvReturns, EvTypeOK
<1>6. evWant' \in [EvThread -> EvWaits \cup {EvNothing}]
  BY DEF EvReturns, EvTypeOK
<1>7. evUp' \in BOOLEAN /\ evFlags' \subseteq EvBit /\ evStat' \subseteq EvBit
  BY <1>1 DEF EvReturns, EvTypeOK
<1> QED
  BY <1>1, <1>4, <1>5, <1>6, <1>7 DEF EvTypeOK

\* A thread that falls asleep keeps the types.
LEMMA SleepsStep ==
  ASSUME EvTypeOK, NEW t \in EvThread, NEW w \in EvWaits, EvSleeps(t, w)
  PROVE  EvTypeOK'
<1>1. \A u \in EvThread : evAt'[u] = (IF u = t THEN "asleep" ELSE evAt[u])
  BY DEF EvSleeps, EvTypeOK
<1>2. \A u \in EvThread : evWant'[u] = (IF u = t THEN w ELSE evWant[u])
  BY DEF EvSleeps, EvTypeOK
<1>3. w # EvNothing
  BY EvWaitAssumption
<1>4. \A u \in EvThread : (EvWaiting(u) <=> evWant[u] # EvNothing)'
  BY <1>1, <1>2, <1>3 DEF EvTypeOK, EvWaiting
<1>5. evAt' \in [EvThread -> {"out", "asleep", "woken", "late", "broadcast"}]
  BY DEF EvSleeps, EvTypeOK
<1>6. evWant' \in [EvThread -> EvWaits \cup {EvNothing}]
  BY DEF EvSleeps, EvTypeOK
<1> QED
  BY <1>4, <1>5, <1>6 DEF EvSleeps, EvTypeOK

\* Who is woken from a wait wanted something.
LEMMA WaiterWants ==
  ASSUME EvTypeOK, NEW t \in EvThread, EvWaiting(t)
  PROVE  evWant[t] \in EvWaits
BY DEF EvTypeOK

\* Each step returns to a waiter, puts one to sleep, or is one of the others.
LEMMA EvCases ==
  ASSUME EvTypeOK, EvNext
  PROVE  \/ \E t \in EvThread, w \in EvWaits : evAt[t] # "broadcast" /\ EvReturns(t, w)
         \/ \E t \in EvThread, w \in EvWaits :
              evAt[t] # "broadcast" /\ EvSleeps(t, w) /\ ~EvMet(w, evFlags)
         \/ EvCreate \/ EvDestroy
         \/ \E t \in EvThread : EvTimeout(t) \/ EvSpurious(t) \/ EvBroadcast(t)
         \/ \E t \in EvThread, bits \in SUBSET EvBit : EvClearBits(t, bits) \/ EvSetBits(t, bits)
<1>1. ASSUME NEW t \in EvThread, NEW w \in EvWait, EvWaitBits(t, w)
      PROVE  /\ evAt[t] # "broadcast"
             /\ EvReturns(t, w) \/ (EvSleeps(t, w) /\ ~EvMet(w, evFlags))
  BY <1>1 DEF EvWaitBits
<1>2. ASSUME NEW t \in EvThread, EvLooks(t)
      PROVE  /\ evWant[t] \in EvWaits /\ evAt[t] # "broadcast"
             /\ \/ EvReturns(t, evWant[t])
                \/ EvSleeps(t, evWant[t]) /\ ~EvMet(evWant[t], evFlags)
  <2>1. EvWaiting(t)
    BY <1>2 DEF EvLooks, EvWaiting
  <2> QED
    BY <1>2, <2>1, WaiterWants DEF EvLooks
<1>3. EvWait \subseteq EvWaits
  BY EvWaitAssumption
<1> QED
  BY <1>1, <1>2, <1>3 DEF EvNext

\* The steps of the last four kinds keep the types.
LEMMA OtherSteps ==
  ASSUME EvTypeOK,
         \/ EvCreate \/ EvDestroy
         \/ \E t \in EvThread : EvTimeout(t) \/ EvSpurious(t) \/ EvBroadcast(t)
         \/ \E t \in EvThread, bits \in SUBSET EvBit : EvClearBits(t, bits) \/ EvSetBits(t, bits)
  PROVE  EvTypeOK'
<1>1. CASE EvCreate
  BY <1>1 DEF EvCreate, EvTypeOK, EvWaiting
<1>2. CASE EvDestroy
  BY <1>2 DEF EvDestroy, EvTypeOK, EvWaiting
<1>3. ASSUME NEW t \in EvThread, EvTimeout(t) PROVE EvTypeOK'
  BY <1>3 DEF EvTimeout, EvTypeOK, EvWaiting
<1>4. ASSUME NEW t \in EvThread, EvSpurious(t) PROVE EvTypeOK'
  BY <1>4 DEF EvSpurious, EvTypeOK, EvWaiting
<1>5. ASSUME NEW t \in EvThread, EvBroadcast(t) PROVE EvTypeOK'
  BY <1>5 DEF EvBroadcast, EvTypeOK, EvWaiting
<1>6. ASSUME NEW t \in EvThread, NEW bits \in SUBSET EvBit, EvClearBits(t, bits) PROVE EvTypeOK'
  BY <1>6 DEF EvClearBits, EvTypeOK, EvWaiting
<1>7. ASSUME NEW t \in EvThread, NEW bits \in SUBSET EvBit, EvSetBits(t, bits) PROVE EvTypeOK'
  BY <1>7 DEF EvSetBits, EvTypeOK, EvWaiting
<1> QED
  BY <1>1, <1>2, <1>3, <1>4, <1>5, <1>6, <1>7

\* The variables of the event group keep their types; in particular a thread
\* wants bits exactly while it is inside vs_event_group_wait_bits.
THEOREM EvTypeCorrect == EvSpec => []EvTypeOK
<1>1. EvInit => EvTypeOK
  BY DEF EvInit, EvTypeOK, EvWaiting
<1>2. ASSUME EvTypeOK, [EvNext]_evVars PROVE EvTypeOK'
  <2>1. CASE EvNext
    BY <1>2, <2>1, EvCases, ReturnsStep, SleepsStep, OtherSteps
  <2>2. CASE UNCHANGED evVars
    BY <1>2, <2>2 DEF evVars, EvTypeOK, EvWaiting
  <2> QED
    BY <1>2, <2>1, <2>2
<1> QED
  BY <1>1, <1>2, PTL DEF EvSpec

\* When no bit is added, nobody falls asleep and the broadcasters stay, nobody
\* begins to miss a bit.
LEMMA QuietStep ==
  ASSUME EvTypeOK, NoMissedBits, evFlags' \subseteq evFlags,
         \A u \in EvThread : evAt'[u] = "asleep" => evAt[u] = "asleep" /\ evWant'[u] = evWant[u],
         \A u \in EvThread : evAt[u] = "broadcast" => evAt'[u] = "broadcast"
  PROVE  NoMissedBits'
<1> SUFFICES ASSUME NEW t \in EvThread, evAt'[t] = "asleep", EvMet(evWant'[t], evFlags')
             PROVE  \E u \in EvThread : evAt'[u] = "broadcast"
  BY DEF NoMissedBits
<1>1. evAt[t] = "asleep" /\ evWant'[t] = evWant[t]
  OBVIOUS
<1>2. evWant[t] \in EvWaits
  BY <1>1, WaiterWants DEF EvWaiting
<1>3. EvMet(evWant[t], evFlags)
  BY <1>1, <1>2, MetMonotone
<1>4. PICK u \in EvThread : evAt[u] = "broadcast"
  BY <1>1, <1>3 DEF NoMissedBits
<1> QED
  BY <1>4

\* vs_event_group_set_bits broadcasts after it released the mutex, and no
\* wakeup is lost: whoever sleeps although its bits are set is still to be
\* woken by some thread.
THEOREM EvNobodyMissesBits == EvSpec => []NoMissedBits
<1>1. EvInit => NoMissedBits
  BY DEF EvInit, NoMissedBits
<1>2. ASSUME EvTypeOK, NoMissedBits, [EvNext]_evVars PROVE NoMissedBits'
  <2>1. ASSUME NEW t \in EvThread, NEW w \in EvWaits, evAt[t] # "broadcast", EvReturns(t, w)
        PROVE  NoMissedBits'
    BY <1>2, <2>1, QuietStep DEF EvReturns, EvTypeOK
  <2>2. ASSUME NEW t \in EvThread, NEW w \in EvWaits, evAt[t] # "broadcast",
               EvSleeps(t, w), ~EvMet(w, evFlags)
        PROVE  NoMissedBits'
    <3>1. \A u \in EvThread : evAt'[u] = (IF u = t THEN "asleep" ELSE evAt[u])
      BY <1>2, <2>2 DEF EvSleeps, EvTypeOK
    <3>2. \A u \in EvThread : evWant'[u] = (IF u = t THEN w ELSE evWant[u])
      BY <1>2, <2>2 DEF EvSleeps, EvTypeOK
    <3>3. evFlags' = evFlags
      BY <2>2 DEF EvSleeps
    <3>4. ~ (EvMet(evWant[t], evFlags))'
      BY <2>2, <3>2, <3>3
    <3>5. ASSUME NEW u \in EvThread, u # t PROVE EvMet(evWant[u], evFlags)' <=> EvMet(evWant[u], evFlags)
      BY <3>2, <3>3, <3>5
    <3> QED
      BY <1>2, <2>2, <3>1, <3>4, <3>5 DEF NoMissedBits
  <2>3. CASE EvCreate
    BY <1>2, <2>3, QuietStep DEF EvCreate
  <2>4. CASE EvDestroy
    BY <1>2, <2>4, QuietStep DEF EvDestroy
  <2>5. ASSUME NEW t \in EvThread, EvTimeout(t) \/ EvSpurious(t) PROVE NoMissedBits'
    BY <1>2, <2>5, QuietStep DEF EvTimeout, EvSpurious, EvTypeOK
  <2>6. ASSUME NEW t \in EvThread, EvBroadcast(t) PROVE NoMissedBits'
    BY <2>6 DEF EvBroadcast, NoMissedBits
  <2>7. ASSUME NEW t \in EvThread, NEW bits \in SUBSET EvBit, EvClearBits(t, bits)
        PROVE  NoMissedBits'
    BY <1>2, <2>7, QuietStep DEF EvClearBits
  <2>8. ASSUME NEW t \in EvThread, NEW bits \in SUBSET EvBit, EvSetBits(t, bits)
        PROVE  NoMissedBits'
    BY <1>2, <2>8 DEF EvSetBits, EvTypeOK, NoMissedBits
  <2>9. CASE UNCHANGED evVars
    BY <1>2, <2>9, QuietStep DEF evVars
  <2> QED
    BY <1>2, <2>1, <2>2, <2>3, <2>4, <2>5, <2>6, <2>7, <2>8, <2>9, EvCases
<1> QED
  BY <1>1, <1>2, EvTypeCorrect, PTL DEF EvSpec

\* No step but vs_event_group_clear_bits takes a bit away without returning it
\* to a waiter that asked to clear it.
THEOREM EvBitsReported == EvSpec => EachBitIsReported
<1> DEFINE Clears == \E t \in EvThread, bits \in SUBSET EvBit : EvClearBits(t, bits)
<1>1. ASSUME EvTypeOK, [EvNext]_evVars PROVE [evUp => EvTaken \/ Clears]_evVars
  <2>1. ASSUME NEW t \in EvThread, NEW w \in EvWaits, EvReturns(t, w) PROVE EvTaken
    BY <2>1 DEF EvReturns, EvTaken
  <2>2. ASSUME evFlags \subseteq evFlags' PROVE EvTaken
    BY <2>2 DEF EvTaken
  <2>3. ASSUME NEW t \in EvThread, NEW w \in EvWaits, EvSleeps(t, w) PROVE EvTaken
    BY <2>2, <2>3 DEF EvSleeps
  <2>4. ASSUME NEW t \in EvThread, EvTimeout(t) \/ EvSpurious(t) \/ EvBroadcast(t) PROVE EvTaken
    BY <2>2, <2>4 DEF EvTimeout, EvSpurious, EvBroadcast
  <2>5. ASSUME NEW t \in EvThread, NEW bits \in SUBSET EvBit, EvSetBits(t, bits) PROVE EvTaken
    BY <2>2, <2>5 DEF EvSetBits
  <2>6. CASE EvCreate
    BY <2>6 DEF EvCreate
  <2>7. CASE EvDestroy
    BY <2>2, <2>7 DEF EvDestroy
  <2>8. CASE EvNext
    BY <1>1, <2>1, <2>3, <2>4, <2>5, <2>6, <2>7, <2>8, EvCases
  <2> QED
    BY <1>1, <2>8
<1> QED
  BY <1>1, EvTypeCorrect, PTL DEF EvSpec, EachBitIsReported
=============================================================================
