--------------------------- MODULE MsgQueue_proofs ---------------------------
(* Theorems about MsgQueue for every number of threads and blocks and every *)
(* capacity. Each invariant is proved from the ones before it.              *)
EXTENDS MsgQueue, TLAPS

(***************************************************************************)
(* Signals                                                                 *)
(***************************************************************************)

\* pthread_cond_signal only ever removes threads from a wait set.
LEMMA SignalledShrinks ==
  ASSUME NEW W, NEW cnt, NEW V \in SignalFull(cnt, W) \cup SignalEmpty(cnt, W)
  PROVE  V \subseteq W
  BY DEF SignalFull, SignalEmpty, Signalled

\* When it is sent and somebody sleeps, one of the sleepers wakes.
LEMMA SignalledWakes ==
  ASSUME NEW W, W # {}, NEW V \in Signalled(W)
  PROVE  \E t \in W : t \notin V
  BY DEF Signalled

(***************************************************************************)
(* Type correctness                                                        *)
(***************************************************************************)

LEMMA Next1Type == \A i \in Index : Next1(i) \in Index
  BY MemAssumption DEF Index, Next1

\* Adding a block keeps the types: it is done only when a slot is free.
LEMMA EnqueueType ==
  ASSUME TypeOK, NEW t \in Thread,
         NEW nf \in SUBSET Thread, NEW ne \in SUBSET Thread,
         Enqueue(t, nf, ne), UNCHANGED <<heap, config>>
  PROVE  TypeOK'
  <1>1. notFull' \subseteq Thread /\ notEmpty' \subseteq Thread
    BY SignalledShrinks DEF Enqueue
  <1>2. tail' \in Index
    BY Next1Type DEF TypeOK, Enqueue
  <1>3. slot' \in [Index -> Block \cup {NoBlock}]
    BY DEF TypeOK, Enqueue
  <1>4. n' \in 0..Mem
    BY MemAssumption DEF TypeOK, Enqueue
  <1>5. pc' \in [Thread -> PcState] /\ blk' \in [Thread -> Block \cup {NoBlock}]
    BY DEF TypeOK, Enqueue, PcState
  <1> QED
    BY <1>1, <1>2, <1>3, <1>4, <1>5 DEF TypeOK, Enqueue, config

\* So does taking one: it is done only when a block is queued.
LEMMA DequeueType ==
  ASSUME TypeOK, NEW t \in Thread,
         NEW nf \in SUBSET Thread, NEW ne \in SUBSET Thread,
         Dequeue(t, nf, ne), UNCHANGED <<heap, config>>
  PROVE  TypeOK'
  <1>1. notFull' \subseteq Thread /\ notEmpty' \subseteq Thread
    BY SignalledShrinks DEF Dequeue
  <1>2. head' \in Index
    BY Next1Type DEF TypeOK, Dequeue
  <1>3. slot' \in [Index -> Block \cup {NoBlock}]
    BY DEF TypeOK, Dequeue
  <1>4. n' \in 0..Mem
    BY MemAssumption DEF TypeOK, Dequeue
  <1>5. pc' \in [Thread -> PcState] /\ blk' \in [Thread -> Block \cup {NoBlock}]
    BY DEF TypeOK, Dequeue, PcState
  <1> QED
    BY <1>1, <1>2, <1>3, <1>4, <1>5 DEF TypeOK, Dequeue, config

LEMMA BlockedType ==
  ASSUME TypeOK, NEW t \in Thread,
         NEW nf \in SUBSET Thread, NEW ne \in SUBSET Thread,
         AddBlocked(t, nf, ne) \/ GetBlocked(t, nf, ne), UNCHANGED <<heap, config>>
  PROVE  TypeOK'
  <1>1. notFull' \subseteq Thread /\ notEmpty' \subseteq Thread
    BY SignalledShrinks DEF AddBlocked, GetBlocked
  <1>2. pc' \in [Thread -> PcState]
    BY DEF TypeOK, AddBlocked, GetBlocked, PcState
  <1> QED
    BY <1>1, <1>2 DEF TypeOK, AddBlocked, GetBlocked, ring, config

LEMMA RefusedType ==
  ASSUME TypeOK, NEW t \in Thread,
         NEW nf \in SUBSET Thread, NEW ne \in SUBSET Thread,
         AddRefused(t, nf, ne) \/ GetRefused(t, nf, ne), UNCHANGED <<heap, config>>
  PROVE  TypeOK'
  <1>1. notFull' \subseteq Thread /\ notEmpty' \subseteq Thread /\ state' = "EOF"
    BY DEF AddRefused, GetRefused, CloseQueue
  <1>2. pc' \in [Thread -> PcState]
    BY DEF TypeOK, AddRefused, GetRefused, PcState
  <1> QED
    BY <1>1, <1>2 DEF TypeOK, AddRefused, GetRefused, ring, config

\* A critical section of push or pop, as a step of its own: how it begins
\* (with the wait sets nf and ne) does not matter to the invariants below.
Section(t, nf, ne) ==
  \/ /\ pc[t] \in {"add", "addwait"}
     /\ Enqueue(t, nf, ne) \/ AddBlocked(t, nf, ne) \/ AddRefused(t, nf, ne)
  \/ /\ pc[t] \in {"idle", "getwait"}
     /\ Dequeue(t, nf, ne) \/ GetBlocked(t, nf, ne) \/ GetRefused(t, nf, ne)

SectionStep(t) == AddEnter(t) \/ AddResume(t) \/ GetEnter(t) \/ GetResume(t)

LEMMA SectionSubset ==
  ASSUME NEW t \in Thread, SectionStep(t)
  PROVE  /\ UNCHANGED <<heap, config>>
         /\ \E nf \in SUBSET notFull, ne \in SUBSET notEmpty : Section(t, nf, ne)
  <1>1. \A nf \in SignalFull(n, notFull) : nf \in SUBSET notFull
    BY SignalledShrinks
  <1>2. \A ne \in SignalEmpty(n, notEmpty) : ne \in SUBSET notEmpty
    BY SignalledShrinks
  <1> QED
    BY <1>1, <1>2 DEF SectionStep, AddEnter, AddResume, GetEnter, GetResume, Section

LEMMA SectionType ==
  ASSUME TypeOK, NEW t \in Thread,
         NEW nf \in SUBSET notFull, NEW ne \in SUBSET notEmpty,
         Section(t, nf, ne), UNCHANGED <<heap, config>>
  PROVE  TypeOK'
  <1>1. nf \in SUBSET Thread /\ ne \in SUBSET Thread
    BY DEF TypeOK
  <1> QED
    BY <1>1, EnqueueType, DequeueType, BlockedType, RefusedType DEF Section

LEMMA TypeInit == Init => TypeOK
  BY NullAssumption, MemAssumption, CountsAssumption, ResetsAssumption
  DEF Init, TypeOK, Index, PcState

LEMMA TypeStep == TypeOK /\ [Next]_vars => TypeOK'
  <1> SUFFICES ASSUME TypeOK, [Next]_vars PROVE TypeOK'
    OBVIOUS
  <1>1. CASE UNCHANGED vars
    BY <1>1 DEF TypeOK, vars
  <1>2. ASSUME NEW t \in Thread, NEW b \in Block, PushAlloc(t, b) PROVE TypeOK'
    BY <1>2 DEF TypeOK, PushAlloc, PcState, ring, config, waiters
  <1>3. ASSUME NEW t \in Thread, SectionStep(t) PROVE TypeOK'
    BY <1>3, SectionSubset, SectionType
  <1>4. ASSUME NEW t \in Thread, FreeBlock(t) PROVE TypeOK'
    BY <1>4 DEF TypeOK, FreeBlock, PcState, ring, config, waiters
  <1>5. ASSUME NEW t \in Thread, Reset(t) PROVE TypeOK'
    BY <1>5, MemAssumption, ResetsAssumption
    DEF TypeOK, Reset, Index, waiters
  <1>6. ASSUME NEW t \in Thread, DestroyClose(t) PROVE TypeOK'
    BY <1>6 DEF TypeOK, DestroyClose, CloseQueue, PcState, ring, config
  <1>7. ASSUME NEW t \in Thread, DestroyQuiet(t) PROVE TypeOK'
    BY <1>7 DEF TypeOK, DestroyQuiet, DestroyFree, PcState, ring, waiters
  <1>8. ASSUME NEW t \in Thread, SpuriousWakeup(t) PROVE TypeOK'
    BY <1>8 DEF TypeOK, SpuriousWakeup, ring, config
  <1> QED
    BY <1>1, <1>2, <1>3, <1>4, <1>5, <1>6, <1>7, <1>8 DEF Next, SectionStep

\* Every variable keeps its type.
THEOREM TypeCorrect == Spec => []TypeOK
  BY TypeInit, TypeStep, PTL DEF Spec

(***************************************************************************)
(* The ring                                                                *)
(***************************************************************************)

LEMMA EnqueueRing ==
  ASSUME TypeOK, RingInv, NEW t \in Thread, NEW nf, NEW ne,
         Enqueue(t, nf, ne), blk[t] # NoBlock
  PROVE  RingInv' /\ slot[tail] = NoBlock
  <1>1. slot[tail] = NoBlock
    BY MemAssumption DEF TypeOK, RingInv, Index, Age, Enqueue
  <1>2. tail' = IF head' + n' < Mem THEN head' + n' ELSE head' + n' - Mem
    BY MemAssumption DEF TypeOK, RingInv, Index, Next1, Enqueue
  <1>3. ASSUME NEW i \in Index PROVE slot'[i] # NoBlock <=> Age(i)' < n'
    BY <1>3, MemAssumption DEF TypeOK, RingInv, Index, Age, Enqueue
  <1> QED
    BY <1>1, <1>2, <1>3 DEF RingInv, Index

LEMMA DequeueRing ==
  ASSUME TypeOK, RingInv, NEW t \in Thread, NEW nf, NEW ne, Dequeue(t, nf, ne)
  PROVE  RingInv' /\ slot[head] # NoBlock
  <1>1. slot[head] # NoBlock
    BY MemAssumption DEF TypeOK, RingInv, Index, Age, Dequeue
  <1>2. tail' = IF head' + n' < Mem THEN head' + n' ELSE head' + n' - Mem
    BY MemAssumption DEF TypeOK, RingInv, Index, Next1, Dequeue
  <1>3. ASSUME NEW i \in Index PROVE slot'[i] # NoBlock <=> Age(i)' < n'
    BY <1>3, MemAssumption DEF TypeOK, RingInv, Index, Age, Next1, Dequeue
  <1> QED
    BY <1>1, <1>2, <1>3 DEF RingInv, Index

LEMMA SectionRing ==
  ASSUME TypeOK, RingInv, NEW t \in Thread, NEW nf, NEW ne,
         Section(t, nf, ne), pc[t] \in {"add", "addwait"} => blk[t] # NoBlock
  PROVE  RingInv'
  <1>1. CASE UNCHANGED ring
    BY <1>1 DEF RingInv, Index, Age, ring
  <1> QED
    BY <1>1, EnqueueRing, DequeueRing
    DEF Section, AddBlocked, GetBlocked, AddRefused, GetRefused

(***************************************************************************)
(* Ownership of the blocks                                                 *)
(***************************************************************************)

\* The ring and the owners of blocks are inductive only together: that a
\* slot holds a block rests on the adder having one, and that a block has
\* one owner rests on the add having found its slot empty.
MemInv == TypeOK /\ RingInv /\ Ownership /\ QuietWhenFreed

LEMMA EnqueueOwnership ==
  ASSUME MemInv, alive, NEW t \in Thread, NEW nf, NEW ne,
         pc[t] \in {"add", "addwait"}, Enqueue(t, nf, ne),
         UNCHANGED <<heap, config>>
  PROVE  Ownership'
  <1> DEFINE b == blk[t]
  <1>1. b # NoBlock /\ slot[tail] = NoBlock /\ tail \in Index /\ alive'
    BY EnqueueRing DEF MemInv, Ownership, TypeOK, config
  <1>2. blk' = [blk EXCEPT ![t] = NoBlock] /\ slot' = [slot EXCEPT ![tail] = b]
    BY DEF Enqueue
  <1>3. Queued' = Queued \cup {b}
    BY <1>1, <1>2 DEF Queued, MemInv, TypeOK, Index
  <1>4. Owned' = Owned \ {b}
    BY <1>1, <1>2 DEF Owned, MemInv, Ownership, TypeOK
  <1>5. b \in Owned /\ b \notin Queued
    BY <1>1 DEF Owned, Queued, MemInv, Ownership, TypeOK
  <1>6. heap' = Queued' \cup Owned' /\ Queued' \cap Owned' = {}
    BY <1>1, <1>3, <1>4, <1>5 DEF MemInv, Ownership
  <1>7. \A u, v \in Thread : blk'[u] = blk'[v] /\ blk'[u] # NoBlock => u = v
    BY <1>2 DEF MemInv, Ownership, TypeOK
  <1>8. \A u \in Thread :
          blk'[u] # NoBlock <=> pc'[u] \in {"add", "addwait", "refused", "got"}
    BY <1>2 DEF MemInv, Ownership, TypeOK, Enqueue
  <1>9. \A i, j \in Index : slot'[i] = slot'[j] /\ slot'[i] # NoBlock => i = j
    BY <1>1, <1>2, <1>5 DEF Queued, MemInv, Ownership, TypeOK
  <1> QED
    BY <1>1, <1>6, <1>7, <1>8, <1>9 DEF Ownership, Index

LEMMA DequeueOwnership ==
  ASSUME MemInv, alive, NEW t \in Thread, NEW nf, NEW ne,
         pc[t] \in {"idle", "getwait"}, Dequeue(t, nf, ne),
         UNCHANGED <<heap, config>>
  PROVE  Ownership'
  <1> DEFINE b == slot[head]
  <1>1. b # NoBlock /\ blk[t] = NoBlock /\ head \in Index /\ alive'
    BY DequeueRing DEF MemInv, Ownership, TypeOK, config
  <1>2. blk' = [blk EXCEPT ![t] = b] /\ slot' = [slot EXCEPT ![head] = NoBlock]
    BY DEF Dequeue
  <1>3. Queued' = Queued \ {b}
    BY <1>1, <1>2 DEF Queued, MemInv, Ownership, TypeOK, Index
  <1>4. Owned' = Owned \cup {b}
    BY <1>1, <1>2 DEF Owned, MemInv, TypeOK
  <1>5. b \in Queued /\ b \notin Owned
    BY <1>1 DEF Queued, MemInv, Ownership, TypeOK
  <1>6. heap' = Queued' \cup Owned' /\ Queued' \cap Owned' = {}
    BY <1>1, <1>3, <1>4, <1>5 DEF MemInv, Ownership
  <1>7. \A u, v \in Thread : blk'[u] = blk'[v] /\ blk'[u] # NoBlock => u = v
    BY <1>1, <1>2, <1>5 DEF Owned, MemInv, Ownership, TypeOK
  <1>8. \A u \in Thread :
          blk'[u] # NoBlock <=> pc'[u] \in {"add", "addwait", "refused", "got"}
    BY <1>1, <1>2 DEF MemInv, Ownership, TypeOK, Dequeue
  <1>9. \A i, j \in Index : slot'[i] = slot'[j] /\ slot'[i] # NoBlock => i = j
    BY <1>1, <1>2 DEF MemInv, Ownership, TypeOK
  <1> QED
    BY <1>1, <1>6, <1>7, <1>8, <1>9 DEF Ownership, Index

\* The sections that leave the ring alone change no owner either.
LEMMA IdleSectionOwnership ==
  ASSUME MemInv, NEW t \in Thread,
         UNCHANGED <<ring, blk, heap, config>>,
         NEW q, pc' = [pc EXCEPT ![t] = q],
         \/ pc[t] \in {"add", "addwait"} /\ q \in {"addwait", "refused"}
         \/ pc[t] \in {"idle", "getwait"} /\ q \in {"idle", "getwait"}
  PROVE  Ownership'
  <1>1. \A u \in Thread :
          blk'[u] # NoBlock <=> pc'[u] \in {"add", "addwait", "refused", "got"}
    BY DEF MemInv, Ownership, TypeOK
  <1> QED
    BY <1>1 DEF MemInv, Ownership, ring, config, Queued, Owned, Index

LEMMA SectionOwnership ==
  ASSUME MemInv, alive, NEW t \in Thread, NEW nf, NEW ne,
         Section(t, nf, ne), UNCHANGED <<heap, config>>
  PROVE  Ownership'
  <1>1. CASE /\ pc[t] \in {"add", "addwait"}
             /\ AddBlocked(t, nf, ne) \/ AddRefused(t, nf, ne)
    <2>1. PICK q \in {"addwait", "refused"} : pc' = [pc EXCEPT ![t] = q]
      BY <1>1 DEF AddBlocked, AddRefused
    <2>2. UNCHANGED <<ring, blk>>
      BY <1>1 DEF AddBlocked, AddRefused
    <2> QED
      BY <1>1, <2>1, <2>2, IdleSectionOwnership
  <1>2. CASE pc[t] \in {"idle", "getwait"} /\ GetBlocked(t, nf, ne)
    <2>1. PICK q \in {"idle", "getwait"} : pc' = [pc EXCEPT ![t] = q]
      BY <1>2 DEF GetBlocked
    <2>2. UNCHANGED <<ring, blk>>
      BY <1>2 DEF GetBlocked
    <2> QED
      BY <1>2, <2>1, <2>2, IdleSectionOwnership
  <1>3. CASE GetRefused(t, nf, ne)
    BY <1>3 DEF GetRefused, MemInv, Ownership, ring, config, Queued, Owned, Index
  <1> QED
    BY <1>1, <1>2, <1>3, EnqueueOwnership, DequeueOwnership DEF Section

LEMMA MemInvStep == MemInv /\ [Next]_vars => MemInv'
  <1> SUFFICES ASSUME MemInv, [Next]_vars, TypeOK' PROVE MemInv'
    BY TypeStep DEF MemInv
  <1>1. CASE UNCHANGED vars
    BY <1>1 DEF MemInv, RingInv, Ownership, QuietWhenFreed, vars, Age, Index,
                Queued, Owned, Outside
  <1>2. ASSUME NEW t \in Thread, NEW b \in Block, PushAlloc(t, b) PROVE MemInv'
    <2>1. RingInv'
      BY <1>2 DEF PushAlloc, MemInv, RingInv, Age, Index, ring
    <2>2. Queued' = Queued /\ Owned' = Owned \cup {b} /\ blk[t] = NoBlock
      BY <1>2, NullAssumption
      DEF PushAlloc, MemInv, TypeOK, Ownership, Queued, Owned, Index, ring
    <2>3. \A u \in Thread : u # t => blk'[u] = blk[u] /\ pc'[u] = pc[u] /\ blk[u] # b
      BY <1>2, NullAssumption DEF PushAlloc, MemInv, TypeOK, Ownership, Owned
    <2>4. b \notin Queued /\ b \notin Owned /\ blk'[t] = b /\ pc'[t] = "add"
      BY <1>2 DEF PushAlloc, MemInv, TypeOK, Ownership
    <2>5. Ownership'
      BY <1>2, <2>2, <2>3, <2>4, NullAssumption
      DEF PushAlloc, MemInv, TypeOK, Ownership, ring, config, Index
    <2>6. QuietWhenFreed'
      BY <1>2 DEF PushAlloc, QuietWhenFreed, config
    <2> QED
      BY <2>1, <2>5, <2>6 DEF MemInv
  <1>3. ASSUME NEW t \in Thread, SectionStep(t) PROVE MemInv'
    <2>1. UNCHANGED <<heap, config>>
      BY <1>3, SectionSubset
    <2>2. PICK nf \in SUBSET notFull, ne \in SUBSET notEmpty : Section(t, nf, ne)
      BY <1>3, SectionSubset
    <2>3. alive
      BY <1>3 DEF SectionStep, AddEnter, AddResume, GetEnter, GetResume, MemInv,
                  QuietWhenFreed, Outside
    <2>4. RingInv'
      BY <2>2, SectionRing DEF MemInv, Ownership
    <2>5. Ownership'
      BY <2>1, <2>2, <2>3, SectionOwnership
    <2>6. QuietWhenFreed'
      BY <2>1, <2>3 DEF QuietWhenFreed, config
    <2> QED
      BY <2>4, <2>5, <2>6 DEF MemInv
  <1>4. ASSUME NEW t \in Thread, FreeBlock(t) PROVE MemInv'
    <2> DEFINE b == blk[t]
    <2>1. RingInv'
      BY <1>4 DEF FreeBlock, MemInv, RingInv, Age, Index, ring
    <2>2. b # NoBlock /\ b \in Owned
      BY <1>4 DEF FreeBlock, MemInv, Ownership, Owned
    <2>3. \A u \in Thread : u # t => blk'[u] = blk[u] /\ pc'[u] = pc[u] /\ blk[u] # b
      BY <1>4, <2>2 DEF FreeBlock, MemInv, TypeOK, Ownership
    <2>4. blk'[t] = NoBlock /\ pc'[t] = "idle" /\ Queued' = Queued
      BY <1>4 DEF FreeBlock, MemInv, TypeOK, Queued, Index, ring
    <2>5. Owned' = Owned \ {b}
      BY <2>2, <2>3, <2>4 DEF Owned
    <2>6. Ownership'
      BY <1>4, <2>2, <2>3, <2>4, <2>5
      DEF FreeBlock, MemInv, Ownership, ring, config, Index
    <2>7. QuietWhenFreed'
      BY <1>4, <2>3, <2>4 DEF FreeBlock, MemInv, QuietWhenFreed, Outside, config
    <2> QED
      BY <2>1, <2>6, <2>7 DEF MemInv
  <1>5. ASSUME NEW t \in Thread, Reset(t) PROVE MemInv'
    <2>1. slot' = [i \in Index |-> NoBlock] /\ head' = 0 /\ tail' = 0 /\ n' = 0
      BY <1>5 DEF Reset
    <2>2. RingInv'
      BY <2>1, MemAssumption DEF RingInv, Age, Index
    <2>3. Queued' = {} /\ Owned' = Owned /\ alive /\ alive'
      BY <1>5, <2>1 DEF Reset, Queued, Owned, Index
    <2>4. Ownership'
      BY <1>5, <2>1, <2>3 DEF Reset, MemInv, Ownership, Index
    <2> QED
      BY <2>2, <2>3, <2>4 DEF MemInv, QuietWhenFreed
  <1>6. ASSUME NEW t \in Thread, DestroyClose(t) PROVE MemInv'
    <2>1. \A u \in Thread :
            pc'[u] = pc[u] \/ (pc[u] = "idle" /\ pc'[u] = "freeing")
      BY <1>6 DEF DestroyClose, MemInv, TypeOK
    <2> QED
      BY <1>6, <2>1 DEF DestroyClose, MemInv, RingInv, Ownership, QuietWhenFreed,
                        Age, Index, Queued, Owned, ring, config
  <1>7. ASSUME NEW t \in Thread, DestroyQuiet(t) PROVE MemInv'
    <2>1. \A u \in Thread : pc'[u] = IF u = t THEN "idle" ELSE pc[u]
      BY <1>7 DEF DestroyQuiet, DestroyFree, MemInv, TypeOK
    <2>2. RingInv' /\ Owned' = Owned /\ alive' = FALSE
      BY <1>7 DEF DestroyQuiet, DestroyFree, MemInv, RingInv, Age, Index, Owned, ring
    <2>3. heap' = heap \ Queued /\ alive /\ UNCHANGED <<blk, slot>>
      BY <1>7 DEF DestroyQuiet, DestroyFree, ring, MemInv, QuietWhenFreed, Outside
    <2>4. heap' = Owned'
      BY <2>2, <2>3 DEF MemInv, Ownership
    <2>5. \A u \in Thread :
            blk'[u] # NoBlock <=> pc'[u] \in {"add", "addwait", "refused", "got"}
      BY <1>7, <2>1, <2>3 DEF MemInv, Ownership, DestroyQuiet, DestroyFree
    <2>6. Ownership'
      BY <2>2, <2>3, <2>4, <2>5 DEF MemInv, Ownership
    <2>7. QuietWhenFreed'
      BY <1>7, <2>1 DEF QuietWhenFreed, DestroyQuiet, Outside
    <2> QED
      BY <2>2, <2>6, <2>7 DEF MemInv
  <1>8. ASSUME NEW t \in Thread, SpuriousWakeup(t) PROVE MemInv'
    BY <1>8 DEF SpuriousWakeup, MemInv, RingInv, Ownership, QuietWhenFreed,
                Age, Index, Queued, Owned, Outside, ring, config
  <1> QED
    BY <1>1, <1>2, <1>3, <1>4, <1>5, <1>6, <1>7, <1>8 DEF Next, SectionStep

\* The inductive invariant of the queue's memory, its locks and its waiting
\* threads: the theorems below read their conjuncts off it.
THEOREM MemInvHolds == Spec => []MemInv
  <1>1. Init => MemInv
    <2> SUFFICES ASSUME Init PROVE MemInv
      OBVIOUS
    <2>1. TypeOK
      BY TypeInit
    <2>2. Queued = {} /\ Owned = {}
      BY DEF Init, Queued, Owned
    <2> QED
      BY <2>1, <2>2, MemAssumption
      DEF Init, MemInv, RingInv, Ownership, QuietWhenFreed, Age, Index
  <1> QED
    BY <1>1, MemInvStep, PTL DEF Spec

\* The ring arithmetic is right for every capacity.
THEOREM RingCorrect == Spec => []RingInv
  BY MemInvHolds, PTL DEF MemInv

\* No block leaks, is freed twice or is used after it was freed.
THEOREM OwnershipCorrect == Spec => []Ownership
  BY MemInvHolds, PTL DEF MemInv

(***************************************************************************)
(* Wakeups                                                                 *)
(***************************************************************************)

\* That a sleeper is never forgotten rests on where sleepers are (so that a
\* thread that acts is not one of them) and on closing having woken them.
WakeInv == /\ NoStrandedGetter
           /\ NoStrandedAdder
           /\ SleepersInLoop
           /\ NobodySleepsWhenClosed

\* A section is run by a thread that is awake.
LEMMA SectionAwake ==
  ASSUME SleepersInLoop, NEW t \in Thread, SectionStep(t)
  PROVE  t \notin notFull /\ t \notin notEmpty
  BY DEF SleepersInLoop, SectionStep, AddEnter, AddResume, GetEnter, GetResume

\* After the last _queue_signal of a section with cnt blocks queued: when a
\* slot is free one of the adders asleep was woken, and when a block is
\* queued one of the getters.
LEMMA ExitSignals ==
  ASSUME TypeOK, NEW t \in Thread, NEW cnt \in 0..Mem,
         NEW nf \in SUBSET notFull, NEW ne \in SUBSET notEmpty,
         t \notin notFull, t \notin notEmpty, SleepersInLoop,
         NEW q \in PcState, pc' = [pc EXCEPT ![t] = q], n' = cnt,
         notFull' \in SignalFull(cnt, nf), notEmpty' \in SignalEmpty(cnt, ne),
         UNCHANGED state, NobodySleepsWhenClosed
  PROVE  WakeInv'
  <1>1. notFull' \subseteq nf /\ notEmpty' \subseteq ne
    BY SignalledShrinks
  <1>2. \A u \in Thread : u # t => pc'[u] = pc[u]
    BY DEF TypeOK
  <1>3. SleepersInLoop'
    BY <1>1, <1>2 DEF SleepersInLoop, TypeOK
  <1>4. NoStrandedGetter'
    <2> SUFFICES ASSUME cnt > 0, notEmpty' # {}
                 PROVE  \E u \in Thread \ notEmpty' : pc'[u] = "getwait"
      BY DEF NoStrandedGetter
    <2>1. PICK u \in ne : u \notin notEmpty'
      BY <1>1, SignalledWakes DEF SignalEmpty
    <2> QED
      BY <2>1, <1>2 DEF SleepersInLoop, TypeOK
  <1>5. NoStrandedAdder'
    <2> SUFFICES ASSUME cnt < Mem, notFull' # {}
                 PROVE  \E u \in Thread \ notFull' : pc'[u] = "addwait"
      BY DEF NoStrandedAdder
    <2>1. PICK u \in nf : u \notin notFull'
      BY <1>1, SignalledWakes DEF SignalFull
    <2> QED
      BY <2>1, <1>2 DEF SleepersInLoop, TypeOK
  <1>6. NobodySleepsWhenClosed'
    BY <1>1 DEF NobodySleepsWhenClosed
  <1> QED
    BY <1>3, <1>4, <1>5, <1>6 DEF WakeInv

\* Closing leaves nobody asleep, or finds nobody.
LEMMA CloseWakes ==
  ASSUME WakeInv,
         NEW nf \in SUBSET notFull, NEW ne \in SUBSET notEmpty, CloseQueue(nf, ne)
  PROVE  WakeInv' /\ notFull' = {} /\ notEmpty' = {}
  <1>1. notFull' = {} /\ notEmpty' = {}
    BY DEF CloseQueue, WakeInv, NobodySleepsWhenClosed
  <1> QED
    BY <1>1 DEF WakeInv, NoStrandedGetter, NoStrandedAdder, SleepersInLoop,
                NobodySleepsWhenClosed

\* Going to sleep on not_full: the ring is full, so no adder is due, and a
\* getter that was awake still is.
LEMMA AddWaitWakes ==
  ASSUME TypeOK, WakeInv, NEW t \in Thread,
         NEW nf \in SUBSET notFull, NEW ne \in SUBSET notEmpty,
         t \notin notFull, t \notin notEmpty,
         pc[t] \in {"add", "addwait"}, n = Mem, state = "OK",
         notFull' = nf \cup {t}, notEmpty' = ne,
         pc' = [pc EXCEPT ![t] = "addwait"], UNCHANGED <<n, state>>
  PROVE  WakeInv'
  <1>1. \A u \in Thread : pc'[u] = IF u = t THEN "addwait" ELSE pc[u]
    BY DEF TypeOK
  <1>2. SleepersInLoop'
    BY <1>1 DEF WakeInv, SleepersInLoop, TypeOK
  <1>3. NoStrandedGetter'
    BY <1>1 DEF WakeInv, NoStrandedGetter
  <1>4. NoStrandedAdder' /\ NobodySleepsWhenClosed'
    BY MemAssumption DEF NoStrandedAdder, NobodySleepsWhenClosed
  <1> QED
    BY <1>2, <1>3, <1>4 DEF WakeInv

LEMMA GetWaitWakes ==
  ASSUME TypeOK, WakeInv, NEW t \in Thread,
         NEW nf \in SUBSET notFull, NEW ne \in SUBSET notEmpty,
         t \notin notFull, t \notin notEmpty,
         pc[t] \in {"idle", "getwait"}, n = 0, state = "OK",
         notEmpty' = ne \cup {t}, notFull' = nf,
         pc' = [pc EXCEPT ![t] = "getwait"], UNCHANGED <<n, state, resets>>
  PROVE  WakeInv'
  <1>1. \A u \in Thread : pc'[u] = IF u = t THEN "getwait" ELSE pc[u]
    BY DEF TypeOK
  <1>2. SleepersInLoop'
    BY <1>1 DEF WakeInv, SleepersInLoop, TypeOK
  <1>3. NoStrandedAdder'
    BY <1>1 DEF WakeInv, NoStrandedAdder
  <1>4. NoStrandedGetter' /\ NobodySleepsWhenClosed'
    BY DEF NoStrandedGetter, NobodySleepsWhenClosed
  <1> QED
    BY <1>2, <1>3, <1>4 DEF WakeInv

LEMMA SectionWakes ==
  ASSUME TypeOK, WakeInv, NEW t \in Thread,
         NEW nf \in SUBSET notFull, NEW ne \in SUBSET notEmpty,
         t \notin notFull, t \notin notEmpty,
         Section(t, nf, ne), UNCHANGED config
  PROVE  WakeInv'
  <1> USE DEF PcState
  <1>1. CASE Enqueue(t, nf, ne)
    <2>1. n + 1 \in 0..Mem
      BY <1>1, MemAssumption DEF Enqueue, TypeOK
    <2> QED
      BY <1>1, <2>1, ExitSignals DEF Enqueue, WakeInv
  <1>2. CASE Dequeue(t, nf, ne)
    <2>1. n - 1 \in 0..Mem
      BY <1>2, MemAssumption DEF Dequeue, TypeOK
    <2> QED
      BY <1>2, <2>1, ExitSignals DEF Dequeue, WakeInv
  <1>3. CASE pc[t] \in {"add", "addwait"} /\ AddBlocked(t, nf, ne)
    <2>1. CASE state = "OK"
      BY <1>3, <2>1, AddWaitWakes DEF AddBlocked, ring
    <2>2. CASE state # "OK"
      BY <1>3, <2>2, ExitSignals DEF AddBlocked, WakeInv, TypeOK, ring
    <2> QED
      BY <2>1, <2>2
  <1>4. CASE pc[t] \in {"idle", "getwait"} /\ GetBlocked(t, nf, ne)
    <2>1. CASE state = "OK"
      BY <1>4, <2>1, GetWaitWakes DEF GetBlocked, ring, config
    <2>2. CASE state # "OK"
      BY <1>4, <2>2, ExitSignals DEF GetBlocked, WakeInv, TypeOK, ring
    <2> QED
      BY <2>1, <2>2
  <1>5. CASE AddRefused(t, nf, ne) \/ GetRefused(t, nf, ne)
    BY <1>5, CloseWakes DEF AddRefused, GetRefused
  <1> QED
    BY <1>1, <1>2, <1>3, <1>4, <1>5 DEF Section

\* A thread that is neither asleep nor in a loop may change its own place.
LEMMA OtherMoveWakes ==
  ASSUME TypeOK, WakeInv, NEW t \in Thread, NEW q \in PcState,
         pc[t] \notin {"addwait", "getwait"}, pc' = [pc EXCEPT ![t] = q],
         UNCHANGED <<n, state, resets, waiters>>
  PROVE  WakeInv'
  <1>1. \A u \in Thread : pc'[u] = IF u = t THEN q ELSE pc[u]
    BY DEF TypeOK
  <1> QED
    BY <1>1 DEF WakeInv, NoStrandedGetter, NoStrandedAdder, SleepersInLoop,
                NobodySleepsWhenClosed, TypeOK, waiters

LEMMA WakeInvStep == TypeOK /\ WakeInv /\ [Next]_vars => WakeInv'
  <1> SUFFICES ASSUME TypeOK, WakeInv, [Next]_vars PROVE WakeInv'
    OBVIOUS
  <1>1. CASE UNCHANGED vars
    BY <1>1 DEF WakeInv, NoStrandedGetter, NoStrandedAdder, SleepersInLoop,
                NobodySleepsWhenClosed, vars
  <1>2. ASSUME NEW t \in Thread, NEW b \in Block, PushAlloc(t, b) PROVE WakeInv'
    BY <1>2, OtherMoveWakes DEF PushAlloc, PcState, ring, config
  <1>3. ASSUME NEW t \in Thread, SectionStep(t) PROVE WakeInv'
    <2>1. t \notin notFull /\ t \notin notEmpty
      BY <1>3, SectionAwake DEF WakeInv
    <2>2. UNCHANGED config
      BY <1>3, SectionSubset
    <2>3. PICK nf \in SUBSET notFull, ne \in SUBSET notEmpty : Section(t, nf, ne)
      BY <1>3, SectionSubset
    <2> QED
      BY <2>1, <2>2, <2>3, SectionWakes
  <1>4. ASSUME NEW t \in Thread, FreeBlock(t) PROVE WakeInv'
    BY <1>4, OtherMoveWakes DEF FreeBlock, PcState, ring, config
  <1>5. ASSUME NEW t \in Thread, Reset(t) PROVE WakeInv'
    <2>1. n' = 0 /\ resets' # 0 /\ state' = "OK"
      BY <1>5 DEF Reset, TypeOK
    <2> QED
      BY <1>5, <2>1 DEF Reset, waiters, WakeInv, NoStrandedGetter,
           NoStrandedAdder, SleepersInLoop, NobodySleepsWhenClosed
  <1>6. ASSUME NEW t \in Thread, DestroyClose(t) PROVE WakeInv'
    BY <1>6, CloseWakes DEF DestroyClose
  <1>7. ASSUME NEW t \in Thread, DestroyQuiet(t) PROVE WakeInv'
    BY <1>7, OtherMoveWakes DEF DestroyQuiet, DestroyFree, PcState, ring
  <1>8. ASSUME NEW t \in Thread, SpuriousWakeup(t) PROVE WakeInv'
    BY <1>8 DEF SpuriousWakeup, ring, config, WakeInv, NoStrandedGetter,
         NoStrandedAdder, SleepersInLoop, NobodySleepsWhenClosed
  <1> QED
    BY <1>1, <1>2, <1>3, <1>4, <1>5, <1>6, <1>7, <1>8 DEF Next, SectionStep

LEMMA WakeInvHolds == Spec => []WakeInv
  <1>1. Init => WakeInv
    BY DEF Init, WakeInv, NoStrandedGetter, NoStrandedAdder, SleepersInLoop,
           NobodySleepsWhenClosed
  <1> QED
    BY <1>1, TypeCorrect, WakeInvStep, PTL DEF Spec

\* _queue_get loses no wakeup: with a block queued, never all getters sleep.
THEOREM GetterNeverStranded == Spec => []NoStrandedGetter
  BY WakeInvHolds, PTL DEF WakeInv

\* _queue_add loses no wakeup, as long as the queue was never reset.
THEOREM AdderNeverStranded == Spec => []NoStrandedAdder
  BY WakeInvHolds, PTL DEF WakeInv

\* Nobody is left asleep by a queue that was closed.
THEOREM ClosedQueueWakesAll == Spec => []NobodySleepsWhenClosed
  BY WakeInvHolds, PTL DEF WakeInv

(***************************************************************************)
(* The queue implements a bounded FIFO                                     *)
(***************************************************************************)

\* The window of c slots from h on, read as a sequence.
Window(s, h, c) == [k \in 1..c |-> s[Position(h, k)]]

LEMMA WindowSeq ==
  ASSUME NEW c \in Nat, NEW h, NEW s,
         \A k \in 1..c : s[Position(h, k)] \in Block
  PROVE  /\ Window(s, h, c) \in Seq(Block) /\ Len(Window(s, h, c)) = c
         /\ \A k \in 1..c : Window(s, h, c)[k] = s[Position(h, k)]
  BY DEF Window

\* Writing the slot after the window appends to the sequence.
LEMMA WindowAppend ==
  ASSUME NEW c \in Nat, c < Mem, NEW h \in Index, NEW b \in Block,
         NEW s \in [Index -> Block \cup {NoBlock}],
         \A k \in 1..c : s[Position(h, k)] \in Block
  PROVE  Window([s EXCEPT ![Position(h, c + 1)] = b], h, c + 1)
           = Append(Window(s, h, c), b)
  <1> DEFINE r == [s EXCEPT ![Position(h, c + 1)] = b]
  <1>1. \A k \in 1..(c + 1) : Position(h, k) \in Index
    BY MemAssumption DEF Position, Index
  <1>2. \A k \in 1..c : Position(h, k) # Position(h, c + 1)
    BY MemAssumption DEF Position, Index
  <1>3. r[Position(h, c + 1)] = b
    BY <1>1
  <1>4. \A k \in 1..c : r[Position(h, k)] = s[Position(h, k)]
    BY <1>1, <1>2
  <1> HIDE DEF r
  <1>5. \A k \in 1..(c + 1) : r[Position(h, k)] \in Block
    BY <1>3, <1>4
  <1>6. Window(r, h, c + 1) \in Seq(Block) /\ Len(Window(r, h, c + 1)) = c + 1
    BY <1>5, WindowSeq
  <1>7. \A k \in 1..(c + 1) : Window(r, h, c + 1)[k] = r[Position(h, k)]
    BY <1>5, WindowSeq
  <1>8. /\ Window(s, h, c) \in Seq(Block) /\ Len(Window(s, h, c)) = c
        /\ \A k \in 1..c : Window(s, h, c)[k] = s[Position(h, k)]
    BY WindowSeq
  <1>9. Window(r, h, c + 1) = Append(Window(s, h, c), b)
    BY <1>3, <1>4, <1>6, <1>7, <1>8
  <1> QED
    BY <1>9 DEF r

\* Emptying the first slot of the window takes the head of the sequence off.
LEMMA WindowTail ==
  ASSUME NEW c \in Nat \ {0}, c <= Mem, NEW h \in Index,
         NEW s \in [Index -> Block \cup {NoBlock}],
         \A k \in 1..c : s[Position(h, k)] \in Block
  PROVE  /\ Window(s, h, c) # <<>> /\ Head(Window(s, h, c)) = s[h]
         /\ Window([s EXCEPT ![h] = NoBlock], Next1(h), c - 1) = Tail(Window(s, h, c))
  <1> DEFINE r == [s EXCEPT ![h] = NoBlock]
             g == Next1(h)
  <1>1. Position(h, 1) = h
    BY MemAssumption DEF Position, Index
  <1>2. \A k \in 1..(c - 1) : Position(g, k) = Position(h, k + 1)
    BY MemAssumption DEF Position, Index, Next1
  <1>3. \A k \in 1..(c - 1) : Position(h, k + 1) # h /\ Position(h, k + 1) \in Index
    BY MemAssumption DEF Position, Index
  <1>4. \A k \in 1..(c - 1) : r[Position(g, k)] = s[Position(h, k + 1)]
    BY <1>2, <1>3
  <1> HIDE DEF r, g
  <1>5. \A k \in 1..(c - 1) : r[Position(g, k)] \in Block
    BY <1>4
  <1>6. c \in Nat /\ c - 1 \in Nat
    OBVIOUS
  <1>7. /\ Window(r, g, c - 1) \in Seq(Block) /\ Len(Window(r, g, c - 1)) = c - 1
        /\ \A k \in 1..(c - 1) : Window(r, g, c - 1)[k] = r[Position(g, k)]
    <2>1. \A x \in 1..(c - 1) : r[Position(g, x)] \in Block
      BY <1>5
    <2> HIDE DEF Window
    <2> QED
      BY <2>1, <1>6, WindowSeq
  <1>8. /\ Window(s, h, c) \in Seq(Block) /\ Len(Window(s, h, c)) = c
        /\ \A k \in 1..c : Window(s, h, c)[k] = s[Position(h, k)]
    BY <1>6, WindowSeq
  <1>9. Window(r, g, c - 1) = Tail(Window(s, h, c))
    BY <1>4, <1>7, <1>8
  <1>10. Window(s, h, c) # <<>> /\ Head(Window(s, h, c)) = s[h]
    BY <1>1, <1>8
  <1> QED
    BY <1>9, <1>10 DEF r, g

LEMMA ItemsWindow == Items = Window(slot, head, n) /\ Items' = Window(slot', head', n')
  BY DEF Items, Window

\* Every slot of the window holds a block.
LEMMA WindowFull ==
  ASSUME MemInv, NEW k \in 1..n
  PROVE  slot[Position(head, k)] \in Block
  <1>1. Position(head, k) \in Index /\ Age(Position(head, k)) < n
    BY MemAssumption DEF MemInv, TypeOK, Index, Position, Age
  <1>2. slot[Position(head, k)] # NoBlock
    BY <1>1 DEF MemInv, RingInv
  <1> QED
    BY <1>1, <1>2 DEF MemInv, TypeOK

\* A change of one thread's place changes its abstract place alone.
LEMMA CallStep ==
  ASSUME TypeOK, NEW t \in Thread, NEW q \in PcState, pc' = [pc EXCEPT ![t] = q]
  PROVE  Call' = [Call EXCEPT ![t] = AbstractCall(q)] /\ Call[t] = AbstractCall(pc[t])
  BY DEF Call, TypeOK

\* A slot written at tail is the next item of the FIFO.
LEMMA EnqueuePuts ==
  ASSUME MemInv, NEW t \in Thread, NEW nf, NEW ne,
         pc[t] \in {"add", "addwait"}, Enqueue(t, nf, ne)
  PROVE  Fifo!Put(t)
  <1>1. n \in Nat /\ n < Mem /\ head \in Index /\ blk[t] \in Block
    BY MemAssumption DEF Enqueue, MemInv, TypeOK, Ownership
  <1>2. tail = Position(head, n + 1)
    BY <1>1 DEF MemInv, RingInv, Position, Index
  <1>3. Items' = Append(Items, blk[t])
    <2>1. slot \in [Index -> Block \cup {NoBlock}]
      BY DEF MemInv, TypeOK
    <2>2. \A k \in 1..n : slot[Position(head, k)] \in Block
      BY WindowFull
    <2>3. Window([slot EXCEPT ![Position(head, n + 1)] = blk[t]], head, n + 1)
            = Append(Window(slot, head, n), blk[t])
      BY <1>1, <2>1, <2>2, WindowAppend
    <2> QED
      BY <1>2, <2>3, ItemsWindow DEF Enqueue
  <1>4. Len(Items) < Mem
    BY <1>1, WindowFull, WindowSeq, ItemsWindow
  <1>5. Call[t] = "put" /\ Call' = [Call EXCEPT ![t] = "idle"]
    BY CallStep DEF MemInv, Enqueue, PcState, AbstractCall
  <1> QED
    BY <1>3, <1>4, <1>5 DEF Fifo!Put, Enqueue

\* The slot read at head is the oldest item of the FIFO.
LEMMA DequeueTakes ==
  ASSUME MemInv, NEW t \in Thread, NEW nf, NEW ne,
         pc[t] \in {"idle", "getwait"}, Dequeue(t, nf, ne)
  PROVE  Fifo!Take(t)
  <1>1. n \in Nat \ {0} /\ n <= Mem /\ head \in Index
    BY MemAssumption DEF Dequeue, MemInv, TypeOK
  <1>2. Items # <<>> /\ Head(Items) = slot[head] /\ Items' = Tail(Items)
    BY <1>1, WindowFull, WindowTail, ItemsWindow DEF Dequeue, MemInv, TypeOK
  <1>3. Call[t] \in {"idle", "take"} /\ Call' = [Call EXCEPT ![t] = "got"]
    BY CallStep DEF MemInv, Dequeue, PcState, AbstractCall
  <1> QED
    BY <1>2, <1>3 DEF Fifo!Take, Dequeue

\* What a step does to one thread's place is one step of the FIFO, when it
\* leaves the ring and the owners alone.
LEMMA MoveImplements ==
  ASSUME TypeOK, NEW t \in Thread, NEW q \in PcState, pc' = [pc EXCEPT ![t] = q],
         UNCHANGED <<ring, blk>>,
         \/ AbstractCall(q) = AbstractCall(pc[t])
         \/ AbstractCall(pc[t]) = "put" /\ q = "refused"
         \/ pc[t] = "idle" /\ q = "getwait"
         \/ pc[t] = "getwait" /\ q = "idle"
  PROVE  [Fifo!FifoNext]_(Fifo!fifoVars)
  <1>1. Items' = Items
    BY DEF Items, ring
  <1>2. Call' = [Call EXCEPT ![t] = AbstractCall(q)] /\ Call[t] = AbstractCall(pc[t])
    BY CallStep
  <1>3. CASE AbstractCall(q) = AbstractCall(pc[t])
    <2>1. Call' = Call
      BY <1>2, <1>3 DEF Call
    <2> QED
      BY <1>1, <2>1 DEF Fifo!fifoVars
  <1>4. CASE AbstractCall(pc[t]) = "put" /\ q = "refused"
    BY <1>1, <1>2, <1>4 DEF Fifo!FifoNext, Fifo!Refuse, AbstractCall
  <1>5. CASE pc[t] = "idle" /\ q = "getwait"
    BY <1>1, <1>2, <1>5 DEF Fifo!FifoNext, Fifo!BeginTake, AbstractCall
  <1>6. CASE pc[t] = "getwait" /\ q = "idle"
    BY <1>1, <1>2, <1>6 DEF Fifo!FifoNext, Fifo!TakeNothing, AbstractCall
  <1> QED
    BY <1>3, <1>4, <1>5, <1>6

LEMMA SectionImplements ==
  ASSUME MemInv, NEW t \in Thread, NEW nf, NEW ne, Section(t, nf, ne)
  PROVE  [Fifo!FifoNext]_(Fifo!fifoVars)
  <1> USE DEF PcState, AbstractCall
  <1>1. CASE pc[t] \in {"add", "addwait"} /\ Enqueue(t, nf, ne)
    BY <1>1, EnqueuePuts DEF Fifo!FifoNext
  <1>2. CASE pc[t] \in {"idle", "getwait"} /\ Dequeue(t, nf, ne)
    BY <1>2, DequeueTakes DEF Fifo!FifoNext
  <1>3. CASE /\ pc[t] \in {"add", "addwait"}
             /\ AddBlocked(t, nf, ne) \/ AddRefused(t, nf, ne)
    <2>1. PICK q \in {"addwait", "refused"} : pc' = [pc EXCEPT ![t] = q]
      BY <1>3 DEF AddBlocked, AddRefused
    <2>2. UNCHANGED <<ring, blk>>
      BY <1>3 DEF AddBlocked, AddRefused
    <2>3. \/ AbstractCall(q) = AbstractCall(pc[t])
          \/ AbstractCall(pc[t]) = "put" /\ q = "refused"
      BY <1>3, <2>1
    <2> QED
      BY <2>1, <2>2, <2>3, MoveImplements DEF MemInv
  <1>4. CASE pc[t] \in {"idle", "getwait"} /\ GetBlocked(t, nf, ne)
    <2>1. PICK q \in {"idle", "getwait"} : pc' = [pc EXCEPT ![t] = q]
      BY <1>4 DEF GetBlocked
    <2>2. UNCHANGED <<ring, blk>>
      BY <1>4 DEF GetBlocked
    <2>3. \/ AbstractCall(q) = AbstractCall(pc[t])
          \/ pc[t] = "idle" /\ q = "getwait"
          \/ pc[t] = "getwait" /\ q = "idle"
      BY <1>4, <2>1
    <2> QED
      BY <2>1, <2>2, <2>3, MoveImplements DEF MemInv
  <1>5. CASE GetRefused(t, nf, ne)
    BY <1>5 DEF GetRefused, ring, Items, Call, Fifo!fifoVars
  <1> QED
    BY <1>1, <1>2, <1>3, <1>4, <1>5 DEF Section

LEMMA StepImplements == MemInv /\ [Next]_vars => [Fifo!FifoNext]_(Fifo!fifoVars)
  <1> SUFFICES ASSUME MemInv, [Next]_vars PROVE [Fifo!FifoNext]_(Fifo!fifoVars)
    OBVIOUS
  <1>1. CASE UNCHANGED vars
    BY <1>1 DEF vars, Items, Call, Fifo!fifoVars
  <1>2. ASSUME NEW t \in Thread, NEW b \in Block, PushAlloc(t, b)
        PROVE  [Fifo!FifoNext]_(Fifo!fifoVars)
    <2>1. Items' = Items /\ alive
      BY <1>2 DEF PushAlloc, Items, ring
    <2>2. Call[t] = "idle" /\ Call' = [Call EXCEPT ![t] = "put"]
      BY <1>2, CallStep DEF PushAlloc, MemInv, PcState, AbstractCall
    <2>3. \A u \in Thread : blk[u] # b
      BY <1>2, <2>1, NullAssumption DEF PushAlloc, MemInv, Ownership, Owned
    <2>4. \A i \in Index : slot[i] # b
      BY <1>2, <2>1, NullAssumption DEF PushAlloc, MemInv, Ownership, Queued
    <2>5. \A k \in 1..n : Items[k] # b
      <3>1. \A k \in 1..n : Position(head, k) \in Index
        BY MemAssumption DEF MemInv, TypeOK, Index, Position
      <3> QED
        BY <2>4, <3>1 DEF Items
    <2>6. Len(Items) = n
      BY WindowFull, WindowSeq, ItemsWindow, MemAssumption DEF MemInv, TypeOK
    <2>7. Fifo!Fresh(b)
      BY <2>3, <2>5, <2>6 DEF Fifo!Fresh
    <2> QED
      BY <1>2, <2>1, <2>2, <2>7 DEF PushAlloc, Fifo!BeginPut, Fifo!FifoNext
  <1>3. ASSUME NEW t \in Thread, SectionStep(t)
        PROVE  [Fifo!FifoNext]_(Fifo!fifoVars)
    BY <1>3, SectionSubset, SectionImplements
  <1>4. ASSUME NEW t \in Thread, FreeBlock(t)
        PROVE  [Fifo!FifoNext]_(Fifo!fifoVars)
    <2>1. Items' = Items
      BY <1>4 DEF FreeBlock, Items, ring
    <2>2. Call[t] \in {"refused", "got"} /\ Call' = [Call EXCEPT ![t] = "idle"]
      BY <1>4, CallStep DEF FreeBlock, MemInv, PcState, AbstractCall
    <2> QED
      BY <1>4, <2>1, <2>2 DEF FreeBlock, Fifo!Release, Fifo!FifoNext
  <1>5. ASSUME NEW t \in Thread, Reset(t)
        PROVE  [Fifo!FifoNext]_(Fifo!fifoVars)
    <2>1. Items' = <<>> /\ Call' = Call
      BY <1>5 DEF Reset, Items, Call
    <2> QED
      BY <1>5, <2>1 DEF Reset, Fifo!Clear, Fifo!FifoNext
  <1>6. ASSUME NEW t \in Thread, DestroyClose(t)
        PROVE  [Fifo!FifoNext]_(Fifo!fifoVars)
    BY <1>6, MoveImplements DEF DestroyClose, MemInv, PcState, AbstractCall
  <1>7. ASSUME NEW t \in Thread, DestroyQuiet(t)
        PROVE  [Fifo!FifoNext]_(Fifo!fifoVars)
    BY <1>7, MoveImplements DEF DestroyQuiet, DestroyFree, MemInv, PcState, AbstractCall
  <1>8. ASSUME NEW t \in Thread, SpuriousWakeup(t)
        PROVE  [Fifo!FifoNext]_(Fifo!fifoVars)
    BY <1>8 DEF SpuriousWakeup, ring, Items, Call, Fifo!fifoVars
  <1> QED
    BY <1>1, <1>2, <1>3, <1>4, <1>5, <1>6, <1>7, <1>8 DEF Next, SectionStep

\* The ring, its mutex and its condition variables implement the FIFO: each
\* block pushed with success is popped at most once, in the order of pushes.
THEOREM QueueImplementsFifo == Spec => ImplementsFifo
  <1>1. Init => Fifo!FifoInit
    <2> SUFFICES ASSUME Init PROVE Fifo!FifoInit
      OBVIOUS
    <2>1. Items = <<>> /\ Call = [t \in Thread |-> "idle"]
      BY DEF Init, Items, Call, AbstractCall
    <2> QED
      BY <2>1 DEF Init, Fifo!FifoInit
  <1> QED
    BY <1>1, StepImplements, MemInvHolds, PTL DEF Spec, ImplementsFifo, Fifo!FifoSpec
=============================================================================
