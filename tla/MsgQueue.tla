------------------------------ MODULE MsgQueue ------------------------------
(* The bounded blocking queue of common/src/helpers/msg-queue.c: a ring of  *)
(* Mem slots under one mutex, with the condition variables not_full and     *)
(* not_empty. A critical section runs from pthread_mutex_lock, or from the  *)
(* return of pthread_cond_wait, to the unlock or the next cond_wait, and    *)
(* is one step here. A thread in "addwait" or "getwait" is inside           *)
(* pthread_cond_wait: asleep when it is in notFull or notEmpty, woken and   *)
(* about to take the mutex again when it is not.                            *)
(*                                                                          *)
(* Left out: q->id (a counter nobody reads), q->length, is_empty and        *)
(* not_flush (nobody waits on them), allocation failures (push returns      *)
(* NO_MEMORY before it touches the queue), the parameter wait (push and pop *)
(* always pass true).                                                       *)
EXTENDS Integers, FiniteSets, Sequences

CONSTANTS
  Thread,         \* the threads that share the queue
  Block,          \* heap blocks (vs_queue_data_t with its copy of the data)
  NoBlock,        \* the NULL pointer
  Mem,            \* capacity: q->mem
  AdderCounts,    \* the num_adders a queue may be created with
  GetterCounts,   \* the num_getters a queue may be created with
  MaxResets       \* bound on the calls of vs_msg_queue_reset

ASSUME NullAssumption == NoBlock \notin Block
ASSUME MemAssumption == Mem \in Nat \ {0}
ASSUME CountsAssumption == AdderCounts \subseteq Nat /\ GetterCounts \subseteq Nat
ASSUME ResetsAssumption == MaxResets \in Nat

VARIABLES
  slot,         \* q->queue
  head, tail,   \* where the next get reads, where the next add writes
  n,            \* number of queued blocks
  state,        \* q->state
  numAdders, numGetters,
  notFull,      \* threads asleep in pthread_cond_wait(q->not_full)
  notEmpty,     \* threads asleep in pthread_cond_wait(q->not_empty)
  pc,           \* where each thread is in push, pop and after them
  blk,          \* the block each thread owns
  heap,         \* the blocks that are allocated
  alive,        \* FALSE once the queue was freed
  resets        \* number of calls of vs_msg_queue_reset so far

ring    == <<slot, head, tail, n>>
config  == <<numAdders, numGetters, alive, resets>>
waiters == <<notFull, notEmpty>>
vars    == <<slot, head, tail, n, state, numAdders, numGetters, notFull,
             notEmpty, pc, blk, heap, alive, resets>>

Index   == 0 .. Mem - 1
PcState == {"idle",      \* outside the queue
            "add",       \* in push, before the lock of _queue_add
            "addwait",   \* in the loop of _queue_add
            "refused",   \* _queue_add returned 0, the block is still to free
            "getwait",   \* in the loop of _queue_get
            "got",       \* pop returned a block to its caller
            "freeing"}   \* in _queue_destroy, after _queue_close

\* Mutants of Next1: it compares before it increments; it forgets to increment.
Next1Late(i) == IF i = Mem THEN 0 ELSE i + 1
Next1Stays(i) == i

\* head and tail wrap to 0 when they reach the end of the ring.
Next1(i) == IF i + 1 = Mem THEN 0 ELSE i + 1

Init == /\ slot = [i \in Index |-> NoBlock]
        /\ head = 0 /\ tail = 0 /\ n = 0
        /\ state = "OK"
        /\ numAdders \in AdderCounts
        /\ numGetters \in GetterCounts
        /\ notFull = {} /\ notEmpty = {}
        /\ pc = [t \in Thread |-> "idle"]
        /\ blk = [t \in Thread |-> NoBlock]
        /\ heap = {}
        /\ alive = TRUE
        /\ resets = 0

(***************************************************************************)
(* Condition variables                                                     *)
(***************************************************************************)

\* The wait sets pthread_cond_signal may leave: it wakes one thread, if any.
Signalled(W) == IF W = {} THEN {{}} ELSE {W \ {t} : t \in W}

\* Mutants of SignalFull and SignalEmpty: off by one.
SignalFullLate(cnt, W)  == IF cnt + 1 < Mem THEN Signalled(W) ELSE {W}
SignalEmptyLate(cnt, W) == IF 1 < cnt THEN Signalled(W) ELSE {W}

\* _queue_signal with cnt blocks queued: what not_full and not_empty become.
SignalFull(cnt, W)  == IF cnt < Mem THEN Signalled(W) ELSE {W}
SignalEmpty(cnt, W) == IF 0 < cnt THEN Signalled(W) ELSE {W}

\* Mutant of CloseQueue: signals where it should broadcast.
CloseQueueSignals(nf, ne) ==
  /\ state' = "EOF"
  /\ notFull' \in Signalled(nf)
  /\ notEmpty' \in Signalled(ne)

\* _queue_close_nolock, after which the wait sets nf and ne are empty.
CloseQueue(nf, ne) ==
  /\ state' = "EOF"
  /\ notFull' = (IF state = "EOF" THEN nf ELSE {})
  /\ notEmpty' = (IF state = "EOF" THEN ne ELSE {})

(***************************************************************************)
(* vs_msg_queue_push                                                       *)
(***************************************************************************)

PushAlloc(t, b) ==
  /\ alive
  /\ pc[t] = "idle"
  /\ b \in Block \ heap
  /\ heap' = heap \cup {b}
  /\ blk' = [blk EXCEPT ![t] = b]
  /\ pc' = [pc EXCEPT ![t] = "add"]
  /\ UNCHANGED <<ring, state, config, waiters>>

\* The end of _queue_add: write the slot, advance tail, count, signal.
Enqueue(t, nf, ne) ==
  /\ n # Mem
  /\ slot' = [slot EXCEPT ![tail] = blk[t]]
  /\ tail' = Next1(tail)
  /\ n' = n + 1
  /\ notFull' \in SignalFull(n + 1, nf)
  /\ notEmpty' \in SignalEmpty(n + 1, ne)
  /\ pc' = [pc EXCEPT ![t] = "idle"]
  /\ blk' = [blk EXCEPT ![t] = NoBlock]
  /\ UNCHANGED <<head, state>>

\* A full queue: wait for not_full while the queue is open, else give up.
AddBlocked(t, nf, ne) ==
  /\ n = Mem
  /\ \/ /\ state = "OK"
        /\ notFull' = nf \cup {t}
        /\ notEmpty' = ne
        /\ pc' = [pc EXCEPT ![t] = "addwait"]
     \/ /\ state # "OK"
        /\ notFull' \in SignalFull(n, nf)
        /\ notEmpty' \in SignalEmpty(n, ne)
        /\ pc' = [pc EXCEPT ![t] = "refused"]
  /\ UNCHANGED <<ring, state, blk>>

AddRefused(t, nf, ne) ==
  /\ CloseQueue(nf, ne)
  /\ pc' = [pc EXCEPT ![t] = "refused"]
  /\ UNCHANGED <<ring, blk>>

\* _queue_add from its lock: signal, check the parties, then the loop.
AddEnter(t) ==
  /\ pc[t] = "add"
  /\ \E nf \in SignalFull(n, notFull), ne \in SignalEmpty(n, notEmpty) :
       IF numGetters = 0 \/ numAdders = 0
       THEN AddRefused(t, nf, ne)
       ELSE Enqueue(t, nf, ne) \/ AddBlocked(t, nf, ne)
  /\ UNCHANGED <<heap, config>>

\* The loop again, after pthread_cond_wait returned.
AddResume(t) ==
  /\ pc[t] = "addwait"
  /\ t \notin notFull
  /\ Enqueue(t, notFull, notEmpty) \/ AddBlocked(t, notFull, notEmpty)
  /\ UNCHANGED <<heap, config>>

(***************************************************************************)
(* vs_msg_queue_pop                                                        *)
(***************************************************************************)

\* The end of _queue_get: clear the slot, advance head, count, signal.
Dequeue(t, nf, ne) ==
  /\ n # 0
  /\ blk' = [blk EXCEPT ![t] = slot[head]]
  /\ slot' = [slot EXCEPT ![head] = NoBlock]
  /\ head' = Next1(head)
  /\ n' = n - 1
  /\ notFull' \in SignalFull(n - 1, nf)
  /\ notEmpty' \in SignalEmpty(n - 1, ne)
  /\ pc' = [pc EXCEPT ![t] = "got"]
  /\ UNCHANGED <<tail, state>>

\* An empty queue: wait for not_empty while the queue is open, else give up.
GetBlocked(t, nf, ne) ==
  /\ n = 0
  /\ \/ /\ state = "OK"
        /\ notEmpty' = ne \cup {t}
        /\ notFull' = nf
        /\ pc' = [pc EXCEPT ![t] = "getwait"]
     \/ /\ state # "OK"
        /\ notFull' \in SignalFull(n, nf)
        /\ notEmpty' \in SignalEmpty(n, ne)
        /\ pc' = [pc EXCEPT ![t] = "idle"]
  /\ UNCHANGED <<ring, state, blk>>

GetRefused(t, nf, ne) ==
  /\ CloseQueue(nf, ne)
  /\ UNCHANGED <<ring, pc, blk>>

GetEnter(t) ==
  /\ alive
  /\ pc[t] = "idle"
  /\ \E nf \in SignalFull(n, notFull), ne \in SignalEmpty(n, notEmpty) :
       IF numGetters = 0 \/ (n = 0 /\ numAdders = 0)
       THEN GetRefused(t, nf, ne)
       ELSE Dequeue(t, nf, ne) \/ GetBlocked(t, nf, ne)
  /\ UNCHANGED <<heap, config>>

GetResume(t) ==
  /\ pc[t] = "getwait"
  /\ t \notin notEmpty
  /\ Dequeue(t, notFull, notEmpty) \/ GetBlocked(t, notFull, notEmpty)
  /\ UNCHANGED <<heap, config>>

\* Mutant of FreeBlock: the block is not freed.
FreeBlockLeaks(t) ==
  /\ pc[t] \in {"refused", "got"}
  /\ blk' = [blk EXCEPT ![t] = NoBlock]
  /\ pc' = [pc EXCEPT ![t] = "idle"]
  /\ UNCHANGED <<ring, state, config, waiters, heap>>

\* A refused pusher frees its block; so does the receiver of a block.
FreeBlock(t) ==
  /\ pc[t] \in {"refused", "got"}
  /\ heap' = heap \ {blk[t]}
  /\ blk' = [blk EXCEPT ![t] = NoBlock]
  /\ pc' = [pc EXCEPT ![t] = "idle"]
  /\ UNCHANGED <<ring, state, config, waiters>>

(***************************************************************************)
(* vs_msg_queue_reset and vs_msg_queue_free                                *)
(***************************************************************************)

Queued == {slot[i] : i \in Index} \ {NoBlock}

\* Destroys what is queued and reopens the queue; wakes nobody.
Reset(t) ==
  /\ alive
  /\ resets < MaxResets
  /\ pc[t] = "idle"
  /\ heap' = heap \ Queued
  /\ slot' = [i \in Index |-> NoBlock]
  /\ head' = 0 /\ tail' = 0 /\ n' = 0
  /\ state' = "OK"
  /\ resets' = resets + 1
  /\ UNCHANGED <<numAdders, numGetters, waiters, pc, blk, alive>>

\* _queue_destroy first closes the queue, under the mutex...
DestroyClose(t) ==
  /\ alive
  /\ pc[t] = "idle"
  /\ CloseQueue(notFull, notEmpty)
  /\ pc' = [pc EXCEPT ![t] = "freeing"]
  /\ UNCHANGED <<ring, config, blk, heap>>

\* Mutant of DestroyFree: what is queued is not destroyed.
DestroyFreeLeaks(t) ==
  /\ pc[t] = "freeing"
  /\ pc' = [pc EXCEPT ![t] = "idle"]
  /\ alive' = FALSE
  /\ UNCHANGED <<ring, state, numAdders, numGetters, waiters, blk, heap, resets>>

\* ... and then, without it, destroys what is queued and frees the ring.
DestroyFree(t) ==
  /\ pc[t] = "freeing"
  /\ pc' = [pc EXCEPT ![t] = "idle"]
  /\ heap' = heap \ Queued
  /\ alive' = FALSE
  /\ UNCHANGED <<ring, state, numAdders, numGetters, waiters, blk, resets>>

\* Nothing in _queue_destroy waits for the threads it woke. Its caller has to
\* know that they left, which PacketsQueue checks of the caller in this code.
Outside(t) == pc[t] \in {"idle", "refused", "got"}
DestroyQuiet(t) == (\A u \in Thread \ {t} : Outside(u)) /\ DestroyFree(t)

\* POSIX lets pthread_cond_wait return without a signal.
SpuriousWakeup(t) ==
  /\ t \in notFull \cup notEmpty
  /\ notFull' = notFull \ {t}
  /\ notEmpty' = notEmpty \ {t}
  /\ UNCHANGED <<ring, state, config, pc, blk, heap>>

ThreadStep(t) ==
  \/ AddEnter(t) \/ AddResume(t) \/ GetResume(t) \/ FreeBlock(t)

Next == \E t \in Thread :
          \/ \E b \in Block : PushAlloc(t, b)
          \/ AddEnter(t) \/ AddResume(t)
          \/ GetEnter(t) \/ GetResume(t)
          \/ FreeBlock(t)
          \/ Reset(t) \/ DestroyClose(t) \/ DestroyQuiet(t)
          \/ SpuriousWakeup(t)

Spec == Init /\ [][Next]_vars

\* The scheduler eventually runs a thread that is inside push or pop and not
\* asleep; nothing obliges a thread to call push or pop.
FairSpec == Spec /\ \A t \in Thread : WF_vars(ThreadStep(t))

(***************************************************************************)
(* Properties                                                              *)
(***************************************************************************)

\* Types of the variables.
TypeOK ==
  /\ slot \in [Index -> Block \cup {NoBlock}]
  /\ head \in Index /\ tail \in Index /\ n \in 0..Mem
  /\ state \in {"OK", "EOF"}
  /\ numAdders \in Nat /\ numGetters \in Nat
  /\ notFull \subseteq Thread /\ notEmpty \subseteq Thread
  /\ pc \in [Thread -> PcState]
  /\ blk \in [Thread -> Block \cup {NoBlock}]
  /\ heap \subseteq Block
  /\ alive \in BOOLEAN
  /\ resets \in 0..MaxResets

\* The position of a slot counted from head: 0 for the oldest block.
Age(i) == IF head <= i THEN i - head ELSE i - head + Mem

\* The ring arithmetic of _queue_add and _queue_get: tail is n slots past
\* head, and exactly the n slots from head on hold a block, so an add never
\* overwrites a queued block and a get never returns NULL as data.
RingInv ==
  /\ tail = IF head + n < Mem THEN head + n ELSE head + n - Mem
  /\ \A i \in Index : slot[i] # NoBlock <=> Age(i) < n

\* Memory of the blocks, over malloc in push, the frees in push, in the
\* reader of the queue, in reset and in free: an allocated block has exactly
\* one owner, a slot of the ring or a thread, and a freed block has none
\* (no leak, no double free, no use after free).
Owned == {blk[t] : t \in Thread} \ {NoBlock}
Ownership ==
  /\ heap = IF alive THEN Queued \cup Owned ELSE Owned
  /\ \A t, u \in Thread : blk[t] = blk[u] /\ blk[t] # NoBlock => t = u
  /\ \A t \in Thread : blk[t] # NoBlock <=> pc[t] \in {"add", "addwait", "refused", "got"}
  /\ alive => /\ Queued \cap Owned = {}
              /\ \A i, j \in Index : slot[i] = slot[j] /\ slot[i] # NoBlock => i = j

\* After vs_msg_queue_free nobody is inside push or pop any more.
QuietWhenFreed == ~alive => \A t \in Thread : Outside(t)

\* No lost wakeup of _queue_get: when a block is queued and a getter sleeps
\* on not_empty, some getter is already awake to take it, whatever resets,
\* spurious wakeups and threads that overtake the sleepers.
NoStrandedGetter ==
  n > 0 /\ notEmpty # {} => \E t \in Thread \ notEmpty : pc[t] = "getwait"

\* No lost wakeup of _queue_add: when a slot is free and an adder sleeps on
\* not_full, some adder is already awake to fill it. It needs that
\* vs_msg_queue_reset was never called: _queue_reset empties the ring and
\* signals nobody.
NoStrandedAdder ==
  resets = 0 /\ n < Mem /\ notFull # {} => \E t \in Thread \ notFull : pc[t] = "addwait"

\* Every thread asleep is in the loop of the condition variable it sleeps on.
SleepersInLoop ==
  /\ \A t \in notFull : pc[t] = "addwait"
  /\ \A t \in notEmpty : pc[t] = "getwait"

\* Closing wakes everybody and nobody goes back to sleep on a closed queue:
\* _queue_close_nolock broadcasts, and the loops of _queue_add and _queue_get
\* look at the state again before every pthread_cond_wait.
NobodySleepsWhenClosed == state = "EOF" => notFull = {} /\ notEmpty = {}

\* The queued blocks, oldest first, as a caller of push and pop sees them.
Position(h, k) == IF h + k - 1 < Mem THEN h + k - 1 ELSE h + k - 1 - Mem
Items == [k \in 1..n |-> slot[Position(head, k)]]

AbstractCall(p) == IF p \in {"add", "addwait"} THEN "put"
                   ELSE IF p = "getwait" THEN "take"
                   ELSE IF p = "freeing" THEN "idle"
                   ELSE p
Call == [t \in Thread |-> AbstractCall(pc[t])]

Fifo == INSTANCE BoundedFifo WITH Item <- Block, NoItem <- NoBlock,
          Capacity <- Mem, items <- Items, call <- Call, held <- blk

\* The ring with its condition variables is a FIFO queue of at most Mem
\* blocks: every block pushed with success is popped once, in push order.
ImplementsFifo == Fifo!FifoSpec

\* A getter that waits while a block is queued gets one, unless the other
\* getters empty the queue first (_queue_get with pthread_cond_signal, which
\* wakes one thread of those that sleep).
GetterServed == \A t \in Thread :
  (pc[t] = "getwait" /\ n > 0) ~> (pc[t] # "getwait" \/ n = 0)

\* An adder that waits while a slot is free gets one, unless the other
\* adders fill the queue first; after a reset it may sleep on.
AdderServed == \A t \in Thread :
  (pc[t] = "addwait" /\ n < Mem /\ resets = 0) ~>
     (pc[t] # "addwait" \/ n = Mem \/ resets # 0)
=============================================================================
