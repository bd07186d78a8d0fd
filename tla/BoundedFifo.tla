---------------------------- MODULE BoundedFifo ----------------------------
(* What a bounded blocking message queue promises to its callers: a FIFO    *)
(* sequence of at most Capacity items. A caller hands an item over, and     *)
(* either it is appended at one instant of the call, or the caller gets it  *)
(* back (refused); a taker receives the oldest item, and each item exactly  *)
(* one taker. Blocking is invisible here: a call that waits has simply not  *)
(* taken effect yet. MsgQueue implements this module.                       *)
EXTENDS Naturals, Sequences

CONSTANTS Thread, Item, NoItem, Capacity

VARIABLES
  items,   \* the queued items, oldest first
  call,    \* call[t]: what thread t is doing
  held     \* held[t]: the item thread t owns, or NoItem

fifoVars == <<items, call, held>>

CallState == {"idle", "put", "refused", "take", "got"}

FifoInit == /\ items = <<>>
            /\ call = [t \in Thread |-> "idle"]
            /\ held = [t \in Thread |-> NoItem]

\* A new item is one that nobody owns and that is not queued.
Fresh(b) == /\ \A t \in Thread : held[t] # b
            /\ \A i \in 1..Len(items) : items[i] # b

BeginPut(t, b) == /\ call[t] = "idle"
                  /\ Fresh(b)
                  /\ call' = [call EXCEPT ![t] = "put"]
                  /\ held' = [held EXCEPT ![t] = b]
                  /\ UNCHANGED items

Put(t) == /\ call[t] = "put"
          /\ Len(items) < Capacity
          /\ items' = Append(items, held[t])
          /\ call' = [call EXCEPT ![t] = "idle"]
          /\ held' = [held EXCEPT ![t] = NoItem]

Refuse(t) == /\ call[t] = "put"
             /\ call' = [call EXCEPT ![t] = "refused"]
             /\ UNCHANGED <<items, held>>

BeginTake(t) == /\ call[t] = "idle"
                /\ call' = [call EXCEPT ![t] = "take"]
                /\ UNCHANGED <<items, held>>

Take(t) == /\ call[t] \in {"idle", "take"}
           /\ items # <<>>
           /\ held' = [held EXCEPT ![t] = Head(items)]
           /\ items' = Tail(items)
           /\ call' = [call EXCEPT ![t] = "got"]

TakeNothing(t) == /\ call[t] = "take"
                  /\ call' = [call EXCEPT ![t] = "idle"]
                  /\ UNCHANGED <<items, held>>

\* The owner of a refused or of a received item disposes of it.
Release(t) == /\ call[t] \in {"refused", "got"}
              /\ call' = [call EXCEPT ![t] = "idle"]
              /\ held' = [held EXCEPT ![t] = NoItem]
              /\ UNCHANGED items

Clear == /\ items' = <<>>
         /\ UNCHANGED <<call, held>>

FifoNext == \/ Clear
            \/ \E t \in Thread :
                 \/ \E b \in Item : BeginPut(t, b)
                 \/ Put(t) \/ Refuse(t)
                 \/ BeginTake(t) \/ Take(t) \/ TakeNothing(t)
                 \/ Release(t)

FifoSpec == FifoInit /\ [][FifoNext]_fifoVars
=============================================================================
