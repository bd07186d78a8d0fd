---------------------------- MODULE SharedStore ----------------------------
(* What processes that keep their settings on one device may rely on. Each  *)
(* has a view of all elements, loaded once when it opens the device, and    *)
(* publishes its whole view. A save replaces the beginning of an element,   *)
(* and the rest only if it is as long. On a lossy device a publication, or  *)
(* a cut during one, may also leave elements unreadable (Nothing) or        *)
(* untouched, and loading may miss some, but an element is never mixed from *)
(* two views.                                                               *)
EXTENDS Naturals

CONSTANTS Process, Element

Content == [head : Nat, tail : Nat]
Nothing == [head |-> 0, tail |-> 0]

VARIABLES
  durable,   \* durable[e]: e on the device, Nothing if unreadable
  view,      \* view[p][e]: what process p sees of e, Nothing while it is closed
  open,      \* the processes that use the device
  lossy      \* may a publication be incomplete?

storeVars == <<durable, view, open, lossy>>

Unseen == [e \in Element |-> Nothing]

StoreInit == /\ durable = Unseen
             /\ view = [p \in Process |-> Unseen]
             /\ open = {}
             /\ lossy \in BOOLEAN

Open(p) == /\ p \notin open
           /\ open' = open \cup {p}
           /\ view' = [view EXCEPT ![p] = durable]
           /\ UNCHANGED <<durable, lossy>>

\* Part of the device could not be read.
OpenPartly(p) == /\ p \notin open
                 /\ lossy
                 /\ open' = open \cup {p}
                 /\ view'[p] \in [Element -> Content]
                 /\ \A e \in Element : view'[p][e] \in {Nothing, durable[e]}
                 /\ view' = [view EXCEPT ![p] = view'[p]]
                 /\ UNCHANGED <<durable, lossy>>

\* p gives e a new value, or only its beginning.
Save(p, e) ==
  LET new == view'[p][e]
  IN  /\ p \in open
      /\ view' = [view EXCEPT ![p][e] = new]
      /\ new \in Content /\ new.tail \in {new.head, view[p][e].tail}
      /\ UNCHANGED <<durable, open, lossy>>

Publish(p) == /\ p \in open
              /\ durable' = view[p]
              /\ UNCHANGED <<view, open, lossy>>

\* The device after an incomplete publication by p.
Damaged(p) == \A e \in Element : durable'[e] \in {Nothing, durable[e], view[p][e]}

PublishPartly(p) == /\ p \in open
                    /\ lossy
                    /\ durable' \in [Element -> Content]
                    /\ Damaged(p)
                    /\ UNCHANGED <<view, open, lossy>>

Close(p) == /\ p \in open
            /\ open' = open \ {p}
            /\ view' = [view EXCEPT ![p] = Unseen]
            /\ UNCHANGED <<durable, lossy>>

\* All processes are gone, one of them perhaps in the middle of publishing.
PowerCut == /\ open' = {}
            /\ \/ durable' = durable
               \/ lossy /\ durable' \in [Element -> Content] /\ \E p \in open : Damaged(p)
            /\ view' = [p \in Process |-> Unseen]
            /\ UNCHANGED lossy

StoreNext == \/ PowerCut
             \/ \E p \in Process : \/ Open(p) \/ OpenPartly(p) \/ Close(p)
                                   \/ Publish(p) \/ PublishPartly(p)
                                   \/ \E e \in Element : Save(p, e)

StoreSpec == StoreInit /\ [][StoreNext]_storeVars
=============================================================================
