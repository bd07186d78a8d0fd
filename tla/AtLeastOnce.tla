----------------------------- MODULE AtLeastOnce -----------------------------
(* What the acknowledgements of the UDP interface promise. An               *)
(* acknowledgement names a packet by the two devices and the transaction id *)
(* alone, so the promise is made to the packets alike in these: one stays   *)
(* with the sender until the device they are for had one. A packet alike to *)
(* no other is therefore kept until that device had it. A device is given   *)
(* only packets that were sent to it, one at a time, perhaps repeatedly,    *)
(* and hands on all it was given; a crash loses the one in hand, and what   *)
(* the device was going to send again. A packet to all is sent once and     *)
(* kept by nobody.                                                          *)
EXTENDS Naturals

CONSTANTS
  Node, Packet, From,
  Addressees,   \* Addressees[p]: who is to have p
  AlikeTo,      \* AlikeTo[p]: the packets an acknowledgement takes for p
  Single,       \* the packets to one device
  Idle          \* nothing given

VARIABLES
  outcome,      \* outcome[p]: "new", "dropped" or "sent"
  kept,         \* packets their senders will send again
  given,        \* given[n]: the packet n received and did not hand on yet
  delivered,    \* <<n, p>>: p was handed on at n
  lost,         \* <<n, p>>: p was in hand at n when n crashed
  crashes       \* how often each device crashed

channelVars == <<outcome, kept, given, delivered, lost, crashes>>

ChannelInit ==
  /\ outcome = [p \in Packet |-> "new"]
  /\ kept = {}
  /\ given = [n \in Node |-> Idle]
  /\ delivered = {} /\ lost = {}
  /\ crashes = [n \in Node |-> 0]

Had(n, p) == given[n] = p \/ <<n, p>> \in delivered \cup lost

Drop(p) ==
  /\ outcome[p] = "new"
  /\ outcome' = [outcome EXCEPT ![p] = "dropped"]
  /\ UNCHANGED <<kept, given, delivered, lost, crashes>>

Send(p) ==
  /\ outcome[p] = "new"
  /\ outcome' = [outcome EXCEPT ![p] = "sent"]
  /\ kept' = kept \cup ({p} \cap Single)
  /\ UNCHANGED <<given, delivered, lost, crashes>>

\* Some packets are forgotten: one alike to each of them stays or was had.
Forget(ps) ==
  /\ \A p \in ps : \E q \in AlikeTo[p] :
       q \in kept \ ps \/ \A n \in Addressees[p] : Had(n, q)
  /\ kept' = kept \ ps
  /\ UNCHANGED <<outcome, given, delivered, lost, crashes>>

Give(n, p) ==
  /\ outcome[p] = "sent" /\ n \in Addressees[p]
  /\ given[n] = Idle
  /\ given' = [given EXCEPT ![n] = p]
  /\ UNCHANGED <<outcome, kept, delivered, lost, crashes>>

HandOn(n) ==
  /\ given[n] # Idle
  /\ delivered' = delivered \cup {<<n, given[n]>>}
  /\ given' = [given EXCEPT ![n] = Idle]
  /\ UNCHANGED <<outcome, kept, lost, crashes>>

Crash(n) ==
  /\ crashes' = [crashes EXCEPT ![n] = @ + 1]
  /\ kept' = kept \ {p \in Packet : From[p] = n}
  /\ lost' = lost \cup ({<<n, given[n]>>} \ {<<n, Idle>>})
  /\ given' = [given EXCEPT ![n] = Idle]
  /\ UNCHANGED <<outcome, delivered>>

ChannelNext ==
  \/ \E p \in Packet : Drop(p) \/ Send(p) \/ \E n \in Node : Give(n, p)
  \/ \E ps \in SUBSET kept : Forget(ps)
  \/ \E n \in Node : HandOn(n) \/ Crash(n)

ChannelSpec == ChannelInit /\ [][ChannelNext]_channelVars
=============================================================================
