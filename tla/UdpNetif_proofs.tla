-------------------------- MODULE UdpNetif_proofs --------------------------
(* The acknowledgements of the UDP interface never make a sender forget the *)
(* last of the packets they could be for too early, nor promise one that is *)
(* lost other than by a kill, for any devices, packets and transaction ids. *)
EXTENDS UdpNetif, TLAPS

\* Only a packet that was had is acknowledged, and only a kill loses one.
AckInv ==
  /\ \A d \in net : d.type = "ack" => \E p \in Packet : Key(p) = d.key /\ Had(To[p], p)
  /\ \A n \in Node, p \in Packet : <<n, p>> \in lost => kills[n] > 0

\* Only what was sent is on its way, and only packets to one device are kept.
SentInv ==
  /\ \A d \in net : d.type = "data" => outcome[d.packet] = "sent"
  /\ \A p \in sending \cup container : outcome[p] = "sent" /\ Unicast(p)

\* An open socket is one of the descriptors held.
SocketInv == \A n \in Node : sock[n] = "open" => sockets[n] > 0

UdpInv == UdpTypeOK /\ SocketInv /\ AckInv /\ SentInv /\ NotGivenUp

LEMMA UdpInitInv == UdpInit => UdpInv
  <1>1. UdpInit => UdpTypeOK
    BY BoundAssumption DEF UdpInit, UdpTypeOK
  <1>2. UdpInit => SocketInv /\ AckInv /\ SentInv /\ NotGivenUp
    BY DEF UdpInit, SocketInv, AckInv, SentInv, NotGivenUp
  <1> QED
    BY <1>1, <1>2 DEF UdpInv

\* The datagrams of a packet carry it.
LEMMA DataType ==
  ASSUME NEW p \in Packet
  PROVE  \A d \in Data(p) : d \in Datagram /\ d.type = "data" /\ d.packet = p
  BY DEF Data, Datagram

\* A datagram is of one of the two kinds.
LEMMA DatagramKinds ==
  \A d \in Datagram :
    \/ d.type = "data" /\ d.packet \in Packet /\ d.to \in Node
    \/ d.type = "ack" /\ \E p \in Packet : d = Ack(p)
  BY DEF Datagram, Ack

\* Packets with one key are for the same device and from the same one.
LEMMA AlikeEnds ==
  \A p, q \in Packet : Key(q) = Key(p) => From[q] = From[p] /\ To[q] = To[p]
  BY DEF Key

\* What is counted stays within its bound.
LEMMA EventBound ==
  ASSUME events \in 0..MaxEvents, Event \/ UNCHANGED events
  PROVE  events' \in 0..MaxEvents
  BY BoundAssumption DEF Event

(***************************************************************************)
(* The steps of the connection thread, deinit and a kill                   *)
(***************************************************************************)

LEMMA ConnStepInv ==
  ASSUME UdpInv, NEW n \in Node,
         \/ StartConnecting(n) \/ Connect(n) \/ ConnectFails(n) \/ TryAgain(n)
         \/ Activate(n) \/ Deinit(n)
  PROVE  UdpInv'
  <1> USE DEF UdpInv
  <1>1. UNCHANGED <<txVars, rxVars, kills, net>>
    BY DEF StartConnecting, Connect, ConnectFails, TryAgain, Activate, Deinit
  <1>2. connAt' \in [Node -> {"off", "no thread", "connecting", "pausing", "connected", "done"}]
    BY DEF UdpTypeOK, StartConnecting, Connect, ConnectFails, TryAgain, Activate, Deinit,
           ConnMoves
  <1>3. /\ ready' \in [Node -> BOOLEAN] /\ hears' \in [Node -> BOOLEAN]
        /\ sock' \in [Node -> {"none", "open", "closed"}]
    BY DEF UdpTypeOK, StartConnecting, Connect, ConnectFails, TryAgain, Activate, Deinit
  <1>4. sockets' \in [Node -> 0..MaxSockets] /\ SocketInv'
    <2>0. /\ sockets \in [Node -> 0..MaxSockets] /\ SocketInv
          /\ sock \in [Node -> {"none", "open", "closed"}]
      BY DEF UdpTypeOK
    <2>1. CASE Connect(n) \/ ConnectFails(n)
      <3>1. OpenSocket(n) => sockets' \in [Node -> 0..MaxSockets] /\ sockets'[n] > 0
        BY <2>0, BoundAssumption DEF OpenSocket
      <3>2. \A m \in Node \ {n} : sockets'[m] = sockets[m] /\ sock'[m] = sock[m]
        BY <2>0, <2>1 DEF Connect, ConnectFails, OpenSocket
      <3>3. OpenSocket(n) \/ UNCHANGED <<sockets, sock>>
        BY <2>1 DEF Connect, ConnectFails
      <3> QED
        BY <2>0, <3>1, <3>2, <3>3 DEF SocketInv
    <2>2. CASE Deinit(n)
      <3>1. /\ sockets' = [sockets EXCEPT ![n] = @ - 1]
            /\ sock' = [sock EXCEPT ![n] = "closed"] /\ sock[n] = "open"
        BY <2>2 DEF Deinit
      <3> QED
        BY <2>0, <3>1, BoundAssumption DEF SocketInv
    <2>3. CASE StartConnecting(n) \/ TryAgain(n) \/ Activate(n)
      BY <2>3 DEF UdpTypeOK, SocketInv, StartConnecting, TryAgain, Activate
    <2> QED
      BY <2>1, <2>2, <2>3
  <1>5. Event \/ UNCHANGED events
    BY DEF StartConnecting, Connect, ConnectFails, TryAgain, Activate, Deinit
  <1>6. events' \in 0..MaxEvents
    BY <1>5, EventBound DEF UdpTypeOK
  <1> QED
    BY <1>1, <1>2, <1>3, <1>4, <1>6
    DEF UdpTypeOK, AckInv, SentInv, NotGivenUp, Had, txVars, rxVars

\* What a destination had, it had, whatever happens.
LEMMA HadStays ==
  ASSUME UdpTypeOK, NEW p \in Packet, Had(To[p], p),
         \/ UNCHANGED rxVars
         \/ \E n \in Node : Kill(n) \/ Deliver(n)
         \/ \E n \in Node, d \in net : \E arriving \in SUBSET Acks(n, d) :
              ReceiveData(n, d, arriving)
  PROVE  Had(To[p], p)'
  <1>1. CASE UNCHANGED rxVars
    BY <1>1 DEF Had, rxVars
  <1>0. rxPacket \in [Node -> Packet \cup {Idle}] /\ p # Idle
    BY NameAssumption DEF UdpTypeOK
  <1>2. ASSUME NEW n \in Node, Kill(n) PROVE Had(To[p], p)'
    <2>1. CASE rxPacket[To[p]] = p /\ To[p] = n
      BY <1>0, <1>2, <2>1 DEF Had, Kill
    <2>2. CASE rxPacket[To[p]] = p /\ To[p] # n
      BY <1>0, <1>2, <2>2 DEF Had, Kill
    <2>3. CASE <<To[p], p>> \in delivered \cup lost
      BY <1>2, <2>3 DEF Had, Kill
    <2> QED
      BY <2>1, <2>2, <2>3 DEF Had
  <1>3. ASSUME NEW n \in Node, Deliver(n) PROVE Had(To[p], p)'
    <2>1. CASE rxPacket[To[p]] = p /\ To[p] = n
      BY <1>0, <1>3, <2>1 DEF Had, Deliver, Accepts
    <2>2. CASE rxPacket[To[p]] = p /\ To[p] # n
      BY <1>0, <1>3, <2>2 DEF Had, Deliver
    <2>3. CASE <<To[p], p>> \in delivered \cup lost
      BY <1>3, <2>3 DEF Had, Deliver
    <2> QED
      BY <2>1, <2>2, <2>3 DEF Had
  <1>4. ASSUME NEW n \in Node, NEW d \in net, NEW arriving \in SUBSET Acks(n, d),
               ReceiveData(n, d, arriving)
        PROVE  Had(To[p], p)'
    <2>1. /\ rxPacket' = [rxPacket EXCEPT ![n] = d.packet] /\ rxPacket[n] = Idle
          /\ UNCHANGED <<delivered, lost>>
      BY <1>4 DEF ReceiveData, Receives
    <2> QED
      BY <1>0, <2>1 DEF Had
  <1> QED
    BY <1>1, <1>2, <1>3, <1>4

LEMMA KillInv ==
  ASSUME UdpInv, NEW n \in Node, Kill(n)
  PROVE  UdpInv'
  <1> USE DEF UdpInv
  <1>1. events' \in 0..MaxEvents
    BY EventBound DEF UdpTypeOK, Kill
  <1>2. UdpTypeOK'
    <2>1. lost \subseteq Node \X Packet /\ rxPacket \in [Node -> Packet \cup {Idle}]
      BY DEF UdpTypeOK
    <2>2. lost' \subseteq Node \X Packet /\ rxPacket' \in [Node -> Packet \cup {Idle}]
      BY <2>1 DEF Kill
    <2>3. /\ connAt' \in [Node -> {"off", "no thread", "connecting", "pausing",
                                  "connected", "done"}]
          /\ ready' \in [Node -> BOOLEAN] /\ hears' \in [Node -> BOOLEAN]
          /\ sock' \in [Node -> {"none", "open", "closed"}]
      BY DEF UdpTypeOK, Kill
    <2>4. sockets' \in [Node -> 0..MaxSockets]
      <3>1. sockets \in [Node -> 0..MaxSockets] /\ sockets' = [sockets EXCEPT ![n] = 0]
        BY DEF UdpTypeOK, Kill
      <3> QED
        BY <3>1, BoundAssumption
    <2>5. kills' \in [Node -> Nat]
      <3>1. kills \in [Node -> Nat] /\ kills' = [kills EXCEPT ![n] = @ + 1]
        BY DEF UdpTypeOK, Kill
      <3> QED
        BY <3>1
    <2>6. /\ (sending \cup container)' \subseteq {p \in Packet : Unicast(p)}
          /\ (sending \cap container)' = {}
          /\ UNCHANGED <<outcome, delivered, net>>
      BY DEF UdpTypeOK, Kill
    <2> QED
      BY <1>1, <2>2, <2>3, <2>4, <2>5, <2>6 DEF UdpTypeOK, Unicast
  <1>3. SocketInv'
    BY DEF UdpTypeOK, SocketInv, Kill
  <1>4. \A p \in Packet : Had(To[p], p) => Had(To[p], p)'
    BY HadStays
  <1>5. AckInv'
    <2>1. \A m \in Node, p \in Packet : <<m, p>> \in lost' => kills'[m] > 0
      <3>1. kills \in [Node -> Nat] /\ kills' = [kills EXCEPT ![n] = @ + 1]
        BY DEF UdpTypeOK, Kill
      <3>2. \A m \in Node, p \in Packet : <<m, p>> \in lost' => m = n \/ <<m, p>> \in lost
        BY DEF Kill
      <3> QED
        BY <3>1, <3>2 DEF AckInv
    <2>2. \A d \in net' : d.type = "ack" =>
            \E p \in Packet : Key(p) = d.key /\ Had(To[p], p)'
      BY <1>4 DEF AckInv, Kill
    <2> QED
      BY <2>1, <2>2 DEF AckInv, Key
  <1>6. SentInv'
    BY DEF SentInv, Kill
  <1>7. NotGivenUp'
    <2> SUFFICES ASSUME NEW p \in Packet, outcome'[p] = "sent", Unicast(p),
                        kills'[From[p]] = 0
                 PROVE  \E q \in Alike(p) : q \in (sending \cup container)' \/ Had(To[p], q)'
      BY DEF NotGivenUp, Alike, Key, Unicast
    <2>1. From[p] # n /\ kills[From[p]] = 0 /\ outcome[p] = "sent"
      <3>1. /\ kills \in [Node -> Nat] /\ kills' = [kills EXCEPT ![n] = @ + 1]
            /\ From[p] \in Node
        BY PacketAssumption DEF UdpTypeOK, Kill
      <3>2. UNCHANGED outcome
        BY DEF Kill
      <3> QED
        BY <3>1, <3>2
    <2>2. PICK q \in Alike(p) : q \in sending \cup container \/ Had(To[p], q)
      BY <2>1 DEF NotGivenUp
    <2>3. q \in Packet /\ From[q] = From[p] /\ To[q] = To[p]
      BY AlikeEnds DEF Alike
    <2>4. q \in (sending \cup container)' \/ Had(To[p], q)'
      BY <1>4, <2>1, <2>2, <2>3 DEF Kill
    <2> QED
      BY <2>4
  <1> QED
    BY <1>2, <1>3, <1>5, <1>6, <1>7

(***************************************************************************)
(* The steps of _udp_tx and of the container                               *)
(***************************************************************************)

LEMMA TxStepInv ==
  ASSUME UdpInv, NEW p \in Packet,
         \/ TxNotReady(p) \/ TxSend(p) \/ TxAddPacket(p)
         \/ \E arriving \in SUBSET Data(p) : Resend(p, arriving)
  PROVE  UdpInv'
  <1> USE DEF UdpInv
  <1>1. PICK arriving \in SUBSET Data(p) : net' = net \cup arriving \/ net' = net
    BY DEF TxNotReady, TxSend, TxAddPacket, Resend, Sends
  <1>2. UNCHANGED <<connVars, rxVars, kills>>
    BY DEF TxNotReady, TxSend, TxAddPacket, Resend
  <1>3. \A d \in net' : d \in net \/ (d \in Datagram /\ d.type = "data" /\ d.packet = p)
    BY <1>1, DataType
  <1>4. AckInv'
    BY <1>2, <1>3 DEF AckInv, Had, Key, rxVars
  <1>5. UdpTypeOK' /\ SocketInv'
    <2>1. Event \/ UNCHANGED events
      BY DEF TxNotReady, TxSend, TxAddPacket, Resend, Sends
    <2>2. events' \in 0..MaxEvents
      BY <2>1, EventBound DEF UdpTypeOK
    <2>3. outcome' \in [Packet -> {"new", "dropped", "sent"}]
      <3>1. /\ outcome \in [Packet -> {"new", "dropped", "sent"}]
            /\ \/ UNCHANGED outcome
               \/ \E o \in {"dropped", "sent"} : outcome' = [outcome EXCEPT ![p] = o]
        BY DEF UdpTypeOK, TxNotReady, TxSend, TxAddPacket, Resend, txVars
      <3> QED
        BY <3>1
    <2>4. /\ (sending \cup container)' \subseteq {q \in Packet : Unicast(q)}
          /\ (sending \cap container)' = {}
      <3>1. CASE TxSend(p)
        <4>1. p \notin container /\ Tracked(p) \subseteq {q \in Packet : Unicast(q)}
          BY <3>1 DEF TxSend, SentInv, Tracked
        <4> QED
          BY <3>1, <4>1 DEF UdpTypeOK, TxSend, Tracked
      <3>2. CASE TxAddPacket(p)
        BY <3>2 DEF UdpTypeOK, TxAddPacket
      <3>3. CASE TxNotReady(p) \/ \E arr \in SUBSET Data(p) : Resend(p, arr)
        BY <3>3 DEF UdpTypeOK, TxNotReady, Resend, txVars
      <3> QED
        BY <3>1, <3>2, <3>3
    <2>5. net' \subseteq Datagram
      BY <1>3 DEF UdpTypeOK
    <2> QED
      BY <1>2, <2>2, <2>3, <2>4, <2>5 DEF UdpTypeOK, SocketInv, Unicast, connVars, rxVars
  <1>6. \A q \in Packet : outcome[q] = "sent" => outcome'[q] = "sent"
    BY DEF UdpTypeOK, TxNotReady, TxSend, TxAddPacket, Resend, txVars
  <1>7. TxSend(p) => outcome'[p] = "sent"
    BY DEF UdpTypeOK, TxSend
  <1>8. SentInv'
    <2>1. TxSend(p) \/ p \in container \/ net' = net
      BY DEF TxNotReady, TxSend, TxAddPacket, Resend
    <2>2. \A d \in net' : d \in net \/ (d.packet = p /\ outcome'[p] = "sent")
      BY <1>3, <1>6, <1>7, <2>1 DEF SentInv
    <2>3. \A d \in net : d.type = "data" => d.packet \in Packet
      BY DatagramKinds DEF UdpTypeOK
    <2>4. \A d \in net' : d.type = "data" => outcome'[d.packet] = "sent"
      BY <1>6, <2>2, <2>3 DEF SentInv
    <2>5. \A q \in sending' \cup container' :
            q \in sending \cup container \/ (q = p /\ outcome'[q] = "sent" /\ Unicast(q))
      BY <1>7 DEF TxNotReady, TxSend, TxAddPacket, Resend, Tracked, txVars
    <2> QED
      BY <1>6, <2>4, <2>5 DEF UdpTypeOK, SentInv, Unicast
  <1>9. NotGivenUp'
    <2> SUFFICES ASSUME NEW r \in Packet, outcome'[r] = "sent", Unicast(r), kills[From[r]] = 0
                 PROVE  \E q \in Alike(r) : q \in (sending \cup container)' \/ Had(To[r], q)
      BY <1>2 DEF NotGivenUp, Had, Alike, Key, Unicast, rxVars
    <2>1. r \in Alike(r)
      BY DEF Alike
    <2>2. CASE outcome[r] # "sent"
      <3>1. r \in sending'
        BY <2>2 DEF UdpTypeOK, TxNotReady, TxSend, TxAddPacket, Resend, Tracked, txVars
      <3> QED
        BY <2>1, <3>1
    <2>3. CASE outcome[r] = "sent"
      <3>1. PICK q \in Alike(r) : q \in sending \cup container \/ Had(To[r], q)
        BY <2>3 DEF NotGivenUp
      <3>2. CASE q \in sending' \cup container' \/ Had(To[r], q)
        BY <3>1, <3>2
      <3>3. CASE q \notin sending' \cup container' /\ ~Had(To[r], q)
        <4>1. TxAddPacket(p) /\ q \in sending \cup container
          BY <3>1, <3>3 DEF TxNotReady, TxSend, TxAddPacket, Resend, txVars
        <4>2. q \in Packet /\ Key(q) = Key(r)
          BY DEF Alike
        <4>3. PICK s \in Packet : Key(s) = Key(q) /\ s \in container'
          BY <3>3, <4>1, <4>2 DEF TxAddPacket, Alike
        <4> QED
          BY <4>2, <4>3 DEF Alike
      <3> QED
        BY <3>2, <3>3
    <2> QED
      BY <2>2, <2>3
  <1> QED
    BY <1>4, <1>5, <1>8, <1>9

(***************************************************************************)
(* The steps of the receive thread                                         *)
(***************************************************************************)

LEMMA AckStepInv ==
  ASSUME UdpInv, NEW n \in Node, NEW d \in net, d.type = "ack",
         NEW answered \in SUBSET container, ReceiveAck(n, d, answered)
  PROVE  UdpInv'
  <1> USE DEF UdpInv
  <1>1. /\ net' \subseteq net /\ container' = container \ answered
        /\ UNCHANGED <<connVars, outcome, sending, rxVars, kills, events>>
    BY DEF ReceiveAck
  <1>2. UdpTypeOK' /\ SocketInv'
    BY <1>1 DEF UdpTypeOK, SocketInv, Unicast, connVars, rxVars
  <1>3. AckInv' /\ SentInv'
    BY <1>1 DEF AckInv, SentInv, Had, Key, Unicast, rxVars
  <1>4. NotGivenUp'
    <2> SUFFICES ASSUME NEW r \in Packet, outcome[r] = "sent", Unicast(r), kills[From[r]] = 0
                 PROVE  \E q \in Alike(r) : q \in (sending \cup container)' \/ Had(To[r], q)
      BY <1>1 DEF NotGivenUp, Had, Alike, Key, Unicast, rxVars
    <2>1. PICK q \in Alike(r) : q \in sending \cup container \/ Had(To[r], q)
      BY DEF NotGivenUp
    <2>2. CASE q \notin answered
      BY <1>1, <2>1, <2>2
    <2>3. CASE q \in answered
      <3>1. Key(q) = d.key /\ Key(q) = Key(r)
        BY <2>3 DEF ReceiveAck, Alike
      <3>2. PICK s \in Packet : Key(s) = d.key /\ Had(To[s], s)
        BY DEF AckInv
      <3>3. s \in Alike(r) /\ To[s] = To[r]
        BY <3>1, <3>2, AlikeEnds DEF Alike
      <3> QED
        BY <3>2, <3>3
    <2> QED
      BY <2>2, <2>3
  <1> QED
    BY <1>2, <1>3, <1>4

LEMMA DataStepInv ==
  ASSUME UdpInv, NEW n \in Node, NEW d \in net, d.type = "data",
         NEW arriving \in SUBSET Acks(n, d), ReceiveData(n, d, arriving)
  PROVE  UdpInv'
  <1> USE DEF UdpInv
  <1> DEFINE p == d.packet
  <1>1. p \in Packet
    BY DatagramKinds DEF UdpTypeOK, Ack
  <1>2. /\ net' = (net \ {d}) \cup arriving
        /\ rxPacket' = [rxPacket EXCEPT ![n] = p]
        /\ UNCHANGED <<connVars, txVars, delivered, lost, kills, events>>
    BY DEF ReceiveData
  <1>3. \A m \in arriving : m = Ack(p) /\ To[p] = n
    BY DEF Acks
  <1>4. Ack(p) \in Datagram /\ Ack(p).type = "ack" /\ Ack(p).key = Key(p)
    BY <1>1 DEF Datagram, Ack
  <1>5. UdpTypeOK' /\ SocketInv'
    <2>1. net' \subseteq Datagram
      BY <1>2, <1>3, <1>4 DEF UdpTypeOK
    <2> QED
      BY <1>1, <1>2, <2>1 DEF UdpTypeOK, SocketInv, Unicast, connVars, txVars
  <1>6. \A q \in Packet : Had(To[q], q) => Had(To[q], q)'
    BY HadStays
  <1>7. To[p] = n => Had(To[p], p)'
    BY <1>2 DEF Had, UdpTypeOK
  <1>8. AckInv'
    <2>1. \A m \in net' : m.type = "ack" =>
            \E q \in Packet : Key(q) = m.key /\ Had(To[q], q)'
      BY <1>1, <1>2, <1>3, <1>4, <1>6, <1>7 DEF AckInv
    <2> QED
      BY <1>2, <2>1 DEF AckInv, Key
  <1>9. SentInv'
    BY <1>2, <1>3, <1>4 DEF SentInv, txVars, Unicast
  <1>10. NotGivenUp'
    <2> SUFFICES ASSUME NEW r \in Packet, outcome[r] = "sent", Unicast(r), kills[From[r]] = 0
                 PROVE  \E q \in Alike(r) : q \in sending \cup container \/ Had(To[r], q)'
      BY <1>2 DEF NotGivenUp, Alike, Key, Unicast, txVars
    <2>1. PICK q \in Alike(r) : q \in sending \cup container \/ Had(To[r], q)
      BY DEF NotGivenUp
    <2>2. q \in Packet /\ To[q] = To[r]
      BY AlikeEnds DEF Alike
    <2> QED
      BY <1>6, <2>1, <2>2
  <1> QED
    BY <1>5, <1>8, <1>9, <1>10

LEMMA DeliverInv ==
  ASSUME UdpInv, NEW n \in Node, Deliver(n)
  PROVE  UdpInv'
  <1> USE DEF UdpInv
  <1>1. UNCHANGED <<connVars, txVars, lost, kills, net, events>>
    BY DEF Deliver
  <1>2. UdpTypeOK' /\ SocketInv'
    <2>1. /\ rxPacket \in [Node -> Packet \cup {Idle}] /\ delivered \subseteq Node \X Packet
      BY DEF UdpTypeOK
    <2>2. rxPacket' \in [Node -> Packet \cup {Idle}] /\ delivered' \subseteq Node \X Packet
      BY <2>1 DEF Deliver
    <2> QED
      BY <1>1, <2>2 DEF UdpTypeOK, SocketInv, Unicast, connVars, txVars
  <1>3. \A q \in Packet : Had(To[q], q) => Had(To[q], q)'
    BY HadStays
  <1>4. AckInv'
    BY <1>1, <1>3 DEF AckInv, Key
  <1>5. SentInv'
    BY <1>1 DEF SentInv, Unicast, txVars
  <1>6. NotGivenUp'
    <2> SUFFICES ASSUME NEW r \in Packet, outcome[r] = "sent", Unicast(r), kills[From[r]] = 0
                 PROVE  \E q \in Alike(r) : q \in sending \cup container \/ Had(To[r], q)'
      BY <1>1 DEF NotGivenUp, Alike, Key, Unicast, txVars
    <2>1. PICK q \in Alike(r) : q \in sending \cup container \/ Had(To[r], q)
      BY DEF NotGivenUp
    <2>2. q \in Packet /\ To[q] = To[r]
      BY AlikeEnds DEF Alike
    <2> QED
      BY <1>3, <2>1, <2>2
  <1> QED
    BY <1>2, <1>4, <1>5, <1>6

LEMMA UdpInvHolds == UdpSpec => []UdpInv
  <1>1. UdpInv /\ [UdpNext]_udpVars => UdpInv'
    <2> SUFFICES ASSUME UdpInv, [UdpNext]_udpVars PROVE UdpInv'
      OBVIOUS
    <2>1. CASE UNCHANGED udpVars
      BY <2>1 DEF udpVars, connVars, txVars, rxVars, UdpInv, UdpTypeOK, SocketInv,
                  AckInv, SentInv, NotGivenUp, Had
    <2>2. ASSUME NEW n \in Node, Device(n) PROVE UdpInv'
      BY <2>2, ConnStepInv, KillInv, DeliverInv DEF Device
    <2>3. ASSUME NEW n \in Node, NEW d \in net, Receive(n, d) PROVE UdpInv'
      BY <2>3, AckStepInv, DataStepInv DEF Receive
    <2> QED
      BY <2>1, <2>2, <2>3, TxStepInv DEF UdpNext
  <1> QED
    BY <1>1, UdpInitInv, PTL DEF UdpSpec

\* Every variable of UdpNetif keeps its type, and only packets to one device
\* are kept for resending, each in one place.
THEOREM UdpTypeCorrect == UdpSpec => []UdpTypeOK
  BY UdpInvHolds, PTL DEF UdpInv

\* The sender gives no packet up before the device it is for had one alike to
\* an acknowledgement; a packet alike to no other is itself kept until then.
THEOREM UdpNotGivenUp == UdpSpec => []NotGivenUp
  BY UdpInvHolds, PTL DEF UdpInv

\* What a device acknowledged, it hands to the callbacks, unless it is killed
\* with that packet in hand.
THEOREM UdpAcknowledgedIsKept == UdpSpec => []AcknowledgedIsKept
  <1>1. UdpInv => AcknowledgedIsKept
    BY DEF UdpInv, AckInv, AcknowledgedIsKept
  <1> QED
    BY <1>1, UdpInvHolds, PTL

(***************************************************************************)
(* The interfaces are a channel that delivers at least once                *)
(***************************************************************************)

Kept == sending \cup container
Held == [n \in Node |-> Given(n)]
LostOwn == {r \in lost : Accepts(r[1], r[2])}

\* A packet to one device is for that device alone.
LEMMA ForWhom ==
  \A p \in Packet : Unicast(p) => To[p] \in Node /\ {n \in Node : Accepts(n, p)} = {To[p]}
  BY PacketAssumption, NameAssumption DEF Accepts, Unicast

\* What the destination had, the channel says it had.
LEMMA ChannelHad ==
  ASSUME UdpTypeOK, NEW p \in Packet, Unicast(p), Had(To[p], p)
  PROVE  Channel!Had(To[p], p)
  <1>1. To[p] \in Node /\ p # Idle /\ Accepts(To[p], p)
    BY ForWhom, NameAssumption DEF Accepts
  <1>2. rxPacket[To[p]] = p => Held[To[p]] = p
    BY <1>1 DEF Held, Given
  <1>3. <<To[p], p>> \in lost => <<To[p], p>> \in LostOwn
    BY <1>1 DEF LostOwn
  <1> QED
    BY <1>2, <1>3 DEF Had, Channel!Had, Held, LostOwn

LEMMA KillChannel ==
  ASSUME UdpInv, NEW n \in Node, Kill(n)
  PROVE  Channel!Crash(n)
  <1>1. rxPacket \in [Node -> Packet \cup {Idle}] /\ rxPacket' = [rxPacket EXCEPT ![n] = Idle]
    BY DEF UdpInv, UdpTypeOK, Kill
  <1>2. Held' = [Held EXCEPT ![n] = Idle]
    BY <1>1 DEF Held, Given
  <1>3. Kept' = Kept \ {p \in Packet : From[p] = n}
    BY DEF UdpInv, UdpTypeOK, Kept, Kill
  <1>4. LostOwn' = LostOwn \cup ({<<n, Given(n)>>} \ {<<n, Idle>>})
    <2>1. CASE rxPacket[n] = Idle
      BY <2>1 DEF Kill, LostOwn, Given, Accepts
    <2>2. CASE rxPacket[n] # Idle /\ Accepts(n, rxPacket[n])
      BY <2>2 DEF Kill, LostOwn, Given, Accepts
    <2>3. CASE rxPacket[n] # Idle /\ ~Accepts(n, rxPacket[n])
      BY <2>3 DEF Kill, LostOwn, Given, Accepts
    <2> QED
      BY <2>1, <2>2, <2>3
  <1>5. UNCHANGED <<outcome, delivered>> /\ kills' = [kills EXCEPT ![n] = @ + 1]
    BY DEF Kill
  <1>6. Held[n] = Given(n)
    BY DEF Held
  <1> QED
    BY <1>2, <1>3, <1>4, <1>5, <1>6 DEF Channel!Crash, Held, Kept, LostOwn

LEMMA TxStepChannel ==
  ASSUME UdpInv, NEW p \in Packet,
         \/ TxNotReady(p) \/ TxSend(p) \/ TxAddPacket(p)
         \/ \E arriving \in SUBSET Data(p) : Resend(p, arriving)
  PROVE  [Channel!ChannelNext]_(Channel!channelVars)
  <1>1. UNCHANGED <<rxVars, kills>>
    BY DEF TxNotReady, TxSend, TxAddPacket, Resend
  <1>2. UNCHANGED <<[n \in Node |-> Given(n)], delivered, kills,
                    {r \in lost : Accepts(r[1], r[2])}>>
    BY <1>1 DEF Given, Accepts, rxVars
  <1>3. CASE TxNotReady(p)
    <2>1. Channel!Drop(p)
      BY <1>2, <1>3 DEF TxNotReady, Channel!Drop
    <2> QED
      BY <2>1 DEF Channel!ChannelNext
  <1>4. CASE TxSend(p)
    <2>1. Channel!Send(p)
      BY <1>2, <1>4 DEF TxSend, Tracked, Channel!Send
    <2> QED
      BY <2>1 DEF Channel!ChannelNext
  <1>5. CASE \E arriving \in SUBSET Data(p) : Resend(p, arriving)
    BY <1>2, <1>5 DEF Resend, txVars, Channel!channelVars
  <1>6. CASE TxAddPacket(p)
    <2> DEFINE forget(ps) ==
          /\ ps \subseteq Kept /\ Kept' = Kept \ ps
          /\ \A r \in ps : \E q \in Alike(r) : q \in Kept \ ps
    <2>1. p \in sending /\ p \notin container /\ sending' = sending \ {p} /\ UNCHANGED outcome
      BY <1>6 DEF TxAddPacket, UdpInv, UdpTypeOK
    <2>0. ASSUME NEW ps, forget(ps)
          PROVE  Channel!ChannelNext
      <3>1. ps \in SUBSET Kept /\ \A r \in ps : r \in Packet
        BY <2>0 DEF Kept, UdpInv, UdpTypeOK
      <3>2. Channel!Forget(ps)
        BY <1>2, <2>0, <2>1, <3>1 DEF Channel!Forget, Kept
      <3> QED
        BY <3>1, <3>2 DEF Channel!ChannelNext, Kept
    <2>2. CASE container' = container \cup {p}
      BY <1>2, <2>1, <2>2 DEF Channel!channelVars
    <2>3. CASE container' = (container \ Alike(p)) \cup {p}
      <3>1. Kept' = Kept \ (container \cap Alike(p)) /\ p \in Kept \ (container \cap Alike(p))
        BY <2>1, <2>3 DEF Kept, UdpInv, UdpTypeOK
      <3>2. \A r \in container \cap Alike(p) : p \in Alike(r)
        BY DEF Alike
      <3>3. forget(container \cap Alike(p))
        BY <3>1, <3>2 DEF Kept
      <3> QED
        BY <3>3, <2>0
    <2>4. CASE container \cap Alike(p) # {} /\ UNCHANGED container
      <3>1. PICK q \in container : q \in Alike(p)
        BY <2>4
      <3>2. forget({p})
        BY <2>1, <2>4, <3>1 DEF Kept
      <3> QED
        BY <3>2, <2>0
    <2> QED
      BY <1>6, <2>2, <2>3, <2>4 DEF TxAddPacket
  <1> QED
    BY <1>3, <1>4, <1>5, <1>6

LEMMA AckStepChannel ==
  ASSUME UdpInv, NEW n \in Node, NEW d \in net, d.type = "ack",
         NEW answered \in SUBSET container, ReceiveAck(n, d, answered)
  PROVE  Channel!Forget(answered) /\ answered \subseteq sending \cup container
  <1>1. UNCHANGED <<outcome, sending, rxVars, kills>> /\ container' = container \ answered
    BY DEF ReceiveAck
  <1>2. (sending \cup container)' = (sending \cup container) \ answered
    BY <1>1 DEF UdpInv, UdpTypeOK
  <1>3. UNCHANGED <<[m \in Node |-> Given(m)], delivered, kills, outcome,
                    {r \in lost : Accepts(r[1], r[2])}>>
    BY <1>1 DEF Given, Accepts, rxVars
  <1>4. ASSUME NEW p \in answered
        PROVE  \E q \in Alike(p) : \A m \in {x \in Node : Accepts(x, p)} : Channel!Had(m, q)
    <2>1. p \in Packet /\ Unicast(p) /\ Key(p) = d.key
      BY DEF ReceiveAck, UdpInv, UdpTypeOK
    <2>2. PICK q \in Packet : Key(q) = d.key /\ Had(To[q], q)
      BY DEF UdpInv, AckInv
    <2>3. To[q] = To[p] /\ Unicast(q) /\ q \in Alike(p)
      BY <2>1, <2>2, AlikeEnds DEF Unicast, Alike
    <2>4. Channel!Had(To[p], q)
      BY <2>2, <2>3, ChannelHad DEF UdpInv
    <2>5. {x \in Node : Accepts(x, p)} = {To[p]}
      BY <2>1, ForWhom
    <2> QED
      BY <2>3, <2>4, <2>5
  <1>5. \A p \in answered : p \in Packet
    BY DEF UdpInv, UdpTypeOK
  <1> QED
    BY <1>2, <1>3, <1>4, <1>5 DEF Channel!Forget

LEMMA DataStepChannel ==
  ASSUME UdpInv, NEW n \in Node, NEW d \in net, d.type = "data",
         NEW arriving \in SUBSET Acks(n, d), ReceiveData(n, d, arriving)
  PROVE  [Channel!ChannelNext]_(Channel!channelVars)
  <1> USE DEF UdpInv
  <1> DEFINE p == d.packet
  <1>1. p \in Packet
    BY DatagramKinds DEF UdpTypeOK, Ack
  <1>2. /\ UNCHANGED <<outcome, sending, container, delivered, lost, kills>>
        /\ rxPacket[n] = Idle /\ rxPacket' = [rxPacket EXCEPT ![n] = p]
        /\ outcome[p] = "sent"
    BY DEF ReceiveData, Receives, SentInv, txVars
  <1>3. UNCHANGED {r \in lost : Accepts(r[1], r[2])}
    BY <1>2 DEF Accepts
  <1>4. Given(n) = Idle
    BY <1>2 DEF Given
  <1>5. rxPacket \in [Node -> Packet \cup {Idle}]
    BY DEF UdpTypeOK
  <1>6. \A m \in Node \ {n} : Given(m)' = Given(m)
    BY <1>2, <1>5 DEF Given, Accepts
  <1>7. CASE Accepts(n, p)
    <2>1. Given(n)' = p
      BY <1>1, <1>2, <1>5, <1>7, NameAssumption DEF Given, Accepts
    <2>2. [m \in Node |-> Given(m)]' = [[m \in Node |-> Given(m)] EXCEPT ![n] = p]
      BY <1>6, <2>1
    <2>3. Channel!Give(n, p)
      BY <1>1, <1>2, <1>3, <1>4, <1>7, <2>2 DEF Channel!Give
    <2> QED
      BY <1>1, <2>3 DEF Channel!ChannelNext
  <1>8. CASE ~Accepts(n, p)
    <2>1. Given(n)' = Idle
      BY <1>2, <1>5, <1>8 DEF Given, Accepts
    <2>2. UNCHANGED [m \in Node |-> Given(m)]
      BY <1>4, <1>6, <2>1
    <2> QED
      BY <1>2, <1>3, <2>2 DEF Channel!channelVars
  <1> QED
    BY <1>7, <1>8

LEMMA DeliverChannel ==
  ASSUME UdpInv, NEW n \in Node, Deliver(n)
  PROVE  [Channel!ChannelNext]_(Channel!channelVars)
  <1>1. UNCHANGED <<outcome, sending, container, lost, kills>>
    BY DEF Deliver, txVars
  <1>2. UNCHANGED {r \in lost : Accepts(r[1], r[2])}
    BY <1>1 DEF Accepts
  <1>3. /\ Given(n)' = Idle
        /\ \A m \in Node \ {n} : Given(m)' = Given(m)
    <2>1. rxPacket \in [Node -> Packet \cup {Idle}] /\ rxPacket' = [rxPacket EXCEPT ![n] = Idle]
      BY DEF Deliver, UdpInv, UdpTypeOK
    <2> QED
      BY <2>1 DEF Given, Accepts
  <1>4. CASE Accepts(n, rxPacket[n])
    <2>1. Given(n) = rxPacket[n] /\ Given(n) # Idle
      BY <1>4 DEF Given, Deliver
    <2>2. [m \in Node |-> Given(m)]' = [[m \in Node |-> Given(m)] EXCEPT ![n] = Idle]
      BY <1>3
    <2>3. Channel!HandOn(n)
      BY <1>1, <1>2, <1>4, <2>1, <2>2 DEF Deliver, Channel!HandOn
    <2> QED
      BY <2>3 DEF Channel!ChannelNext
  <1>5. CASE ~Accepts(n, rxPacket[n])
    <2>1. Given(n) = Idle /\ delivered' = delivered
      BY <1>5 DEF Given, Deliver
    <2>2. UNCHANGED [m \in Node |-> Given(m)]
      BY <1>3, <2>1
    <2> QED
      BY <1>1, <1>2, <2>1, <2>2 DEF Channel!channelVars
  <1> QED
    BY <1>4, <1>5

\* For any devices, packets and transaction ids, over a network that loses,
\* reorders and brings every packet to every device, and with processes that
\* are killed: at least once among packets alike, and to those they are for.
THEOREM UdpImplementsChannel == UdpSpec => ImplementsChannel
  <1>1. UdpInit => Channel!ChannelInit
    BY DEF UdpInit, Channel!ChannelInit, Given
  <1>2. UdpInv /\ [UdpNext]_udpVars => [Channel!ChannelNext]_(Channel!channelVars)
    <2> SUFFICES ASSUME UdpInv, [UdpNext]_udpVars
                 PROVE  [Channel!ChannelNext]_(Channel!channelVars)
      OBVIOUS
    <2>1. CASE UNCHANGED <<txVars, rxVars, kills>>
      BY <2>1 DEF txVars, rxVars, Given, Accepts, Channel!channelVars
    <2>2. ASSUME NEW n \in Node, Device(n)
          PROVE  [Channel!ChannelNext]_(Channel!channelVars)
      <3>1. CASE Kill(n)
        BY <3>1, KillChannel DEF Channel!ChannelNext
      <3>2. CASE Deliver(n)
        BY <3>2, DeliverChannel
      <3>3. CASE \/ StartConnecting(n) \/ Connect(n) \/ ConnectFails(n) \/ TryAgain(n)
                 \/ Activate(n) \/ Deinit(n)
        BY <2>1, <3>3
        DEF StartConnecting, Connect, ConnectFails, TryAgain, Activate, Deinit
      <3> QED
        BY <2>2, <3>1, <3>2, <3>3 DEF Device
    <2>3. ASSUME NEW n \in Node, NEW d \in net, Receive(n, d)
          PROVE  [Channel!ChannelNext]_(Channel!channelVars)
      BY <2>3, AckStepChannel, DataStepChannel DEF Receive, Channel!ChannelNext
    <2> QED
      BY <2>1, <2>2, <2>3, TxStepChannel DEF UdpNext, udpVars
  <1> QED
    BY <1>1, <1>2, UdpInvHolds, PTL DEF UdpSpec, ImplementsChannel, Channel!ChannelSpec
=============================================================================
