------------------------------ MODULE UdpNetif ------------------------------
(* The UDP network interface, common/src/iotkit-impl/netif/netif-udp.cpp,   *)
(* on devices of one network: the connection thread, sending, the receive   *)
(* thread, and the acknowledgements the code calls QoS 1. The network loses *)
(* and reorders datagrams; a process may be killed and started again.       *)
(* KSResendContainer is a submodule and external: it sends a packet again   *)
(* and again until processResponse, which gets the peer's MAC and the       *)
(* transaction id, removes it. What the receive thread hands a packet to is *)
(* PacketsQueue.                                                            *)
EXTENDS Naturals, FiniteSets

CONSTANTS
  Node,        \* the devices
  Packet,      \* each packet is sent once, by the application on From[p]
  From, To,    \* To[p]: the device with the destination MAC, or Everyone
  Id,          \* Id[p]: its transaction id; every response has the id 0
  Everyone,    \* the broadcast MAC
  Idle,        \* the receive thread has no packet
  MaxSockets,  \* bound: how many descriptors the process may have
  MaxEvents    \* bound: how often a process is killed, a thread is not created
               \* or a device hears a packet that is not for it, all together

ASSUME PacketAssumption == /\ From \in [Packet -> Node]
                           /\ To \in [Packet -> Node \cup {Everyone}]
                           /\ Id \in [Packet -> Nat]
                           /\ \A p \in Packet : From[p] # To[p]
ASSUME NameAssumption == Everyone \notin Node /\ Idle \notin Packet
ASSUME BoundAssumption == MaxSockets \in Nat \ {0} /\ MaxEvents \in Nat

VARIABLES
  connAt,     \* where the connection thread is
  ready,      \* _ready
  sock,       \* _udp_sock as the interface uses it: "none", "open", "closed"
  sockets,    \* descriptors the process holds for it
  hears,      \* the receive thread runs
  outcome,    \* outcome[p]: "new", or what _udp_tx did with p
  sending,    \* packets sent and not yet in the container
  container,  \* _resendContainer
  rxPacket,   \* the packet the receive thread acknowledged and holds
  delivered,  \* <<n, p>>: p was handed to _netif_udp_process_cb on n
  lost,       \* <<n, p>>: n was killed while its receive thread held p
  kills,      \* how often each device's process was killed
  net,        \* datagrams that will arrive, in any order
  events      \* what MaxEvents counts

connVars == <<connAt, ready, sock, sockets, hears>>
txVars   == <<outcome, sending, container>>
rxVars   == <<rxPacket, delivered, lost>>
udpVars  == <<connVars, txVars, rxVars, kills, net, events>>

Unicast(p) == To[p] # Everyone

\* What an acknowledgement and the container know of a packet.
Key(p) == <<From[p], To[p], Id[p]>>
Alike(p) == {q \in Packet : Key(q) = Key(p)}

\* Every packet goes to the broadcast address of the network, whatever its
\* MAC: all devices may get it, also the one that sent it.
Data(p) == [type : {"data"}, packet : {p}, to : Node]

\* _netif_udp_rx_cb, which is SNAP's, refuses the packets of other devices.
Accepts(n, p) == To[p] \in {n, Everyone}
Wanted(p) == {d \in Data(p) : Accepts(d.to, p)}

\* So does an acknowledgement: an empty packet with the MACs exchanged and the
\* same transaction id. Only the device with its MAC looks at it.
Ack(p)  == [type |-> "ack", key |-> Key(p), to |-> From[p]]

Datagram == [type : {"data"}, packet : Packet, to : Node] \cup {Ack(p) : p \in Packet}

UdpInit ==
  /\ connAt = [n \in Node |-> "off"]
  /\ ready = [n \in Node |-> FALSE]
  /\ sock = [n \in Node |-> "none"]
  /\ sockets = [n \in Node |-> 0]
  /\ hears = [n \in Node |-> FALSE]
  /\ outcome = [p \in Packet |-> "new"]
  /\ sending = {} /\ container = {}
  /\ rxPacket = [n \in Node |-> Idle]
  /\ delivered = {} /\ lost = {}
  /\ kills = [n \in Node |-> 0]
  /\ net = {} /\ events = 0

Event == events < MaxEvents /\ events' = events + 1

(***************************************************************************)
(* The connection thread                                                   *)
(***************************************************************************)

ConnMoves(n, from, to) == connAt[n] = from /\ connAt' = [connAt EXCEPT ![n] = to]

\* _udp_init, which IoTKit calls once, starts the connection thread. When the
\* thread cannot be created, nobody learns of it, and _connecting stays set.
StartConnecting(n) ==
  /\ \/ ConnMoves(n, "off", "connecting") /\ UNCHANGED events
     \/ ConnMoves(n, "off", "no thread") /\ Event
  /\ UNCHANGED <<ready, sock, sockets, hears, txVars, rxVars, kills, net>>

\* socket() gives an attempt a descriptor, if there is one left.
OpenSocket(n) == /\ sockets[n] < MaxSockets
                 /\ sockets' = [sockets EXCEPT ![n] = @ + 1]

\* _udp_connect made and bound its socket and started the receive thread; that
\* this thread could not be created is not looked at.
Connect(n) ==
  /\ ConnMoves(n, "connecting", "connected")
  /\ OpenSocket(n)
  /\ sock' = [sock EXCEPT ![n] = "open"]
  /\ \/ hears' = [hears EXCEPT ![n] = TRUE] /\ UNCHANGED events
     \/ UNCHANGED hears /\ Event
  /\ UNCHANGED <<ready, txVars, rxVars, kills, net>>

\* There is no interface or no descriptor; or an option or the port was
\* refused: then _udp_deinit is called to clean up and returns at once, because
\* _ready is not set yet, and the socket stays open.
ConnectFails(n) ==
  /\ ConnMoves(n, "connecting", "pausing")
  /\ OpenSocket(n) \/ UNCHANGED sockets
  /\ UNCHANGED <<ready, sock, hears, txVars, rxVars, kills, net, events>>

\* The next attempt comes a second later.
TryAgain(n) ==
  /\ ConnMoves(n, "pausing", "connecting")
  /\ UNCHANGED <<ready, sock, sockets, hears, txVars, rxVars, kills, net, events>>

\* The interface is ready: _ready is set and the thread ends.
Activate(n) ==
  /\ ConnMoves(n, "connected", "done")
  /\ ready' = [ready EXCEPT ![n] = TRUE]
  /\ UNCHANGED <<sock, sockets, hears, txVars, rxVars, kills, net, events>>

\* Mutant of Deinit: what was closed is closed again.
DeinitAgain(n) ==
  /\ ready[n] /\ sock[n] # "none"
  /\ sock' = [sock EXCEPT ![n] = "closed"]
  /\ sockets' = [sockets EXCEPT ![n] = @ - 1]
  /\ UNCHANGED <<connAt, ready, hears, txVars, rxVars, kills, net, events>>

\* _udp_deinit closes the socket and waits for the receive thread, which first
\* hands on the packet it holds. _ready stays set.
Deinit(n) ==
  /\ ready[n] /\ sock[n] = "open"
  /\ sock' = [sock EXCEPT ![n] = "closed"]
  /\ sockets' = [sockets EXCEPT ![n] = @ - 1]
  /\ UNCHANGED <<connAt, ready, hears, txVars, rxVars, kills, net, events>>

\* Without a receive thread _udp_deinit joins a thread that never was, which is
\* undefined: it goes on as above, or the process ends, as here. A process that
\* is killed, at any step, loses what is in memory, and is started again.
Kill(n) ==
  /\ Event
  /\ kills' = [kills EXCEPT ![n] = @ + 1]
  /\ connAt' = [connAt EXCEPT ![n] = "off"]
  /\ ready' = [ready EXCEPT ![n] = FALSE]
  /\ sock' = [sock EXCEPT ![n] = "none"]
  /\ sockets' = [sockets EXCEPT ![n] = 0]
  /\ hears' = [hears EXCEPT ![n] = FALSE]
  /\ sending' = {p \in sending : From[p] # n}
  /\ container' = {p \in container : From[p] # n}
  /\ lost' = lost \cup (IF rxPacket[n] = Idle THEN {} ELSE {<<n, rxPacket[n]>>})
  /\ rxPacket' = [rxPacket EXCEPT ![n] = Idle]
  /\ UNCHANGED <<outcome, delivered, net>>

(***************************************************************************)
(* Sending: _udp_tx                                                        *)
(***************************************************************************)

\* sendto() on the socket, whose result is not looked at: of the datagrams
\* sent, only those of `arriving` are not lost.
Sends(n, arriving) ==
  /\ net' = IF sock[n] = "open" THEN net \cup arriving ELSE net
  /\ IF \A d \in arriving : Accepts(d.to, d.packet) THEN UNCHANGED events ELSE Event

\* Not ready: the packet is dropped, and VS_CODE_OK returned. The application
\* sends once ks_iotkit_init has called _udp_init.
TxNotReady(p) ==
  /\ outcome[p] = "new" /\ ~ready[From[p]]
  /\ connAt[From[p]] # "off"
  /\ outcome' = [outcome EXCEPT ![p] = "dropped"]
  /\ UNCHANGED <<connVars, sending, container, rxVars, kills, net, events>>

\* Only a packet to one device is resent.
Tracked(p) == IF Unicast(p) THEN {p} ELSE {}

TxSend(p) ==
  /\ outcome[p] = "new" /\ ready[From[p]]
  /\ outcome' = [outcome EXCEPT ![p] = "sent"]
  /\ \E arriving \in SUBSET Data(p) : Sends(From[p], arriving)
  /\ sending' = sending \cup Tracked(p)
  /\ UNCHANGED <<connVars, container, rxVars, kills>>

\* Mutant of TxAddPacket: the packet is not kept for resending.
TxAddPacketLost(p) ==
  /\ p \in sending
  /\ sending' = sending \ {p}
  /\ UNCHANGED <<connVars, outcome, container, rxVars, kills, net, events>>

\* addPacket comes after the datagram is on its way, and perhaps answered. What
\* the container does with a packet it has another alike of is external: it
\* keeps both, or the old one, or the new one.
TxAddPacket(p) ==
  /\ p \in sending
  /\ sending' = sending \ {p}
  /\ \/ container' = container \cup {p}
     \/ container' = (container \ Alike(p)) \cup {p}
     \/ container \cap Alike(p) # {} /\ UNCHANGED container
  /\ UNCHANGED <<connVars, outcome, rxVars, kills, net, events>>

\* KSResendContainer sends the packet again.
Resend(p, arriving) ==
  /\ p \in container
  /\ Sends(From[p], arriving)
  /\ UNCHANGED <<connVars, txVars, rxVars, kills>>

(***************************************************************************)
(* The receive thread                                                      *)
(***************************************************************************)

\* recvfrom() gives the thread, which has finished its last packet, a datagram.
Receives(n, d) == /\ ready[n] /\ sock[n] = "open" /\ hears[n]
                  /\ rxPacket[n] = Idle
                  /\ d \in net /\ d.to = n

\* processResponse removes the packets the acknowledgement could be for, or, as
\* the container may have it, only some of them.
ReceiveAck(n, d, answered) ==
  LET meant == {p \in container : Key(p) = d.key}
  IN  /\ Receives(n, d)
      /\ net' = net \ {d}
      /\ answered \subseteq meant /\ (meant # {} => answered # {})
      /\ container' = container \ answered
      /\ UNCHANGED <<connVars, outcome, sending, rxVars, kills, events>>

\* The device has the packet, or had it.
Had(n, p) == rxPacket[n] = p \/ <<n, p>> \in delivered \cup lost

\* Mutant of Acks: only the first copy of a packet is acknowledged.
AcksOnce(n, d) == IF To[d.packet] = n /\ ~Had(n, d.packet) THEN {Ack(d.packet)} ELSE {}

\* Mutant of Acks: the destination MAC is not compared.
AcksAll(n, d) == {Ack(d.packet)}

\* A packet with this device's MAC is acknowledged first.
Acks(n, d) == IF To[d.packet] = n THEN {Ack(d.packet)} ELSE {}

ReceiveData(n, d, arriving) ==
  /\ Receives(n, d)
  /\ net' = (net \ {d}) \cup arriving
  /\ rxPacket' = [rxPacket EXCEPT ![n] = d.packet]
  /\ UNCHANGED <<connVars, txVars, delivered, lost, kills, events>>

\* Then the callbacks get it; a packet received again, they get again.
Deliver(n) ==
  /\ rxPacket[n] # Idle
  /\ delivered' = delivered \cup
       (IF Accepts(n, rxPacket[n]) THEN {<<n, rxPacket[n]>>} ELSE {})
  /\ rxPacket' = [rxPacket EXCEPT ![n] = Idle]
  /\ UNCHANGED <<connVars, txVars, lost, kills, net, events>>

Device(n) ==
  \/ StartConnecting(n) \/ Connect(n) \/ ConnectFails(n) \/ TryAgain(n)
  \/ Activate(n) \/ Deinit(n) \/ Kill(n) \/ Deliver(n)

Receive(n, d) ==
  \/ /\ d.type = "ack"
     /\ \E answered \in SUBSET container : ReceiveAck(n, d, answered)
  \/ /\ d.type = "data"
     /\ \E arriving \in SUBSET Acks(n, d) : ReceiveData(n, d, arriving)

UdpNext ==
  \/ \E n \in Node : Device(n) \/ \E d \in net : Receive(n, d)
  \/ \E p \in Packet : \/ TxNotReady(p) \/ TxSend(p) \/ TxAddPacket(p)
                       \/ \E arriving \in SUBSET Data(p) : Resend(p, arriving)

UdpSpec == UdpInit /\ [][UdpNext]_udpVars

\* The receive thread and _udp_tx go on. The network does not lose every copy
\* of a packet or of an acknowledgement that is sent over and over, and a
\* datagram that arrived is received. Nothing is assumed of the connection
\* thread: its attempts may fail for ever.
UdpFairSpec ==
  /\ UdpSpec
  /\ \A n \in Node : WF_udpVars(Deliver(n))
  /\ \A p \in Packet :
       /\ WF_udpVars(TxAddPacket(p))
       /\ SF_udpVars(Resend(p, Wanted(p)))
       /\ SF_udpVars(\E answered \in SUBSET container :
                       ReceiveAck(From[p], Ack(p), answered))
       /\ \A d \in Wanted(p) : SF_udpVars(ReceiveData(d.to, d, Acks(d.to, d)))

(***************************************************************************)
(* Properties                                                              *)
(***************************************************************************)

\* Every variable has its type, and only packets to one device are kept for
\* resending, each in one place.
UdpTypeOK ==
  /\ connAt \in [Node -> {"off", "no thread", "connecting", "pausing", "connected", "done"}]
  /\ ready \in [Node -> BOOLEAN]
  /\ sock \in [Node -> {"none", "open", "closed"}]
  /\ sockets \in [Node -> 0..MaxSockets]
  /\ hears \in [Node -> BOOLEAN]
  /\ outcome \in [Packet -> {"new", "dropped", "sent"}]
  /\ sending \cup container \subseteq {p \in Packet : Unicast(p)}
  /\ sending \cap container = {}
  /\ rxPacket \in [Node -> Packet \cup {Idle}]
  /\ delivered \subseteq Node \X Packet /\ lost \subseteq Node \X Packet
  /\ kills \in [Node -> Nat]
  /\ net \subseteq Datagram /\ events \in 0..MaxEvents

\* QoS 1 never gives a unicast packet up before its destination had it, as far
\* as packets can be told apart: until the destination had a packet alike to
\* it, the sender, if it was not killed, still has one and will send it again.
\* A packet that shares its key with no other is thus never given up.
NotGivenUp ==
  \A p \in Packet : outcome[p] = "sent" /\ Unicast(p) /\ kills[From[p]] = 0 =>
    \E q \in Alike(p) : q \in sending \cup container \/ Had(To[p], q)

\* Nothing acknowledged is lost on the device that acknowledged it, except the
\* packet it has in hand when it is killed.
AcknowledgedIsKept ==
  /\ \A d \in net : d.type = "ack" =>
       \E p \in Packet : Key(p) = d.key /\ Had(To[p], p)
  /\ \A n \in Node, p \in Packet : <<n, p>> \in lost => kills[n] > 0

Given(n) == IF rxPacket[n] # Idle /\ Accepts(n, rxPacket[n]) THEN rxPacket[n] ELSE Idle
Channel == INSTANCE AtLeastOnce
  WITH Addressees <- [p \in Packet |-> {n \in Node : Accepts(n, p)}],
       AlikeTo <- [p \in Packet |-> Alike(p)],
       Single <- {p \in Packet : Unicast(p)},
       kept <- sending \cup container,
       given <- [n \in Node |-> Given(n)],
       lost <- {r \in lost : Accepts(r[1], r[2])},
       crashes <- kills

\* Over a network that loses and reorders, and takes every packet to every
\* device, the interfaces are a channel that delivers at least once, among
\* packets alike to an acknowledgement: a sender forgets a packet only when the
\* device it is for had one alike, or while it keeps another one.
ImplementsChannel == Channel!ChannelSpec

Gone(n) == sock[n] = "closed" \/ kills[n] > 0
Hears(n) == ready[n] /\ hears[n] /\ sock[n] = "open"

\* At least once: of the packets alike to one that was sent to one device, one
\* arrives there, although each may be lost, overtaken by the acknowledgement
\* of another, or in the hands of a device that is killed. It does not if the
\* sender closes or is killed, if the device loses the packet it has in hand
\* when it is killed, or if from some time on the device does not listen.
Arrives ==
  \A p \in Packet : Unicast(p) =>
    (outcome[p] = "sent"
       ~> \/ \E q \in Alike(p) : <<To[p], q>> \in delivered \cup lost
          \/ Gone(From[p])
          \/ []~Hears(To[p]))

\* Resending stops: also when the acknowledgement came before addPacket. The
\* next copy is acknowledged again. It goes on while one of the two devices
\* does not listen.
ResendingStops ==
  \A p \in Packet :
    p \in container ~> p \notin container \/ []~(Hears(From[p]) /\ Hears(To[p]))

\* The broadcast of main.c about the start of the application reaches the
\* network, as _udp_tx reports.
StartNotified ==
  \A p \in Packet : outcome[p] = "dropped" => Unicast(p)
=============================================================================
