----------------------------- MODULE MCUdpNetif -----------------------------
(* Two devices: one sends the other two responses, whose transaction id is  *)
(* 0, and broadcasts its start.                                             *)
EXTENDS UdpNetif

CONSTANTS a, b, response1, response2, start

MCFrom == [p \in Packet |-> b]
MCTo == [p \in Packet |-> IF p = start THEN Everyone ELSE a]
MCId == [p \in Packet |-> 0]
=============================================================================
