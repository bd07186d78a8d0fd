SPECIFICATION UdpFairSpec
CONSTANTS
  a = a
  b = b
  response1 = response1
  response2 = response2
  start = start
  Node = {a, b}
  Packet = {response1, response2}
  From <- MCFrom
  To <- MCTo
  Id <- MCId
  Everyone = Everyone
  Idle = Idle
  MaxSockets = 1
  MaxEvents = 1
INVARIANTS
  UdpTypeOK
PROPERTIES
  ImplementsChannel
  Arrives
  ResendingStops
CHECK_DEADLOCK FALSE
