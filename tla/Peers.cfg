SPECIFICATION PeersSpec
CHECK_DEADLOCK FALSE
CONSTANTS
  None = None
  Asks = {q1}
  Links = {k1, k2}
  Letters = {}
  MaxGeneration = 2
  m1 = m1
  m2 = m2
  p1 = p1
  p2 = p2
  Messages = {m1, m2}
  Sender <- MSender
  Peers = {p1, p2}
  Asking = {m1}
  Answering = {m2}
  Outgoing = {o1}
  Settings <- AllSettings
  NoMessage = NoMessage
INVARIANTS  AsksStayOwed
PROPERTIES HeldIsDelivered EveryPeerAskEnds
