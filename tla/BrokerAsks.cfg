SPECIFICATION Spec
CHECK_DEADLOCK FALSE
CONSTANTS
  s1 = s1
  s2 = s2
  s3 = s3
  n1 = n1
  x1 = x1
  x2 = x2
  a = a
  b = b
  c = c
  bb = bb
  m1 = m1
  m2 = m2
  m3 = m3
  NoName = NoName
  NoMsg = NoMsg
  None = None
  Sockets <- TwoSockets
  Scopes <- OneScope
  Ids <- AB
  Names <- NoNames
  Cwds = {c1}
  Prefixes <- NoPrefixes
  Messages <- AskCatalogue
  MaxSessions = 2
  MaxUnregistered = 1
  MaxMailbox = 1
  MaxRecords = 4
  MaxEpoch = 3
  Events = {"ask", "destroy", "gone", "route"}
VIEW StateView
SYMMETRY SocketSymmetry
INVARIANTS TypeOK AskersAreLive NoMutualAsk
PROPERTIES ReplyAnswersItsAsk IncumbentKeepsItsId ControlFollowsTheMessage
