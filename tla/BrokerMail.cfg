SPECIFICATION Spec
CHECK_DEADLOCK FALSE
CONSTANTS
  s1 = s1
  s2 = s2
  s3 = s3
  n1 = n1
  x1 = x1
  x2 = x2
  a = a
  b = b
  c = c
  bb = bb
  m1 = m1
  m2 = m2
  m3 = m3
  NoName = NoName
  NoMsg = NoMsg
  None = None
  Sockets <- ThreeSockets
  Scopes <- OneScope
  Ids <- ABC
  Names <- OneName
  Cwds = {c1}
  Prefixes <- NoPrefixes
  Messages <- OneLetter
  MaxSessions = 3
  MaxUnregistered = 3
  MaxMailbox = 1
  MaxRecords = 4
  MaxEpoch = 4
  Events = {}
VIEW StateView
SYMMETRY SocketSymmetry
INVARIANTS MailWaitsForTheAbsent
 
