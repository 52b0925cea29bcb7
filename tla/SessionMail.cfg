SPECIFICATION SessionSpec
CHECK_DEADLOCK FALSE
CONSTANTS
  None = None
  Asks = {q1}
  Links = {k1, k2}
  Letters = {l1}
  MaxGeneration = 2
INVARIANTS MailReachesTheSession
