SPECIFICATION FairSpec
CHECK_DEADLOCK FALSE
CONSTANTS
  a1 = a1
  a2 = a2
  read = read
  write = write
  Nobody = Nobody
  Asks <- TwoAsks
  Kinds <- BothKinds
  Kind <- OwnKinds
  Policy <- DenyReads
  Grace = 1
  Events = {"kill", "shutdown"}
PROPERTIES EveryAskEnds InboxDrains
