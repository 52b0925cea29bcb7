SPECIFICATION Spec
CHECK_DEADLOCK FALSE
CONSTANTS
  a1 = a1
  a2 = a2
  read = read
  write = write
  Nobody = Nobody
  Asks <- OneAsk
  Kinds <- BothKinds
  Kind <- SameKind
  Policy <- AlwaysAsk
  Grace = 2
  Events = {"cancel", "kill", "crash", "stall", "shutdown"}
SYMMETRY AskSymmetry
PROPERTIES ImplementsForwardedAsk
