SPECIFICATION Spec
CHECK_DEADLOCK FALSE
CONSTANTS
  a1 = a1
  a2 = a2
  read = read
  write = write
  Nobody = Nobody
  Asks <- TwoAsks
  Kinds <- BothKinds
  Kind <- SameKind
  Policy <- AlwaysAsk
  Grace = 1
  Events = {"cancel", "shutdown", "kill"}
SYMMETRY AskSymmetry
INVARIANTS GrantsEndWithTheSession LastOneOutCleansUp
PROPERTIES WithdrawnAsksAreNotServed
