SPECIFICATION FairSpec
CHECK_DEADLOCK FALSE
CONSTANTS
  a1 = a1
  a2 = a2
  f1 = f1
  s1 = s1
  s2 = s2
  shell = shell
  directory = directory
  NoSession = NoSession
  Asks <- ThreeAsks
  Kinds <- TwoKinds
  Kind <- KindOf
  Forwarded <- OneForwarded
  Bare = {}
  Excluded <- DirectoryKinds
  Directory <- DirectoryKinds
  Recordable <- TwoKinds
  Links = 1
  Terminals = {"local", "relay", "deny"}
  Sessions <- TwoSessions
VIEW StateView
INVARIANTS OneDialog NobodyIsStranded
PROPERTIES ImplementsAskRulings EveryAskEnds
