---------------------------- MODULE MCAskAuthority ----------------------------
(* Small instances of AskAuthority for TLC.                                *)
EXTENDS AskAuthority

CONSTANTS a1, a2, f1, s1, s2, shell, directory

\* two tool calls that run in parallel, and an ask of a subagent
ThreeAsks == {a1, a2, f1}
OneForwarded == {f1}
TwoKinds == {shell, directory}
\* the subagent asks for what one of the tool calls asks for
KindOf == [a \in Asks |-> IF a = a1 THEN directory ELSE shell]
DirectoryKinds == {directory}
TwoSessions == {s1, s2}

\* no guard reads how a decided ask was decided, nor the terminal of a chain that has ended
StateView ==
  <<session, terminal, yolo, grants, queue, dialogs, position,
    [a \in Asks |-> IF decision[a].state \in {"new", "open"} THEN decision[a].state ELSE "decided"],
    [a \in Asks |-> IF position[a] = 0 THEN "none" ELSE authority[a]]>>
=============================================================================
