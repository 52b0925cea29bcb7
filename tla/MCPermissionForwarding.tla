------------------------ MODULE MCPermissionForwarding ------------------------
(* Small instances of PermissionForwarding for TLC.                        *)
EXTENDS PermissionForwarding

LOCAL INSTANCE TLC

CONSTANTS a1, a2, read, write

OneAsk == {a1}
TwoAsks == {a1, a2}
BothKinds == {read, write}
\* both ask about the same kind of action, so a grant for one settles the other
SameKind == [a \in Asks |-> write]
\* a2 asks for what a rule of the serving session denies
OwnKinds == [a \in Asks |-> IF a = a2 THEN read ELSE write]
AlwaysAsk == [k \in Kinds |-> "ask"]
DenyReads == [k \in Kinds |-> IF k = read THEN "deny" ELSE "ask"]
AskSymmetry == Permutations(Asks)
=============================================================================
