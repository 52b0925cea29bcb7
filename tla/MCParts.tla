------------------------------- MODULE MCParts -------------------------------
(* Small instances for TLC of components that share no state: the          *)
(* session's side of the intercom, the start of the broker, auto mode, the *)
(* permission ledger and goal mode.  A behaviour picks one of them and     *)
(* leaves the others as they start.                                        *)
EXTENDS IntercomSession, BrokerSpawn, AutoMode, PermissionLedger, GoalMode

LOCAL INSTANCE TLC

CONSTANT Parts

VARIABLE part

\* Each profile brings a tier of the handler, or the order of two, into play.
AllProfiles ==
  {{"deny", "unparsed"}, {"hard", "unparsed"}, {"unparsed"}, {"huge", "unparsed"},
   {"ask", "hard"}, {"ask", "path"}, {"ask", "fast"}, {"protected"}, {"inspect"},
   {"coordination"}, {"ask", "question"}}

partsVars == <<part, sessionVars, spawnVars, autoVars, ledgerVars, goalVars>>

PartsInit ==
  /\ part \in Parts
  /\ SessionInit /\ SpawnInit /\ AutoInit /\ LedgerInit /\ GoalInit
  /\ part # "auto" => /\ surface = "tui" /\ registered /\ scopes = {}
                      /\ profile = [c \in ToolCalls |-> {"unparsed"}]

PartsNext ==
  /\ \/ part = "session" /\ SessionNext
        /\ UNCHANGED <<spawnVars, autoVars, ledgerVars, goalVars>>
     \/ part = "spawn" /\ SpawnNext
        /\ UNCHANGED <<sessionVars, autoVars, ledgerVars, goalVars>>
     \/ part = "auto" /\ AutoNext
        /\ UNCHANGED <<sessionVars, spawnVars, ledgerVars, goalVars>>
     \/ part = "ledger" /\ LedgerNext
        /\ UNCHANGED <<sessionVars, spawnVars, autoVars, goalVars>>
     \/ part = "goal" /\ GoalNext
        /\ UNCHANGED <<sessionVars, spawnVars, autoVars, ledgerVars>>
  /\ UNCHANGED part

PartsSpec == PartsInit /\ [][PartsNext]_partsVars

-----------------------------------------------------------------------------
(* States that differ only in what no step and no property looks at.       *)

\* of an ask that has ended nothing matters, save for its open waiter
Live == {a \in Asks : ~Ended(a) \/ promise[a] = "open"}
SessionView ==
  <<lifeVars, linkVars, [a \in Asks |-> IF Ended(a) THEN "ended" ELSE stage[a]], via,
    {a \in Asks : promise[a] = "open"}, waiter,
    {a \in rebound : ~Ended(a)}, {w \in wire : w[1] \in Live}, delivered \cap Live,
    answer \cap Live>>

\* what the handler of a call has read matters while it awaits
AutoView ==
  <<configVars, clockVars, profile, edits, where, pass, asks,
    [c \in ToolCalls |-> IF where[c] \in Waiting THEN noted[c] ELSE Unread],
    grantVars, [c \in ToolCalls |-> nod[c] = Showing(c)], lapsed>>

\* of a denial, whether it is open and may be approved; of the earlier record, what a
\* restore would bring back
Own(S) == {a \in Actions : <<a, Self>> \in S}
Bare(s) ==
  [i \in DOMAIN s |-> [s[i] EXCEPT !.state = s[i].state = "open",
                                   !.barred = s[i].barred \/ s[i].owner # Self]]
LedgerView ==
  <<Bare(denials), nextId, Own(exact), rejected, epoch, gate, review,
    IF epoch < MaxRestores
    THEN <<Bare(earlier.denials), Own(earlier.exact), earlier.rejected, earlier = Empty>>
    ELSE <<>>,
    settled \cap {<<review[r].epoch, review[r].denial.id>> :
                    r \in {r \in Reviews : review[r].state = "shown"}}>>

\* what kind of run it is matters while it lasts, the counts while the goal is active, and what
\* the extension holds while there is a session
Counted(g) == IF Active(g) THEN g ELSE ResetSafety(g)
GoalView ==
  <<Counted(saved), ids, shown, inContext, loop,
    IF Active(goal) \/ Active(saved) THEN unattended ELSE 0,
    IF loop = "off" THEN <<>>
    ELSE <<Counted(goal), lastContract, continuationWanted, wrapVars, waitTimer, submitted,
           admitted, adrift>>,
    IF loop \in {"turn", "between"} THEN <<runAutomatic, runAutomatic /\ runToolAttempted>>
    ELSE <<>> >>

\* the parts that were not picked are as they start, which is in one way only
PartsView ==
  <<part,
    CASE part = "session" -> SessionView
      [] part = "spawn" -> spawnVars
      [] part = "auto" -> AutoView
      [] part = "ledger" -> LedgerView
      [] part = "goal" -> GoalView>>

PartsSymmetry == Permutations(Asks) \cup Permutations(Links)
=============================================================================
