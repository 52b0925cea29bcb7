------------------------------- MODULE AutoMode -------------------------------
(***************************************************************************)
(* Auto mode's gate on a tool call (pi-permissions/src/auto/extension.ts,  *)
(* permission-chain.ts and the approvals index.ts hands it).  With the     *)
(* permission system present the handler runs twice: a pre-pass on the     *)
(* tool_call event, which only draws the hard lines, and in full for each  *)
(* ask the rules raise, as a link of the authorizer chain.  Without it the *)
(* handler runs once, in full.                                             *)
(*                                                                         *)
(* A run of the handler is atomic up to its awaits: a confirmation of an   *)
(* ask rule, the review of a command that could not be parsed, the         *)
(* classifier, a proposal of folders and the prompt before a block.        *)
(***************************************************************************)
EXTENDS Naturals

CONSTANTS
  ToolCalls,              \* calls of the model
  Profiles,               \* what the configuration says of a call: sets of Marks
  Surfaces,               \* hasUI and mode: tui, remote (RPC), headless
  MaxStarts, MaxEdits, MaxAsks, MaxInputs   \* bounds of the environment

Marks == {"deny", "ask", "hard", "unparsed", "huge", "path", "inspect", "coordination",
          "fast", "protected", "question"}

ASSUME AutoAssumption ==
  /\ Profiles \subseteq SUBSET Marks /\ Surfaces \subseteq {"tui", "remote", "headless"}
  /\ {MaxStarts, MaxEdits, MaxAsks, MaxInputs} \subseteq Nat

\* Only what cannot be parsed is too long for a review; the path gate reads the paths of calls
\* that were parsed, and neither the inspection nor the coordination tools have any.
ASSUME ProfileAssumption ==
  \A p \in Profiles :
    /\ "huge" \in p => "unparsed" \in p
    /\ "path" \in p => p \cap {"unparsed", "inspect", "coordination"} = {}

VARIABLES
  enabled, surface,       \* effectiveConfig().enabled, ctx.hasUI and ctx.mode
  registered,             \* the permission system consults the link
  yoloMode,               \* the permission system approves what it would ask
  signal,                 \* ctx.signal: live, aborted, or aborted to steer the turn
  sessionId, analysisGeneration,  \* the session; analysisGeneration
  profile, edits,         \* per call, its marks and how often its input was changed
  where, pass,            \* per call, its stage; the run of the handler: pre, link, standalone
  asks,                   \* per call, how many of its asks went to the link
  noted,                  \* per call, what the handler read before it awaited
  receipts,               \* analysisReviews: <<session, call, edits>>
  userApproved,           \* calls allowed at a prompt
  scopes,                 \* calls within a scope the user approved and has not superseded
  nod,                    \* history: what the review last approved showed
  lapsed                  \* history: calls that passed because auto mode was off

configVars == <<enabled, surface, registered, yoloMode, signal>>
clockVars == <<sessionId, analysisGeneration>>
grantVars == <<receipts, userApproved, scopes>>
autoVars == <<configVars, clockVars, profile, edits, where, pass, asks, noted, grantVars,
              nod, lapsed>>

Waiting == {"confirming", "reviewing", "classifying", "proposing", "prompting"}
Unread == [session |-> 0, generation |-> 0, edits |-> 0, reusable |-> FALSE, scoped |-> FALSE]
Showing(c) == <<sessionId, analysisGeneration, edits[c]>>

AutoInit ==
  /\ enabled = TRUE /\ surface \in Surfaces /\ registered \in BOOLEAN /\ yoloMode = FALSE
  /\ signal = "live" /\ sessionId = 0 /\ analysisGeneration = 0
  /\ profile \in [ToolCalls -> Profiles] /\ edits = [c \in ToolCalls |-> 0]
  /\ where = [c \in ToolCalls |-> "new"] /\ pass = [c \in ToolCalls |-> "pre"]
  /\ asks = [c \in ToolCalls |-> 0] /\ noted = [c \in ToolCalls |-> Unread]
  /\ receipts = {} /\ userApproved = {} /\ scopes \in SUBSET ToolCalls
  /\ nod = [c \in ToolCalls |-> <<>>] /\ lapsed = {}

Is(c, mark) == mark \in profile[c]
Steering == signal = "steering"

-----------------------------------------------------------------------------
(* The tiers of the handler.  Each names the stage the call goes on to:    *)
(* open when the handler has nothing against it.                           *)

Receipt(c) == <<sessionId, c, edits[c]>>

\* a command that could not be parsed: an exact review by the user, or by YOLO mode
Unparsed(c) ==
  CASE Is(c, "huge") -> "blocked"
    [] ~Is(c, "huge") /\ Receipt(c) \in receipts -> "open"
    [] OTHER -> IF surface # "tui" THEN "blocked" ELSE IF yoloMode THEN "open" ELSE "reviewing"

\* the gates and allow tiers behind the hard lines; an accepted ask rule skips the allow
\* tiers, and the pre-pass ends before them
Tiers(c, p, accepted) ==
  LET full == p # "pre" IN
  IF ~accepted /\ (Is(c, "inspect") \/ (full /\ Is(c, "coordination"))) THEN "open"
  ELSE IF Is(c, "path") THEN "blocked"
  ELSE IF \/ ~full
          \/ ~accepted /\ Is(c, "fast") /\ ~Is(c, "protected")
          \/ Is(c, "question")
          \/ c \in userApproved THEN "open"
  ELSE "classifying"

Beyond(c, p, accepted) ==
  IF Is(c, "hard") THEN "blocked"
  ELSE IF Is(c, "unparsed") THEN Unparsed(c)
  ELSE Tiers(c, p, accepted)

ReviewedFirst(c, p) ==                                                \* mutant
  IF ~enabled THEN "open"
  ELSE IF Steering THEN "interrupted"
  ELSE IF signal = "aborted" THEN "blocked"
  ELSE IF Is(c, "unparsed") THEN Unparsed(c)
  ELSE IF Is(c, "deny") THEN "blocked"
  ELSE Beyond(c, p, FALSE)

\* the handler up to its first await
Handled(c, p) ==
  IF ~enabled THEN "open"
  ELSE IF Steering THEN "interrupted"
  ELSE IF signal = "aborted" \/ Is(c, "deny") THEN "blocked"
  ELSE IF p # "pre" /\ Is(c, "ask") /\ ~Is(c, "unparsed")
    THEN IF surface = "headless" THEN "blocked" ELSE "confirming"
  ELSE Beyond(c, p, FALSE)

\* scopedApproval and the rest of what the handler keeps over its await
Reading(c, accepted) ==
  LET reusable == ~accepted /\ ~Is(c, "protected") IN
  [session |-> sessionId, generation |-> analysisGeneration, edits |-> edits[c],
   reusable |-> reusable, scoped |-> reusable /\ c \in scopes]

Handle(c, p) ==
  /\ where' = [where EXCEPT ![c] = Handled(c, p)]
  /\ pass' = [pass EXCEPT ![c] = p]
  /\ noted' = [noted EXCEPT ![c] = Reading(c, FALSE)]
  /\ nod' = IF Handled(c, p) = "open" /\ yoloMode /\ Receipt(c) \notin receipts
            THEN [nod EXCEPT ![c] = Showing(c)] ELSE nod
  /\ lapsed' = IF enabled THEN lapsed ELSE lapsed \cup {c}

ToolCall(c) ==
  /\ where[c] = "new"
  /\ Handle(c, IF registered THEN "pre" ELSE "standalone")
  /\ UNCHANGED <<configVars, clockVars, profile, edits, asks, grantVars>>

\* the rules ask: the link runs the handler in full (authorize); YOLO mode asks nobody
Consult(c) ==
  /\ where[c] = "open" /\ registered /\ ~yoloMode /\ asks[c] < MaxAsks
  /\ asks' = [asks EXCEPT ![c] = @ + 1]
  /\ Handle(c, "link")
  /\ UNCHANGED <<configVars, clockVars, profile, edits, grantVars>>

\* the call is executed, and ends
RunsCall(c) ==
  /\ where[c] = "open"
  /\ where' = [where EXCEPT ![c] = "ran"]
  /\ UNCHANGED <<configVars, clockVars, profile, edits, pass, asks, noted, grantVars, nod, lapsed>>

\* tool_result
CallEnds(c) ==
  /\ where[c] = "ran"
  /\ where' = [where EXCEPT ![c] = "ended"]
  /\ receipts' = {r \in receipts : r[2] # c}
  /\ UNCHANGED <<configVars, clockVars, profile, edits, pass, asks, noted, userApproved, scopes,
                 nod, lapsed>>

-----------------------------------------------------------------------------
(* The awaits.                                                             *)

GoesTo(c, s) == where' = [where EXCEPT ![c] = s]
RefusedAnyway == "blocked"                                            \* mutant
Declined == IF Steering THEN "interrupted" ELSE "blocked"
awaitFrame == <<configVars, clockVars, profile, edits, pass, asks, lapsed>>

\* ctx.ui.confirm for an ask rule: an aborted dialog is a refusal
Confirmed(c) ==
  /\ where[c] = "confirming"
  /\ \E yes \in {FALSE} \cup {signal = "live"} :
       /\ GoesTo(c, IF yes THEN Beyond(c, pass[c], TRUE) ELSE Declined)
       /\ noted' = IF yes THEN [noted EXCEPT ![c] = Reading(c, TRUE)] ELSE noted
  /\ UNCHANGED <<awaitFrame, grantVars, nod>>

\* nothing the review depends on changed while it was open
StillExact(c) == signal = "live" /\ edits[c] = noted[c].edits         \* mutant
Current(c) ==
  /\ signal = "live" /\ edits[c] = noted[c].edits
  /\ analysisGeneration = noted[c].generation /\ sessionId = noted[c].session

Agreed(c) == IF Current(c) THEN "open" ELSE Declined

\* the user answers the review of the exact call
Reviewed(c) ==
  /\ where[c] = "reviewing"
  /\ \E yes \in {FALSE} \cup {signal = "live"} :
       /\ GoesTo(c, IF yes THEN Agreed(c) ELSE Declined)
       /\ IF yes /\ Current(c)
          THEN /\ receipts' = receipts \cup {Receipt(c)}
               /\ nod' = [nod EXCEPT ![c] = <<noted[c].session, noted[c].generation, noted[c].edits>>]
          ELSE UNCHANGED <<receipts, nod>>
  /\ UNCHANGED <<awaitFrame, noted, userApproved, scopes>>

\* askBeforeBlock: the prompt, or at once a block where nobody could answer it
Asked == IF surface = "tui" /\ signal = "live" THEN "prompting" ELSE "blocked"

\* a soft denial: a remembered scope resolves it, else the user is asked, perhaps after a
\* proposal of folders to allow
SoftDenied(c) ==
  IF Steering THEN {"interrupted"}
  ELSE IF noted[c].scoped /\ signal = "live" THEN {"open"}
  ELSE {Asked} \cup (IF noted[c].reusable /\ surface = "tui" THEN {"proposing"} ELSE {})

\* the verdict, or the failure, of the classifier
Classified(c) ==
  /\ where[c] = "classifying"
  /\ \/ GoesTo(c, IF Steering THEN "interrupted" ELSE "open")             \* allow
     \/ \E s \in SoftDenied(c) : GoesTo(c, s)
     \/ GoesTo(c, Declined)                                               \* hard_deny
     \/ GoesTo(c, IF Steering THEN "interrupted" ELSE Asked)             \* a failure
  /\ noted' = [noted EXCEPT ![c].session = sessionId]
  /\ UNCHANGED <<awaitFrame, grantVars, nod>>

\* the proposal: another session, or a cancelled turn, opens no prompt
Proposed(c) ==
  /\ where[c] = "proposing"
  /\ GoesTo(c, IF Steering THEN "interrupted"
               ELSE IF sessionId # noted[c].session THEN "blocked" ELSE Asked)
  /\ UNCHANGED <<awaitFrame, noted, grantVars, nod>>

\* the answer to the prompt: for this call, or for its scope, which expires what was
\* approved before; only in the session that asked
Prompted(c) ==
  /\ where[c] = "prompting"
  /\ \E answer \in {"scope", "once", "no"} :
       IF answer # "no" /\ signal = "live" /\ sessionId = noted[c].session
       THEN /\ answer = "scope" => noted[c].reusable
            /\ \/ /\ GoesTo(c, "open")
                  /\ userApproved' = userApproved \cup {c}
                  /\ scopes' \in IF answer = "scope" THEN {{}, {c}, scopes \cup {c}} ELSE {scopes}
               \/ /\ answer = "scope"                    \* the scope could not be saved
                  /\ GoesTo(c, "blocked") /\ scopes' \in {scopes, {}}
                  /\ UNCHANGED userApproved
       ELSE GoesTo(c, Declined) /\ UNCHANGED <<userApproved, scopes>>
  /\ UNCHANGED <<awaitFrame, noted, receipts, nod>>

-----------------------------------------------------------------------------
(* The user and the host.                                                  *)

callFrame == <<profile, edits, pass, asks, noted>>

\* Esc, with or without messages to send
AbortTurn ==
  /\ signal = "live" /\ \E c \in ToolCalls : where[c] \in Waiting
  /\ signal' \in {"aborted", "steering"}
  /\ UNCHANGED <<enabled, surface, registered, yoloMode, clockVars, callFrame, where, grantVars,
                 nod, lapsed>>

NextTurn ==
  /\ signal # "live" /\ \A c \in ToolCalls : where[c] \notin Waiting
  /\ signal' = "live"
  /\ UNCHANGED <<enabled, surface, registered, yoloMode, clockVars, callFrame, where, grantVars,
                 nod, lapsed>>

ClearReviews == {}

\* an instruction of the user ends the scopes; one of an extension does not
Instruct ==
  /\ analysisGeneration < MaxInputs
  /\ analysisGeneration' = analysisGeneration + 1
  /\ receipts' = ClearReviews
  /\ scopes' \in {{}, scopes}
  /\ UNCHANGED <<configVars, sessionId, callFrame, where, userApproved, nod, lapsed>>

\* session_start cancels reviews and the asks of the permission system, and restores the
\* scopes of the session
NewSession ==
  /\ sessionId < MaxStarts
  /\ sessionId' = sessionId + 1 /\ analysisGeneration' = analysisGeneration + 1
  /\ receipts' = ClearReviews
  /\ scopes' \in SUBSET ToolCalls
  /\ where' = [c \in ToolCalls |->
                 IF where[c] \in Waiting /\ pass[c] = "link" THEN "withdrawn"
                 ELSE IF where[c] = "reviewing" THEN Declined ELSE where[c]]
  /\ UNCHANGED <<configVars, callFrame, userApproved, nod, lapsed>>

\* /permissions auto on and off
ToggleAuto ==
  /\ enabled' = ~enabled
  /\ UNCHANGED <<surface, registered, yoloMode, signal, clockVars, callFrame, where, grantVars,
                 nod, lapsed>>

\* YOLO mode settles the asks that are pending, the review of an exact call included
ToggleYolo ==
  /\ yoloMode' = ~yoloMode
  /\ LET settled == {c \in ToolCalls : /\ ~yoloMode /\ where[c] \in Waiting
                                       /\ pass[c] = "link" \/ where[c] = "reviewing"} IN
       /\ where' = [c \in ToolCalls |-> IF c \notin settled THEN where[c]
                                        ELSE IF pass[c] = "link" THEN "open" ELSE Agreed(c)]
       /\ nod' = [c \in ToolCalls |-> IF c \in settled THEN Showing(c) ELSE nod[c]]
  /\ UNCHANGED <<enabled, surface, registered, signal, clockVars, callFrame, grantVars, lapsed>>

\* other code changes the input of a call under review
EditInput(c) ==
  /\ where[c] = "reviewing" /\ edits[c] < MaxEdits
  /\ edits' = [edits EXCEPT ![c] = @ + 1]
  /\ UNCHANGED <<configVars, clockVars, profile, pass, asks, noted, where, grantVars, nod, lapsed>>

AutoNext ==
  \/ \E c \in ToolCalls :
       \/ ToolCall(c) \/ Consult(c) \/ RunsCall(c) \/ CallEnds(c)
       \/ Confirmed(c) \/ Reviewed(c) \/ Classified(c) \/ Proposed(c) \/ Prompted(c)
       \/ EditInput(c)
  \/ AbortTurn \/ NextTurn \/ Instruct \/ NewSession \/ ToggleAuto \/ ToggleYolo

AutoSpec == AutoInit /\ [][AutoNext]_autoVars

-----------------------------------------------------------------------------
(* Properties.                                                             *)

AutoTypeOK ==
  /\ enabled \in BOOLEAN /\ surface \in Surfaces /\ registered \in BOOLEAN /\ yoloMode \in BOOLEAN
  /\ signal \in {"live", "aborted", "steering"}
  /\ sessionId \in Nat /\ analysisGeneration \in Nat
  /\ profile \in [ToolCalls -> Profiles] /\ edits \in [ToolCalls -> Nat]
  /\ where \in [ToolCalls -> {"new", "open", "blocked", "interrupted", "withdrawn", "ran", "ended"}
                               \cup Waiting]
  /\ pass \in [ToolCalls -> {"pre", "link", "standalone"}] /\ asks \in [ToolCalls -> Nat]
  /\ receipts \subseteq Nat \X ToolCalls \X Nat
  /\ userApproved \subseteq ToolCalls /\ scopes \subseteq ToolCalls /\ lapsed \subseteq ToolCalls
  /\ noted \in [ToolCalls -> [session : Nat, generation : Nat, edits : Nat,
                             reusable : BOOLEAN, scoped : BOOLEAN]]
  /\ nod \in [ToolCalls -> {<<>>} \cup (Nat \X Nat \X Nat)]

\* the handler, or YOLO mode in its place, lets c go on
Passes(c) == where'[c] = "open" /\ (where[c] # "open" \/ asks'[c] # asks[c])

\* Whatever toggles, reviews, remembered scopes and YOLO mode do in between, a call that runs
\* was not under a hard line: permissions.deny, the hard-deny list, a denied path or a command
\* too long to review.  Only auto mode being off lets such a call pass.
HardLines == {"deny", "hard", "path", "huge"}
HardLinesHold ==
  \A c \in ToolCalls :
    where[c] \in {"ran", "ended"} /\ c \notin lapsed => profile[c] \cap HardLines = {}

\* A command that could not be parsed passes only on a review of exactly its present input,
\* opened in this session and after the last instruction, even if it was answered for an
\* earlier of the call's two or more checks.
NodsAreCurrent ==
  [][\A c \in ToolCalls :
       Passes(c) /\ enabled /\ Is(c, "unparsed") => nod'[c] = Showing(c)']_autoVars

\* A turn interrupted to steer it denies nothing: no call is blocked by it, whatever await it
\* interrupts, so that nothing is counted, recorded or offered for approval as a denial.
SteeringIsNoDenial ==
  [][\A c \in ToolCalls : Steering /\ enabled /\ where'[c] = "blocked" => where[c] = "blocked"]_autoVars

\* Turned off, auto mode leaves an ask to the permission system: the link does not answer it.
OffLeavesItToTheRules ==
  [][\A c \in ToolCalls : asks'[c] # asks[c] /\ where'[c] = "open" => enabled]_autoVars

-----------------------------------------------------------------------------
(* The inductive invariant behind the theorems of AutoMode_proofs.         *)

Free(c) == profile[c] \cap HardLines = {}

\* where a call may only be when no hard line holds it
PastTheLines == {"open", "ran", "ended", "reviewing", "classifying", "proposing", "prompting"}
LinesAreHeld ==
  \A c \in ToolCalls \ lapsed :
    /\ where[c] \in PastTheLines \/ (where[c] = "confirming" /\ pass[c] = "link") => Free(c)
    /\ where[c] = "confirming" => ~Is(c, "deny")

\* only the review of the exact call decides on a command that could not be parsed
UnparsedIsReviewed ==
  \A c \in ToolCalls :
    where[c] \in {"confirming", "classifying", "proposing", "prompting"} => ~Is(c, "unparsed")

\* a receipt is for the input and the session of the review last approved
ReceiptsAreCurrent ==
  \A r \in receipts :
    /\ r[1] = sessionId /\ r[3] <= edits[r[2]]
    /\ r[3] = edits[r[2]] => nod[r[2]] = Showing(r[2])

AutoInv == AutoTypeOK /\ LinesAreHeld /\ UnparsedIsReviewed /\ ReceiptsAreCurrent
=============================================================================
