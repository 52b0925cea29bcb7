--------------------------- MODULE AutoMode_proofs ---------------------------
(***************************************************************************)
(* Theorems about AutoMode for any calls and profiles, and any number of   *)
(* sessions, instructions, asks and edits.                                 *)
(***************************************************************************)
EXTENDS AutoMode, TLAPS

-----------------------------------------------------------------------------
(* What the tiers decide.                                                  *)

\* where a run of the handler may leave a call at its first await
Decided == {"open", "blocked", "interrupted", "confirming", "reviewing", "classifying"}

\* Behind the first rules a call passes only when no hard line holds it, and only a review
\* decides on a command that could not be parsed.
LEMMA BeyondTheLines ==
  ASSUME AutoTypeOK, NEW c \in ToolCalls, NEW p, NEW accepted \in BOOLEAN,
         ~Is(c, "deny"), Beyond(c, p, accepted) # "blocked"
  PROVE  Free(c)
<1>1. profile[c] \in Profiles
  BY DEF AutoTypeOK
<1>2. /\ Is(c, "huge") => Is(c, "unparsed")
      /\ Is(c, "path") => ~Is(c, "unparsed") /\ ~Is(c, "inspect") /\ ~Is(c, "coordination")
  BY <1>1, ProfileAssumption DEF Is
<1>3. ~Is(c, "hard")
  BY DEF Beyond
<1>4. ~Is(c, "huge")
  BY <1>2, <1>3 DEF Beyond, Unparsed
<1>5. ~Is(c, "path")
  BY <1>2, <1>3 DEF Beyond, Tiers
<1>6. QED
  BY <1>3, <1>4, <1>5 DEF Free, HardLines, Is

LEMMA BeyondStages ==
  ASSUME NEW c \in ToolCalls, NEW p, NEW accepted \in BOOLEAN
  PROVE  /\ Beyond(c, p, accepted) \in {"open", "blocked", "reviewing", "classifying"}
         /\ Beyond(c, p, accepted) = "classifying" => ~Is(c, "unparsed")
         /\ Beyond(c, p, accepted) = "open" /\ Is(c, "unparsed")
              => Receipt(c) \in receipts \/ yoloMode
BY DEF Beyond, Unparsed, Tiers

LEMMA HandledStages ==
  ASSUME NEW c \in ToolCalls, NEW p
  PROVE  /\ Handled(c, p) \in Decided
         /\ Handled(c, p) \in {"confirming", "classifying"} => ~Is(c, "unparsed")
         /\ Handled(c, p) = "confirming" => ~Is(c, "deny") /\ p # "pre"
         /\ Steering /\ enabled => Handled(c, p) = "interrupted"
         /\ Handled(c, p) = "open" /\ enabled /\ Is(c, "unparsed")
              => Receipt(c) \in receipts \/ yoloMode
BY BeyondStages DEF Handled, Decided

LEMMA HandledTheLines ==
  ASSUME AutoTypeOK, NEW c \in ToolCalls, NEW p, enabled,
         Handled(c, p) \in {"open", "reviewing", "classifying"}
  PROVE  Free(c)
<1>1. ~Is(c, "deny") /\ Handled(c, p) = Beyond(c, p, FALSE)
  BY DEF Handled
<1>2. QED
  BY <1>1, BeyondTheLines

-----------------------------------------------------------------------------
(* The inductive invariant.                                                *)

LEMMA InitInv == AutoInit => AutoInv
<1> SUFFICES ASSUME AutoInit PROVE AutoInv
  OBVIOUS
<1>1. Unread \in [session : Nat, generation : Nat, edits : Nat,
                  reusable : BOOLEAN, scoped : BOOLEAN]
  BY DEF Unread
<1>2. noted \in [ToolCalls -> [session : Nat, generation : Nat, edits : Nat,
                               reusable : BOOLEAN, scoped : BOOLEAN]]
  BY <1>1 DEF AutoInit
<1>3. nod \in [ToolCalls -> {<<>>} \cup (Nat \X Nat \X Nat)]
  BY DEF AutoInit
<1>4. AutoTypeOK
  BY <1>2, <1>3, AutoAssumption DEF AutoInit, AutoTypeOK
<1>5. LinesAreHeld /\ UnparsedIsReviewed /\ ReceiptsAreCurrent
  BY DEF AutoInit, LinesAreHeld, UnparsedIsReviewed, ReceiptsAreCurrent, PastTheLines
<1>6. QED
  BY <1>4, <1>5 DEF AutoInv

\* A run of the handler keeps it, for a call on which no hard line can hold a link's run.
LEMMA HandlerKeeps ==
  ASSUME AutoInv, NEW c \in ToolCalls, NEW p \in {"pre", "link", "standalone"}, Handle(c, p),
         p = "link" => where[c] = "open",
         asks' \in [ToolCalls -> Nat],
         UNCHANGED <<configVars, clockVars, profile, edits, grantVars>>
  PROVE  AutoInv'
<1> USE DEF configVars, clockVars, grantVars
<1>1. AutoTypeOK'
  <2>1. Handled(c, p) \in {"new", "open", "blocked", "interrupted", "withdrawn", "ran", "ended"}
                          \cup Waiting
    BY HandledStages DEF Decided, Waiting
  <2>2. Reading(c, FALSE) \in [session : Nat, generation : Nat, edits : Nat,
                               reusable : BOOLEAN, scoped : BOOLEAN]
    BY DEF AutoInv, AutoTypeOK, Reading, Is
  <2>3. Showing(c) \in Nat \X Nat \X Nat
    BY DEF AutoInv, AutoTypeOK, Showing
  <2>4. lapsed' \subseteq ToolCalls /\ where' \in [ToolCalls ->
          {"new", "open", "blocked", "interrupted", "withdrawn", "ran", "ended"} \cup Waiting]
    BY <2>1 DEF Handle, AutoInv, AutoTypeOK
  <2>5. noted' \in [ToolCalls -> [session : Nat, generation : Nat, edits : Nat,
                                  reusable : BOOLEAN, scoped : BOOLEAN]]
    BY <2>2 DEF Handle, AutoInv, AutoTypeOK
  <2>6. nod' \in [ToolCalls -> {<<>>} \cup (Nat \X Nat \X Nat)]
    BY <2>3 DEF Handle, AutoInv, AutoTypeOK
  <2>7. QED
    BY <2>4, <2>5, <2>6 DEF Handle, AutoInv, AutoTypeOK
<1>2. LinesAreHeld'
  <2> SUFFICES ASSUME NEW d \in ToolCalls \ lapsed'
               PROVE  /\ where'[d] \in PastTheLines \/ (where'[d] = "confirming" /\ pass'[d] = "link")
                           => Free(d)
                      /\ where'[d] = "confirming" => ~Is(d, "deny")
    BY DEF LinesAreHeld, Free, Is, Handle
  <2>1. CASE d # c
    BY <2>1 DEF AutoInv, AutoTypeOK, LinesAreHeld, Handle
  <2>2. CASE d = c
    <3>1. enabled /\ c \notin lapsed
      BY <2>2 DEF Handle
    <3>2. where'[c] = Handled(c, p) /\ pass'[c] = p
      BY DEF Handle, AutoInv, AutoTypeOK
    <3>3. p = "link" => Free(c)
      BY <3>1 DEF AutoInv, LinesAreHeld, PastTheLines
    <3>4. Handled(c, p) \in {"open", "reviewing", "classifying"} => Free(c)
      BY <3>1, HandledTheLines DEF AutoInv
    <3>5. QED
      BY <2>2, <3>2, <3>3, <3>4, HandledStages DEF Decided, PastTheLines
  <2>3. QED
    BY <2>1, <2>2
<1>3. UnparsedIsReviewed'
  BY HandledStages DEF AutoInv, AutoTypeOK, UnparsedIsReviewed, Handle, Is, Decided
<1>4. ReceiptsAreCurrent'
  <2> SUFFICES ASSUME NEW r \in receipts
               PROVE  /\ r[1] = sessionId /\ r[3] <= edits[r[2]]
                      /\ r[3] = edits[r[2]] => nod'[r[2]] = Showing(r[2])
    BY DEF ReceiptsAreCurrent, Showing
  <2>1. r[2] \in ToolCalls
    BY DEF AutoInv, AutoTypeOK
  <2>2. nod'[r[2]] \in {nod[r[2]], Showing(r[2])}
    BY <2>1 DEF Handle, AutoInv, AutoTypeOK
  <2>3. QED
    BY <2>2 DEF AutoInv, ReceiptsAreCurrent
<1>5. QED
  BY <1>1, <1>2, <1>3, <1>4 DEF AutoInv

\* What the steps that only move one call between its stages have in common.
Moved(c) ==
  /\ \E s \in {"open", "blocked", "interrupted", "classifying", "reviewing", "proposing",
               "prompting"} : GoesTo(c, s)
  /\ c \notin lapsed /\ where'[c] \in PastTheLines => Free(c)
  /\ where'[c] \in {"classifying", "proposing", "prompting"} => ~Is(c, "unparsed")

\* A call that is moved to a stage it may be at keeps the lines and the reviews.
LEMMA MovesKeep ==
  ASSUME AutoInv, NEW c \in ToolCalls, Moved(c),
         UNCHANGED <<profile, pass, lapsed>>
  PROVE  /\ where' \in [ToolCalls -> {"new", "open", "blocked", "interrupted", "withdrawn",
                                      "ran", "ended"} \cup Waiting]
         /\ LinesAreHeld' /\ UnparsedIsReviewed'
<1>1. PICK s \in {"open", "blocked", "interrupted", "classifying", "reviewing", "proposing",
                 "prompting"} : where' = [where EXCEPT ![c] = s]
  BY DEF Moved, GoesTo
<1>2. where'[c] = s
  BY <1>1 DEF AutoInv, AutoTypeOK
<1>3. \A d \in ToolCalls : d # c => where'[d] = where[d]
  BY <1>1 DEF AutoInv, AutoTypeOK
<1>4. where' \in [ToolCalls -> {"new", "open", "blocked", "interrupted", "withdrawn",
                                "ran", "ended"} \cup Waiting]
  BY <1>1 DEF AutoInv, AutoTypeOK, Waiting
<1>5. LinesAreHeld'
  BY <1>2, <1>3 DEF AutoInv, LinesAreHeld, Moved, Free, Is
<1>6. UnparsedIsReviewed'
  BY <1>2, <1>3 DEF AutoInv, UnparsedIsReviewed, Moved, Is
<1>7. QED
  BY <1>4, <1>5, <1>6

\* The answers that come to a call keep the invariant.
LEMMA AnswersKeep ==
  ASSUME AutoInv, NEW c \in ToolCalls,
         Confirmed(c) \/ Reviewed(c) \/ Classified(c) \/ Proposed(c) \/ Prompted(c)
  PROVE  AutoInv'
<1> USE DEF awaitFrame, configVars, clockVars, grantVars
<1>1. CASE Confirmed(c)
  <2>1. PICK yes \in {FALSE} \cup {signal = "live"} :
          /\ GoesTo(c, IF yes THEN Beyond(c, pass[c], TRUE) ELSE Declined)
          /\ noted' = IF yes THEN [noted EXCEPT ![c] = Reading(c, TRUE)] ELSE noted
    BY <1>1 DEF Confirmed
  <2>2. c \notin lapsed => ~Is(c, "deny")
    BY <1>1 DEF Confirmed, AutoInv, LinesAreHeld
  <2>3. ~Is(c, "unparsed")
    BY <1>1 DEF Confirmed, AutoInv, UnparsedIsReviewed
  <2> DEFINE s == IF yes THEN Beyond(c, pass[c], TRUE) ELSE Declined
  <2>4. s \in {"open", "blocked", "interrupted", "classifying", "reviewing"}
    BY BeyondStages DEF Declined
  <2>5. c \notin lapsed /\ s \in PastTheLines => Free(c)
    BY <2>2, BeyondTheLines DEF AutoInv, PastTheLines, Declined
  <2>6. where'[c] = s
    BY <2>1 DEF GoesTo, AutoInv, AutoTypeOK
  <2>7. Moved(c)
    BY <2>1, <2>3, <2>4, <2>5, <2>6 DEF Moved
  <2>8. Reading(c, TRUE) \in [session : Nat, generation : Nat, edits : Nat,
                              reusable : BOOLEAN, scoped : BOOLEAN]
    BY DEF AutoInv, AutoTypeOK, Reading, Is
  <2>9. noted' \in [ToolCalls -> [session : Nat, generation : Nat, edits : Nat,
                                  reusable : BOOLEAN, scoped : BOOLEAN]]
    BY <2>1, <2>8 DEF AutoInv, AutoTypeOK
  <2>10. AutoTypeOK' /\ LinesAreHeld' /\ UnparsedIsReviewed'
    BY <1>1, <2>7, <2>9, MovesKeep DEF Confirmed, AutoInv, AutoTypeOK
  <2>11. ReceiptsAreCurrent'
    BY <1>1 DEF Confirmed, AutoInv, ReceiptsAreCurrent, Showing
  <2>12. QED
    BY <2>10, <2>11 DEF AutoInv
<1>2. CASE Reviewed(c)
  <2>1. PICK yes \in {FALSE} \cup {signal = "live"} :
          /\ GoesTo(c, IF yes THEN Agreed(c) ELSE Declined)
          /\ IF yes /\ Current(c)
             THEN /\ receipts' = receipts \cup {Receipt(c)}
                  /\ nod' = [nod EXCEPT ![c] =
                               <<noted[c].session, noted[c].generation, noted[c].edits>>]
             ELSE UNCHANGED <<receipts, nod>>
    BY <1>2 DEF Reviewed
  <2>2. c \notin lapsed => Free(c)
    BY <1>2 DEF Reviewed, AutoInv, LinesAreHeld, PastTheLines
  <2>3. Moved(c)
    BY <2>1, <2>2 DEF Moved, Agreed, Declined, GoesTo, AutoInv, AutoTypeOK
  <2>4. Current(c) => <<noted[c].session, noted[c].generation, noted[c].edits>> = Showing(c)
    BY DEF Current, Showing
  <2>5. Receipt(c) \in Nat \X ToolCalls \X Nat /\ Showing(c) \in Nat \X Nat \X Nat
    BY DEF Receipt, Showing, AutoInv, AutoTypeOK
  <2>6. nod' \in [ToolCalls -> {<<>>} \cup (Nat \X Nat \X Nat)]
        /\ receipts' \subseteq Nat \X ToolCalls \X Nat
    <3>1. nod \in [ToolCalls -> {<<>>} \cup (Nat \X Nat \X Nat)]
          /\ receipts \subseteq Nat \X ToolCalls \X Nat
      BY DEF AutoInv, AutoTypeOK
    <3>2. nod' \in {nod, [nod EXCEPT ![c] = Showing(c)]} /\ receipts' \subseteq receipts \cup {Receipt(c)}
      BY <2>1, <2>4
    <3>3. [nod EXCEPT ![c] = Showing(c)] \in [ToolCalls -> {<<>>} \cup (Nat \X Nat \X Nat)]
      BY <2>5, <3>1
    <3>4. QED
      BY <2>5, <3>1, <3>2, <3>3
  <2>7. AutoTypeOK' /\ LinesAreHeld' /\ UnparsedIsReviewed'
    BY <1>2, <2>3, <2>6, MovesKeep DEF Reviewed, AutoInv, AutoTypeOK
  <2>8. ReceiptsAreCurrent'
    <3>1. CASE yes /\ Current(c)
      <4> SUFFICES ASSUME NEW r \in receipts'
                   PROVE  /\ r[1] = sessionId /\ r[3] <= edits[r[2]]
                          /\ r[3] = edits[r[2]] => nod'[r[2]] = Showing(r[2])
        BY <1>2 DEF Reviewed, ReceiptsAreCurrent, Showing
      <4>1. nod'[c] = Showing(c) /\ \A d \in ToolCalls : d # c => nod'[d] = nod[d]
        BY <2>1, <2>4, <3>1 DEF AutoInv, AutoTypeOK
      <4>2. CASE r = Receipt(c)
        BY <4>1, <4>2 DEF Receipt, AutoInv, AutoTypeOK
      <4>3. CASE r \in receipts
        <5>1. r[2] \in ToolCalls
          BY <4>3 DEF AutoInv, AutoTypeOK
        <5>2. QED
          BY <4>1, <4>3, <5>1 DEF AutoInv, ReceiptsAreCurrent
      <4>4. QED
        BY <2>1, <3>1, <4>2, <4>3
    <3>2. CASE ~(yes /\ Current(c))
      BY <1>2, <2>1, <3>2 DEF Reviewed, AutoInv, ReceiptsAreCurrent, Showing
    <3>3. QED
      BY <3>1, <3>2
  <2>9. QED
    BY <2>7, <2>8 DEF AutoInv
<1>3. CASE Classified(c)
  <2>1. c \notin lapsed => Free(c)
    BY <1>3 DEF Classified, AutoInv, LinesAreHeld, PastTheLines
  <2>2. ~Is(c, "unparsed")
    BY <1>3 DEF Classified, AutoInv, UnparsedIsReviewed
  <2>3. \E s \in {"open", "blocked", "interrupted", "classifying", "reviewing", "proposing",
                  "prompting"} : GoesTo(c, s)
    BY <1>3 DEF Classified, SoftDenied, Declined, Asked
  <2>4. Moved(c)
    BY <2>1, <2>2, <2>3 DEF Moved
  <2>5. noted' \in [ToolCalls -> [session : Nat, generation : Nat, edits : Nat,
                                  reusable : BOOLEAN, scoped : BOOLEAN]]
    BY <1>3 DEF Classified, AutoInv, AutoTypeOK
  <2>6. AutoTypeOK' /\ LinesAreHeld' /\ UnparsedIsReviewed'
    BY <1>3, <2>4, <2>5, MovesKeep DEF Classified, AutoInv, AutoTypeOK
  <2>7. ReceiptsAreCurrent'
    BY <1>3 DEF Classified, AutoInv, ReceiptsAreCurrent, Showing
  <2>8. QED
    BY <2>6, <2>7 DEF AutoInv
<1>4. CASE Proposed(c)
  <2>1. c \notin lapsed => Free(c)
    BY <1>4 DEF Proposed, AutoInv, LinesAreHeld, PastTheLines
  <2>2. ~Is(c, "unparsed")
    BY <1>4 DEF Proposed, AutoInv, UnparsedIsReviewed
  <2>3. Moved(c)
    BY <1>4, <2>1, <2>2 DEF Proposed, Moved, Asked
  <2>4. AutoTypeOK' /\ LinesAreHeld' /\ UnparsedIsReviewed'
    BY <1>4, <2>3, MovesKeep DEF Proposed, AutoInv, AutoTypeOK
  <2>5. ReceiptsAreCurrent'
    BY <1>4 DEF Proposed, AutoInv, ReceiptsAreCurrent, Showing
  <2>6. QED
    BY <2>4, <2>5 DEF AutoInv
<1>5. CASE Prompted(c)
  <2>1. c \notin lapsed => Free(c)
    BY <1>5 DEF Prompted, AutoInv, LinesAreHeld, PastTheLines
  <2>2. ~Is(c, "unparsed")
    BY <1>5 DEF Prompted, AutoInv, UnparsedIsReviewed
  <2>3. GoesTo(c, "open") \/ GoesTo(c, "blocked") \/ GoesTo(c, "interrupted")
    BY <1>5 DEF Prompted, Declined
  <2>4. Moved(c)
    BY <2>1, <2>2, <2>3 DEF Moved
  <2>5. scopes' \subseteq ToolCalls /\ userApproved' \subseteq ToolCalls
    BY <1>5 DEF Prompted, AutoInv, AutoTypeOK
  <2>6. AutoTypeOK' /\ LinesAreHeld' /\ UnparsedIsReviewed'
    BY <1>5, <2>4, <2>5, MovesKeep DEF Prompted, AutoInv, AutoTypeOK
  <2>7. ReceiptsAreCurrent'
    BY <1>5 DEF Prompted, AutoInv, ReceiptsAreCurrent, Showing
  <2>8. QED
    BY <2>6, <2>7 DEF AutoInv
<1>6. QED
  BY <1>1, <1>2, <1>3, <1>4, <1>5

\* What the user and the host do keeps the invariant.
LEMMA HostKeeps ==
  ASSUME AutoInv, AbortTurn \/ NextTurn \/ Instruct \/ NewSession \/ ToggleAuto \/ ToggleYolo
  PROVE  AutoInv'
<1> USE DEF callFrame, clockVars, grantVars, configVars
<1>1. CASE AbortTurn \/ NextTurn \/ ToggleAuto
  BY <1>1 DEF AbortTurn, NextTurn, ToggleAuto, AutoInv, AutoTypeOK, LinesAreHeld, Free, Is,
              UnparsedIsReviewed, ReceiptsAreCurrent, Showing
<1>2. CASE Instruct
  BY <1>2 DEF Instruct, ClearReviews, AutoInv, AutoTypeOK, LinesAreHeld, Free, Is,
              UnparsedIsReviewed, ReceiptsAreCurrent
<1>3. CASE NewSession
  <2>1. where' = [c \in ToolCalls |->
                    IF where[c] \in Waiting /\ pass[c] = "link" THEN "withdrawn"
                    ELSE IF where[c] = "reviewing" THEN Declined ELSE where[c]]
    BY <1>3 DEF NewSession
  <2>2. \A c \in ToolCalls : where'[c] \in {where[c], "withdrawn", "blocked", "interrupted"}
    BY <2>1 DEF Declined
  <2>3. where' \in [ToolCalls -> {"new", "open", "blocked", "interrupted", "withdrawn", "ran",
                                 "ended"} \cup Waiting]
    BY <2>1 DEF Declined, AutoInv, AutoTypeOK
  <2>4. AutoTypeOK'
    BY <1>3, <2>3 DEF NewSession, ClearReviews, AutoInv, AutoTypeOK
  <2>5. LinesAreHeld' /\ UnparsedIsReviewed'
    BY <1>3, <2>2 DEF NewSession, AutoInv, LinesAreHeld, UnparsedIsReviewed, Free, Is, PastTheLines
  <2>6. ReceiptsAreCurrent'
    BY <1>3 DEF NewSession, ClearReviews, ReceiptsAreCurrent
  <2>7. QED
    BY <2>4, <2>5, <2>6 DEF AutoInv
<1>4. CASE ToggleYolo
  <2> DEFINE settled == {c \in ToolCalls : /\ ~yoloMode /\ where[c] \in Waiting
                                           /\ pass[c] = "link" \/ where[c] = "reviewing"}
             stage(c) == IF c \notin settled THEN where[c]
                         ELSE IF pass[c] = "link" THEN "open" ELSE Agreed(c)
  <2>1. where' = [c \in ToolCalls |-> stage(c)]
        /\ nod' = [c \in ToolCalls |-> IF c \in settled THEN Showing(c) ELSE nod[c]]
    BY <1>4 DEF ToggleYolo
  <2>2. \A c \in ToolCalls : where'[c] = stage(c)
    BY <2>1
  <2>3. \A c \in ToolCalls : /\ stage(c) \in {where[c], "open", "blocked", "interrupted"}
                             /\ stage(c) # where[c] => c \in settled
    BY DEF Agreed, Declined
  <2>4. where' \in [ToolCalls -> {"new", "open", "blocked", "interrupted", "withdrawn", "ran",
                                 "ended"} \cup Waiting]
    BY <2>1, <2>3 DEF AutoInv, AutoTypeOK
  <2>5. \A c \in ToolCalls : Showing(c) \in Nat \X Nat \X Nat
    BY DEF Showing, AutoInv, AutoTypeOK
  <2>6. nod' \in [ToolCalls -> {<<>>} \cup (Nat \X Nat \X Nat)]
    BY <2>1, <2>5 DEF AutoInv, AutoTypeOK
  <2>7. AutoTypeOK'
    BY <1>4, <2>4, <2>6 DEF ToggleYolo, AutoInv, AutoTypeOK
  <2>8. LinesAreHeld'
    <3> SUFFICES ASSUME NEW c \in ToolCalls \ lapsed
                 PROVE  /\ where'[c] \in PastTheLines \/ (where'[c] = "confirming" /\ pass[c] = "link")
                             => Free(c)
                        /\ where'[c] = "confirming" => ~Is(c, "deny")
      BY <1>4 DEF ToggleYolo, LinesAreHeld, Free, Is
    <3>1. c \in settled => Free(c)
      BY DEF AutoInv, LinesAreHeld, Waiting, PastTheLines
    <3>2. QED
      BY <2>2, <2>3, <3>1 DEF AutoInv, LinesAreHeld
  <2>9. UnparsedIsReviewed'
    BY <1>4, <2>2, <2>3 DEF ToggleYolo, AutoInv, UnparsedIsReviewed, Is
  <2>10. ReceiptsAreCurrent'
    <3> SUFFICES ASSUME NEW r \in receipts
                 PROVE  /\ r[1] = sessionId /\ r[3] <= edits[r[2]]
                        /\ r[3] = edits[r[2]] => nod'[r[2]] = Showing(r[2])
      BY <1>4 DEF ToggleYolo, ReceiptsAreCurrent, Showing
    <3>1. r[2] \in ToolCalls
      BY DEF AutoInv, AutoTypeOK
    <3>2. QED
      BY <2>1, <3>1 DEF AutoInv, ReceiptsAreCurrent
  <2>11. QED
    BY <2>7, <2>8, <2>9, <2>10 DEF AutoInv
<1>5. QED
  BY <1>1, <1>2, <1>3, <1>4

LEMMA StepInv == AutoInv /\ [AutoNext]_autoVars => AutoInv'
<1> SUFFICES ASSUME AutoInv, [AutoNext]_autoVars PROVE AutoInv'
  OBVIOUS
<1>1. ASSUME NEW c \in ToolCalls, ToolCall(c) PROVE AutoInv'
  <2>1. PICK p \in {"pre", "standalone"} : Handle(c, p)
    BY <1>1 DEF ToolCall
  <2>2. QED
    BY <1>1, <2>1, HandlerKeeps DEF ToolCall, AutoInv, AutoTypeOK
<1>2. ASSUME NEW c \in ToolCalls, Consult(c) PROVE AutoInv'
  <2>1. Handle(c, "link") /\ where[c] = "open"
        /\ UNCHANGED <<configVars, clockVars, profile, edits, grantVars>>
    BY <1>2 DEF Consult
  <2>2. asks' \in [ToolCalls -> Nat]
    BY <1>2 DEF Consult, AutoInv, AutoTypeOK
  <2>3. QED
    BY <2>1, <2>2, HandlerKeeps
<1>3. ASSUME NEW c \in ToolCalls, RunsCall(c) PROVE AutoInv'
  <2>1. AutoTypeOK'
    BY <1>3 DEF RunsCall, AutoInv, AutoTypeOK, configVars, clockVars, grantVars
  <2>2. LinesAreHeld' /\ UnparsedIsReviewed'
    BY <1>3 DEF RunsCall, AutoInv, AutoTypeOK, LinesAreHeld, Free, Is, PastTheLines,
                UnparsedIsReviewed
  <2>3. ReceiptsAreCurrent'
    BY <1>3 DEF RunsCall, clockVars, grantVars, AutoInv, ReceiptsAreCurrent, Showing
  <2>4. QED
    BY <2>1, <2>2, <2>3 DEF AutoInv
<1>4. ASSUME NEW c \in ToolCalls, CallEnds(c) PROVE AutoInv'
  <2>1. AutoTypeOK'
    BY <1>4 DEF CallEnds, AutoInv, AutoTypeOK, configVars, clockVars
  <2>2. LinesAreHeld' /\ UnparsedIsReviewed'
    BY <1>4 DEF CallEnds, AutoInv, AutoTypeOK, LinesAreHeld, Free, Is, PastTheLines,
                UnparsedIsReviewed
  <2>3. ReceiptsAreCurrent'
    BY <1>4 DEF CallEnds, clockVars, AutoInv, ReceiptsAreCurrent, Showing
  <2>4. QED
    BY <2>1, <2>2, <2>3 DEF AutoInv
<1>5. ASSUME NEW c \in ToolCalls, EditInput(c) PROVE AutoInv'
  <2>1. AutoTypeOK' /\ LinesAreHeld' /\ UnparsedIsReviewed'
    BY <1>5 DEF EditInput, AutoInv, AutoTypeOK, configVars, clockVars, grantVars, LinesAreHeld,
                Free, Is, UnparsedIsReviewed
  <2> SUFFICES ASSUME NEW r \in receipts
               PROVE  /\ r[1] = sessionId /\ r[3] <= edits'[r[2]]
                      /\ r[3] = edits'[r[2]] => nod[r[2]] = Showing(r[2])'
    BY <1>5, <2>1 DEF EditInput, clockVars, grantVars, AutoInv, ReceiptsAreCurrent
  <2>2. r[2] \in ToolCalls /\ r[3] \in Nat
    BY DEF AutoInv, AutoTypeOK
  <2>3. QED
    BY <1>5, <2>2 DEF EditInput, clockVars, AutoInv, AutoTypeOK, ReceiptsAreCurrent, Showing
<1>6. CASE UNCHANGED autoVars
  BY <1>6 DEF autoVars, configVars, clockVars, grantVars, AutoInv, AutoTypeOK, LinesAreHeld, Free,
              Is, UnparsedIsReviewed, ReceiptsAreCurrent, Showing
<1>7. QED
  BY <1>1, <1>2, <1>3, <1>4, <1>5, <1>6, AnswersKeep, HostKeeps DEF AutoNext

LEMMA AutoInvariant == AutoSpec => []AutoInv
BY InitInv, StepInv, PTL DEF AutoSpec

-----------------------------------------------------------------------------
(* The theorems.                                                           *)

\* Whatever the host, the user and other extensions do, the state keeps its types.
THEOREM AutoTypes == AutoSpec => []AutoTypeOK
<1>1. AutoInv => AutoTypeOK
  BY DEF AutoInv
<1>2. QED
  BY <1>1, AutoInvariant, PTL

\* No call under a hard line runs, unless auto mode was off when it was checked: none of the
\* awaits, the reviews, YOLO mode or a change of session lets it past (the order of the tiers
\* in the tool_call handler, and its second run as a link).
THEOREM HardLinesAreHeld == AutoSpec => []HardLinesHold
<1>1. AutoInv => HardLinesHold
  BY DEF AutoInv, LinesAreHeld, PastTheLines, Free, HardLinesHold
<1>2. QED
  BY <1>1, AutoInvariant, PTL

\* A turn interrupted to steer it blocks no call, at whatever await it comes.
THEOREM SteeringDeniesNothing == AutoSpec => SteeringIsNoDenial
<1>1. AutoInv /\ [AutoNext]_autoVars =>
        [\A c \in ToolCalls : Steering /\ enabled /\ where'[c] = "blocked"
                              => where[c] = "blocked"]_autoVars
  <2> SUFFICES ASSUME AutoInv, AutoNext, NEW c \in ToolCalls, Steering, enabled,
                      where[c] # "blocked"
               PROVE  where'[c] # "blocked"
    BY DEF AutoInv
  <2>1. signal # "live"
    BY DEF Steering
  <2>2. where \in [ToolCalls -> {"new", "open", "blocked", "interrupted", "withdrawn", "ran",
                                "ended"} \cup Waiting]
    BY DEF AutoInv, AutoTypeOK
  <2>3. ASSUME NEW d \in ToolCalls, NEW p, Handle(d, p) PROVE where'[c] # "blocked"
    BY <2>2, <2>3, HandledStages DEF Handle
  <2>4. ASSUME NEW d \in ToolCalls, ToolCall(d) \/ Consult(d) PROVE where'[c] # "blocked"
    BY <2>3, <2>4 DEF ToolCall, Consult
  <2>5. ASSUME NEW d \in ToolCalls, RunsCall(d) \/ CallEnds(d) \/ EditInput(d)
        PROVE  where'[c] # "blocked"
    BY <2>2, <2>5 DEF RunsCall, CallEnds, EditInput
  <2>6. ASSUME NEW d \in ToolCalls,
               Confirmed(d) \/ Reviewed(d) \/ Classified(d) \/ Proposed(d) \/ Prompted(d)
        PROVE  where'[c] # "blocked"
    <3>1. GoesTo(d, "interrupted") \/ GoesTo(d, "open")
      BY <2>1, <2>6 DEF Confirmed, Reviewed, Classified, Proposed, Prompted, Declined, SoftDenied,
                       GoesTo
    <3>2. QED
      BY <2>2, <3>1 DEF GoesTo
  <2>7. CASE AbortTurn \/ NextTurn \/ Instruct \/ ToggleAuto
    BY <2>7 DEF AbortTurn, NextTurn, Instruct, ToggleAuto
  <2>8. CASE NewSession
    BY <2>8 DEF NewSession, Declined
  <2>9. CASE ToggleYolo
    BY <2>1, <2>9 DEF ToggleYolo, Agreed, Current, Declined
  <2>10. QED
    BY <2>4, <2>5, <2>6, <2>7, <2>8, <2>9 DEF AutoNext
<1>2. QED
  BY <1>1, AutoInvariant, PTL DEF AutoSpec, SteeringIsNoDenial

\* What passes although it could not be parsed was shown to the user, or to YOLO mode, as it
\* is now: in this session, with this input, after the last instruction.
THEOREM PassesAreShown == AutoSpec => NodsAreCurrent
<1>1. AutoInv /\ [AutoNext]_autoVars =>
        [\A c \in ToolCalls : Passes(c) /\ enabled /\ Is(c, "unparsed")
                              => nod'[c] = Showing(c)']_autoVars
  <2> SUFFICES ASSUME AutoInv, AutoNext, NEW c \in ToolCalls, Passes(c), enabled,
                      Is(c, "unparsed")
               PROVE  nod'[c] = Showing(c)'
    BY DEF AutoInv
  <2> USE DEF clockVars, configVars, grantVars, callFrame, awaitFrame
  <2>1. /\ where \in [ToolCalls -> {"new", "open", "blocked", "interrupted", "withdrawn", "ran",
                                   "ended"} \cup Waiting]
        /\ nod \in [ToolCalls -> {<<>>} \cup (Nat \X Nat \X Nat)] /\ asks \in [ToolCalls -> Nat]
    BY DEF AutoInv, AutoTypeOK
  <2>2. where[c] \notin {"confirming", "classifying", "proposing", "prompting"}
    BY DEF AutoInv, UnparsedIsReviewed
  <2>3. ASSUME NEW d \in ToolCalls, ToolCall(d) \/ Consult(d) PROVE nod'[c] = Showing(c)'
    <3>1. PICK p : Handle(d, p)
      BY <2>3 DEF ToolCall, Consult
    <3>2. UNCHANGED <<sessionId, analysisGeneration, edits, receipts, yoloMode>>
      BY <2>3 DEF ToolCall, Consult
    <3>3. d = c /\ Handled(c, p) = "open"
      BY <2>1, <2>3, <3>1 DEF Passes, Handle, ToolCall, Consult
    <3>4. Receipt(c) \in receipts \/ yoloMode
      BY <3>3, HandledStages
    <3>5. CASE Receipt(c) \in receipts
      <4>1. nod[c] = Showing(c)
        BY <3>5 DEF Receipt, AutoInv, ReceiptsAreCurrent
      <4>2. QED
        BY <3>1, <3>2, <3>3, <3>5, <4>1 DEF Handle, Showing
    <3>6. CASE yoloMode /\ Receipt(c) \notin receipts
      BY <2>1, <3>1, <3>2, <3>3, <3>6 DEF Handle, Showing
    <3>7. QED
      BY <3>4, <3>5, <3>6
  <2>4. ASSUME NEW d \in ToolCalls, Reviewed(d) PROVE nod'[c] = Showing(c)'
    <3>1. d = c /\ where[c] = "reviewing" /\ where'[c] = "open"
      BY <2>1, <2>4 DEF Passes, Reviewed, GoesTo
    <3>2. Current(c) /\ nod' = [nod EXCEPT ![c] = <<noted[c].session, noted[c].generation, noted[c].edits>>]
      BY <2>1, <2>4, <3>1 DEF Reviewed, GoesTo, Agreed, Declined
    <3>3. QED
      BY <2>1, <2>4, <3>1, <3>2 DEF Reviewed, Current, Showing
  <2>5. ASSUME NEW d \in ToolCalls,
               Confirmed(d) \/ Classified(d) \/ Proposed(d) \/ Prompted(d)
        PROVE  FALSE
    <3>1. where'[c] = "open" /\ (where[c] # "open" \/ asks'[c] # asks[c])
      BY DEF Passes
    <3>2. asks' = asks /\ \E s : GoesTo(d, s)
      BY <2>5 DEF Confirmed, Classified, Proposed, Prompted
    <3>3. d = c
      BY <2>1, <3>1, <3>2 DEF GoesTo
    <3>4. QED
      BY <2>2, <2>5, <3>3 DEF Confirmed, Classified, Proposed, Prompted
  <2>6. ASSUME NEW d \in ToolCalls, RunsCall(d) \/ CallEnds(d) \/ EditInput(d)
        PROVE  FALSE
    BY <2>1, <2>6 DEF RunsCall, CallEnds, EditInput, Passes
  <2>7. ~(AbortTurn \/ NextTurn \/ Instruct \/ ToggleAuto)
    BY DEF AbortTurn, NextTurn, Instruct, ToggleAuto, Passes
  <2>8. ~NewSession
    BY DEF NewSession, Declined, Passes
  <2>9. CASE ToggleYolo
    <3>1. where'[c] = "open" /\ where[c] # "open"
      BY <2>9 DEF ToggleYolo, Passes
    <3>2. nod'[c] = Showing(c)
      BY <2>9, <3>1 DEF ToggleYolo
    <3>3. QED
      BY <2>9, <3>2 DEF ToggleYolo, Showing
  <2>10. QED
    BY <2>3, <2>4, <2>5, <2>6, <2>7, <2>8, <2>9 DEF AutoNext
<1>2. QED
  BY <1>1, AutoInvariant, PTL DEF AutoSpec, NodsAreCurrent
=============================================================================
