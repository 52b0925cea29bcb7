--------------------------- MODULE PermissionLedger ---------------------------
(***************************************************************************)
(* The record of blocked calls and of what the user has since allowed      *)
(* (pi-permissions/src/denials.ts), as its users change it: the gate       *)
(* around the tool_call handlers and the /permissions menu (index.ts), the *)
(* ask_for_approval tool (approval-request.ts) and the asks of subagents   *)
(* (forwarded-gate.ts).                                                    *)
(*                                                                         *)
(* The gate checks the ledger, awaits the handlers, one of which may put a *)
(* question to the user, and records a block; ask_for_approval awaits its  *)
(* own question.  Any other step is atomic.  Every change is persisted at  *)
(* once; moving in the session tree restores an earlier record, as copies: *)
(* a review of the old objects finds its denial gone.                      *)
(***************************************************************************)
EXTENDS Naturals, Sequences, FiniteSets

CONSTANTS
  Actions,                \* a tool and its input, in one directory
  Shell,                  \* the actions of bash and bg_run
  Children, Self,         \* who blocked actions belong to: subagents, the session itself
  Reviews,                \* calls of ask_for_approval
  DenialLimit,            \* DENIAL_LIMIT
  MaxDenials, MaxRestores \* bounds: denials ever recorded; restored ledgers

Owners == Children \cup {Self}

ASSUME LedgerAssumption ==
  /\ Shell \subseteq Actions /\ Self \notin Children
  /\ DenialLimit \in Nat \ {0} /\ MaxDenials \in Nat /\ MaxRestores \in Nat

VARIABLES
  denials, nextId,        \* PermissionLedger: denials, newest first, and nextId
  exact, scoped,          \* grants of an exact call, and scoped ones: <<action, owner>>
  rejected,               \* actions the user declined
  earlier,                \* the record of an earlier point of the session tree
  epoch,                  \* identity of the objects in the ledger
  gate,                   \* the call at the gate: its action and where it is
  review,                 \* per call of ask_for_approval, the denial it asks about
  settled                 \* history: objects approved, dismissed or declined, <<epoch, id>>

recordVars == <<denials, nextId, exact, scoped, rejected>>
ledgerVars == <<recordVars, earlier, epoch, gate, review, settled>>

NoReview == [state |-> "idle", epoch |-> 0, denial |-> <<>>]
Empty == [denials |-> <<>>, exact |-> {}, scoped |-> {}, rejected |-> {}]

LedgerInit ==
  /\ denials = <<>> /\ nextId = 1 /\ exact = {} /\ scoped = {} /\ rejected = {}
  /\ earlier = Empty /\ epoch = 0
  /\ gate = [state |-> "idle"] /\ review = [r \in Reviews |-> NoReview]
  /\ settled = {}

-----------------------------------------------------------------------------
(* PermissionLedger.                                                       *)

Records == {denials[i] : i \in DOMAIN denials}
OpenDenials == {d \in Records : d.state = "open"}
Newest(s) == IF Len(s) > DenialLimit THEN SubSeq(s, 1, DenialLimit) ELSE s
Marked(S, change(_)) ==
  [i \in DOMAIN denials |-> IF denials[i] \in S THEN change(denials[i]) ELSE denials[i]]
Closes(S) == settled' = settled \cup {<<epoch, d.id>> : d \in S}

\* record: a block of a call of o, with what the user was asked about it
Record(a, o, eligible, response, barred) ==
  /\ nextId <= MaxDenials
  /\ denials' = Newest(<<[id |-> nextId, action |-> a, owner |-> o, state |-> "open",
                          eligible |-> eligible, response |-> response,
                          requested |-> FALSE, barred |-> barred]>> \o denials)
  /\ nextId' = nextId + 1
  /\ rejected' = IF response = "denied" THEN rejected \cup {a} ELSE rejected

\* clearSimilar, when the user answers something or gives an instruction
ClearSimilar == {}

-----------------------------------------------------------------------------
(* The gate: calls are prepared one after another.                         *)

gateFrame == <<denials, nextId, exact, rejected, earlier, epoch, review, settled>>

\* a call is at the gate: declined ones stop here, granted ones pass, others are judged
AtGate(a) ==
  /\ gate.state = "idle" /\ a \notin rejected /\ <<a, Self>> \notin exact
  /\ gate' = [state |-> "judged", action |-> a]
  /\ UNCHANGED <<gateFrame, scoped>>

\* the handlers let it pass, or ask before they block it
Judged ==
  /\ gate.state = "judged"
  /\ \/ gate' = [state |-> "idle"]
     \/ gate' = [gate EXCEPT !.state = "asked"]
  /\ UNCHANGED <<gateFrame, scoped>>

\* the block, unasked or after the question, is recorded
Blocked ==
  /\ gate.state \in {"judged", "asked"}
  /\ \E eligible \in BOOLEAN,
        response \in IF gate.state = "asked" THEN {"denied", "timeout"} ELSE {"unasked"} :
       Record(gate.action, Self, eligible, response, FALSE)
  /\ gate' = [state |-> "idle"]
  /\ UNCHANGED <<exact, scoped, earlier, epoch, review, settled>>

\* the user allows the call, once or with its scope
Permitted ==
  /\ gate.state = "asked"
  /\ scoped' \in {scoped, {<<gate.action, Self>>}}
  /\ gate' = [state |-> "idle"]
  /\ UNCHANGED gateFrame

\* a subagent's ask was denied: by auto mode, or by a rule or without the whole call
ChildDenied(a, o) ==
  /\ \E barred \in BOOLEAN : Record(a, o, FALSE, "unasked", barred)
  /\ UNCHANGED <<exact, scoped, earlier, epoch, gate, review, settled>>

-----------------------------------------------------------------------------
(* ask_for_approval.                                                       *)

Eligible(d) ==
  d.eligible /\ d.response # "denied" /\ d.owner = Self /\ ~d.barred

reviewFrame == <<nextId, exact, earlier, epoch, gate>>

Unclaimed(d) == [d EXCEPT !.requested = FALSE]                        \* mutant: claims too late
Claimed(d) == [d EXCEPT !.requested = TRUE]

\* execute: the denial is claimed before its question is shown
AsksReview(r) ==
  /\ review[r].state = "idle"
  /\ \E d \in OpenDenials :
       /\ Eligible(d) /\ ~d.requested
       /\ denials' = Marked({d}, Claimed)
       /\ review' = [review EXCEPT ![r] = [state |-> "shown", epoch |-> epoch, denial |-> d]]
  /\ UNCHANGED <<reviewFrame, scoped, rejected, settled>>

\* the denial the review is about, while it is in the ledger, open and unchanged
StillListed(r) == {d \in Records : d.id = review[r].denial.id}         \* mutant
StillShown(r) ==
  {d \in OpenDenials : /\ review[r].epoch = epoch /\ d.id = review[r].denial.id
                       /\ Eligible(d)}

\* the user answers: a stale review changes nothing; an answer expires the scopes before it
ReviewAnswer(r) ==
  /\ review[r].state = "shown"
  /\ review' = [review EXCEPT ![r] = NoReview]
  /\ \/ UNCHANGED <<recordVars, settled>>                \* stale, no answer, or no dialog
     \/ \E d \in StillShown(r) :
          \/ /\ scoped' = ClearSimilar
             /\ denials' = Marked({d}, LAMBDA e : [e EXCEPT !.response = "denied", !.eligible = FALSE])
             /\ rejected' = rejected \cup {d.action}
             /\ Closes({d})
          \/ /\ scoped' = ClearSimilar \cup {<<d.action, Self>>}
             /\ denials' = Marked({d}, LAMBDA e : [e EXCEPT !.state = "approved"])
             /\ Closes({d})
             /\ UNCHANGED rejected
  /\ UNCHANGED reviewFrame

-----------------------------------------------------------------------------
(* The menu, the user and the session tree.                                *)

\* approve, with the scope of a shell action unless the exact call is chosen
MenuApproves(d, onlyExact) ==
  /\ ~d.barred
  /\ rejected' = IF d.owner = Self THEN rejected \ {d.action} ELSE rejected
  /\ IF d.action \in Shell /\ ~onlyExact
     THEN scoped' = scoped \cup {<<d.action, d.owner>>} /\ UNCHANGED exact
     ELSE exact' = exact \cup {<<d.action, d.owner>>} /\ UNCHANGED scoped
  /\ LET same == {e \in OpenDenials : e.action = d.action /\ e.owner = d.owner} IN
       /\ denials' = Marked(same, LAMBDA e : [e EXCEPT !.state = "approved"])
       /\ Closes(same)
  /\ UNCHANGED <<nextId, earlier, epoch, gate, review>>

MenuDismisses(d) ==
  /\ denials' = Marked({d}, LAMBDA e : [e EXCEPT !.state = "dismissed"])
  /\ Closes({d})
  /\ UNCHANGED <<nextId, exact, scoped, rejected, earlier, epoch, gate, review>>

MenuRevokes ==
  /\ \/ \E g \in exact : exact' = exact \ {g} /\ UNCHANGED scoped
     \/ \E g \in scoped : scoped' = scoped \ {g} /\ UNCHANGED exact
  /\ UNCHANGED <<denials, nextId, rejected, earlier, epoch, gate, review, settled>>

\* an instruction forgets what was declined, and like a submitted answer ends the scopes
Instructs ==
  /\ rejected' \in {{}, rejected}
  /\ scoped' = ClearSimilar
  /\ UNCHANGED <<denials, nextId, exact, earlier, epoch, gate, review, settled>>

\* the user may come back to this point of the tree
Branches ==
  /\ earlier = Empty
  /\ earlier' = [denials |-> denials, exact |-> exact, scoped |-> scoped, rejected |-> rejected]
  /\ UNCHANGED <<recordVars, epoch, gate, review, settled>>

\* restore: ids continue from those of the record
Restores ==
  /\ epoch < MaxRestores
  /\ epoch' = epoch + 1
  /\ \E record \in {earlier, Empty} :
       /\ denials' = record.denials /\ exact' = record.exact /\ scoped' = record.scoped
       /\ rejected' = record.rejected
       /\ nextId' = IF record.denials = <<>> THEN 1 ELSE Head(record.denials).id + 1
  /\ UNCHANGED <<earlier, gate, review, settled>>

LedgerNext ==
  \/ \E a \in Actions : AtGate(a) \/ \E o \in Children : ChildDenied(a, o)
  \/ Judged \/ Blocked \/ Permitted
  \/ \E r \in Reviews : AsksReview(r) \/ ReviewAnswer(r)
  \/ \E d \in OpenDenials :
       MenuDismisses(d) \/ \E onlyExact \in BOOLEAN : MenuApproves(d, onlyExact)
  \/ MenuRevokes \/ Instructs \/ Branches \/ Restores

LedgerSpec == LedgerInit /\ [][LedgerNext]_ledgerVars

-----------------------------------------------------------------------------
(* Properties.                                                             *)

Denials == [id : 1..MaxDenials, action : Actions, owner : Owners,
            state : {"open", "approved", "dismissed"}, eligible : BOOLEAN,
            response : {"unasked", "denied", "timeout"}, requested : BOOLEAN, barred : BOOLEAN]

LedgerTypeOK ==
  /\ denials \in Seq(Denials) /\ Len(denials) <= DenialLimit /\ nextId \in 1..MaxDenials + 1
  /\ exact \subseteq Actions \X Owners /\ scoped \subseteq Actions \X Owners
  /\ rejected \subseteq Actions /\ epoch \in Nat
  /\ earlier \in [denials : Seq(Denials), exact : SUBSET (Actions \X Owners),
                  scoped : SUBSET (Actions \X Owners), rejected : SUBSET Actions]
  /\ Len(earlier.denials) <= DenialLimit
  /\ gate \in [state : {"idle"}] \cup [state : {"judged", "asked"}, action : Actions]
  /\ review \in [Reviews -> {NoReview} \cup [state : {"shown"}, epoch : Nat, denial : Denials]]
  /\ settled \subseteq Nat \X Nat

\* However many calls of ask_for_approval run at once, and whatever is restored between them,
\* one denial is never put to the user twice at a time.
OneReviewPerDenial ==
  \A r, s \in Reviews :
    r # s /\ review[r].state = "shown" /\ review[s].state = "shown" =>
      <<review[r].epoch, review[r].denial.id>> # <<review[s].epoch, review[s].denial.id>>

\* The answer to a review approves only a denial that nothing has settled since it was shown:
\* not the menu, not another answer, and not a record restored from another branch, whose
\* denial of the same id may be about another action.
ReviewsApproveWhatTheyShow ==
  [][\A r \in Reviews :
       review[r].state = "shown" /\ review'[r].state = "idle" /\ denials' # denials =>
         /\ <<review[r].epoch, review[r].denial.id>> \notin settled
         /\ \E d \in Records : d.id = review[r].denial.id /\ d.action = review[r].denial.action
                              /\ review[r].epoch = epoch]_ledgerVars

-----------------------------------------------------------------------------
(* The inductive invariant behind the theorems of PermissionLedger_proofs. *)

\* newest first, and every id is used once
Ordered(s) == \A i, j \in DOMAIN s : i < j => s[i].id > s[j].id
RecordsAreOrdered ==
  /\ Ordered(denials) /\ Ordered(earlier.denials)
  /\ \A i \in DOMAIN denials : denials[i].id < nextId

\* the denial of a review that is shown is claimed, wherever it is in the ledger
ReviewsAreClaims ==
  \A r \in Reviews : review[r].state = "shown" =>
    /\ review[r].epoch <= epoch
    /\ review[r].epoch = epoch =>
         /\ review[r].denial.id < nextId
         /\ \A d \in Records : d.id = review[r].denial.id =>
              d.requested /\ d.action = review[r].denial.action

\* what was settled is not put to the user again
SettledIsClosed ==
  /\ \A t \in settled : t[1] <= epoch /\ (t[1] = epoch => t[2] < nextId)
  /\ \A d \in OpenDenials : <<epoch, d.id>> \in settled => ~Eligible(d)

LedgerInv ==
  LedgerTypeOK /\ RecordsAreOrdered /\ ReviewsAreClaims /\ SettledIsClosed /\ OneReviewPerDenial
=============================================================================
