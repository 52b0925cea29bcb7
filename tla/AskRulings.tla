------------------------------ MODULE AskRulings ------------------------------
(***************************************************************************)
(* What the authority over permission asks promises, without its chain of  *)
(* authorizers, dialogs and late answers: an ask is ruled on once, by      *)
(* somebody entitled to; whoever approves it does so while the session     *)
(* runs; when the session ends, is replaced, or the ask is cancelled, it   *)
(* is withdrawn; the session's grants are what people chose, and end with  *)
(* it.  AskAuthority implements this.                                      *)
(***************************************************************************)
CONSTANTS
  Asks, Kind,             \* Kind[a] is the action ask a is about
  Forwarded,              \* the asks of subagents
  Bare,                   \* those of them that do not say what they ask for
  Excluded,               \* kinds no authorizer may approve by itself
  Directory,              \* kinds for which a person may have given a receipt beforehand
  Recordable,             \* kinds a session grant can name
  Sessions, NoSession

VARIABLES
  session, yolo,          \* the running session; does its mode approve everything
  grants,                 \* kinds of action the session has granted
  decision                \* per ask, [state, by]

Init ==
  /\ session = NoSession /\ yolo \in BOOLEAN /\ grants = {}
  /\ decision = [a \in Asks |-> [state |-> "new", by |-> "nobody"]]

Open == {a \in Asks : decision[a].state = "open"}
RuleOn(S, r) == decision' = [a \in Asks |-> IF a \in S THEN r ELSE decision[a]]
Withdraw(S) == RuleOn(S, [state |-> "denied", by |-> "unavailable"])

\* who may rule what on an open ask: a person here or at the parent anything, an
\* authorizer this once and never an excluded kind, a receipt only a directory
Entitled(a, r) ==
  \/ r.by \in {"user", "relay"} /\ r.state \in {"approved", "session", "serving", "denied"}
  \/ r.by = "link" /\ (r.state = "denied" \/ (r.state = "approved" /\ Kind[a] \notin Excluded))
  \/ r.by = "receipt" /\ r.state = "approved" /\ Kind[a] \in Directory
  \/ r.by \in {"unavailable", "error"} /\ r.state = "denied"

\* a subagent keeps the grants for itself, the session those for all
Granted(a, r) ==
  IF r.state = (IF a \in Forwarded THEN "serving" ELSE "session") /\ Kind[a] \in Recordable
  THEN {Kind[a]} ELSE {}

Raise(a) ==
  /\ decision[a].state = "new" /\ session # NoSession
  /\ RuleOn({a}, [state |-> "open", by |-> "nobody"])
  /\ UNCHANGED <<session, yolo, grants>>

\* what is granted or approved by mode is not asked, and without a session it is refused
Preclude(a) ==
  /\ decision[a].state = "new"
  /\ \/ a \notin Bare /\ Kind[a] \in grants /\ RuleOn({a}, [state |-> "approved", by |-> "grant"])
     \/ a \notin Bare /\ yolo /\ RuleOn({a}, [state |-> "approved", by |-> "yolo"])
     \/ session = NoSession /\ RuleOn({a}, [state |-> "denied", by |-> "error"])
     \/ Withdraw({a})
  /\ UNCHANGED <<session, yolo, grants>>

Rule(a, r) ==
  /\ a \in Open /\ session # NoSession /\ Entitled(a, r)
  /\ RuleOn({a}, r)
  /\ grants' = grants \cup Granted(a, r)
  /\ UNCHANGED <<session, yolo>>

Cancel == (\E S \in SUBSET Open : Withdraw(S)) /\ UNCHANGED <<session, yolo, grants>>

\* the mode may be switched on over open asks, but never for another process
SetYolo(on) ==
  /\ yolo' = on
  /\ \E S \in SUBSET (Open \ Forwarded) :
       (on \/ S = {}) /\ RuleOn(S, [state |-> "approved", by |-> "yolo"])
  /\ UNCHANGED <<session, grants>>

Start(s) ==
  /\ session' = s
  /\ IF s = session THEN UNCHANGED decision ELSE Withdraw(Open)
  /\ UNCHANGED <<yolo, grants>>

End ==
  /\ session' = NoSession /\ grants' = {}
  /\ Withdraw(Open)
  /\ UNCHANGED yolo

Next ==
  \/ \E a \in Asks : \/ Raise(a) \/ Preclude(a)
                     \/ \E r \in [state : {"approved", "session", "serving", "denied"},
                                  by : {"user", "relay", "link", "receipt", "unavailable", "error"}] :
                          Rule(a, r)
  \/ Cancel
  \/ \E on \in BOOLEAN : SetYolo(on)
  \/ \E s \in Sessions : Start(s)
  \/ End

Spec == Init /\ [][Next]_<<session, yolo, grants, decision>>
=============================================================================
