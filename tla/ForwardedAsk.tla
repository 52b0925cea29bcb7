----------------------------- MODULE ForwardedAsk -----------------------------
(***************************************************************************)
(* What forwarding a permission ask promises, without files, polling or    *)
(* processes: authorities rule on asks; an ask that is open is settled     *)
(* once, either as somebody ruled on this very ask or as unanswered; a     *)
(* grant is kept on the side it was chosen for, and the serving session's  *)
(* grants end with the session.  PermissionForwarding implements this.     *)
(***************************************************************************)
CONSTANTS Asks, Kinds, Kind     \* Kind[a] is the action ask a is about

VARIABLES
  verdicts,       \* per ask, the rulings that were made about it
  outcome,        \* per ask, what its requester was told
  childGrants,    \* asks after which the requester grants itself the action's kind
  servingGrants   \* kinds of action the serving session has granted

Rulings == {"approved", "approved_for_session", "approved_for_serving_session",
            "denied", "unavailable", "gate_error"}

\* what the requester is told of a ruling
Told(v) == CASE v \in {"approved", "approved_for_serving_session"} -> "approved"
             [] v = "approved_for_session" -> "approved_for_session"
             [] OTHER -> "denied"

Init ==
  /\ verdicts = [a \in Asks |-> {}]
  /\ outcome = [a \in Asks |-> "open"]
  /\ childGrants = {} /\ servingGrants = {}

\* somebody rules on an ask, whether or not its requester still waits
Rule(a, v) ==
  /\ verdicts' = [verdicts EXCEPT ![a] = @ \cup {v}]
  /\ servingGrants' = IF v = "approved_for_serving_session"
                      THEN servingGrants \cup {Kind[a]} ELSE servingGrants
  /\ UNCHANGED <<outcome, childGrants>>

\* the serving session ends: its grants go, and an ask it was holding stays unruled
EndSession ==
  /\ servingGrants' = {}
  /\ \/ UNCHANGED verdicts
     \/ \E a \in Asks : verdicts' = [verdicts EXCEPT ![a] = @ \cup {"unavailable"}]
  /\ UNCHANGED <<outcome, childGrants>>

\* the requester learns a ruling on its own ask
Report(a, v) ==
  /\ outcome[a] = "open" /\ v \in verdicts[a]
  /\ outcome' = [outcome EXCEPT ![a] = Told(v)]
  /\ childGrants' = IF v = "approved_for_session" THEN childGrants \cup {a} ELSE childGrants
  /\ UNCHANGED <<verdicts, servingGrants>>

\* the requester stops waiting: abandoned, cancelled, or killed
GiveUp(a) ==
  /\ outcome[a] = "open"
  /\ outcome' \in {[outcome EXCEPT ![a] = o] : o \in {"unavailable", "killed"}}
  /\ UNCHANGED <<verdicts, childGrants, servingGrants>>

Next ==
  \/ \E a \in Asks : GiveUp(a) \/ \E v \in Rulings : Rule(a, v) \/ Report(a, v)
  \/ EndSession

Spec == Init /\ [][Next]_<<verdicts, outcome, childGrants, servingGrants>>
=============================================================================
