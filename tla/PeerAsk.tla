------------------------------- MODULE PeerAsk -------------------------------
(***************************************************************************)
(* What a blocking ask to a peer promises the tool call that makes it,     *)
(* without connections, waiters or time-outs: the call ends once, and as   *)
(* answered only with the peer's reply to a question that did reach the    *)
(* peer, while nobody had cancelled it.  IntercomSession implements this.  *)
(***************************************************************************)
CONSTANTS Asks

VARIABLES
  outcome,                \* per ask: idle, open, answered or failed
  delivered,              \* asks whose question reached the peer
  answer                  \* asks to which the peer's reply has come

Init ==
  /\ outcome = [a \in Asks |-> "idle"]
  /\ delivered = {} /\ answer = {}

Open == {a \in Asks : outcome[a] = "open"}
End(S, how) == outcome' = [a \in Asks |-> IF a \in S THEN how ELSE outcome[a]]

\* a call may be refused at once
Call(a) ==
  /\ outcome[a] = "idle"
  /\ End({a}, "open") \/ End({a}, "failed")
  /\ UNCHANGED <<delivered, answer>>

\* also after the call has given up: the question is under way
Deliver(a) ==
  /\ outcome[a] # "idle" /\ a \notin delivered
  /\ delivered' = delivered \cup {a}
  /\ UNCHANGED <<outcome, answer>>

Reply(a) ==
  /\ a \in delivered \ answer
  /\ answer' = answer \cup {a}
  /\ End({a} \cap Open, "answered") \/ UNCHANGED outcome
  /\ UNCHANGED delivered

\* refusals, time-outs, cancellations, lost connections, the end of the session
Fail(S) ==
  /\ S \subseteq Open
  /\ End(S, "failed")
  /\ UNCHANGED <<delivered, answer>>

Next ==
  \/ \E a \in Asks : Call(a) \/ Deliver(a) \/ Reply(a)
  \/ \E S \in SUBSET Asks : Fail(S)

Spec == Init /\ [][Next]_<<outcome, delivered, answer>>
=============================================================================
