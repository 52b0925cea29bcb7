---------------------------- MODULE SentMessages ----------------------------
(***************************************************************************)
(* What the broker promises the senders of messages, without connections,  *)
(* tables or caps: what becomes of each message, however often its send is *)
(* repeated.  A message is written to a receiver once or waits once, never *)
(* both; what waits is written, or is recorded as failed, or is withdrawn; *)
(* all that can follow a failure is a failure, unless the target was       *)
(* rebound and the send is tried again on purpose; and what was written    *)
(* can only be called back.  The promise ends when the broker forgets.     *)
(* IntercomBroker implements this.                                         *)
(***************************************************************************)
EXTENDS Naturals

CONSTANTS MessageKeys           \* a session and the id of a message of it

VARIABLES sent            \* per send: what it has come to, and how many copies there are

Fate(is, waiting, written) == [is |-> is, waiting |-> waiting, written |-> written]
Unsent == Fate("unsent", 0, 0)
Queued == Fate("queued", 1, 0)
Written == Fate("written", 0, 1)
CalledBack == Fate("calledBack", 0, 1)
Failed == Fate("failed", 0, 0)
Rebound == Fate("rebound", 0, 0)
Withdrawn == Fate("withdrawn", 0, 0)
Forgotten == Fate("forgotten", 0, 0)
Fates == {Unsent, Queued, Written, CalledBack, Failed, Rebound, Withdrawn, Forgotten}

Init == sent = [k \in MessageKeys |-> Unsent]

\* a send that is not a repetition, or that is tried again after a rebound
Handle(old, new) == old \in {Unsent, Rebound} /\ new \in {Queued, Written, Failed, Rebound}
\* what waits is collected, expires or is evicted, or its sender cancels it
Settle(old, new) == old = Queued /\ new \in {Written, Failed, Withdrawn}
\* superseded, or cancelled at its receiver
CallBack(old, new) == old = Written /\ new = CalledBack
Forget(old, new) == new = Forgotten

\* A registration or an expiry is about many messages at once.
Next ==
  /\ sent' \in [MessageKeys -> Fates]
  /\ \A k \in MessageKeys :
       LET old == sent[k]
           new == sent'[k] IN
       new = old \/ Handle(old, new) \/ Settle(old, new) \/ CallBack(old, new) \/ Forget(old, new)

Spec == Init /\ [][Next]_sent
=============================================================================
