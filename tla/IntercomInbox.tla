---------------------------- MODULE IntercomInbox ----------------------------
(***************************************************************************)
(* What one session does with the messages of its peers                    *)
(* (pi-custom/src/intercom/runtime.ts and reply-tracker.ts): a message is  *)
(* held or put before the model, now or when the agent is idle; asks are   *)
(* owed an answer until a reply, a withdrawal or the time-out; a reply     *)
(* finds the ask it is about.                                              *)
(*                                                                         *)
(* A step is an event of the host (agent and turn events, a tool call), a  *)
(* frame or a timer.  A reply or a send awaits the broker between its      *)
(* choice of an ask and the result.                                        *)
(***************************************************************************)
EXTENDS Naturals, Sequences, FiniteSets, Maps

CONSTANTS
  Messages,               \* what peers send to this session
  Sender, Peers,          \* [Messages -> Peers]
  Asking,                 \* messages that expect a reply
  Answering,              \* messages that answer one of this session's
  Outgoing,               \* calls of the reply and send actions of the tool
  Settings,               \* the configurations of the instance
  NoMessage

ASSUME InboxAssumption ==
  /\ \A m \in Messages : Sender[m] \in Peers
  /\ Asking \subseteq Messages /\ Answering \subseteq Messages
  /\ Settings \subseteq [ui : BOOLEAN, humanFirst : BOOLEAN,
                         trigger : {"always", "replies", "never"}]
  /\ NoMessage \notin Messages

VARIABLES
  setting,                \* hasUI, busyDelivery and inboundTrigger
  context,                \* ctx # null
  host,                   \* idle; busy without an agent run; run
  inTurn,                 \* between turn_start and turn_end
  agentRunning, wake,     \* Intercom: agentRunning, wakePending()
  held, heldTimer,        \* Intercom: held, heldTimer is set
  seen,                   \* Intercom: seen
  owed, turns, current,   \* ReplyTracker: asks, queued, current
  overdue,                \* messages received longer ago than the ask time-out
  call,                   \* per call: state; the message it is about
  number,                 \* history: the place of a message in the order of arrival, or 0
  shown,                  \* history: the messages put before the model, in order
  closed                  \* history: asks answered, withdrawn, refused or cleared

hostVars == <<setting, context, host, inTurn>>
trackerVars == <<owed, turns, current>>
inboxVars == <<hostVars, agentRunning, wake, held, heldTimer, seen, trackerVars, overdue,
               call, number, shown, closed>>

InboxInit ==
  /\ setting \in Settings
  /\ context = FALSE /\ host = "idle" /\ inTurn = FALSE
  /\ agentRunning = FALSE /\ wake = FALSE
  /\ held = <<>> /\ heldTimer = FALSE /\ seen = {}
  /\ owed = {} /\ turns = <<>> /\ current = NoMessage /\ overdue = {}
  /\ call = [c \in Outgoing |-> [state |-> "idle", about |-> NoMessage]]
  /\ number = [m \in Messages |-> 0] /\ shown = <<>> /\ closed = {}

Elements(s) == {s[i] : i \in DOMAIN s}
Drop(s, S) == Filtered(s, {i \in DOMAIN s : s[i] \notin S})
HumanFirst == setting.humanFirst /\ setting.ui

-----------------------------------------------------------------------------
(* ReplyTracker.                                                           *)

\* dismiss, and prune, which dismisses the asks that are overdue
DismissAsks(S) ==
  /\ owed' = owed \ S /\ turns' = Drop(turns, S)
  /\ current' = IF current \in S THEN NoMessage ELSE current
Expired == owed \cap overdue
Pending == owed \ overdue

\* the messages a reply may be about: the one of the turn, else the only ask pending; with a
\* peer, its only ask; with an id, that ask
BareTarget ==
  IF current # NoMessage /\ current \notin Expired THEN {current}
  ELSE {m \in Pending : Pending = {m}}
TargetFrom(p) == {m \in Pending : {n \in Pending : Sender[n] = p} = {m}}

-----------------------------------------------------------------------------
(* Putting messages before the model.                                      *)

Triggers(m) ==
  \/ setting.trigger = "always"
  \/ setting.trigger = "replies" /\ m \in Answering

\* inject for each message of s in order, as a trigger or as a steer: the first that may
\* start a turn does, and reserves the wake
Inject(s, delivery) ==
  /\ turns' = turns \o s
  /\ shown' = shown \o s
  /\ wake' = \/ wake
             \/ /\ delivery = "trigger" /\ host = "idle"
                /\ \E m \in Elements(s) : Triggers(m)

\* what flushHeld takes from the head of held: human-first, one when the agent is idle and
\* not about to wake; else all, when it is idle or, with a UI, can be steered
Flushable(running) ==
  IF HumanFirst
  THEN IF host = "idle" /\ ~wake /\ held # <<>> THEN <<Head(held)>> ELSE <<>>
  ELSE IF host = "idle" \/ (running /\ setting.ui) THEN held ELSE <<>>

\* stopHeldTimer only when nothing is held
StopsTimer(rest) == FALSE                                             \* mutant
KeepsTimer(rest) == heldTimer /\ rest # <<>>

Flush(running) ==
  LET s == Flushable(running)
      rest == SubSeq(held, Len(s) + 1, Len(held)) IN
  /\ Inject(s, IF host = "idle" THEN "trigger" ELSE "steer")
  /\ held' = rest /\ heldTimer' = KeepsTimer(rest)

\* route: a message waits behind those held, for a busy session without an agent run or
\* without anybody at the keyboard, and always for a human who goes first
Holds(m) ==
  held # <<>> \/ (host # "idle" /\ (~agentRunning \/ ~setting.ui \/ HumanFirst))

\* duplicate: a message of a sender is taken once
NeverDuplicate(m) == FALSE                                            \* mutant: nothing is remembered
Duplicate(m) == m \in seen

Places == {number[m] : m \in Messages}
NextPlace == 1 + Cardinality(Places \ {0})

\* fromPi and fromClaude, when the waiter does not take it: the message is noted and routed.
\* The broker may deliver a message again.
Arrives(m) ==
  /\ context /\ ~Duplicate(m)
  /\ seen' = seen \cup {m}
  /\ number' = [number EXCEPT ![m] = IF @ = 0 THEN NextPlace ELSE @]
  /\ owed' = IF m \in Asking THEN owed \cup {m} ELSE owed
  /\ IF Holds(m)
     THEN /\ held' = Append(held, m) /\ heldTimer' = TRUE
          /\ UNCHANGED <<turns, shown, wake>>
     ELSE /\ Inject(<<m>>, IF host = "idle" THEN "trigger" ELSE "steer")
          /\ UNCHANGED <<held, heldTimer>>
  /\ UNCHANGED <<hostVars, agentRunning, current, overdue, call, closed>>

\* control: the sender cancels or supersedes a message it has sent
Control(m) ==
  /\ m \in seen \ closed
  /\ DismissAsks({m}) /\ closed' = closed \cup {m}
  /\ held' = Drop(held, {m})
  /\ UNCHANGED <<hostVars, agentRunning, wake, heldTimer, seen, overdue, call, number, shown>>

\* the interval of heldTimer
HeldTick ==
  /\ heldTimer /\ context
  /\ Flush(agentRunning)
  /\ UNCHANGED <<hostVars, agentRunning, seen, owed, current, overdue, call, number, closed>>

-----------------------------------------------------------------------------
(* The host: the session and its agent.                                    *)

hostOnly == <<held, heldTimer, seen, trackerVars, overdue, call, number, shown, closed>>

\* teardownSession: what was held and owed is told to have expired
TellExpired ==
  /\ closed' = closed \cup owed \cup Elements(held)
  /\ owed' = {} /\ turns' = <<>> /\ current' = NoMessage
  /\ held' = <<>> /\ heldTimer' = FALSE /\ wake' = FALSE
  /\ UNCHANGED <<setting, host, inTurn, seen, overdue, call, number, shown>>

\* session_start and a turn of another session: also while an agent runs
StartSession ==
  /\ TellExpired /\ context' = TRUE /\ agentRunning' = FALSE
EndSession ==
  /\ context /\ TellExpired /\ context' = FALSE /\ UNCHANGED agentRunning

\* compaction, or a turn that is being prepared
Begins ==
  /\ context /\ host = "idle" /\ host' = "busy"
  /\ UNCHANGED <<setting, context, inTurn, agentRunning, wake, hostOnly>>
Settles ==
  /\ host = "busy" /\ host' = "idle"
  /\ UNCHANGED <<setting, context, inTurn, agentRunning, wake, hostOnly>>

AgentStart ==
  /\ context /\ host = "busy" /\ host' = "run"
  /\ agentRunning' = TRUE
  /\ wake' = FALSE
  /\ LET s == IF HumanFirst THEN <<>> ELSE IF setting.ui THEN held ELSE <<>>
         rest == SubSeq(held, Len(s) + 1, Len(held)) IN
     /\ turns' = turns \o s /\ shown' = shown \o s
     /\ held' = rest /\ heldTimer' = KeepsTimer(rest)
  /\ UNCHANGED <<setting, context, inTurn, seen, owed, current, overdue, call, number, closed>>

AgentEnd ==
  /\ host = "run" /\ ~inTurn /\ host' = "busy"
  /\ agentRunning' = FALSE
  /\ UNCHANGED <<setting, context, inTurn, wake, hostOnly>>

WakeLapses ==
  /\ wake /\ wake' = FALSE
  /\ UNCHANGED <<hostVars, agentRunning, hostOnly>>

\* beginTurn: the turn answers the first message that was put before the model
TurnStart ==
  /\ context /\ host = "run" /\ ~inTurn /\ inTurn' = TRUE
  /\ owed' = owed \ Expired
  /\ LET left == Drop(turns, Expired) IN
     /\ current' = IF left = <<>> THEN NoMessage ELSE Head(left)
     /\ turns' = IF left = <<>> THEN <<>> ELSE Tail(left)
  /\ UNCHANGED <<setting, context, host, agentRunning, wake, held, heldTimer, seen, overdue,
                 call, number, shown, closed>>

\* endTurn; then, when the human goes first, one held message as a steer.  finished: the
\* assistant stopped by itself and nothing is queued for it
TurnEnd(finished) ==
  /\ inTurn /\ inTurn' = FALSE /\ current' = NoMessage
  /\ IF HumanFirst /\ finished /\ held # <<>> /\ agentRunning
     THEN /\ Inject(<<Head(held)>>, "steer")
          /\ held' = Tail(held) /\ heldTimer' = KeepsTimer(Tail(held))
     ELSE UNCHANGED <<turns, shown, wake, held, heldTimer>>
  /\ UNCHANGED <<setting, context, host, agentRunning, seen, owed, overdue, call, number, closed>>

\* the clock
Lapses(m) ==
  /\ m \in seen \ overdue /\ overdue' = overdue \cup {m}
  /\ UNCHANGED <<hostVars, agentRunning, wake, held, heldTimer, seen, trackerVars, call, number,
                 shown, closed>>

-----------------------------------------------------------------------------
(* Replies and sends of the tool.                                          *)

callOnly == <<hostVars, agentRunning, wake, held, heldTimer, seen, overdue, number, shown>>

\* reply: to the message of the turn or the only ask, to the only ask of a peer, or to an id
ReplyCall(c) ==
  /\ call[c].state = "idle"
  /\ \E m \in BareTarget \cup (UNION {TargetFrom(p) : p \in Peers}) \cup Pending :
       call' = [call EXCEPT ![c] = [state |-> "replying", about |-> m]]
  /\ DismissAsks(Expired)
  /\ UNCHANGED <<callOnly, closed>>

\* send to p without a reply id: refused while the turn answers somebody else's ask; it is
\* the reply to the only ask of p, unless it is a handover
SendCall(c, p, handover) ==
  /\ call[c].state = "idle"
  /\ ~(current \in Asking \ Expired /\ Sender[current] # p)
  /\ LET m == IF handover \/ TargetFrom(p) = {} THEN NoMessage
              ELSE CHOOSE n \in Pending : TargetFrom(p) = {n} IN
     call' = [call EXCEPT ![c] = [state |-> "sending", about |-> m]]
  /\ DismissAsks(Expired)
  /\ UNCHANGED <<callOnly, closed>>

CallOver(c) == call' = [call EXCEPT ![c] = [state |-> "idle", about |-> NoMessage]]

\* the peer has it: the ask it is about is answered
Delivered(c) ==
  /\ call[c].state # "idle"
  /\ DismissAsks({call[c].about}) /\ closed' = closed \cup ({call[c].about} \ {NoMessage})
  /\ CallOver(c)
  /\ UNCHANGED callOnly

\* it was not delivered: an ask is given up only when its sender is gone
GivesUpAlways(c, gone) == call[c].state = "replying"                  \* mutant: or it is not
GivesUpOn(c, gone) == gone /\ call[c].state = "replying"

CallFails(c, gone) ==
  /\ call[c].state # "idle"
  /\ IF GivesUpOn(c, gone)
     THEN /\ DismissAsks({call[c].about})
          /\ closed' = closed \cup (IF gone THEN {call[c].about} ELSE {})
     ELSE UNCHANGED <<trackerVars, closed>>
  /\ CallOver(c)
  /\ UNCHANGED callOnly

-----------------------------------------------------------------------------
InboxNext ==
  \/ \E m \in Messages : Arrives(m) \/ Control(m) \/ Lapses(m)
  \/ HeldTick \/ WakeLapses
  \/ StartSession \/ EndSession
  \/ Begins \/ Settles \/ AgentStart \/ AgentEnd
  \/ TurnStart \/ \E finished \in BOOLEAN : TurnEnd(finished)
  \/ \E c \in Outgoing :
       \/ ReplyCall(c) \/ Delivered(c)
       \/ \E p \in Peers, handover \in BOOLEAN : SendCall(c, p, handover)
       \/ \E gone \in BOOLEAN : CallFails(c, gone)

InboxSpec == InboxInit /\ [][InboxNext]_inboxVars

\* the interval fires, also in the short moments in which the agent is idle; turns and runs end,
\* the session comes to rest again and again, reservations lapse
InboxFairness ==
  /\ SF_inboxVars(HeldTick)
  /\ WF_inboxVars(WakeLapses)
  /\ SF_inboxVars(Settles)
  /\ SF_inboxVars(AgentEnd)
  /\ WF_inboxVars(\E finished \in BOOLEAN : TurnEnd(finished))

FairInbox == InboxSpec /\ InboxFairness

-----------------------------------------------------------------------------
InboxTypeOK ==
  /\ setting \in Settings /\ context \in BOOLEAN /\ inTurn \in BOOLEAN
  /\ host \in {"idle", "busy", "run"} /\ agentRunning \in BOOLEAN /\ wake \in BOOLEAN
  /\ held \in Seq(Messages) /\ heldTimer \in BOOLEAN /\ seen \subseteq Messages
  /\ owed \subseteq Asking /\ turns \in Seq(Messages)
  /\ current \in Messages \cup {NoMessage} /\ overdue \subseteq Messages
  /\ call \in [Outgoing -> [state : {"idle", "replying", "sending"},
                        about : Messages \cup {NoMessage}]]
  /\ number \in [Messages -> Nat]
  /\ shown \in Seq(Messages) /\ closed \subseteq Messages

\* Every message that came was put before the model or is held, unless it was withdrawn,
\* answered, or told to have expired when its session ended.
NothingIsLost == seen \subseteq Elements(shown) \cup Elements(held) \cup closed

\* Whatever was held, steered or delivered at once, messages come before the model in the
\* order they arrived in, none twice, however often the broker delivers it, and none is left
\* out.
OnceAndInOrder ==
  /\ LET all == shown \o held IN
     \A i, j \in DOMAIN all : i < j => number[all[i]] < number[all[j]]
  /\ NothingIsLost

\* An ask that has come is owed an answer until one was delivered, its sender withdrew it or
\* is gone, the session ended, or the time-out passed: a failed reply does not lose it.
AsksStayOwed ==
  \A m \in Asking : number[m] > 0 /\ m \notin closed \cup overdue => m \in owed

\* What the order rests on: places are given out upwards, to what has come, and what is held
\* has come after all that was shown.
Ordered(s) == \A i, j \in DOMAIN s : i < j => number[s[i]] < number[s[j]]
PlacesGrow == IsFiniteSet(Places) /\ \A m \in Messages : number[m] < NextPlace
OnlyTheSeen ==
  /\ \A m \in Messages : number[m] > 0 <=> m \in seen
  /\ Elements(shown) \cup Elements(held) \subseteq seen
HeldCameLater ==
  /\ Ordered(shown) /\ Ordered(held)
  /\ \A i \in DOMAIN shown, j \in DOMAIN held : number[shown[i]] < number[held[j]]
RepliesAreAbout ==
  \A c \in Outgoing : call[c].state = "replying" => call[c].about \in Messages
InboxInv ==
  InboxTypeOK /\ RepliesAreAbout /\ PlacesGrow /\ OnlyTheSeen /\ HeldCameLater /\ AsksStayOwed

\* A held message comes before the model, or is withdrawn or expires with the session.
HeldIsDelivered == \A m \in Messages : m \in Elements(held) ~> m \notin Elements(held)
=============================================================================
