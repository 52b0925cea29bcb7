------------------------- MODULE PermissionForwarding -------------------------
(***************************************************************************)
(* Permission asks forwarded from subagents to the session that has the    *)
(* human (pi-permissions/src/engine/authority): ParentAuthorizer writes a  *)
(* request file and polls for a response file; ForwardedRequestServer      *)
(* drains the inbox of the serving session; ForwardingManager polls,       *)
(* announces and withdraws; either side removes the directories when they  *)
(* look empty.                                                             *)
(*                                                                         *)
(* Requesters are other processes, so every file-system call of either     *)
(* side is a step of its own; an atomic write is one step, its temporary   *)
(* file is invisible to every reader.  The serving session is one event    *)
(* loop: its timers, dialogs and lifecycle events wait until the drain has *)
(* come to an await.                                                       *)
(***************************************************************************)
EXTENDS Naturals, FiniteSets, Maps

CONSTANTS
  Asks,           \* the asks of all subagents, one requester process each
  Kinds,          \* the actions asked about, up to what a session grant covers
  Kind,           \* [Asks -> Kinds]
  Policy,         \* [Kinds -> {"allow", "deny", "ask"}]: the serving session's rules
  Nobody,         \* no ask
  Grace,          \* unserved polls before a requester gives up
  Events          \* bound: what the world may do, see the actions that name a member

ASSUME ForwardingAssumption ==
  /\ Kind \in [Asks -> Kinds]
  /\ Policy \in [Kinds -> {"allow", "deny", "ask"}]
  /\ Nobody \notin Asks
  /\ Grace \in Nat \ {0}

VARIABLES
  \* the forwarding directory of the serving session
  dirs,           \* which of requests/ and responses/ exist
  requests,       \* asks with a request file
  responses,      \* ask -> the state in its response file
  mark,           \* how the serving announcement reads: alive, absent or decayed
  \* the requesters
  pc, unserved,   \* where waitForForwardedApproval is; consecutive unserved polls
  reply,          \* what it is about to return
  outcome,        \* what the ask resolved to in its session (PendingAuthority.finish)
  childGrants,    \* asks after which the requester recorded a session grant
  \* the serving session
  process,        \* its process: up or down
  serving,        \* activated, its poll timer running
  processing,     \* ForwardingManager.processing
  drain,          \* [pc, todo, ask, ruling]: processInbox
  servingGrants,  \* kinds in its SessionRules
  \* history
  verdicts        \* per ask, the rulings made about it

files == <<dirs, requests, responses>>
requesters == <<pc, unserved, reply, outcome, childGrants>>
server == <<mark, process, serving, processing, drain, servingGrants, verdicts>>
vars == <<dirs, requests, responses, mark, pc, unserved, reply, outcome, childGrants,
          process, serving, processing, drain, servingGrants, verdicts>>

-----------------------------------------------------------------------------
(* Requester: ParentAuthorizer.waitForForwardedApproval.                   *)

\* a step of a requester that is at l: it goes to m
Step(a, l, m) == pc[a] = l /\ pc' = [pc EXCEPT ![a] = m]

\* ensurePermissionForwardingLocation: two recursive mkdirs
MakeRequests(a) ==
  /\ Step(a, "new", "mkresponses")
  /\ dirs' = dirs \cup {"requests"}
  /\ UNCHANGED <<requests, responses, unserved, reply, outcome, childGrants, server>>

MakeResponses(a) ==
  /\ Step(a, "mkresponses", "write")
  /\ dirs' = dirs \cup {"responses"}
  /\ UNCHANGED <<requests, responses, unserved, reply, outcome, childGrants, server>>

WriteRequest(a) ==
  /\ "requests" \in dirs
  /\ Step(a, "write", "poll")
  /\ requests' = requests \cup {a}
  /\ UNCHANGED <<dirs, responses, unserved, reply, outcome, childGrants, server>>

\* somebody's cleanup removed the directory in between: abandoned
WriteRequestFails(a) ==
  /\ "requests" \notin dirs
  /\ Step(a, "write", "rmrequests")
  /\ reply' = [reply EXCEPT ![a] = "unavailable"]
  /\ UNCHANGED <<files, unserved, outcome, childGrants, server>>

\* pollForForwardedResponse: the response is looked for first
ReadResponse(a) ==
  /\ a \in DOMAIN responses
  /\ Step(a, "poll", "dropresponse")
  /\ reply' = [reply EXCEPT ![a] = responses[a]]
  /\ UNCHANGED <<files, unserved, outcome, childGrants, server>>

\* checkServingLiveness: a poll that finds the target served starts the window again
Unserved(a) == IF mark = "alive" THEN 0 ELSE unserved[a] + 1

Poll(a) ==
  /\ a \notin DOMAIN responses
  /\ Unserved(a) < Grace
  /\ Step(a, "poll", "poll")
  /\ unserved' = [unserved EXCEPT ![a] = Unserved(a)]
  /\ UNCHANGED <<files, reply, outcome, childGrants, server>>

AbandonUnserved(a) ==
  /\ a \notin DOMAIN responses
  /\ Unserved(a) >= Grace
  /\ Step(a, "poll", "droprequest")
  /\ unserved' = [unserved EXCEPT ![a] = Grace]
  /\ reply' = [reply EXCEPT ![a] = "unavailable"]
  /\ UNCHANGED <<files, outcome, childGrants, server>>

\* mutant: the deadline counts only while nobody serves
TimeOutUnserved(a) ==
  /\ mark # "alive"
  /\ Step(a, "poll", "droprequest")
  /\ reply' = [reply EXCEPT ![a] = "unavailable"]
  /\ UNCHANGED <<files, unserved, outcome, childGrants, server>>

\* the deadline ends the loop without another look for a response
TimeOut(a) ==
  /\ Step(a, "poll", "droprequest")
  /\ reply' = [reply EXCEPT ![a] = "unavailable"]
  /\ UNCHANGED <<files, unserved, outcome, childGrants, server>>

\* discardRequest, with the response when one was read
DropResponse(a) ==
  /\ Step(a, "dropresponse", "droprequest")
  /\ responses' = Without(responses, {a})
  /\ UNCHANGED <<dirs, requests, unserved, reply, outcome, childGrants, server>>

Kept(a) == IF reply[a] = "unavailable" THEN requests ELSE requests \ {a}  \* mutant: left behind
WithoutRequest(a) == requests \ {a}

DropRequest(a) ==
  /\ Step(a, "droprequest", "rmrequests")
  /\ requests' = WithoutRequest(a)
  /\ UNCHANGED <<dirs, responses, unserved, reply, outcome, childGrants, server>>

\* mutant: requests/ alone is removed
RequestsOnly == FALSE
\* cleanupPermissionForwardingLocationIfEmpty: responses/ only when requests/ is gone
RequestsGone == requests = {}
ResponsesGone == DOMAIN responses = {}

RemoveRequests(a) ==
  /\ IF RequestsGone
     THEN Step(a, "rmrequests", "rmresponses") /\ dirs' = dirs \ {"requests"}
     ELSE Step(a, "rmrequests", "return") /\ UNCHANGED dirs
  /\ UNCHANGED <<requests, responses, unserved, reply, outcome, childGrants, server>>

RemoveResponses(a) ==
  /\ Step(a, "rmresponses", "return")
  /\ dirs' = IF ResponsesGone THEN dirs \ {"responses"} ELSE dirs
  /\ UNCHANGED <<requests, responses, unserved, reply, outcome, childGrants, server>>

\* PendingAuthority.finish: an ask that was cancelled keeps its cancellation
FirstAnswer(a) == IF outcome[a] = "open" THEN reply[a] ELSE outcome[a]

\* the decision is returned; runDescriptor records the grant of an allow for the session
Return(a) ==
  /\ Step(a, "return", "done")
  /\ outcome' = [outcome EXCEPT ![a] = FirstAnswer(a)]
  /\ childGrants' = IF FirstAnswer(a) = "approved_for_session"
                    THEN childGrants \cup {a} ELSE childGrants
  /\ UNCHANGED <<files, unserved, reply, server>>

\* the ask's session cancels it; the poll loop knows nothing of it and goes on
Cancel(a) ==
  /\ "cancel" \in Events
  /\ outcome[a] = "open" /\ pc[a] # "new"
  /\ outcome' = [outcome EXCEPT ![a] = "unavailable"]
  /\ UNCHANGED <<files, pc, unserved, reply, childGrants, server>>

\* the requester's process is killed
Kill(a) ==
  /\ "kill" \in Events
  /\ pc[a] \notin {"new", "done", "killed"}
  /\ pc' = [pc EXCEPT ![a] = "killed"]
  /\ outcome' = [outcome EXCEPT ![a] = IF @ = "open" THEN "killed" ELSE @]
  /\ UNCHANGED <<files, unserved, reply, childGrants, server>>

-----------------------------------------------------------------------------
(* Serving session: ForwardingManager and ForwardedRequestServer.          *)

NoDrain == [pc |-> "idle", todo |-> {}, ask |-> Nobody, ruling |-> "none"]

\* a task of the event loop starts: no promise continuation of the drain is due
Task == process = "up" /\ drain.pc \in {"idle", "await"}

\* PermissionSession.activate on a session start: announce, and start the poll timer
StartServing ==
  /\ Task /\ ~serving
  /\ serving' = TRUE
  /\ mark' = "alive"
  /\ UNCHANGED <<files, requesters, process, processing, drain, servingGrants, verdicts>>

\* one poll tick: refresh the announcement, then list the inbox unless a drain is running
PollTick ==
  /\ Task /\ serving
  /\ mark' = "alive"
  /\ IF ~processing /\ "requests" \in dirs /\ requests # {}
     THEN /\ processing' = TRUE
          /\ drain' = [pc |-> "ensure", todo |-> requests, ask |-> Nobody, ruling |-> "none"]
     ELSE UNCHANGED <<processing, drain>>
  /\ UNCHANGED <<files, requesters, process, serving, servingGrants, verdicts>>

\* processInbox: recreate responses/ defensively
EnsureResponses ==
  /\ drain.pc = "ensure"
  /\ dirs' = dirs \cup {"responses"}
  /\ drain' = [drain EXCEPT !.pc = "next"]
  /\ UNCHANGED <<requests, responses, requesters, mark, process, serving, processing,
                 servingGrants, verdicts>>

\* recorded authority: rules and session grants; TRUE settles without a human
Settles(k) == k \in servingGrants \/ Policy[k] # "ask"
RuleOn(k) == IF k \in servingGrants \/ Policy[k] = "allow" THEN "approved" ELSE "denied"

Ruled(a, v) ==
  /\ drain' = [drain EXCEPT !.pc = "respond", !.todo = @ \ {a}, !.ask = a, !.ruling = v]
  /\ verdicts' = [verdicts EXCEPT ![a] = @ \cup {v}]

\* the next listed file: unreadable because its requester withdrew it, settled by a rule,
\* escalated to the human, or refused because no session is active any more
ServeNext(a) ==
  /\ drain.pc = "next" /\ a \in drain.todo
  /\ \/ /\ a \notin requests
        /\ drain' = [drain EXCEPT !.todo = @ \ {a}]
        /\ UNCHANGED verdicts
     \/ /\ a \in requests /\ Settles(Kind[a])
        /\ Ruled(a, RuleOn(Kind[a]))
     \/ /\ a \in requests /\ ~Settles(Kind[a]) /\ serving
        /\ drain' = [drain EXCEPT !.pc = "await", !.todo = @ \ {a}, !.ask = a]
        /\ UNCHANGED verdicts
     \/ /\ a \in requests /\ ~Settles(Kind[a]) /\ ~serving
        /\ Ruled(a, "gate_error")
  /\ UNCHANGED <<files, requesters, mark, process, serving, processing, servingGrants>>

HumanRulings == {"approved", "approved_for_session", "approved_for_serving_session", "denied"}

\* the human, or a link of the chain, answers; applyGrantScope records a whole-session grant
Decide(v) ==
  /\ drain.pc = "await"
  /\ Ruled(drain.ask, v)
  /\ servingGrants' = IF v = "approved_for_serving_session"
                      THEN servingGrants \cup {Kind[drain.ask]} ELSE servingGrants
  /\ UNCHANGED <<files, requesters, mark, process, serving, processing>>

\* the response file's state: the whole-session scope is translated, and what marks a
\* ruling nobody made is not on the wire
Untranslated(v) == IF v \in {"unavailable", "gate_error"} THEN "denied" ELSE v  \* mutant: scope kept
Wire(v) ==
  CASE v = "approved_for_serving_session" -> "approved"
    [] v \in {"unavailable", "gate_error"} -> "denied"
    [] OTHER -> v

\* recordForwardedDecision
Respond ==
  /\ drain.pc = "respond" /\ "responses" \in dirs
  /\ responses' = Put(responses, drain.ask, Wire(drain.ruling))
  /\ drain' = [drain EXCEPT !.pc = "drop"]
  /\ UNCHANGED <<dirs, requests, requesters, mark, process, serving, processing,
                 servingGrants, verdicts>>

\* a cleanup removed responses/: the request is left for the next drain
RespondFails ==
  /\ drain.pc = "respond" /\ "responses" \notin dirs
  /\ drain' = [drain EXCEPT !.pc = "next"]
  /\ UNCHANGED <<files, requesters, mark, process, serving, processing, servingGrants, verdicts>>

DropServed ==
  /\ drain.pc = "drop"
  /\ requests' = requests \ {drain.ask}
  /\ drain' = [drain EXCEPT !.pc = "next"]
  /\ UNCHANGED <<dirs, responses, requesters, mark, process, serving, processing,
                 servingGrants, verdicts>>

StillBusy == processing                                \* mutant: no finally
Idle == FALSE

\* the drain's own cleanup, and the finally that lets the next tick drain again
CleanRequests ==
  /\ drain.pc = "next" /\ drain.todo = {}
  /\ IF RequestsGone
     THEN /\ dirs' = dirs \ {"requests"}
          /\ drain' = [drain EXCEPT !.pc = "clean"] /\ UNCHANGED processing
     ELSE UNCHANGED dirs /\ drain' = NoDrain /\ processing' = Idle
  /\ UNCHANGED <<requests, responses, requesters, mark, process, serving, servingGrants, verdicts>>

CleanResponses ==
  /\ drain.pc = "clean"
  /\ dirs' = IF ResponsesGone THEN dirs \ {"responses"} ELSE dirs
  /\ drain' = NoDrain /\ processing' = Idle
  /\ UNCHANGED <<requests, responses, requesters, mark, process, serving, servingGrants, verdicts>>

\* what shutdown does to the ask the drain waits for: releaseAll and pending.cancel
Waiting == UNCHANGED <<drain, verdicts>>               \* mutant: the dialog stays open
Released == IF drain.pc = "await" THEN Ruled(drain.ask, "unavailable") ELSE UNCHANGED <<drain, verdicts>>

\* handleSessionShutdown: answer what is open, clear the grants, stop forwarding
EndServing ==
  /\ "shutdown" \in Events
  /\ Task /\ serving
  /\ Released
  /\ servingGrants' = {}
  /\ serving' = FALSE /\ processing' = FALSE
  /\ mark' = "absent"
  /\ UNCHANGED <<files, requesters, process>>

\* the serving process is killed; its announcement stays and names a dead pid
KillServer ==
  /\ "crash" \in Events
  /\ process = "up"
  /\ process' = "down"
  /\ mark' = IF mark = "absent" THEN "absent" ELSE "decayed"
  /\ serving' = FALSE /\ processing' = FALSE /\ drain' = NoDrain /\ servingGrants' = {}
  /\ UNCHANGED <<files, requesters, verdicts>>

Restart ==
  /\ process = "down"
  /\ process' = "up"
  /\ UNCHANGED <<files, requesters, mark, serving, processing, drain, servingGrants, verdicts>>

\* the announcement is not refreshed in time, though the process is alive
Stall ==
  /\ "stall" \in Events
  /\ mark = "alive"
  /\ mark' = "decayed"
  /\ UNCHANGED <<files, requesters, process, serving, processing, drain, servingGrants, verdicts>>

-----------------------------------------------------------------------------
(* The specification.                                                      *)

Init ==
  /\ dirs = {} /\ requests = {} /\ responses = EmptyMap
  /\ mark = "absent"
  /\ pc = [a \in Asks |-> "new"]
  /\ unserved = [a \in Asks |-> 0]
  /\ reply = [a \in Asks |-> "none"]
  /\ outcome = [a \in Asks |-> "open"]
  /\ childGrants = {}
  /\ process = "up" /\ serving = FALSE /\ processing = FALSE
  /\ drain = NoDrain
  /\ servingGrants = {}
  /\ verdicts = [a \in Asks |-> {}]

\* what a requester does once it has begun, short of its deadline
Advance(a) ==
  \/ MakeResponses(a) \/ WriteRequest(a) \/ WriteRequestFails(a)
  \/ ReadResponse(a) \/ AbandonUnserved(a)
  \/ DropResponse(a) \/ DropRequest(a) \/ RemoveRequests(a) \/ RemoveResponses(a) \/ Return(a)

\* what the drain does between two awaits
Continue ==
  \/ EnsureResponses \/ (\E a \in Asks : ServeNext(a))
  \/ Respond \/ RespondFails \/ DropServed \/ CleanRequests \/ CleanResponses

Next ==
  \/ \E a \in Asks : MakeRequests(a) \/ Advance(a) \/ Poll(a) \/ TimeOut(a) \/ Cancel(a) \/ Kill(a)
  \/ StartServing \/ PollTick \/ Continue \/ (\E v \in HumanRulings : Decide(v))
  \/ EndServing \/ KillServer \/ Restart \/ Stall

Spec == Init /\ [][Next]_vars

\* processes run and timers fire; nobody has to answer a dialog
FairSpec ==
  Spec /\ WF_vars(PollTick) /\ WF_vars(Continue)
       /\ \A a \in Asks : WF_vars(Advance(a)) /\ WF_vars(TimeOut(a))

-----------------------------------------------------------------------------
(* Types.                                                                  *)

Locations == {"new", "mkresponses", "write", "poll", "dropresponse", "droprequest",
              "rmrequests", "rmresponses", "return", "done", "killed"}
States == {"approved", "approved_for_session", "denied"}
Rulings == HumanRulings \cup {"unavailable", "gate_error"}
DrainType == [pc : {"idle", "ensure", "next", "await", "respond", "drop", "clean"},
              todo : SUBSET Asks, ask : Asks \cup {Nobody}, ruling : Rulings \cup {"none"}]

FileType == /\ dirs \subseteq {"requests", "responses"}
            /\ requests \subseteq Asks
            /\ MapOf(responses, Asks, States)
RequesterType == /\ pc \in [Asks -> Locations]
                 /\ unserved \in [Asks -> 0..Grace]
                 /\ reply \in [Asks -> States \cup {"none", "unavailable"}]
                 /\ outcome \in [Asks -> States \cup {"open", "unavailable", "killed"}]
                 /\ childGrants \subseteq Asks
ServerType == /\ mark \in {"alive", "absent", "decayed"}
              /\ process \in {"up", "down"}
              /\ serving \in BOOLEAN /\ processing \in BOOLEAN
              /\ drain \in DrainType
              /\ servingGrants \subseteq Kinds
              /\ verdicts \in [Asks -> SUBSET Rulings]

\* The state has its type: only translated states are on the wire and in a session.
TypeOK == FileType /\ RequesterType /\ ServerType

-----------------------------------------------------------------------------
(* Properties.                                                             *)

\* What forwarding promises: every ask settles once, as somebody ruled on this very ask
\* or as unanswered, and a grant stays on the side it was chosen for.
Abstract == INSTANCE ForwardedAsk
ImplementsForwardedAsk == Abstract!Spec

\* The whole-session grants of a session end with it: no late answer of a dialog or of a
\* drain that survives the shutdown adds one (releaseAll before sessionRules.clear).
GrantsEndWithTheSession == ~serving => servingGrants = {}

\* A file can only lie where its directory is, and an abandoned request is never served
\* anew: once the requester has withdrawn the file, no drain puts the ask to anybody,
\* although its list may still name it (discardRequest).
Withdrawn(a) == pc[a] \in {"rmrequests", "rmresponses", "return", "done"}
Serves(a) == drain.ask # a /\ drain'.ask = a
WithdrawnAsksAreNotServed == [][\A a \in Asks : Withdrawn(a) => ~Serves(a)]_vars

\* A settled ask stays as it was settled: an answer that arrives after a cancellation is
\* dropped, and grants nothing.
SettledStaysSettled ==
  [][\A a \in Asks : outcome[a] # "open" =>
       outcome'[a] = outcome[a] /\ (a \in childGrants' => a \in childGrants)]_vars

\* The last one out cleans up: when every requester has returned and nothing is pending,
\* the directories are gone, in whatever order the cleanups looked and removed.
LastOneOutCleansUp ==
  /\ \A a \in Asks : pc[a] \in {"new", "done"}
  /\ drain.pc = "idle" /\ process = "up"
  /\ requests = {} /\ responses = EmptyMap
  => dirs = {}

\* A forwarded ask ends, whether or not anybody serves or answers: it is answered,
\* abandoned at the grace or at the deadline, or its process is killed.
EveryAskEnds == \A a \in Asks : (pc[a] # "new") ~> (pc[a] \in {"done", "killed"})

\* a human who answers the dialogs
Attended == WF_vars(\E v \in HumanRulings : Decide(v))

\* A session that goes on serving, with a human who answers, empties its inbox, also of
\* what killed requesters left behind.
InboxDrains == (<>[]serving) /\ Attended =>
  \A a \in Asks : (a \in requests) ~> (a \notin requests)

-----------------------------------------------------------------------------
(* The inductive invariant behind the theorems of PermissionForwarding_proofs. *)

\* what may be on the wire for an ask
Answers(a) == {Wire(v) : v \in verdicts[a]}

\* responses and replies come from rulings on the very ask
HonestFiles == \A a \in DOMAIN responses : responses[a] \in Answers(a)
HonestReplies ==
  \A a \in Asks : /\ reply[a] \in Answers(a) \cup {"none", "unavailable"}
                  /\ pc[a] \in {"dropresponse", "droprequest", "rmrequests", "rmresponses",
                               "return", "done"} => reply[a] # "none"
HonestDrain ==
  /\ drain.pc \in {"await", "respond", "drop"} => drain.ask \in Asks
  /\ drain.pc \in {"respond", "drop"} => drain.ruling \in verdicts[drain.ask]
  /\ drain.pc = "await" => serving
\* a request file exists only between its writing and its withdrawal
RequestsAreOpen ==
  \A a \in Asks : pc[a] \in {"new", "mkresponses", "write"} \/ Withdrawn(a) => a \notin requests
\* before its requester returns, only a cancellation can have settled an ask
OnlyCancelled ==
  \A a \in Asks : pc[a] \notin {"done", "killed"} => outcome[a] \in {"open", "unavailable"}

ForwardInv == /\ TypeOK /\ HonestFiles /\ HonestReplies /\ HonestDrain
              /\ RequestsAreOpen /\ OnlyCancelled /\ GrantsEndWithTheSession

\* Why the last one out cleans up, as long as the serving process is not killed: while a
\* directory exists, somebody will still look at it, or has been killed on the way.
UsesRequests(a) == pc[a] \in {"mkresponses", "write", "poll", "dropresponse", "droprequest",
                               "rmrequests", "killed"}
UsesResponses(a) == pc[a] \in {"write", "poll", "dropresponse", "droprequest", "rmrequests",
                                "rmresponses", "killed"}
CleanupIsDue ==
  /\ "requests" \in dirs => drain.pc \notin {"idle", "clean"} \/ \E a \in Asks : UsesRequests(a)
  /\ "responses" \in dirs => \/ drain.pc # "idle" \/ DOMAIN responses # {}
                             \/ \E a \in Asks : UsesResponses(a)
=============================================================================
