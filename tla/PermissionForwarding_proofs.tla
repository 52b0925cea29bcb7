--------------------- MODULE PermissionForwarding_proofs ---------------------
(***************************************************************************)
(* Theorems about PermissionForwarding for any number of requesters, any   *)
(* rules of the serving session, any grace and any set of events: types,   *)
(* what a grant and a settled ask survive, the implementation of           *)
(* ForwardedAsk, and the removal of the directories.                       *)
(***************************************************************************)
EXTENDS PermissionForwarding, MapLemmas, TLAPS

-----------------------------------------------------------------------------
(* The inductive invariant.                                                *)

LEMMA InitInv == Init => ForwardInv
<1> SUFFICES ASSUME Init PROVE ForwardInv
  OBVIOUS
<1>1. TypeOK
  <2>1. MapOf(responses, Asks, States)
    BY EmptyIsMap DEF Init
  <2>2. drain \in DrainType
    BY DEF Init, NoDrain, DrainType
  <2>3. FileType
    BY <2>1 DEF Init, FileType
  <2>4. RequesterType
    BY ForwardingAssumption DEF Init, RequesterType, Locations
  <2>5. ServerType
    BY <2>2 DEF Init, ServerType
  <2>6. QED
    BY <2>3, <2>4, <2>5 DEF TypeOK
<1>2. HonestFiles
  BY EmptyIsMap DEF Init, HonestFiles
<1>3. HonestReplies /\ HonestDrain /\ RequestsAreOpen /\ OnlyCancelled
      /\ GrantsEndWithTheSession
  BY DEF Init, HonestReplies, HonestDrain, NoDrain, RequestsAreOpen, OnlyCancelled, GrantsEndWithTheSession
<1>4. QED
  BY <1>1, <1>2, <1>3 DEF ForwardInv

\* What is on the wire is a state of the response format.
LEMMA WireStates == \A v \in Rulings : Wire(v) \in States
BY DEF Rulings, HumanRulings, Wire, States

\* A step of a requester preserves the invariant.
LEMMA RequesterSteps ==
  ASSUME ForwardInv, NEW a \in Asks,
         \/ MakeRequests(a) \/ Advance(a) \/ Poll(a) \/ TimeOut(a) \/ Cancel(a) \/ Kill(a)
  PROVE  ForwardInv'
<1> USE ForwardingAssumption
    DEF ForwardInv, TypeOK, FileType, RequesterType, ServerType, Step, server, files, Locations,
        HonestFiles, HonestReplies, Answers, HonestDrain, GrantsEndWithTheSession,
        RequestsAreOpen, OnlyCancelled, Withdrawn
<1>1. CASE MakeRequests(a)
  BY <1>1 DEF MakeRequests
<1>2. CASE MakeResponses(a)
  BY <1>2 DEF MakeResponses
<1>3. CASE WriteRequest(a)
  BY <1>3 DEF WriteRequest
<1>4. CASE WriteRequestFails(a)
  BY <1>4 DEF WriteRequestFails
<1>5. CASE ReadResponse(a)
  <2>1. responses[a] \in Answers(a) /\ responses[a] \in States
    BY <1>5 DEF ReadResponse, MapOf
  <2>2. TypeOK'
    BY <1>5, <2>1 DEF ReadResponse
  <2>3. \A b \in Asks : Answers(b)' = Answers(b)
    BY <1>5 DEF ReadResponse
  <2>4. HonestReplies'
    <3> SUFFICES ASSUME NEW b \in Asks
                 PROVE  /\ reply'[b] \in Answers(b) \cup {"none", "unavailable"}
                        /\ pc'[b] \in {"dropresponse", "droprequest", "rmrequests", "rmresponses",
                                       "return", "done"} => reply'[b] # "none"
      BY <2>3 DEF HonestReplies
    <3>1. CASE b = a
      BY <1>5, <2>1, <3>1 DEF ReadResponse, States
    <3>2. CASE b # a
      BY <1>5, <3>2 DEF ReadResponse
    <3>3. QED
      BY <3>1, <3>2
  <2>5. HonestFiles' /\ HonestDrain' /\ RequestsAreOpen' /\ OnlyCancelled' /\ GrantsEndWithTheSession'
    BY <1>5 DEF ReadResponse
  <2>6. QED
    BY <2>2, <2>4, <2>5
<1>6. CASE AbandonUnserved(a)
  BY <1>6 DEF AbandonUnserved
<1>7. CASE Poll(a)
  BY <1>7 DEF Poll, Unserved
<1>8. CASE TimeOut(a)
  BY <1>8 DEF TimeOut
<1>9. CASE DropResponse(a)
  BY <1>9 DEF DropResponse, Without, MapOf
<1>10. CASE DropRequest(a)
  BY <1>10 DEF DropRequest, WithoutRequest
<1>11. CASE RemoveRequests(a)
  <2>1. /\ \E l \in {"rmresponses", "return"} : pc' = [pc EXCEPT ![a] = l]
        /\ pc[a] = "rmrequests" /\ dirs' \subseteq {"requests", "responses"}
    BY <1>11 DEF RemoveRequests
  <2>2. UNCHANGED <<requests, responses, unserved, reply, outcome, childGrants, server>>
    BY <1>11 DEF RemoveRequests
  <2>3. QED
    BY <2>1, <2>2
<1>12. CASE RemoveResponses(a)
  BY <1>12 DEF RemoveResponses
<1>13. CASE Return(a)
  BY <1>13 DEF Return, FirstAnswer
<1>14. CASE Cancel(a)
  BY <1>14 DEF Cancel
<1>15. CASE Kill(a)
  BY <1>15 DEF Kill
<1>16. QED
  BY <1>1, <1>2, <1>3, <1>4, <1>5, <1>6, <1>7, <1>8, <1>9, <1>10, <1>11, <1>12, <1>13, <1>14, <1>15 DEF Advance

\* A ruling on an ask keeps everything that was ruled before, and the drain honest.
LEMMA RulingAdded ==
  ASSUME ForwardInv, NEW a \in Asks, NEW v \in Rulings, Ruled(a, v),
         UNCHANGED <<files, requesters>>
  PROVE  /\ drain' \in DrainType /\ verdicts' \in [Asks -> SUBSET Rulings]
         /\ HonestFiles' /\ HonestReplies' /\ HonestDrain'
         /\ RequestsAreOpen' /\ OnlyCancelled'
<1> USE DEF ForwardInv, TypeOK, FileType, RequesterType, ServerType, files, requesters, DrainType, Ruled
<1>1. drain' \in DrainType
  OBVIOUS
<1>2. verdicts' \in [Asks -> SUBSET Rulings] /\ \A b \in Asks : verdicts[b] \subseteq verdicts'[b]
  OBVIOUS
<1>3. \A b \in Asks : Answers(b) \subseteq Answers(b)'
  BY <1>2 DEF Answers
<1>4. HonestFiles' /\ HonestReplies'
  BY <1>3 DEF HonestFiles, HonestReplies, MapOf
<1>5. HonestDrain'
  BY <1>2 DEF HonestDrain
<1>6. RequestsAreOpen' /\ OnlyCancelled'
  BY DEF RequestsAreOpen, OnlyCancelled, Withdrawn
<1>7. QED
  BY <1>1, <1>2, <1>4, <1>5, <1>6

\* A step of the serving session, or of the world around it, preserves the invariant.
LEMMA ServerSteps ==
  ASSUME ForwardInv,
         \/ StartServing \/ PollTick \/ Continue \/ (\E v \in HumanRulings : Decide(v))
         \/ EndServing \/ KillServer \/ Restart \/ Stall
  PROVE  ForwardInv'
<1> USE ForwardingAssumption
    DEF ForwardInv, TypeOK, FileType, RequesterType, ServerType, files, requesters,
        HonestFiles, HonestReplies, Answers, HonestDrain, GrantsEndWithTheSession,
        RequestsAreOpen, OnlyCancelled, Withdrawn, DrainType
<1>1. CASE StartServing
  BY <1>1 DEF StartServing
<1>2. CASE PollTick
  <2>1. drain' \in DrainType /\ HonestDrain'
    BY <1>2 DEF PollTick
  <2>2. TypeOK' /\ HonestFiles' /\ HonestReplies' /\ RequestsAreOpen' /\ OnlyCancelled' /\ GrantsEndWithTheSession'
    BY <1>2, <2>1 DEF PollTick
  <2>3. QED
    BY <2>1, <2>2
<1>3. CASE EnsureResponses
  BY <1>3 DEF EnsureResponses
<1>4. CASE \E a \in Asks : ServeNext(a)
  <2> PICK a \in Asks : ServeNext(a)
    BY <1>4
  <2>1. a \in Asks /\ UNCHANGED <<files, requesters, mark, process, serving, processing, servingGrants>>
    BY DEF ServeNext
  <2>2. CASE /\ drain.pc = "next" /\ UNCHANGED verdicts
             /\ drain' = [drain EXCEPT !.todo = @ \ {a}]
    BY <2>1, <2>2
  <2>3. CASE /\ drain.pc = "next" /\ UNCHANGED verdicts /\ serving
             /\ drain' = [drain EXCEPT !.pc = "await", !.todo = @ \ {a}, !.ask = a]
    BY <2>1, <2>3
  <2>4. CASE \E v \in Rulings : Ruled(a, v)
    BY <2>1, <2>4, RulingAdded
  <2>5. RuleOn(Kind[a]) \in Rulings /\ "gate_error" \in Rulings
    BY DEF RuleOn, Rulings, HumanRulings
  <2>6. QED
    BY <2>2, <2>3, <2>4, <2>5 DEF ServeNext
<1>5. CASE Respond
  BY <1>5, WireStates DEF Respond, Put, MapOf
<1>6. CASE RespondFails
  BY <1>6 DEF RespondFails
<1>7. CASE DropServed
  BY <1>7 DEF DropServed
<1>8. CASE CleanRequests
  <2>1. drain' \in DrainType /\ HonestDrain'
    BY <1>8 DEF CleanRequests, NoDrain, Idle
  <2>2. TypeOK' /\ HonestFiles' /\ HonestReplies' /\ RequestsAreOpen' /\ OnlyCancelled' /\ GrantsEndWithTheSession'
    BY <1>8, <2>1 DEF CleanRequests, Idle
  <2>3. QED
    BY <2>1, <2>2
<1>9. CASE CleanResponses
  BY <1>9 DEF CleanResponses, NoDrain, Idle
<1>10. CASE \E v \in HumanRulings : Decide(v)
  <2> PICK v \in HumanRulings : Decide(v)
    BY <1>10
  <2>1. v \in Rulings /\ drain.ask \in Asks /\ serving
    BY DEF Decide, Rulings
  <2>2. servingGrants' \subseteq Kinds /\ UNCHANGED <<files, requesters, mark, process, serving, processing>>
    BY <2>1 DEF Decide
  <2>3. QED
    BY <2>1, <2>2, RulingAdded DEF Decide
<1>11. CASE EndServing
  <2>1. CASE drain.pc = "await"
    <3>1. drain.ask \in Asks /\ "unavailable" \in Rulings
      BY <2>1 DEF Rulings
    <3>2. QED
      BY <1>11, <2>1, <3>1, RulingAdded DEF EndServing, Released
  <2>2. CASE drain.pc # "await"
    BY <1>11, <2>2 DEF EndServing, Released
  <2>3. QED
    BY <2>1, <2>2
<1>12. CASE KillServer
  BY <1>12 DEF KillServer, NoDrain
<1>13. CASE Restart
  BY <1>13 DEF Restart
<1>14. CASE Stall
  BY <1>14 DEF Stall
<1>15. QED
  BY <1>1, <1>2, <1>3, <1>4, <1>5, <1>6, <1>7, <1>8, <1>9, <1>10, <1>11, <1>12, <1>13, <1>14 DEF Continue

\* The types, honest files and replies, and where request files may be.
THEOREM ForwardInvariant == Spec => []ForwardInv
<1>1. ForwardInv /\ [Next]_vars => ForwardInv'
  <2> SUFFICES ASSUME ForwardInv, [Next]_vars PROVE ForwardInv'
    OBVIOUS
  <2>1. CASE UNCHANGED vars
    BY <2>1 DEF vars, ForwardInv, TypeOK, FileType, RequesterType, ServerType, HonestFiles,
               HonestReplies, Answers, HonestDrain, RequestsAreOpen, OnlyCancelled, Withdrawn, GrantsEndWithTheSession
  <2>2. CASE Next
    BY <2>2, RequesterSteps, ServerSteps DEF Next
  <2>3. QED
    BY <2>1, <2>2
<1>2. QED
  BY <1>1, InitInv, PTL DEF Spec

\* Only translated states reach a response file or a requester.
THEOREM TypeCorrect == Spec => []TypeOK
<1>1. ForwardInv => TypeOK
  BY DEF ForwardInv
<1>2. QED
  BY <1>1, ForwardInvariant, PTL

\* No grant of a session outlives it or is added after its shutdown.
THEOREM GrantsEnd == Spec => []GrantsEndWithTheSession
<1>1. ForwardInv => GrantsEndWithTheSession
  BY DEF ForwardInv
<1>2. QED
  BY <1>1, ForwardInvariant, PTL

\* A withdrawn ask is not put to anybody: its request file is gone when the drain reaches it.
THEOREM WithdrawnStaysUnserved == Spec => WithdrawnAsksAreNotServed
<1>1. ForwardInv /\ [Next]_vars => [\A a \in Asks : Withdrawn(a) => ~Serves(a)]_vars
  <2> SUFFICES ASSUME ForwardInv, Next, NEW a \in Asks, Withdrawn(a), Serves(a) PROVE FALSE
    BY DEF vars
  <2>1. a \notin requests
    BY DEF ForwardInv, RequestsAreOpen
  <2>2. a # Nobody /\ drain.ask # a /\ drain'.ask = a
    BY ForwardingAssumption DEF Serves
  <2>3. UNCHANGED drain \/ drain' = NoDrain \/ drain'.ask = Nobody \/ drain'.ask = drain.ask
        \/ \E b \in requests : drain'.ask = b
    <3> USE DEF ForwardInv, TypeOK, ServerType, DrainType
    <3>1. CASE \E b \in Asks : MakeRequests(b) \/ Advance(b) \/ Poll(b) \/ TimeOut(b) \/ Cancel(b) \/ Kill(b)
      BY <3>1 DEF MakeRequests, Advance, MakeResponses, WriteRequest, WriteRequestFails, ReadResponse,
                  AbandonUnserved, DropResponse, DropRequest, RemoveRequests, RemoveResponses, Return,
                  Poll, TimeOut, Cancel, Kill, server
    <3>2. CASE PollTick
      BY <3>2 DEF PollTick
    <3>3. CASE \E b \in Asks : ServeNext(b)
      BY <3>3 DEF ServeNext, Ruled
    <3>4. CASE EnsureResponses \/ Respond \/ RespondFails \/ DropServed
      BY <3>4 DEF EnsureResponses, Respond, RespondFails, DropServed
    <3>5. CASE CleanRequests \/ CleanResponses \/ KillServer
      BY <3>5 DEF CleanRequests, CleanResponses, KillServer
    <3>6. CASE (\E v \in HumanRulings : Decide(v)) \/ EndServing
      BY <3>6 DEF Decide, EndServing, Released, Ruled
    <3>7. CASE StartServing \/ Restart \/ Stall
      BY <3>7 DEF StartServing, Restart, Stall
    <3>8. QED
      BY <3>1, <3>2, <3>3, <3>4, <3>5, <3>6, <3>7 DEF Next, Continue
  <2>4. QED
    BY <2>1, <2>2, <2>3 DEF NoDrain
<1>2. QED
  BY <1>1, ForwardInvariant, PTL DEF Spec, WithdrawnAsksAreNotServed

-----------------------------------------------------------------------------
(* The implementation of ForwardedAsk.                                     *)

AbstractVars == <<verdicts, outcome, childGrants, servingGrants>>

\* What a requester reads is what it is to be told of the ruling.
LEMMA WireIsTold == \A v \in Rulings : Wire(v) = Abstract!Told(v)
BY DEF Rulings, HumanRulings, Wire, Abstract!Told

\* A step of a requester settles its ask, or is invisible.
LEMMA RequesterImplements ==
  ASSUME ForwardInv, NEW a \in Asks,
         \/ MakeRequests(a) \/ Advance(a) \/ Poll(a) \/ TimeOut(a) \/ Cancel(a) \/ Kill(a)
  PROVE  [Abstract!Next]_AbstractVars
<1> USE DEF ForwardInv, TypeOK, RequesterType, ServerType, AbstractVars
<1>1. CASE Return(a)
  <2>1. outcome[a] \in {"open", "unavailable"} /\ reply[a] # "none"
        /\ reply[a] \in Answers(a) \cup {"none", "unavailable"}
    BY <1>1 DEF Return, Step, OnlyCancelled, HonestReplies
  <2>2. CASE outcome[a] # "open"
    BY <1>1, <2>1, <2>2 DEF Return, FirstAnswer, server
  <2>3. CASE outcome[a] = "open" /\ reply[a] = "unavailable"
    <3>1. Abstract!GiveUp(a)
      BY <1>1, <2>3 DEF Return, FirstAnswer, server, Abstract!GiveUp
    <3>2. QED
      BY <3>1 DEF Abstract!Next
  <2>4. CASE outcome[a] = "open" /\ reply[a] \in Answers(a)
    <3>1. PICK v \in verdicts[a] : reply[a] = Wire(v)
      BY <2>4 DEF Answers
    <3>2. v \in Rulings /\ Wire(v) = Abstract!Told(v)
      BY WireIsTold
    <3>3. reply[a] = "approved_for_session" <=> v = "approved_for_session"
      BY <3>1, <3>2 DEF Wire, Rulings, HumanRulings
    <3>4. Abstract!Report(a, v)
      BY <1>1, <2>4, <3>1, <3>2, <3>3 DEF Return, FirstAnswer, server, Abstract!Report
    <3>5. v \in Abstract!Rulings
      BY <3>2 DEF Rulings, HumanRulings, Abstract!Rulings
    <3>6. QED
      BY <3>4, <3>5 DEF Abstract!Next
  <2>5. QED
    BY <2>1, <2>2, <2>3, <2>4
<1>2. CASE Cancel(a)
  <2>1. Abstract!GiveUp(a)
    BY <1>2 DEF Cancel, server, Abstract!GiveUp
  <2>2. QED
    BY <2>1 DEF Abstract!Next
<1>3. CASE Kill(a)
  <2>1. CASE outcome[a] = "open"
    <3>1. Abstract!GiveUp(a)
      BY <1>3, <2>1 DEF Kill, server, Abstract!GiveUp
    <3>2. QED
      BY <3>1 DEF Abstract!Next
  <2>2. CASE outcome[a] # "open"
    BY <1>3, <2>2 DEF Kill, server
  <2>3. QED
    BY <2>1, <2>2
<1>4. CASE UNCHANGED AbstractVars
  BY <1>4
<1>5. QED
  BY <1>1, <1>2, <1>3, <1>4
     DEF Advance, MakeRequests, MakeResponses, WriteRequest, WriteRequestFails, ReadResponse,
         AbandonUnserved, DropResponse, DropRequest, RemoveRequests, RemoveResponses, Poll, TimeOut, server

\* A step of the serving session rules on an ask, ends the session, or is invisible.
LEMMA ServerImplements ==
  ASSUME ForwardInv,
         \/ StartServing \/ PollTick \/ Continue \/ (\E v \in HumanRulings : Decide(v))
         \/ EndServing \/ KillServer \/ Restart \/ Stall
  PROVE  [Abstract!Next]_AbstractVars
<1> USE DEF ForwardInv, TypeOK, ServerType, AbstractVars, requesters
<1>1. CASE \E a \in Asks : ServeNext(a)
  <2> PICK a \in Asks : ServeNext(a)
    BY <1>1
  <2>1. CASE \E v \in {"approved", "denied", "gate_error"} : Ruled(a, v)
    <3> PICK v \in {"approved", "denied", "gate_error"} : Ruled(a, v)
      BY <2>1
    <3>1. Abstract!Rule(a, v) /\ v \in Abstract!Rulings
      BY DEF ServeNext, Ruled, Abstract!Rule, Abstract!Rulings
    <3>2. QED
      BY <3>1 DEF Abstract!Next
  <2>2. CASE UNCHANGED verdicts
    BY <2>2 DEF ServeNext
  <2>3. QED
    BY <2>1, <2>2 DEF ServeNext, RuleOn
<1>2. CASE \E v \in HumanRulings : Decide(v)
  <2> PICK v \in HumanRulings : Decide(v)
    BY <1>2
  <2>1. drain.ask \in Asks
    BY DEF Decide, HonestDrain
  <2>2. Abstract!Rule(drain.ask, v) /\ v \in Abstract!Rulings
    BY DEF Decide, Ruled, HumanRulings, Abstract!Rule, Abstract!Rulings
  <2>3. QED
    BY <2>1, <2>2 DEF Abstract!Next
<1>3. CASE EndServing
  <2>1. drain.pc = "await" => drain.ask \in Asks
    BY DEF HonestDrain
  <2>2. Abstract!EndSession
    BY <1>3, <2>1 DEF EndServing, Released, Ruled, Abstract!EndSession
  <2>3. QED
    BY <2>2 DEF Abstract!Next
<1>4. CASE KillServer
  <2>1. Abstract!EndSession
    BY <1>4 DEF KillServer, Abstract!EndSession
  <2>2. QED
    BY <2>1 DEF Abstract!Next
<1>5. QED
  BY <1>1, <1>2, <1>3, <1>4
     DEF StartServing, PollTick, Continue, EnsureResponses, Respond, RespondFails, DropServed,
         CleanRequests, CleanResponses, Restart, Stall

\* With files, polls, cleanups, cancellations and crashes, every ask still settles once, as
\* ruled on that very ask or as unanswered, and grants stay where they were chosen.
THEOREM Refinement == Spec => ImplementsForwardedAsk
<1>1. Init => Abstract!Init
  BY DEF Init, Abstract!Init
<1>2. ForwardInv /\ [Next]_vars => [Abstract!Next]_AbstractVars
  <2> SUFFICES ASSUME ForwardInv, [Next]_vars PROVE [Abstract!Next]_AbstractVars
    OBVIOUS
  <2>1. CASE UNCHANGED vars
    BY <2>1 DEF vars, AbstractVars
  <2>2. CASE Next
    BY <2>2, RequesterImplements, ServerImplements DEF Next
  <2>3. QED
    BY <2>1, <2>2
<1>3. QED
  BY <1>1, <1>2, ForwardInvariant, PTL DEF Spec, ImplementsForwardedAsk, Abstract!Spec, AbstractVars

\* An answer that comes after an ask was settled changes nothing and grants nothing.
THEOREM SettledAsksStay == Spec => SettledStaysSettled
<1>1. ForwardInv /\ [Next]_vars => [\A a \in Asks : outcome[a] # "open" =>
        outcome'[a] = outcome[a] /\ (a \in childGrants' => a \in childGrants)]_vars
  <2> SUFFICES ASSUME ForwardInv, Next, NEW a \in Asks, outcome[a] # "open"
               PROVE  outcome'[a] = outcome[a] /\ (a \in childGrants' => a \in childGrants)
    BY DEF vars
  <2>1. [Abstract!Next]_AbstractVars
    BY RequesterImplements, ServerImplements DEF Next
  <2>2. QED
    BY <2>1 DEF Abstract!Next, Abstract!GiveUp, Abstract!Rule, Abstract!Report, Abstract!EndSession,
                AbstractVars, ForwardInv, TypeOK, RequesterType
<1>2. QED
  BY <1>1, ForwardInvariant, PTL DEF Spec, SettledStaysSettled

-----------------------------------------------------------------------------
(* The directories.                                                        *)

\* A request that lies in requests/ has a requester that will look at it, or was killed.
LEMMA RequestsAreUsed ==
  ASSUME ForwardInv, NEW b \in requests PROVE b \in Asks /\ UsesRequests(b) /\ UsesResponses(b)
BY DEF ForwardInv, TypeOK, FileType, RequesterType, RequestsAreOpen, Withdrawn, Locations,
       UsesRequests, UsesResponses

\* A requester that leaves has removed the directories, or somebody still uses them.
LEMMA RequesterLeavesCleanup ==
  ASSUME ForwardInv, CleanupIsDue, NEW a \in Asks,
         \/ MakeRequests(a) \/ Advance(a) \/ Poll(a) \/ TimeOut(a) \/ Cancel(a) \/ Kill(a)
  PROVE  CleanupIsDue'
<1> USE DEF CleanupIsDue, UsesRequests, UsesResponses, Step, server, files
<1>1. pc \in [Asks -> Locations] /\ UNCHANGED drain
  BY DEF ForwardInv, TypeOK, RequesterType, MakeRequests, Advance, MakeResponses, WriteRequest,
         WriteRequestFails, ReadResponse, AbandonUnserved, DropResponse, DropRequest,
         RemoveRequests, RemoveResponses, Return, Poll, TimeOut, Cancel, Kill
<1>2. CASE MakeRequests(a)
  BY <1>1, <1>2 DEF MakeRequests
<1>3. CASE MakeResponses(a)
  BY <1>1, <1>3 DEF MakeResponses
<1>4. CASE WriteRequest(a) \/ WriteRequestFails(a)
  BY <1>1, <1>4 DEF WriteRequest, WriteRequestFails
<1>5. CASE ReadResponse(a) \/ AbandonUnserved(a) \/ Poll(a) \/ TimeOut(a)
  BY <1>1, <1>5 DEF ReadResponse, AbandonUnserved, Poll, TimeOut
<1>6. CASE DropResponse(a)
  BY <1>1, <1>6 DEF DropResponse
<1>7. CASE DropRequest(a)
  BY <1>1, <1>7 DEF DropRequest
<1>8. CASE RemoveRequests(a)
  <2>1. CASE requests = {}
    BY <1>1, <1>8, <2>1 DEF RemoveRequests, RequestsGone
  <2>2. CASE requests # {}
    <3>1. PICK b \in requests : b \in Asks /\ UsesRequests(b) /\ UsesResponses(b)
      BY <2>2, RequestsAreUsed
    <3>2. pc[a] = "rmrequests" /\ pc' = [pc EXCEPT ![a] = "return"] /\ UNCHANGED <<dirs, responses>>
      BY <1>8, <2>2 DEF RemoveRequests, RequestsGone
    <3>3. b # a
      BY <3>2, RequestsAreUsed DEF ForwardInv, RequestsAreOpen, Withdrawn
    <3>4. pc'[b] = pc[b]
      BY <1>1, <3>1, <3>2, <3>3
    <3>5. QED
      BY <1>1, <3>1, <3>2, <3>4
  <2>3. QED
    BY <2>1, <2>2
<1>9. CASE RemoveResponses(a)
  BY <1>1, <1>9 DEF RemoveResponses, ResponsesGone
<1>10. CASE Return(a) \/ Cancel(a) \/ Kill(a)
  BY <1>1, <1>10 DEF Return, Cancel, Kill
<1>11. QED
  BY <1>2, <1>3, <1>4, <1>5, <1>6, <1>7, <1>8, <1>9, <1>10 DEF Advance

\* So has a drain that ends, unless its process is killed.
LEMMA ServerLeavesCleanup ==
  ASSUME ForwardInv, CleanupIsDue, "crash" \notin Events,
         \/ StartServing \/ PollTick \/ Continue \/ (\E v \in HumanRulings : Decide(v))
         \/ EndServing \/ KillServer \/ Restart \/ Stall
  PROVE  CleanupIsDue'
<1> USE DEF CleanupIsDue, UsesRequests, UsesResponses, requesters, files
<1>1. drain \in DrainType
  BY DEF ForwardInv, TypeOK, ServerType
<1>2. CASE StartServing \/ Restart \/ Stall
  BY <1>2 DEF StartServing, Restart, Stall
<1>3. CASE PollTick
  BY <1>3 DEF PollTick
<1>4. CASE EnsureResponses \/ RespondFails \/ DropServed
  BY <1>1, <1>4 DEF EnsureResponses, RespondFails, DropServed, DrainType
<1>5. CASE \E a \in Asks : ServeNext(a)
  BY <1>1, <1>5 DEF ServeNext, Ruled, DrainType
<1>6. CASE Respond
  BY <1>1, <1>6 DEF Respond, Put, DrainType
<1>7. CASE CleanRequests
  <2>1. CASE requests = {}
    BY <1>1, <1>7, <2>1 DEF CleanRequests, RequestsGone, DrainType
  <2>2. CASE requests # {}
    <3>1. PICK b \in requests : b \in Asks /\ UsesRequests(b) /\ UsesResponses(b)
      BY <2>2, RequestsAreUsed
    <3>2. UNCHANGED <<dirs, responses, pc>>
      BY <1>7, <2>2 DEF CleanRequests, RequestsGone
    <3>3. QED
      BY <3>1, <3>2
  <2>3. QED
    BY <2>1, <2>2
<1>8. CASE CleanResponses
  BY <1>1, <1>8 DEF CleanResponses, ResponsesGone
<1>9. CASE (\E v \in HumanRulings : Decide(v)) \/ EndServing
  BY <1>1, <1>9 DEF Decide, EndServing, Released, Ruled, DrainType
<1>10. CASE KillServer
  BY <1>10 DEF KillServer
<1>11. QED
  BY <1>2, <1>3, <1>4, <1>5, <1>6, <1>7, <1>8, <1>9, <1>10 DEF Continue

\* In whatever order requesters and drains look for files and remove directories, the last
\* one out leaves none behind, unless the serving process is killed.
THEOREM LastOneOut == ASSUME "crash" \notin Events PROVE Spec => []LastOneOutCleansUp
<1>1. Init => CleanupIsDue
  BY DEF Init, CleanupIsDue
<1>2. ForwardInv /\ CleanupIsDue /\ [Next]_vars => CleanupIsDue'
  <2> SUFFICES ASSUME ForwardInv, CleanupIsDue, [Next]_vars PROVE CleanupIsDue'
    OBVIOUS
  <2>1. CASE UNCHANGED vars
    BY <2>1 DEF vars, CleanupIsDue, UsesRequests, UsesResponses
  <2>2. CASE Next
    BY <2>2, RequesterLeavesCleanup, ServerLeavesCleanup DEF Next
  <2>3. QED
    BY <2>1, <2>2
<1>3. ForwardInv /\ CleanupIsDue => LastOneOutCleansUp
  <2> SUFFICES ASSUME ForwardInv, CleanupIsDue,
                      \A a \in Asks : pc[a] \in {"new", "done"},
                      drain.pc = "idle", responses = EmptyMap
               PROVE  dirs = {}
    BY DEF LastOneOutCleansUp
  <2>1. DOMAIN responses = {}
    BY DEF EmptyMap
  <2>2. "requests" \notin dirs /\ "responses" \notin dirs
    BY <2>1 DEF CleanupIsDue, UsesRequests, UsesResponses
  <2>3. QED
    BY <2>2 DEF ForwardInv, TypeOK, FileType
<1>4. QED
  BY <1>1, <1>2, <1>3, ForwardInvariant, PTL DEF Spec

=============================================================================
