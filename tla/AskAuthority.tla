----------------------------- MODULE AskAuthority -----------------------------
(***************************************************************************)
(* Who rules on the permission asks of one session and of its subagents    *)
(* (pi-permissions/src/engine/authority): PendingAuthority holds the       *)
(* outstanding asks; the authorizer chain tries its links and then the     *)
(* terminal, which is the session's dialogs (AskDialogQueue), a parent     *)
(* session, or nobody; GateRunner records session grants.                  *)
(*                                                                         *)
(* The session is one event loop.  A step is an event (a tool call, a      *)
(* link's verdict, a keypress, a mode change, the end of the session) with *)
(* the promise continuations it releases, up to the next await; only the   *)
(* callback of the dialog queue is a step of its own.                      *)
(***************************************************************************)
EXTENDS Naturals, Sequences

CONSTANTS
  Asks,           \* the asks of the session and its subagents
  Kinds,          \* the actions asked about, up to what a session grant covers
  Kind,           \* [Asks -> Kinds]
  Forwarded,      \* asks of subagents, which the inbox drain raises
  Bare,           \* those of them without an access intent
  Excluded,       \* kinds whose surface is in DELEGATION_EXCLUDED_SURFACES
  Directory,      \* kinds whose surface is external_directory_read or _write
  Recordable,     \* kinds with a session approval to record
  Links,          \* the links of the chain are 1..Links
  Terminals,      \* what selectAuthorizer may select here
  Sessions, NoSession

ASSUME AskAssumption ==
  /\ Kind \in [Asks -> Kinds]
  /\ Bare \subseteq Forwarded /\ Forwarded \subseteq Asks
  /\ Links \in Nat
  /\ Terminals \subseteq {"local", "relay", "deny"}
  /\ NoSession \notin Sessions

VARIABLES
  session, terminal,      \* AuthorizerSelection: the activated session, what it selected
  yolo,                   \* yoloMode of the configuration
  grants,                 \* kinds in SessionRules
  decision,               \* per ask, [state, by]: new, open, or as its promise resolved
  position,               \* per ask, the link its chain awaits; Links + 1 the terminal; 0 none
  authority,              \* per ask, the terminal of its chain
  queue,                  \* AskDialogQueue: admitted asks, in the order of their callbacks
  dialogs                 \* asks whose dialog is on the screen

vars == <<session, terminal, yolo, grants, decision, position, authority, queue, dialogs>>
selection == <<session, terminal, yolo>>

Ruling(s, b) == [state |-> s, by |-> b]
Unavailable == Ruling("denied", "unavailable")
Broken == Ruling("denied", "error")

Open == {a \in Asks : decision[a].state = "open"}
AtTerminal(a) == position[a] = Links + 1

Init ==
  /\ session = NoSession /\ terminal = "deny" /\ yolo \in BOOLEAN /\ grants = {}
  /\ decision = [a \in Asks |-> Ruling("new", "nobody")]
  /\ position = [a \in Asks |-> 0]
  /\ authority = [a \in Asks |-> "deny"]
  /\ queue = <<>> /\ dialogs = {}

-----------------------------------------------------------------------------
(* PendingAuthority: the first to settle an ask decides it.                *)

FinishAny(S, r) == [a \in Asks |-> IF a \in S THEN r ELSE decision[a]]  \* mutant: no settled check
Finish(S, r) == [a \in Asks |-> IF a \in S \cap Open THEN r ELSE decision[a]]

\* finish with abort: the open asks of S get their answer first, then their chains are
\* aborted, which closes their dialogs.  So the chain of an ask is aborted exactly while
\* the ask is decided and the chain has not ended.
Abort(S, r) ==
  /\ decision' = Finish(S, r)
  /\ dialogs' = dialogs \ S

Aborted(a) == a \notin Open

\* what GateRunner, or the server of forwarded asks, records for a decision
Granted(a, r) ==
  IF /\ a \in Open
     /\ r.state = (IF a \in Forwarded THEN "serving" ELSE "session")
     /\ Kind[a] \in Recordable
  THEN {Kind[a]} ELSE {}

\* the chain of a ends with r: its gate or the drain goes on with the decision
Conclude(a, r) ==
  /\ decision' = Finish({a}, r)
  /\ grants' = grants \cup Granted(a, r)
  /\ position' = [position EXCEPT ![a] = 0]

-----------------------------------------------------------------------------
(* Raising an ask: GateRunner.runDescriptor or, for a subagent's ask, the  *)
(* drain, which raises one at a time.                                      *)

MayRaise(a) ==
  /\ decision[a].state = "new"
  /\ a \in Forwarded => Forwarded \cap Open = {}

\* recorded authority first: what is granted or approved by mode is not asked
Precluded(a) == a \notin Bare /\ (Kind[a] \in grants \/ yolo)

Preclude(a) ==
  /\ MayRaise(a) /\ Precluded(a)
  /\ decision' = [decision EXCEPT ![a] =
                    Ruling("approved", IF Kind[a] \in grants THEN "grant" ELSE "yolo")]
  /\ UNCHANGED <<selection, grants, position, authority, queue, dialogs>>

\* escalate rejects without an authority; run gives up when the signal is aborted already
Refuse(a) ==
  /\ MayRaise(a) /\ ~Precluded(a)
  /\ decision' = [decision EXCEPT ![a] = IF session = NoSession THEN Broken ELSE Unavailable]
  /\ UNCHANGED <<selection, grants, position, authority, queue, dialogs>>

\* the chain of a comes to p: a link, or the terminal, which admits it to the dialogs
Arrive(a, p, t) ==
  /\ position' = [position EXCEPT ![a] = p]
  /\ queue' = IF p = Links + 1 /\ t = "local" THEN Append(queue, a) ELSE queue

PastTheChain == IF terminal = "relay" THEN Links + 2 ELSE 1   \* mutant: no terminal there

\* a relaying session has no links: the serving session consults its own
FirstLink == IF terminal = "relay" THEN Links + 1 ELSE 1

Escalate(a) ==
  /\ MayRaise(a) /\ ~Precluded(a) /\ session # NoSession
  /\ decision' = [decision EXCEPT ![a] = Ruling("open", "nobody")]
  /\ authority' = [authority EXCEPT ![a] = terminal]
  /\ Arrive(a, FirstLink, terminal)
  /\ UNCHANGED <<selection, grants, dialogs>>

-----------------------------------------------------------------------------
(* The chain.                                                              *)

\* encloseInDelegationEnvelope: no link approves an excluded surface
Enclosed(a, v) ==
  IF v = "allow" /\ Kind[a] \in Excluded THEN "defer" ELSE v

\* decideFromVerdict
FromVerdict(v) ==
  CASE v = "allow" -> Ruling("approved", "link")
    [] v \in {"deny", "interrupted"} -> Ruling("denied", "link")

AwaitsLink(a) == position[a] \in 1..Links

\* a link decides; what it says of an ask that is decided already is dropped
LinkDecides(a, v) ==
  /\ AwaitsLink(a)
  /\ Aborted(a) \/ Enclosed(a, v) # "defer"
  /\ Conclude(a, IF Aborted(a) THEN Unavailable ELSE FromVerdict(Enclosed(a, v)))
  /\ UNCHANGED <<selection, authority, queue, dialogs>>

\* a receipt of the person, used up here, lets one directory pass the envelope
ReceiptDecides(a) ==
  /\ AwaitsLink(a) /\ ~Aborted(a)
  /\ Kind[a] \in Directory \cap Excluded
  /\ Conclude(a, Ruling("approved", "receipt"))
  /\ UNCHANGED <<selection, authority, queue, dialogs>>

LinkDefers(a, v) ==
  /\ AwaitsLink(a) /\ ~Aborted(a)
  /\ Enclosed(a, v) = "defer"
  /\ Arrive(a, position[a] + 1, authority[a])
  /\ UNCHANGED <<selection, grants, decision, authority, dialogs>>

LinkFails(a) ==
  /\ AwaitsLink(a)
  /\ Conclude(a, Broken)
  /\ UNCHANGED <<selection, authority, queue, dialogs>>

\* the parent's answer, as ForwardedAsk promises it, however late
ParentAnswers(a, r) ==
  /\ AtTerminal(a) /\ authority[a] = "relay"
  /\ Conclude(a, r)
  /\ UNCHANGED <<selection, authority, queue, dialogs>>

\* DenyingAuthorizer
NobodyAnswers(a) ==
  /\ AtTerminal(a) /\ authority[a] = "deny"
  /\ Conclude(a, Unavailable)
  /\ UNCHANGED <<selection, authority, queue, dialogs>>

-----------------------------------------------------------------------------
(* AskDialogQueue and LocalUserAuthorizer.                                 *)

NextInLine(a) == queue # <<>> /\ Head(queue) = a /\ a \notin dialogs

PresentAtOnce(a) ==                     \* mutant: no queue before the host's slot
  /\ \E i \in DOMAIN queue : queue[i] = a
  /\ ~Aborted(a) /\ a \notin dialogs
  /\ dialogs' = dialogs \cup {a}
  /\ UNCHANGED <<selection, grants, decision, position, authority, queue>>

\* the callback of the first in line puts its dialog on the screen
Present(a) ==
  /\ NextInLine(a) /\ ~Aborted(a)
  /\ dialogs' = dialogs \cup {a}
  /\ UNCHANGED <<selection, grants, decision, position, authority, queue>>

SkipNever(a) == NextInLine(a) /\ Aborted(a) /\ UNCHANGED vars  \* mutant: its promise stays open

\* or, its ask being cancelled before or under the dialog, resolves without an answer
Skip(a) ==
  /\ NextInLine(a) /\ Aborted(a)
  /\ queue' = Tail(queue)
  /\ Conclude(a, Unavailable)
  /\ UNCHANGED <<selection, authority, dialogs>>

\* mutant: a dialog that breaks rejects the callbacks chained behind it
AnswerBreaks(a, r) ==
  /\ a \in dialogs
  /\ dialogs' = dialogs \ {a}
  /\ queue' = IF r = Broken THEN <<>> ELSE Tail(queue)
  /\ Conclude(a, r)
  /\ UNCHANGED <<selection, authority>>

\* the person answers, or the dialog breaks; the next in line follows either way
Answer(a, r) ==
  /\ a \in dialogs
  /\ dialogs' = dialogs \ {a}
  /\ queue' = Tail(queue)
  /\ Conclude(a, r)
  /\ UNCHANGED <<selection, authority>>

-----------------------------------------------------------------------------
(* The session.                                                            *)

\* every tool call and turn activates; another session id cancels what is outstanding
Activate(s, t) ==
  /\ session' = s /\ terminal' = t
  /\ IF s = session THEN UNCHANGED <<decision, dialogs>> ELSE Abort(Asks, Unavailable)
  /\ UNCHANGED <<yolo, grants, position, authority, queue>>

\* the signals of some asks, of a turn that the user interrupts, are aborted
Interrupt(S) ==
  /\ S \cap Open # {}
  /\ Abort(S, Unavailable)
  /\ UNCHANGED <<selection, grants, position, authority, queue>>

\* the configuration changes: its listeners approve the asks this session decides itself
Local(a) == authority[a] # "relay" /\ a \notin Forwarded

SetYolo(on) ==
  /\ yolo' = on
  /\ IF on THEN Abort({a \in Asks : Local(a)}, Ruling("approved", "yolo"))
     ELSE UNCHANGED <<decision, dialogs>>
  /\ UNCHANGED <<session, terminal, grants, position, authority, queue>>

\* handleSessionShutdown: releaseAll empties the line, the rules are cleared, and
\* deactivate cancels what is outstanding
Shutdown ==
  /\ session # NoSession
  /\ session' = NoSession /\ terminal' = "deny"
  /\ queue' = <<>>
  /\ position' = [a \in Asks |-> IF \E i \in DOMAIN queue : queue[i] = a THEN 0 ELSE position[a]]
  /\ grants' = {}
  /\ Abort(Asks, Unavailable)
  /\ UNCHANGED <<yolo, authority>>

-----------------------------------------------------------------------------
LinkVerdicts == {"allow", "deny", "interrupted", "defer"}
HumanStates(a) == {"approved", "session", "denied"} \cup (IF a \in Forwarded THEN {"serving"} ELSE {})
HumanRulings(a) == {Ruling(s, "user") : s \in HumanStates(a)}
ParentRulings == {Ruling(s, "relay") : s \in {"approved", "session", "denied"}} \cup {Unavailable}

RaiseAsk(a) == Preclude(a) \/ Refuse(a) \/ Escalate(a)
LinkAnswers(a) ==
  \/ \E v \in LinkVerdicts : LinkDecides(a, v) \/ LinkDefers(a, v)
  \/ ReceiptDecides(a) \/ LinkFails(a)
TerminalAnswers(a) == NobodyAnswers(a) \/ \E r \in ParentRulings : ParentAnswers(a, r)
PersonAnswers(a) == \E r \in HumanRulings(a) \cup {Broken} : Answer(a, r)

Next ==
  \/ \E a \in Asks : \/ RaiseAsk(a) \/ LinkAnswers(a) \/ TerminalAnswers(a)
                     \/ Present(a) \/ Skip(a) \/ PersonAnswers(a)
  \/ \E s \in Sessions, t \in Terminals : Activate(s, t)
  \/ \E S \in SUBSET Asks : Interrupt(S)
  \/ \E on \in BOOLEAN : SetYolo(on)
  \/ Shutdown

Spec == Init /\ [][Next]_vars

\* links return, relayed asks end (EveryAskEnds of PermissionForwarding), the callbacks of
\* the queue run, and the person answers the dialog on the screen
FairSpec ==
  /\ Spec
  /\ \A a \in Asks : /\ WF_vars(LinkAnswers(a)) /\ WF_vars(TerminalAnswers(a))
                     /\ WF_vars(Present(a)) /\ WF_vars(Skip(a)) /\ WF_vars(PersonAnswers(a))

-----------------------------------------------------------------------------
Decisions ==
  [state : {"new", "open", "approved", "session", "serving", "denied"},
   by : {"nobody", "grant", "yolo", "link", "receipt", "relay", "user", "unavailable", "error"}]

\* The state has its type.
TypeOK ==
  /\ session \in Sessions \cup {NoSession}
  /\ terminal \in {"local", "relay", "deny"} /\ yolo \in BOOLEAN
  /\ grants \subseteq Kinds
  /\ decision \in [Asks -> Decisions]
  /\ position \in [Asks -> 0..Links + 1]
  /\ authority \in [Asks -> {"local", "relay", "deny"}]
  /\ queue \in Seq(Asks) /\ dialogs \subseteq Asks

-----------------------------------------------------------------------------
(* Properties.                                                             *)

\* What the authority promises: one ruling per ask, by somebody entitled to it, approvals
\* only while the session runs, and grants that people chose and that end with the session.
Abstract == INSTANCE AskRulings
ImplementsAskRulings == Abstract!Spec

\* The host has one dialog slot, and a second dialog strands the first: the session never
\* has two up, whatever is released, cancelled or raised in between (AskDialogQueue).
OneDialog == \A a, b \in dialogs : a = b

\* Nobody is shown a dialog for an ask that is decided, or of a session that has ended.
DialogsAreLive == \A a \in dialogs : a \in Open /\ session # NoSession

\* An ask that waits for the person is in line for the screen: no release, cancellation or
\* late verdict strands it.
Queued(a) == \E i \in DOMAIN queue : queue[i] = a
NobodyIsStranded == \A a \in Open : AtTerminal(a) /\ authority[a] = "local" => Queued(a)

\* Every ask ends, if links return, parents answer, and the person answers the dialog that
\* is shown; a dialog that breaks, and asks cancelled in line, do not hold up the others.
EveryAskEnds == \A a \in Asks : (a \in Open) ~> (a \notin Open)

-----------------------------------------------------------------------------
(* The inductive invariant behind the theorems of AskAuthority_proofs.     *)

\* the line holds asks whose chain is at the dialogs of this session, each once
LineIsSound ==
  /\ \A i \in DOMAIN queue : AtTerminal(queue[i]) /\ authority[queue[i]] = "local"
  /\ \A i, j \in DOMAIN queue : queue[i] = queue[j] => i = j

\* an ask that was not raised has no chain
NewHaveNoChain == \A a \in Asks : decision[a].state = "new" => position[a] = 0

\* only the first in line is on the screen
FirstIsShown == \A a \in dialogs : queue # <<>> /\ Head(queue) = a

\* asks are open only while a session runs
OpenInSession == Open # {} => session # NoSession

AskInv == /\ TypeOK /\ LineIsSound /\ NewHaveNoChain /\ FirstIsShown /\ OpenInSession
          /\ DialogsAreLive /\ NobodyIsStranded
=============================================================================
