# Verification of pi-nix

TLA+ models of the stateful parts of pi-nix: the extensions under `packages/extensions` that
let several pi sessions talk to each other, ask a human for permission, and pass such asks on
between processes. TLC checks small instances; TLAPS proves the invariants for every value of
the constants. `PROJECT.json` maps each definition to the lines it models and lists runs,
mutants, findings, hazards and theorems.

## 1. The system

pi-nix packages the pi coding agent with TypeScript extensions. Each pi session is one Node
event loop that loads the extensions; sessions share a broker process and a directory tree.

| Component | State | Operations | Interacts with | What is hard |
|---|---|---|---|---|
| **intercom broker** `pi-custom/src/intercom/broker/broker.ts` | sessions, disconnected sessions, ask edges, receipt routes, mailbox, delivery records, unregistered connections, idle timer | register, presence, unregister, send, cancel, receipt, close, timers, signal | one socket per session | reused ids and sockets, retried sends, caps and eviction, retention running out, mutual asks, exit with mail waiting |
| intercom framing `broker/framing.ts` | partial frame | push, read | broker, client | cut frames |
| **intercom client** `broker/client.ts` | pending sends, lists and cancels with timeouts | connect, send, cancel, list | broker | late answers, exact targets that move |
| **intercom spawn** `broker/spawn.ts` | lock file, socket file, pid file | probe, lock, spawn, wait | other sessions' spawns, exiting brokers | two spawners, stale locks, removal by name |
| **intercom session** `runtime.ts`, `reply-tracker.ts` | one waiter, held messages, reply contexts, connection generation | ask, reply, send, turn boundaries, reconnect | client, agent loop | a slot checked before an await, reconnect against shutdown |
| Claude transport `intercom/claude/` | inbox socket, registry, loop guard | deliver, publish, guard | runtime | stale registry entries |
| **permission forwarding** `pi-permissions/src/engine/authority/` (`approval-escalator`, `forwarded-request-server`, `forwarding-manager`, `forwarding-io`, `forwarding-liveness`) | request and response files, serving heartbeat, poll loop, drain, processing flag | request, poll, abandon, drain, escalate, respond, clean up, announce, withdraw | subagents' processes, the human, session lifecycle | every file operation interleaves with other processes; time-outs, crashes, shutdown under an open dialog |
| **ask authority** (`pending-authority`, `authorizer-chain`, `ask-dialog-queue`, `authorizer-selection`) | outstanding asks, dialog queue, selected authorizer | run, cancel, yolo toggle, present, release all | gates, dialogs, classifier, forwarding | late answers, cancellation, serialised dialogs |
| **permission session and gates** `engine/session/`, `handlers/gates/runner.ts` | session grants, activation | activate, reset, shutdown, gate | authority, policy | grants that outlive what they were chosen for |
| permission policy `engine/policy/` | none (pure) | resolve, merge, match | gates, forwarding | precedence, most restrictive unit |
| configuration `engine/config/` | loaded layers | load, reload, save | policy | partial reload |
| bash access analysis | none (pure) | enumerate commands and paths | policy | a grammar |
| **auto mode** `pi-permissions/src/auto/` | mode, receipts of reviews, approvals, scopes | toggle, judge a call, review, prompt | authority, ledger, host | five awaits in one handler that runs twice per call; answers about a call that has changed |
| **permission ledger** `pi-permissions/src/denials.ts`, `approval-request.ts`, `forwarded-gate.ts`, gate in `index.ts` | denials, grants, rejections | gate, record, review, approve, revoke, restore | auto mode, menu, session tree | parallel reviews, answers after a restore |
| **goal mode** `pi-custom/src/tools/goal.ts` | goal, its saved copies, contract, wait timer, counts | commands, goal tools, run and turn events, session events | agent loop, other extensions' wakes | work nobody watches: limits across waits and restarts, a goal that stalls, a contract that compaction takes away |
| btw, background, todo, ask tools `pi-custom/src/tools/` | side thread, jobs, list, questionnaire | tool calls, turn events | agent loop | cancellation |
| minimap, voice, notify, fast, foreign-skills | totals, recorder, timer | events | agent loop | cancellation |
| provider data, packaging, patches | none | none | none | out of scope |

The rest of the interface code renders. What makes each component correct:

- *broker*: a message reaches the session it was addressed to, in its scope, at most once as
  long as the broker remembers it; a retry learns the earlier outcome; nobody waits for a
  dead or mutually waiting peer; the broker neither exits with mail nor stays for ever.
- *forwarding*: a forwarded ask settles once, as somebody ruled on that very ask or as
  unanswered; grants stay on the side and in the session they were chosen for; every ask ends
  and every inbox drains.
- *ask authority*: one decision per ask; no late answer replaces a cancellation; no two
  dialogs; no dialog for a settled ask; no automatic grant on an excluded surface.
- *client, session*: a running session has one connection or something under way that makes one; a
  blocking ask ends once, as answered only by its reply; messages come before the model once and in
  order; an ask that came in stays owed.
- *spawn*: sessions that start at once share one broker.
- *auto mode*: no review, scope or mode lets a call past a hard line; an approval is for what it showed;
  an interrupt is no denial.
- *ledger*: one question per denial; an answer settles only what it was about.
- *goal mode*: an active goal goes on until a tool, a limit or the user ends it; it never works on alone past
  its limit; every run begins with the objective that is in force.

## 2. Modules

| Module | What it is |
|---|---|
| `Maps`, `MapLemmas` | JavaScript Maps and filtered arrays as functions, and lemmas on them |
| `SentMessages` | what the broker promises those who send, without connections, tables or caps |
| `IntercomBroker` | the broker, complete, with `SentMessages` instantiated |
| `IntercomBroker_proofs` | its theorems, the implementation of `SentMessages` included |
| `MCIntercomBroker` | its instances (`Broker*.cfg`) |
| `ForwardedAsk` | what forwarding promises, without files, polls or processes |
| `PermissionForwarding` | both sides of the forwarding protocol, with `ForwardedAsk` instantiated |
| `PermissionForwarding_proofs` | its theorems, the implementation of `ForwardedAsk` included |
| `MCPermissionForwarding` | its instances (`Forward*.cfg`) |
| `AskRulings` | what the authority over permission asks promises, without chain, dialogs or late answers |
| `AskAuthority` | selection, chain, pending asks, dialog queue and session grants, with `AskRulings` instantiated |
| `AskAuthority_proofs` | its theorems, the implementation of `AskRulings` included |
| `MCAskAuthority` | its instance (`AskAuthority.cfg`) |
| `PeerAsk` | what a blocking ask to a peer promises, without connections or waiters |
| `IntercomSession` | one session's connection and its asks, with `PeerAsk` instantiated |
| `IntercomInbox` | one session's incoming messages: held, shown, owed an answer |
| `BrokerSpawn` | spawners, the spawn lock, and the files of racing brokers |
| `IntercomSession_proofs` | the theorems of these three, the implementation of `PeerAsk` included |
| `AutoMode`, `AutoMode_proofs` | auto mode's gate on tool calls, and its theorems |
| `PermissionLedger`, `PermissionLedger_proofs` | the record of blocked and allowed calls, and its theorems |
| `GoalMode`, `GoalMode_proofs` | /goal over pi's agent loop, and its theorems |
| `MCPeers` | an instance of the two halves of the intercom session, under fairness (`Peers.cfg`) |
| `MCParts` | an instance of five components that share no state (`Parts.cfg`) |

### IntercomBroker and SentMessages

All handlers of the broker are synchronous, so one frame, close event or timer is one action.

- `conn`, `unregistered`: the closure of `handleConnection` per socket. A destroyed socket is
  `closing` until its close event; a new connection may reuse it only after that.
- `sessions`, `gone`, `askEdges`, `routes`, `mailbox`, `records`: the maps of the class. A key
  is a pair of scope and id (`scopedSessionKey`). `timer` remembers whether the idle timer was
  armed while others were connected. `mode` is how the process ended.
- Actions: `Connect`, `RegistrationTimeout`, `FrameRejected`, `Close`, `Unregister`, `Presence`,
  `Register`/`RegisterRefused`, the outcomes of `handleSend` (`SendRefused`, `SendReplayed`,
  `SendExactFailed`, `SendDelivered`, `SendRelogged`, `SendQueued`), `CancelQueued`, `CancelSent`,
  `CancelAsk`, `Receipt`, `IdleCheck`, `Terminate`, and `Elapse`.
- `Verdict` is the routing decision in the order the code takes it: reply target, live target,
  replay, supersede, mutual ask, the mailbox. The `Send*` actions partition it.
- Time: each retained entry has an `old` mark. `Elapse` marks the entries of one table and the
  prune calls drop marked entries where the handlers make them. So an entry may be old and
  present, as in the code, where pruning happens only on a frame.
- `out`, `copies`, `lost`, `withdrawn` are observation and history; no guard reads them. `out` holds
  what the last step wrote: frames that carry or follow messages (`sent`) and the answer to the sender
  (`acks`: the message and its delivery state or failure code). The list of sessions, its changes and the
  errors that end a connection are not kept.
- `SentMessages` keeps one value per message: unsent, queued, written, called back, failed, rebound (the one
  failure that a retry may get past), withdrawn or forgotten, with the copies that wait and those that were
  written. `FateOf` reads it from the delivery record, the mailbox and the histories; a message whose record
  was dropped is forgotten, and nothing is promised of it from then on.
- Left out: the content of messages (a message is its routing fields and its identity), the
  byte limits of frames (`FrameRejected` covers the limits of rate and size), log lines.

### PermissionForwarding and ForwardedAsk

Requesters are other processes: each file operation is one action, so the request file, the
response file and the two directories interleave freely with the server. An atomic write is a
temporary file and a rename and so one step; the removal of a directory that is not empty
fails, so one step looks and removes. The serving session is one event loop: `Task` lets
timers, dialogs and lifecycle events in only while the drain awaits a decision or is idle.

- Requester (`pc`): `MakeRequests`, `MakeResponses`, `WriteRequest`/`WriteRequestFails`,
  `ReadResponse`, `Poll`, `AbandonUnserved`, `TimeOut`, `DropResponse`, `DropRequest`,
  `RemoveRequests`, `RemoveResponses`, `Return`; `Cancel` is the cancellation of the ask by
  its session (`PendingAuthority`), of which the poll loop learns nothing; `Kill` ends the process.
- Server: `StartServing`, `PollTick`, `EnsureResponses`, `ServeNext`, `Decide`, `Respond`/`RespondFails`,
  `DropServed`, `CleanRequests`, `CleanResponses`, `EndServing`; `KillServer`, `Restart`.
- `mark` is what a requester reads of the serving announcement; `Stall` lets it decay while the
  process lives. The in-process registry answers the same question without decay.
- Wall-clock time is not modelled: the deadline may pass at any poll, and `unserved` counts the
  polls at which the target looked unserved. A poll without effect is a stutter, so `Grace = 1`
  stands for a window of any length in which the requester saw nobody serve.
- An outcome `denied` is a decision without the `confirmationUnavailable` mark, `unavailable`
  one with it.
- `ForwardedAsk` has the rulings, outcomes and grants only; its actions are `Rule`, `EndSession`,
  `Report` and `GiveUp`. `PermissionForwarding` keeps the rulings as the history variable
  `verdicts`; the other three abstract variables are its own, so the refinement mapping is the
  identity on names and what has to be shown is that every step is allowed.

Left out (forwarding): a session id that changes in place while serving, unreadable or misaddressed request
files, file-system errors other than a missing directory, the notices on the event bus.

### AskAuthority and AskRulings

The session is one event loop: a step is an event with the promise continuations it releases, up
to the next await. So the end of a chain, the settling of its ask and the grant its gate records
are one step (`Conclude`); the callback of the dialog queue is a step of its own (`Present`,
`Skip`), between which anything may happen.

- `session`, `terminal`: `AuthorizerSelection`; `decision`: the promise of `PendingAuthority.run`
  per ask; `position`, `authority`: the closure of the composed chain; `queue`: the admitted asks
  of `AskDialogQueue` whose callback has not ended; `dialogs`: what is on the screen; `grants`:
  `SessionRules`; `yolo`: the configuration.
- Raising: `Preclude` (recorded authority answers), `Refuse` (no session, or the signal is aborted
  already), `Escalate`. Chain: `LinkDecides`, `ReceiptDecides`, `LinkDefers`, `LinkFails`,
  `ParentAnswers`, `NobodyAnswers`. Dialogs: `Present`, `Skip`, `Answer`. Session: `Activate`,
  `Interrupt`, `SetYolo`, `Shutdown`.
- `Abort` settles asks before it aborts their chains, as `finish` does. Its consequence is that a
  chain is aborted exactly while its ask is decided and the chain runs on, which `Aborted` reads;
  a chain that runs on ends with a ruling that `Finish` drops.
- `ParentAnswers` stands for `PermissionForwarding` seen from the requester, with any outcome that
  `ForwardedAsk` allows; a forwarded ask is one that the drain of this session raises, one at a time.
- Which terminal an activation selects (UI, live parent, subagent) is any of `Terminals`: the lookups
  behind it are answers of other processes. An instance with all three is an over-approximation.
- `Interrupt(S)` stands for the host's abort signals, of any set of asks.
- `AskRulings` says who is entitled to what: a person anything, a link an approval once and never of
  an excluded kind, a receipt of the person one directory, the mode nothing of another process.

Left out (authority): the registry of links, directional widths of grants, the text of dialogs.

### IntercomSession and PeerAsk

One event loop: a step is a frame, a close event or a timer with the continuations it releases. An ask
that awaits a connection goes on in a step of its own (`ContinueList`, `ContinueSend`), which comes
before the next event (`Event`) but in any order among several asks: that is where `ask` looks at the
waiter slot and takes it in different steps.

- `generation`, `active`, `client`, `connecting`, `retry`, `waiter`: the fields of the class
  `Intercom`; `phase` and `born` are the life of an `IntercomClient` and the closure of its
  attempt; `kept` says whether the failure of an attempt schedules a reconnect.
- Connections: `Boot`, `Retry`, `Spawned`, `AttemptFails`, `Registered`, `Dies` (the broker is killed
  and the socket does not say so), `Breaks`, `Lost`, `Left`. Life: `Start`, `Shutdown`.
- Asks: `Call`, `ContinueList`, `Listed`, `Targeted`, `ContinueSend`, `Resolved`, `Delivers`, `Sent`,
  `Refused`, `RequestTimesOut`, `GivesUp`, `ReplyComes`. `LetterComes` is any other mail.
- The broker is abstract: it delivers, refuses, keeps silent or dies. `born` is forgotten with its link.
- `PeerAsk` keeps an outcome per ask. The mapping reads the stage of the call: neither waiter nor slot
  has a counterpart, so an answer that goes to the wrong call is a step `PeerAsk` does not have.

### IntercomInbox

- `held`, `heldTimer`, `seen`, `agentRunning`, `wake`: the fields of the runtime; `owed`, `turns`,
  `current`: `ReplyTracker`; `host` and `inTurn`: what the agent loop of the host does. `number`, `shown`
  and `closed` are history.
- Messages: `Arrives`, `Control`, `HeldTick`. Host: `StartSession`, `EndSession`, `Begins`, `Settles`,
  `AgentStart`, `AgentEnd`, `TurnStart`, `TurnEnd`. Replies: `ReplyCall`, `SendCall`, then `Delivered` or
  `CallFails`, between which anything may happen to the ask they are about.
- `seen` forgets nothing, where the code forgets after a time and a number of entries.

### BrokerSpawn

Each session and each broker is a process; a step is one operation on a file or a process. `lock`,
`bound` and `pidfile` say who made the file that is there; all are removed by name, so `Steals`,
`Releases`, `Replaces` and `Removes` look at no owner. `upset` is history: a process took longer than the
code waits for it (five seconds for a broker, ten for a lock) or ended half-way. The promise of one
broker is stated up to then, since with it the code cannot keep the promise (see the observations).

### AutoMode

The handler of `tool_call` is one operator, `Handled`, whose value is the stage the call goes on to; it
is run by `ToolCall` (as the pre-pass, or in full where there is no permission system) and by `Consult`
(as the link of the authorizer chain). Each await is a stage with an action: `Confirmed`, `Reviewed`,
`Classified`, `Proposed`, `Prompted`. What is read before an await and used after it is in `noted`.

- A call is its `profile`: what configuration and analysis say of it (`Marks`). `ProfileAssumption`
  rules out marks the code cannot combine: only what cannot be parsed can be too long for a review, and
  the path gate reads only the tools that have paths.
- `EditInput` changes a call's input while a review is open: the code expects it (it compares the input
  before and after) and leaves the other awaits without such a check.
- `nod` is history: what the review shown last for a call was about. `lapsed` are calls that passed
  because auto mode was off.
- Left out: folder scopes, gate grants, counters, redaction of search results, the classifier's prompt.

### PermissionLedger

- `denials`, `nextId`, `exact`, `scoped`, `rejected`: the class. `epoch` is the identity of the objects
  in it: `restore` makes new ones, so `ledger.open().includes(denial)` fails for a review that began
  before. `gate` is the one call in preparation, `review` the calls of `ask_for_approval`.
- `AtGate`, `Judged`, `Blocked`, `Permitted` are the gate; `AsksReview` and `ReviewAnswer` the tool, with
  the question between them; `MenuApproves`, `MenuDismisses`, `MenuRevokes`, `Instructs`, `ChildDenied`,
  `Branches`, `Restores` what may come in between.
- Left out: directory approvals, saved folder grants, a repeated denial that reuses its record.

### GoalMode

Every handler of `goal.ts` runs to its end, so a handler is an action; what lies between them is pi's agent
loop, which is external and modelled from the events the extension subscribes to.

- `goal`, `lastContract`, `continuationWanted`, `wrapUpSent`, `wrapUpActive`, `waitTimer`, `runAutomatic`,
  `runToolAttempted`: the closure of `registerGoal`. `saved` is the last `goal-state` entry, from which a
  session start takes the goal; `shown` the last `goal-contract` message and `inContext` whether compaction
  left it where the model sees it.
- `loop`, `submitted`, `admitted`: the agent loop. A run begins with a prompt or with another extension's wake
  (`BeginsRun`), has turns (`TurnEnds`, `TakesAnotherTurn`, which may take up queued prompts), ends in one of
  the ways of `agent_end` (`WrapUpEnds` to `ProperlyEnds`), and then another run begins or the loop settles
  (`Settles`). The calls of a turn are let through before they run (`CallsTool`, then `Completes`, `Blocks`,
  `Waits`, `OtherRuns`), as pi does with a batch.
- The user: `Starts`, `ResumesWait`, `Resumes`, `Edits`, `Pauses`, `Clears`, `Speaks`. A confirmation is
  awaited before anything is read, so a command is one step, except in the menu (see the observations).
- `DeadlinePasses`, `Compacts`, `ShutsDown` (with or without its handler), `SessionStarts`.
- A goal is its id, status, wait, counts and whether its budget is spent, which `ExecutionEnds` may find at
  the end of any tool. A contract is the id of its goal, which is new whenever the objective changes.
- `unattended` and `adrift` are history: automatic turns since the user acted, and that the next move is
  somebody else's (pi's retry, queued guidance, the user after a restart or an edit during the wrap-up).
- Left out: branches of the session, the clock of usage, the texts, whether a tool's arguments are in order
  (a goal tool may be rejected at any time: `OtherRuns`).

## 3. Runs

Every run finishes in under three minutes with two workers. Deadlock checking is off: a broker
exits, a forwarding instance is done when all asks are, a session may be over, and the bounds of the
other modules run out.

| Run | Instance | Question |
|---|---|---|
| `broker_asks` | two sockets, two ids, an ask, a counter-ask and a reply that asks | ids under reconnects and refused frames; dead askers; mutual asks; replies; where cancels, supersedes and receipts go |
| `broker_retry` | a message and one that supersedes it, a mailbox of one and a record table of two | the broker implements `SentMessages` under retries after delivery, queueing, eviction, expiry and cancel, and its answers are true |
| `broker_mail` | three sockets, three ids, of which any may carry the name, one letter | who collects mail, and who never does |
| `broker_exit` | two scopes with the same ids and a name everybody may carry | isolation of scopes; the idle timer; exit of an abandoned broker |
| `forward_refine` | two asks for one kind of action, cancel, kill, shutdown | what files may hold; withdrawn asks; grants and shutdown; clean-up |
| `forward_crash` | one ask, everything that may happen | the files implement `ForwardedAsk` under kills and restarts between any two steps |
| `forward_lives` | two asks, one denied by a rule, kills, shutdown | every ask ends; the inbox drains |
| `ask_authority` | two tool calls and a subagent's ask, one link, every terminal, two session ids | the authority implements `AskRulings`; one live dialog; nobody is stranded; every ask ends |
| `peers` | one ask over two links; two messages of two peers, one of which asks, one call of the tool | order and number of what is shown, and nothing lost; asks stay owed; what is held is delivered; every blocking ask ends |
| `parts` | two asks, two links, one letter; two spawners, two brokers; one call with each of eleven profiles on three surfaces; one action, two reviews, a record of one denial; two goal ids, limits of two | one connection; no session stranded; `PeerAsk`; one broker; hard lines; current reviews; steering; one review per denial; goals go on, within their limit, under their contract |

`parts` and `peers` hold components that share no state: a behaviour picks one of them, and the others
stay as they start, so the run is the sum of the components' behaviours and not their product.

The runs that end in a violation show that the code does not do what a comment or a README says:

| Run | Text | What happens |
|---|---|---|
| `session_mail` | queued mail stays "until delivery or the existing 24-hour expiry" | mail in the chunk of the registered frame is emitted before the session listens to it |
| `auto_off` | off "leaves them to the permission system alone" | the link of a switched-off auto mode answers asks with allow |

Bounds. `MaxEpoch` bounds registrations (three or four: enough for a session to leave, return
and meet its own past). The caps of the tables are one or two, so that they are reached and
evict. `Events` names what time and the world may do in an instance, so that each run has the
hazards of its question; between them the passing runs take every action. Two requesters are
enough for the directory races, since a race has one that removes and one that creates. Ids,
sockets and asks are interchangeable where `SYMMETRY` is used, which is never with liveness;
`StateView` leaves out only `out`,
which no guard reads; `broker_exit` uses it with liveness, whose fairness and formula are about the
other variables (`futureVars`).

`ask_authority` has two asks for one kind, so that one may be granted what the other asks for, and one
for an excluded directory; three asks make a line with a middle. One link suffices, since a chain
remembers only its position. Its `StateView` forgets how a decided ask was decided and the terminal
of an ended chain, which no guard reads.

`peers` has one ask: what one needs to end does not depend on another (`Targeted` may find the slot taken at
any time). `parts` has two, for the slot. Two links let an attempt of a former session run beside a new
one; two generations are a start and an end or a replacement. A limit of one denial and two ids
make the limit bite; one restore makes ids of two branches meet. The eleven profiles bring each tier
of the handler, or the order of two tiers, into play. Two goal ids make an old contract meet a new goal; a limit
of two turns and one of two repetitions are reached, with turns before them. No run takes turns beyond the limit (`MaxTurns` is zero): it would
only count on. `PartsView` forgets what neither a step nor a
property looks at: how an ask ended, what a handler read before an await that is over, the marks of closed
denials, the counts of a goal that is not active; asks and links are interchangeable there (`PartsSymmetry`; no liveness).

Fairness. `FairSpec` of the broker: the idle timer fires and the retention of mail runs out;
sessions need do nothing. `FairSpec` of forwarding: a requester that can continue does (a local
poll loop), its deadline comes, the poll timer ticks and a drain goes on between awaits. Nothing
forces a session to serve, a human to answer or an announcement to stay fresh. `InboxDrains`
assumes in addition that the session stays and that dialogs are answered.
`FairSpec` of the authority: a link returns, a relayed ask ends (`EveryAskEnds` of forwarding), the
queue's callbacks run, and a person answers the dialog that is on the screen. Nobody need raise,
interrupt, activate or shut down.

`SessionFairness`: attempts, close events and timers happen, a dead connection is found out by the
heartbeat, and a request or a waiter times out; no peer has to answer and nothing has to be delivered.
`InboxFairness`: turns and runs end, and the interval of the held timer (every 100 ms while something is
held) meets, again and again, a moment in which the agent is idle, if there are infinitely many; this is
strong fairness of `HeldTick`, which a session that never comes to rest does not owe anybody.

Each property of a passing run has a mutant: a plausible bug (some are the upstream code that a
patch of this repository replaced) under which the run must find the property violated.

## 4. Proofs

Assumptions: `BrokerAssumption`, `SessionAssumption`, `InboxAssumption`, `SpawnAssumption`,
`ForwardingAssumption`, `AskAssumption`, `AutoAssumption`, `ProfileAssumption`, `LedgerAssumption`,
`GoalAssumption`; the abstract modules have none. They type the constants and keep the values that stand for
`null` apart from the others (`None` is also the code of a delivery that did not fail, hence it is neither a
delivery state nor `"E_TARGET_REBOUND"`). No bound on ids, sockets, messages, asks, links, brokers, caps, grace,
calls, actions, reviews or limits is used.

*Arrays.* The library's induction over sequences takes an operator, which the provers cannot instantiate.
`Maps!Filtered` therefore says `array.filter` without recursion, by the ranks of the kept indices, and
`MapLemmas` proves from the cardinalities of finite sets what the proofs need: every rank is taken once
(`RankInjective`, `RankSurjective`), a filtered array holds the kept elements once each (`FilteredSelects`)
and in their order (`FilteredThins`), and a nonempty set of indices has a least one (`LeastIndex`).

*Broker.* `BrokerInv` is the type with the caps, ownership (`SessionsOwnTheirSockets`, `ClosedHoldNoKey`),
`AskersAreLive`, `RoutesEndLive` and `NoMutualAsk`. Ownership is what makes the rest inductive: a close event
may remove edges and routes only of the session that its own connection holds, and `ClosedHoldNoKey` is needed
so that a socket that is used again starts with no session. `NoMutualAsk` needs the check against the *pruned*
edges, with the edge being answered taken out. One lemma per action (`ConnectStep` to `ElapseStep`), under
lemmas on how each table shrinks or grows. Theorems: `BrokerInvariant`, `TypeCorrect`, `Ownership`,
`LiveAskers`, `NoMutualWaiting`, `LiveRoutes`, `IncumbentStays` (by `SessionsStay`), and from the same
invariant `RepliesAnswerAsks`, `MailIdentity` and `ScopeIsolation`, the action properties of what is written
to a socket.

*Mail.* `MailInv` adds what the mailbox holds: nothing for a session that is here (`MailWaits`: a registration
collects by id, alias and name before anybody else acts), nothing across scopes, no replies, and nothing at
all once the idle timer may end the broker (`IdleExitIsSafe`).

*Retried sends.* `RetryInv` is an account per message (`Accounts`): its copies in the mailbox, its delivery
record and the histories of what was written and withdrawn agree. At most one copy waits (`NoTwins`), what
waits is recorded as queued and what is recorded so waits (`WaitingIsRecorded`, `RecordedIsWaiting`), what was
written was written once and is recorded as settled (`WrittenIsSettled`), what was withdrawn is recorded as
failed (`WithdrawnHasFailed`). `E_TARGET_REBOUND` is the one failure that lets a retry through, so the last
two exclude it, and it is recorded of nothing that waits. A record that pruning or a cap dropped (`lost`) is a
gap in the accounts: nothing is claimed of such a message, as the code can promise nothing then. Each handler
is shown to keep the accounts for the tables it passes on, not only for the state it ends in. From it:
`NeverTwice`, `QueuedIsTrue`, `WithdrawnIsNotWritten`.

*The broker implements SentMessages.* The accounts alone say what goes together in a state, not which state
follows which. `FateSteps` does: in one step the record of a remembered message stays, is given up (expiry,
eviction), is handled, collected, taken back or retracted, and only what was written is counted. One lemma
per handler shows it (`FateExpiry` to `FateRegister`, together `FateNext`); pruning, expiry and room for a
new entry compose, since two thinnings are one (`ThinnedTrans`). `FateMoves` reads each of these as a step
of `SentMessages`, and `FateInvariant` keeps what the reading needs beside the accounts: every message is in
one of its states (so a failure of another kind than the code knows, or a copy beside a failure, does not
arise) and what was withdrawn was never written. Then `SentRefinement`. A registration or an expiry moves
many messages at once, so a step of `SentMessages` is one per message.

*What follows a message.* `ControlFollows`: a receipt route that survives a step ends before and after it at
one connection (`RoutesEndLive` and `SessionsStay`; `UpSteps` for the exit, where that invariant stops), and
the accounts (`RoutesWereWritten`) say that the message of a cancel, a supersede or a receipt was written.
So none of them meets a later session under the same id.

*What senders are told.* `AnswersHold`: the first answer to a send, the answer to a retry and the answer to a
cancel each tell what has become of the message by the end of the step. Only sends and cancels answer
(`AnsweringSteps`). What they say is what the record of the message says then: `recordDelivery` has just
written it (`HandledSays`), a retry reads one that outlived the pruning (`ReplayedSays`), and a cancel that
reports success found mail, or a route, and by the accounts each of these has a record to mark
(`CancelledSays`). `FateInvariant` turns what the record says into the fate (`RecordsStand`). A refusal that is
not recorded (`E_MUTUAL_ASK`, `E_REPLY_TARGET` and the like) and a cancel that is turned down promise nothing.

*Session.* `SessionInv` has a half about links and one about asks. Links: the client was installed and has not
said that it is closed (`ClientWasInstalled`), no link is of a later generation (`NoneIsBornLater`), and the
one attempt of this generation is the one in progress (`AttemptIsCurrent`): a restart while an attempt spawns
leaves that attempt to a generation whose result nobody takes. `OneLinkIsUp` and `SessionsReconnect` are
conjuncts. Asks: a call awaits an answer of a link (`CallsAwaitLinks`), and nothing is on the wire for an ask
nobody made (`AskersWrite`). The second half carries `PeerAskRefinement`: a call is `Call`, a frame that
reaches the peer `Deliver`, its reply `Reply`, whatever ends calls is `Fail` of the set of asks it ends (one
for a time-out, all that wait on it for a link, all for a shutdown).

*Inbox.* `InboxInv`: places in the order of arrival are given out upwards (`PlacesGrow`), to what has come
(`OnlyTheSeen`), and what is held came after all that was shown (`HeldCameLater`); a reply is about a message
(`RepliesAreAbout`). The timer, the start of a run and the end of a turn all move a prefix of `held` to the
end of `shown` (`HeldAdvances`, `AdvanceKeeps`); a withdrawal thins `held`. From it: `AsksAreOwed`, and with
`NothingGetsLost` (a prefix that leaves `held` is in `shown`, `AdvanceLosesNothing`; `Drop` takes out only what
it is told, `DropLeaves`) `OrderIsKept`.

*Spawn.* `SpawnInv` says `Timely` until something is upset: the holder of the lock is inside
(`HolderIsInside`), a broker that starts is awaited by it and none serves then (`StartingIsAwaited`), the one
that serves has the socket and the pid file (`ServingIsKnown`), and there is one such process (`OnePast`).
From it: `OneBrokerServes`. Nothing is claimed once a process was too slow or ended half-way; section 6 says
what happens then.

*Forwarding.* `ForwardInv` adds to the type where responses and replies come from (`HonestFiles`,
`HonestReplies`, `HonestDrain`: each is the translation of a ruling on the very ask), where request files may
lie (`RequestsAreOpen`), that only a cancellation settles an ask before its requester returns
(`OnlyCancelled`), and `GrantsEndWithTheSession`, which needs that a drain awaits a human only while the
session serves. From it: `TypeCorrect`, `GrantsEnd`, `WithdrawnStaysUnserved` (a drain reaches only asks whose
file is there), `Refinement` (each step of a requester is `Report`, `GiveUp` or invisible, each step of the
server `Rule`, `EndSession` or invisible) and `SettledAsksStay`, which follows from the step lemmas of the
refinement. `CleanupIsDue` is why the directories go: while one exists, a requester or the drain will still
look at it, or was killed on the way; a cleanup that finds a request leaves it to the requester of that
request (`RequestsAreUsed`). From it `LastOneOut`, for `Events` without `"crash"`: a serving process that is
killed in its drain leaves the directories to the next drain, so no step of it is due.

*Authority.* `AskInv` adds to the type that the line holds asks whose chain is at the dialogs, each once
(`LineIsSound`), that only its head is on the screen (`FirstIsShown`), that asks are open only in a session
(`OpenInSession`) and that asks not yet raised have no chain (`NewHaveNoChain`: else raising one could put it
in line twice). `NoTwoDialogs` is a consequence of `FirstIsShown`; `DialogsLive` and `NobodyStranded` are
conjuncts. The lemmas are grouped by what a step does to the line: append (`RaiseSteps`, `LinkSteps`), drop
the head (`FirstInLineSteps`), end outside the line (`OutOfLineSteps`), cancel (`Cancelled`, `SessionSteps`).
`Refinement` maps the end of a chain to `Rule` when the ask is open, which `OpenInSession` puts in a session,
and to a stutter otherwise.

*Auto mode.* `AutoInv` is the type with `LinesAreHeld` (the stages a call reaches past the hard lines have
none; a confirmation has passed the first of them only, which is why the pre-pass is what holds the others
there), `UnparsedIsReviewed` (an unparsed command never reaches classifier or prompt, whose answers no review
covers) and `ReceiptsAreCurrent` (a receipt that matches the present input is for the last review;
instructions and session starts remove all). From it: `HardLinesAreHeld`, `PassesAreShown`,
`SteeringDeniesNothing`. The tiers are lemmas (`BeyondTheLines`, `HandledTheLines`), the actions are grouped
by who acts: `HandlerKeeps`, `AnswersKeep`, `MovesKeep`, `HostKeeps`.

*Ledger.* `LedgerInv` is the type with `RecordsAreOrdered` (ids fall along the record, so an id names one
denial), `ReviewsAreClaims` (the denial of a review that is shown is claimed wherever it is) and
`SettledIsClosed` (what was settled is open for no further review). `OneReviewPerDenial` needs that ids are
not used again within an epoch, hence `nextId`; `ReviewsApproveWhatTheyShow` needs `SettledIsClosed`, since a
declined denial stays open in the record. `RemarkKeeps` serves every action that only changes marks.

*Goal mode.* `GoalInv` is the type with five parts. `CountsHold`: the counts of the goal *and of its saved
copy* cover what was done unattended, since a restart goes on from the copy. `SomeoneGoesOn`: while an active
goal does not wait, a run is on, something is submitted, or the loop is about to settle with a continuation
wanted. `DeadlinesAreArmed`: a deadline has its timer. `SavedIsCurrent`: a copy that a restart would take up
is of the goal that is active now. `ContractsAreTracked`: what was announced last, as the extension remembers
it, is what the transcript shows last, and that of an active goal is in sight. One lemma per action
(`StartsKeeps` to `SessionStartsKeeps`). From it: `ActiveGoalsGoOn`, `UnattendedIsBounded` (only `Settles` and
`DeadlinePasses` ask for a run, and both look at the count) and `RunsSeeTheirContract`.

*Only model-checked.* Liveness (`AbandonedBrokerExits`, both `EveryAskEnds`, `InboxDrains`,
`EveryPeerAskEnds`, `HeldIsDelivered`) is out of the prover's reach and rests on the runs; every other
property of a passing run is stated by a theorem. `RoutesEndLive`, `SessionsOwnTheirSockets`,
`AtMostOnce` and `QueuedMeansInMailbox` (parts of what `ImplementsSentMessages` says), `SettledStaysSettled`,
`DialogsAreLive` and the types of all modules but the broker are proved and not run any more: their theorems
cover the instances.

## 5. Not modelled

- *Bash access analysis, permission policy*: pure functions from strings; their result is any verdict of
  the models. A bounded set of strings would show less than their tests.
- *Configuration*: files that are read and merged; the models take the result as a constant, or let it
  change at any time where a command changes it.
- *The classifier*: its verdict is any verdict or a failure.
- *Framing*: arithmetic on bytes; its effect, several frames in one chunk or a refused one, is modelled.
- *Claude transport*: the other side is a program outside the repository.
- *Background, btw, todo, ask, editor, minimap, voice, notify*: apart from the core, driven by one user
  or by the host's agent loop, which is not in the repository.
- *Rendering, provider data, packaging, patches of other projects*.

Within modelled components: a session id that changes in place while it serves, unreadable files,
completion and handover, presence, folder scopes and directory approvals. Components are composed by
their contracts (`ParentAnswers` of `AskAuthority` allows what `ForwardedAsk` does; the broker of
`IntercomSession` may do what `IntercomBroker` does and more), not as a product, whose states TLC cannot
enumerate at bounds that mean something.

## 6. Observations

What modelling showed beside the two violations; no run is about these.

- `broker.ts:845`: mail for a session under a fallback alias is flushed to a session that chose the
  same string as its name in the same directory (compare the comment at `broker.ts:926`).
- `broker.ts:492`: a retried reply that was delivered is refused with `E_REPLY_TARGET`: its ask edge, which
  the delivery removed, is looked at before the delivery record.
- `broker.ts:225`: a broker nobody ever registers with arms no idle timer.
- `spawn.ts:236`, `:267`: the lock is removed by name, so a lock that was judged stale and taken over, or a
  broker slower than five seconds, may let two brokers serve, with one socket path.
- `runtime.ts:811`: of two asks that both found the slot free the later takes it; the earlier waits for
  its time-out. So does a waiter whose `send` threw, and a signal aborted before `waitFor` listens.
- `runtime.ts:566`: an ask that is answered while it is held stays held and becomes `current` later.
- `approval-escalator.ts:450`: an ask already with the human is answered after its requester gave up; the
  response stays and keeps `responses/`.
- `forwarding-io.ts:420`: a clean-up between its two removals takes `responses/` from under a new request;
  the ruling on it cannot be written and the request is put to the human again.
- `index.ts:141`: an instruction that clears the scopes does not reach a `scopedApproval` the handler read
  before it awaited the classifier.
- `approval-request.ts:29`: `eligible` looks at the response of the denial it is asked about and never at
  `wasRejected`: when one action was denied twice (a time-out, then by the user) `ask_for_approval` on the
  earlier denial puts the declined action to the user again (compare `pi-permissions/README.md:118`).
- `denials.ts:237`: `rememberScope` after a review leaves the action among the rejected, so the retry it
  allows is stopped at the gate.
- `goal.ts:506`, `:475`: neither `edit` nor `resume` resets `wrapUpSent`, so a budget that was raised after it ran out
  is not enforced a second time; the budget is looked at only when a tool ends (compare `tools/README.md:140`).
- `goal.ts:506`: a goal that is edited while it wraps up is active under `wrapUpActive`: its tools are blocked, and
  the end of the run neither continues it nor stops it.
- `goal.ts:280`: `sendGoalPrompt` forgets the contract, so a goal that is paused or cleared before that prompt runs
  leaves its active contract the last of the transcript (compare `goal.ts:10`).
- `goal.ts:742`: after an error that pi retries in vain the goal stays active and nobody works on it.
- `goal.ts:546`, `:554`: the menu reads the goal again after its dialog, when `goal_complete` may have removed it.
