--------------------------- MODULE IntercomBroker ---------------------------
(***************************************************************************)
(* The intercom broker of pi-custom: one process that every pi session of  *)
(* a user connects to.  It keeps the roster, routes messages and asks,     *)
(* queues mail for sessions that have left and answers retried sends from  *)
(* its delivery records (src/intercom/broker/broker.ts).                   *)
(*                                                                         *)
(* The handlers are synchronous, so one frame is one action.  A frame is   *)
(* abstracted to what routing depends on.  Retention times are abstracted  *)
(* by an "old" mark: Elapse marks an entry whose retention has run out and *)
(* the prune calls of the handlers drop the marked entries where the code  *)
(* calls them.                                                             *)
(***************************************************************************)
EXTENDS Naturals, Sequences, FiniteSets, Maps

CONSTANTS
  Sockets,        \* connections; one is reused only after its close event
  Scopes,         \* the scopeId values in use (undefined is one of them)
  Ids,            \* session ids
  Names,          \* explicit or alias names, lower-cased
  Cwds,           \* session directories
  NoName,         \* info.name is undefined
  Prefixes,       \* <<address, id>>: the address is a proper prefix of the id
  Messages,       \* the send frames: [id, by, to, replyTo, supersedes, expectsReply]
  NoMsg,          \* replyTo / supersedes is undefined
  None,           \* no session key, no target, no frame
  MaxSessions, MaxUnregistered, MaxMailbox, MaxRecords,  \* the MAX_* caps
  MaxEpoch,       \* bound: registrations in a behaviour
  Events          \* bound: what time and the world may do: see Elapse, FrameRejected, Terminate

Keys == Scopes \X Ids
MsgIds == {m.id : m \in Messages}
Addresses == Ids \cup Names \cup {p[1] : p \in Prefixes}
RecKeys == Keys \X MsgIds
Scope(k) == k[1]

ASSUME BrokerAssumption ==
  /\ None \notin Keys /\ None \notin Sockets /\ None \notin Ids
  /\ None \notin {"E_TARGET_REBOUND", "socket_delivered", "queued", "delivered"}      \* null
  /\ NoMsg \notin MsgIds
  /\ NoName \notin Names
  /\ \A m \in Messages : /\ m.by \in Keys /\ m.to \in Addresses
                         /\ m.replyTo \in MsgIds \cup {NoMsg}
                         /\ m.supersedes \in MsgIds \cup {NoMsg}
                         /\ m.expectsReply \in BOOLEAN
                         /\ m.replyTo # m.id /\ m.supersedes # m.id
  /\ MaxSessions \in Nat /\ MaxUnregistered \in Nat \ {0}
  /\ MaxMailbox \in Nat \ {0} /\ MaxRecords \in Nat \ {0}
  /\ MaxEpoch \in Nat

VARIABLES
  \* per connection (the closure of handleConnection)
  conn,           \* [state, key]; "closing" is destroyed with its close event to come
  unregistered,   \* unregisteredConnections, oldest first
  \* the IntercomBroker object
  sessions, gone, askEdges, routes, mailbox, records,
  timer,          \* shutdownTimer: off, or armed while others remained / while idle
  mode,           \* up, or exited on the idle timer / on a signal
  epoch,          \* endpoint epochs handed out (randomUUID)
  \* observation: the frames the last step wrote, and the history of deliveries
  out,            \* [acks, sent]
  copies,         \* how often each message was written to a receiver (2 = more than once)
  lost,           \* record keys whose delivery record was pruned or evicted
  withdrawn       \* record keys cancelled while still queued

connVars == <<conn, unregistered>>
rosterVars == <<sessions, gone, epoch>>
mailVars == <<mailbox, records, copies, lost, withdrawn>>
vars == <<conn, unregistered, sessions, gone, askEdges, routes, mailbox, records,
          timer, mode, epoch, out, copies, lost, withdrawn>>

\* an acknowledgement: the record key of the message, and its delivery state or failure code
Ack(k, says) == [about |-> k, says |-> says]
Quiet == [acks |-> {}, sent |-> {}]
Acked(k, says) == [acks |-> {Ack(k, says)}, sent |-> {}]

-----------------------------------------------------------------------------
(* Retention: prune*() drops what is past its retention time.              *)

Fresh(f) == [x \in {y \in DOMAIN f : ~f[y].old} |-> f[x]]
FreshMail == Filtered(mailbox, {i \in DOMAIN mailbox : ~mailbox[i].old})
ExpiredMail == {mailbox[i] : i \in {j \in DOMAIN mailbox : mailbox[j].old}}
RecKey(e) == <<e.from, e.msg.id>>

\* updateDeliveryRecord: change the outcome of records that still exist
Updated(recs, S, state, code) ==
  [k \in DOMAIN recs |->
     IF k \in S THEN [recs[k] EXCEPT !.state = state, !.code = code] ELSE recs[k]]

\* pruneMailboxMessages on the three maps it touches
ExpiryUnrecorded(recs) == recs                         \* mutant: expired mail still reads "queued"
AfterExpiry(recs) == Updated(recs, {RecKey(e) : e \in ExpiredMail}, "failed", "E_DELIVERY_EXPIRED")
WithoutMail(f, E) == Without(f, {e.msg.id : e \in E})
WithoutAsks(f, E) == Without(f, {e.msg.id : e \in {x \in E : x.msg.expectsReply}})

-----------------------------------------------------------------------------
(* Addressing.                                                             *)

\* mutant: names and prefixes are looked up in every scope
TargetsAnywhere(pool, to, scope) ==
  LET byId == {k \in DOMAIN pool : Scope(k) = scope /\ k[2] = to}
      byName == {k \in DOMAIN pool : pool[k].name = to}
      byPrefix == {k \in DOMAIN pool : <<to, k[2]>> \in Prefixes}
  IN IF byId # {} THEN byId ELSE IF byName # {} THEN byName ELSE byPrefix

\* resolveTarget: exact id, else name, else id prefix, all within the scope
Targets(pool, to, scope) ==
  LET inScope == {k \in DOMAIN pool : Scope(k) = scope}
      byId == {k \in inScope : k[2] = to}
      byName == {k \in inScope : pool[k].name = to}
      byPrefix == {k \in inScope : <<to, k[2]>> \in Prefixes}
  IN IF byId # {} THEN byId ELSE IF byName # {} THEN byName ELSE byPrefix

\* mutant: an alias shares the mailbox of the name
SharingAnyName(live, k, info) ==
  IF info.name = NoName THEN {}
  ELSE {l \in DOMAIN live : /\ Scope(l) = Scope(k)
                            /\ live[l].name = info.name
                            /\ live[l].cwd = info.cwd}

\* findLiveSessionsSharingMailboxIdentity: explicit name and directory, never an alias
SharingMailbox(live, k, info) ==
  IF info.name = NoName \/ info.alias THEN {}
  ELSE {l \in DOMAIN live : /\ Scope(l) = Scope(k)
                            /\ ~live[l].alias
                            /\ live[l].name = info.name
                            /\ live[l].cwd = info.cwd}

\* findUniqueLiveSessionForDisconnectedSession
Successors(k, sender) == SharingMailbox(sessions, k, gone[k]) \ {sender}

\* matches.length === 1, and matches[0]
Single(S) == \E x \in S : S = {x}
TheOne(S) == CHOOSE x \in S : S = {x}

Info(s) == [name |-> s.name, cwd |-> s.cwd, alias |-> s.alias]
Remembered(s) == [name |-> s.name, cwd |-> s.cwd, alias |-> s.alias, old |-> FALSE]
Connected(s, info, ep) ==
  [socket |-> s, name |-> info.name, cwd |-> info.cwd, alias |-> info.alias, epoch |-> ep]

-----------------------------------------------------------------------------
(* Observation of what a step writes.                                      *)

Frame(type, from, to, m, via) ==
  [type |-> type, from |-> from, to |-> to, msg |-> m, via |-> via]

\* these record keys were written to a receiver once more
Counted(ks) ==
  [k \in RecKeys |->
     LET n == copies[k] + Cardinality({i \in DOMAIN ks : ks[i] = k}) IN IF n > 2 THEN 2 ELSE n]

Dropped(recs) == {k \in DOMAIN recs : recs[k].old}

-----------------------------------------------------------------------------
(* Connections and the roster.                                             *)

\* armRegistrationTimeout: s waits to register, the oldest waiter over the cap is destroyed
Registered(s) == Filtered(unregistered, {i \in DOMAIN unregistered : unregistered[i] # s})
Waiting(s) == Append(Registered(s), s)
Armed(c, s) ==
  LET w == Waiting(s)
  IN IF Len(w) > MaxUnregistered THEN [c EXCEPT ![Head(w)].state = "closing"] ELSE c
UncappedQueue(s) == Waiting(s)                         \* mutant: nobody is evicted
ArmedQueue(s) == IF Len(Waiting(s)) > MaxUnregistered THEN Tail(Waiting(s)) ELSE Waiting(s)

\* scheduleShutdownCheck: a timer that is armed is left as it is
Scheduled(live) == IF timer # "off" THEN timer ELSE IF live = {} THEN "idle" ELSE "early"

EdgesKept(k) == {}                                     \* mutant: upstream, which cleared none
EdgesFrom(k) == {i \in DOMAIN askEdges : askEdges[i].from = k}
\* mutant: the routes to the session that leaves stay
RoutesFrom(k) == {i \in DOMAIN routes : routes[i].from = k}
RoutesOf(k) == {i \in DOMAIN routes : k \in {routes[i].from, routes[i].to}}

\* removeSession: the session stays addressable for mail; only the asks it made go
RemoveSession(k) ==
  /\ gone' = Put(Fresh(gone), k, Remembered(sessions[k]))
  /\ sessions' = Without(sessions, {k})
  /\ routes' = Without(routes, RoutesOf(k))
  /\ askEdges' = Without(askEdges, EdgesFrom(k))
  /\ timer' = Scheduled(DOMAIN sessions \ {k})

Connect(s) ==
  /\ mode = "up"
  /\ conn[s].state = "none"
  /\ conn' = Armed([conn EXCEPT ![s] = [state |-> "open", key |-> None]], s)
  /\ unregistered' = ArmedQueue(s)
  /\ out' = Quiet
  /\ UNCHANGED <<rosterVars, mailVars, askEdges, routes, timer, mode>>

\* the registration timer: only a connection that is still unregistered is destroyed
RegistrationTimeout(s) ==
  /\ mode = "up" /\ "destroy" \in Events
  /\ conn[s].state = "open" /\ conn[s].key = None
  /\ conn' = [conn EXCEPT ![s].state = "closing"]
  /\ out' = Quiet
  /\ UNCHANGED <<unregistered, rosterVars, mailVars, askEdges, routes, timer, mode>>

\* a frame over the rate limit, a frame the handler throws on, or a framing error
FrameRejected(s) ==
  /\ mode = "up" /\ "destroy" \in Events
  /\ conn[s].state = "open"
  /\ conn' = [conn EXCEPT ![s].state = "closing"]
  /\ out' = Quiet
  /\ UNCHANGED <<unregistered, rosterVars, mailVars, askEdges, routes, timer, mode>>

\* the close event: after a destroy, or because the peer has gone
Close(s) ==
  /\ mode = "up"
  /\ conn[s].state # "none"
  /\ conn' = [conn EXCEPT ![s] = [state |-> "none", key |-> None]]
  /\ unregistered' = Registered(s)
  /\ out' = Quiet
  /\ IF conn[s].key # None /\ sessions[conn[s].key].socket = s
     THEN RemoveSession(conn[s].key)
     ELSE UNCHANGED <<sessions, gone, routes, askEdges, timer>>
  /\ UNCHANGED <<epoch, mailVars, mode>>

Unregister(s) ==
  /\ mode = "up"
  /\ conn[s].state = "open" /\ conn[s].key # None
  /\ RemoveSession(conn[s].key)
  /\ conn' = Armed([conn EXCEPT ![s].key = None], s)
  /\ unregistered' = ArmedQueue(s)
  /\ out' = Quiet
  /\ UNCHANGED <<epoch, mailVars, mode>>

\* handlePresence: name and alias are what routing depends on
Presence(s, name, alias) ==
  /\ mode = "up"
  /\ conn[s].state = "open" /\ conn[s].key # None
  /\ sessions' = [sessions EXCEPT ![conn[s].key].name = name, ![conn[s].key].alias = alias]
  /\ out' = Quiet
  /\ UNCHANGED <<connVars, gone, epoch, mailVars, askEdges, routes, timer, mode>>

-----------------------------------------------------------------------------
(* Registration and the mailbox flush.                                     *)

\* mutant: only the unique name collects mail
ClaimsByName(k, live, e) ==
  /\ Scope(e.to) = Scope(k) /\ live[k].name # NoName
  /\ e.toInfo.name = live[k].name /\ e.toInfo.cwd = live[k].cwd

\* flushMailboxForSession: mail for this id, or for its mailbox identity when it is
\* the only live session with it, and never its own mail come back
Claims(k, live, e) ==
  LET me == live[k]
      named == me.name # NoName
      ownMail == named /\ Scope(e.from) = Scope(k)
                 /\ e.fromInfo.name = me.name /\ e.fromInfo.cwd = me.cwd
      unique == Single(SharingMailbox(live, k, Info(me)))
  IN /\ Scope(e.to) = Scope(k)
     /\ \/ e.to = k
        \/ unique /\ named /\ ~ownMail /\ e.toInfo.name = me.name /\ e.toInfo.cwd = me.cwd

NeverHeld(k) == FALSE                                  \* mutant: upstream, which evicted the incumbent
HeldByLive(k) == k \in DOMAIN sessions

RegisterRefused(s, k) ==
  /\ mode = "up"
  /\ conn[s].state = "open" /\ conn[s].key = None
  /\ HeldByLive(k) \/ Cardinality(DOMAIN sessions) >= MaxSessions
  /\ conn' = [conn EXCEPT ![s].state = "closing"]
  /\ gone' = Fresh(gone)
  /\ mailbox' = FreshMail
  /\ records' = AfterExpiry(records)
  /\ routes' = WithoutMail(routes, ExpiredMail)
  /\ askEdges' = WithoutAsks(askEdges, ExpiredMail)
  /\ out' = Quiet
  /\ UNCHANGED <<unregistered, sessions, epoch, timer, mode, copies, lost, withdrawn>>

Register(s, k, info) ==
  LET live == Put(sessions, k, Connected(s, info, epoch + 1))
      takes == {i \in DOMAIN FreshMail : Claims(k, live, FreshMail[i])}
      claimed == Filtered(FreshMail, takes)
      Took == {claimed[i] : i \in DOMAIN claimed}
      flushedKeys == [i \in DOMAIN claimed |-> RecKey(claimed[i])]
      kept == WithoutMail(routes, ExpiredMail)
  IN
  /\ mode = "up" /\ epoch < MaxEpoch
  /\ conn[s].state = "open" /\ conn[s].key = None
  /\ ~HeldByLive(k) /\ Cardinality(DOMAIN sessions) < MaxSessions
  /\ conn' = [conn EXCEPT ![s].key = k]
  /\ unregistered' = Registered(s)
  /\ sessions' = live
  /\ gone' = Without(Fresh(gone), {k})
  /\ epoch' = epoch + 1
  /\ timer' = "off"
  /\ mailbox' = Filtered(FreshMail, DOMAIN FreshMail \ takes)
  /\ routes' = [i \in DOMAIN kept \cup {e.msg.id : e \in Took} |->
                  IF \E e \in Took : e.msg.id = i
                  THEN [from |-> (CHOOSE e \in Took : e.msg.id = i).from, to |-> k, old |-> FALSE]
                  ELSE kept[i]]
  /\ askEdges' = WithoutAsks(askEdges, ExpiredMail)
  /\ records' = Updated(AfterExpiry(records), {RecKey(e) : e \in Took}, "socket_delivered", None)
  /\ copies' = Counted(flushedKeys)
  /\ out' = [acks |-> {},
             sent |-> {Frame("message", e.from, k, e.msg, e) : e \in Took}]
  /\ UNCHANGED <<mode, lost, withdrawn>>

-----------------------------------------------------------------------------
(* Sending.  Verdict is the order of handleSend's early returns; each      *)
(* action below is one of the ways out.                                    *)

\* messageDeliveryFingerprint: the authored content and the target's id
Fingerprint(m, id) == <<m, id>>
ReplyEdge(m) == m.replyTo # NoMsg /\ m.replyTo \in DOMAIN Fresh(askEdges)
Unanswered(m) == {}                                    \* mutant: the answered edge stays
Answered(m) == {m.replyTo}
Matches(m, me, k) == LET e == askEdges[m.replyTo] IN e.to = me /\ e.from = k

\* mutant: every failure may be tried again
ReplaySuccess(m, me, id) ==
  LET recs == Fresh(records)
  IN IF <<me, m.id>> \in DOMAIN recs /\ recs[<<me, m.id>>].state # "failed"
     THEN "replay" ELSE "fresh"
\* replayOrReject: a retry is answered from the record; a rebound is retried on purpose
Replay(m, me, id) ==
  LET recs == Fresh(records)
  IN IF <<me, m.id>> \notin DOMAIN recs THEN "fresh"
     ELSE IF recs[<<me, m.id>>].print # Fingerprint(m, id) THEN "E_MESSAGE_ID_REUSE"
     ELSE IF recs[<<me, m.id>>].code = "E_TARGET_REBOUND" THEN "fresh"
     ELSE "replay"

\* mutant: looks for the same ask again instead of the opposite one
ReverseSwapped(m, me, k) ==
  LET edges == Fresh(askEdges)
  IN \E i \in DOMAIN edges \ {m.replyTo} : edges[i].from = me /\ edges[i].to = k
\* the reverse edge: the target already waits for this sender, on an ask not answered here
Reverse(m, me, k) ==
  LET edges == Fresh(askEdges)
  IN \E i \in DOMAIN edges \ {m.replyTo} : edges[i].from = k /\ edges[i].to = me

\* handleSend to one live session
LiveVerdict(m, me, k) ==
  LET rts == Fresh(routes)
      badSupersede == m.supersedes # NoMsg
                      /\ ~(m.supersedes \in DOMAIN rts /\ rts[m.supersedes].from = me
                           /\ rts[m.supersedes].to = k)
  IN IF m.replyTo # NoMsg /\ ~ReplyEdge(m) THEN "E_REPLY_TARGET"
     ELSE IF Replay(m, me, k[2]) # "fresh" THEN Replay(m, me, k[2])
     ELSE IF badSupersede THEN "E_SUPERSEDE_TARGET"
     ELSE IF m.replyTo # NoMsg /\ ~Matches(m, me, k) THEN "E_REPLY_TARGET"
     ELSE IF m.expectsReply /\ Reverse(m, me, k) THEN "E_MUTUAL_ASK"
     ELSE "deliver"

\* handleSend to one session that has left
GoneVerdict(m, me, k) ==
  IF m.replyTo # NoMsg /\ ~ReplyEdge(m) THEN "E_REPLY_TARGET"
  ELSE IF Replay(m, me, k[2]) # "fresh" THEN Replay(m, me, k[2])
  ELSE IF m.supersedes # NoMsg THEN "E_SUPERSEDE_TARGET"
  ELSE IF m.replyTo # NoMsg /\ ~Matches(m, me, k) THEN "E_REPLY_TARGET"
  ELSE IF m.expectsReply THEN "E_TARGET_DISCONNECTED"
  ELSE IF Single(Successors(k, me)) THEN "relog" ELSE "queue"

\* the recorded failures of an exact send
ExactVerdict(m, me, id, ep) ==
  LET k == <<Scope(me), id>>
  IN IF Replay(m, me, id) # "fresh" THEN Replay(m, me, id)
     ELSE IF k \notin DOMAIN sessions THEN "exact_not_found"
     ELSE IF sessions[k].epoch # ep THEN "exact_rebound"
     ELSE LiveVerdict(m, me, k)

\* ep = 0 is a send without targetId and targetEpoch
Verdict(m, me, to, ep) ==
  LET live == Targets(sessions, to, Scope(me))
      left == Targets(Fresh(gone), to, Scope(me))
  IN IF ep # 0 THEN ExactVerdict(m, me, to, ep)
     ELSE IF Single(live) THEN LiveVerdict(m, me, TheOne(live))
     ELSE IF live # {} THEN "E_AMBIGUOUS_TARGET"
     ELSE IF Single(left) THEN GoneVerdict(m, me, TheOne(left))
     ELSE IF left # {} THEN "E_AMBIGUOUS_TARGET"
     ELSE "E_TARGET_NOT_FOUND"

Refusals == {"E_REPLY_TARGET", "E_MESSAGE_ID_REUSE", "E_SUPERSEDE_TARGET", "E_MUTUAL_ASK",
             "E_TARGET_DISCONNECTED", "E_AMBIGUOUS_TARGET", "E_TARGET_NOT_FOUND"}

\* recordDelivery: prune, make room (the oldest first, any record here), set
Recorded(recs, victims, me, m, id, state, code) ==
  Put(Without(recs, victims), <<me, m.id>>,
      [print |-> Fingerprint(m, id), state |-> state, code |-> code, old |-> FALSE])
Room(recs) ==
  {v \in SUBSET DOMAIN recs :
     Cardinality(v) = IF Cardinality(DOMAIN recs) < MaxRecords THEN 0
                      ELSE Cardinality(DOMAIN recs) + 1 - MaxRecords}

Sends(s, m) ==
  /\ mode = "up"
  /\ conn[s].state = "open" /\ conn[s].key # None
  /\ m.by = conn[s].key

\* findDisconnectedSessions prunes, and only runs when no live session matched
GoneAfterLookup(me, to, ep) ==
  IF ep = 0 /\ Targets(sessions, to, Scope(me)) = {} THEN Fresh(gone) ELSE gone

\* the refusal came after replayOrReject, which has pruned the records
ReachesReplay(m, ep, v) ==
  \/ ep # 0
  \/ v \notin {"E_AMBIGUOUS_TARGET", "E_TARGET_NOT_FOUND"} /\ (m.replyTo = NoMsg \/ ReplyEdge(m))

SendRefused(s, m, to, ep) ==
  LET v == Verdict(m, m.by, to, ep) IN
  /\ Sends(s, m)
  /\ v \in Refusals
  /\ askEdges' = Fresh(askEdges)
  /\ routes' = Fresh(routes)
  /\ gone' = GoneAfterLookup(m.by, to, ep)
  /\ IF ReachesReplay(m, ep, v)
     THEN records' = Fresh(records) /\ lost' = lost \cup Dropped(records)
     ELSE UNCHANGED <<records, lost>>
  /\ out' = Acked(<<m.by, m.id>>, v)
  /\ UNCHANGED <<connVars, sessions, epoch, mailbox, copies, withdrawn, timer, mode>>

\* mutant: no failure is told to a retry
OutcomeSuccess(r) == IF r.state = "failed" THEN "socket_delivered" ELSE r.state
Outcome(r) == IF r.state = "failed" THEN r.code ELSE r.state

\* the earlier outcome again, whatever it was
SendReplayed(s, m, to, ep) ==
  /\ Sends(s, m)
  /\ Verdict(m, m.by, to, ep) = "replay"
  /\ askEdges' = Fresh(askEdges)
  /\ routes' = Fresh(routes)
  /\ gone' = GoneAfterLookup(m.by, to, ep)
  /\ records' = Fresh(records)
  /\ lost' = lost \cup Dropped(records)
  /\ out' = Acked(<<m.by, m.id>>, Outcome(records[<<m.by, m.id>>]))
  /\ UNCHANGED <<connVars, sessions, epoch, mailbox, copies, withdrawn, timer, mode>>

\* an exact send whose target has gone or has re-registered: refused and recorded
SendExactFailed(s, m, to, ep) ==
  LET v == Verdict(m, m.by, to, ep)
      code == IF v = "exact_rebound" THEN "E_TARGET_REBOUND" ELSE "E_TARGET_NOT_FOUND"
  IN
  /\ Sends(s, m)
  /\ v \in {"exact_not_found", "exact_rebound"}
  /\ askEdges' = Fresh(askEdges)
  /\ routes' = Fresh(routes)
  /\ \E victims \in Room(Fresh(records)) :
       /\ records' = Recorded(Fresh(records), victims, m.by, m, to, "failed", code)
       /\ lost' = lost \cup Dropped(records) \cup victims
  /\ out' = Acked(<<m.by, m.id>>, code)
  /\ UNCHANGED <<connVars, sessions, gone, epoch, mailbox, copies, withdrawn, timer, mode>>

\* written to the one live target
SendDelivered(s, m, to, ep) ==
  LET me == m.by
      k == TheOne(Targets(sessions, to, Scope(me)))
      asked == IF m.expectsReply
               THEN Put(Fresh(askEdges), m.id, [from |-> me, to |-> k, old |-> FALSE])
               ELSE Fresh(askEdges)
      superseded == Updated(Fresh(records), {<<me, m.supersedes>>}, "failed", "E_DELIVERY_SUPERSEDED")
  IN
  /\ Sends(s, m)
  /\ Verdict(m, me, to, ep) = "deliver"
  /\ askEdges' = Without(asked, Answered(m))
  /\ routes' = Put(Fresh(routes), m.id, [from |-> me, to |-> k, old |-> FALSE])
  /\ \E victims \in Room(superseded) :
       /\ records' = Recorded(superseded, victims, me, m, k[2], "socket_delivered", None)
       /\ lost' = lost \cup Dropped(records) \cup victims
  /\ copies' = Counted(<< <<me, m.id>> >>)
  /\ out' = [acks |-> {Ack(<<me, m.id>>, "socket_delivered")},
             sent |-> {Frame("message", me, k, m, None)}
                      \cup IF m.supersedes = NoMsg THEN {}
                           ELSE {Frame("supersede", me, k, m, None)}]
  /\ UNCHANGED <<connVars, sessions, gone, epoch, mailbox, withdrawn, timer, mode>>

MailFor(m, k, info) ==
  [from |-> m.by, fromInfo |-> Info(sessions[m.by]), to |-> k, toInfo |-> Info(info),
   msg |-> m, old |-> FALSE]

\* the target has left, but the one live session with its mailbox identity takes the message
SendRelogged(s, m, to, ep) ==
  LET me == m.by
      k == TheOne(Targets(Fresh(gone), to, Scope(me)))
      l == TheOne(Successors(k, me))
  IN
  /\ Sends(s, m)
  /\ Verdict(m, me, to, ep) = "relog"
  /\ askEdges' = Without(Fresh(askEdges), Answered(m))
  /\ routes' = Put(Fresh(routes), m.id, [from |-> me, to |-> l, old |-> FALSE])
  /\ gone' = Fresh(gone)
  /\ \E victims \in Room(Fresh(records)) :
       /\ records' = Recorded(Fresh(records), victims, me, m, k[2], "socket_delivered", None)
       /\ lost' = lost \cup Dropped(records) \cup victims
  /\ copies' = Counted(<< <<me, m.id>> >>)
  /\ out' = [acks |-> {Ack(<<me, m.id>>, "socket_delivered")},
             sent |-> {Frame("message", me, l, m, MailFor(m, k, gone[k]))}]
  /\ UNCHANGED <<connVars, sessions, epoch, mailbox, withdrawn, timer, mode>>

\* queueMailboxMessage: expire, evict the oldest over the cap, append
SendQueued(s, m, to, ep) ==
  LET me == m.by
      k == TheOne(Targets(Fresh(gone), to, Scope(me)))
      full == Len(FreshMail) >= MaxMailbox
      room == IF full THEN Tail(FreshMail) ELSE FreshMail
      evicted == IF full THEN {Head(FreshMail)} ELSE {}
      settled == Updated(AfterExpiry(Fresh(records)), {RecKey(e) : e \in evicted},
                         "failed", "E_DELIVERY_EVICTED")
  IN
  /\ Sends(s, m)
  /\ Verdict(m, me, to, ep) = "queue"
  /\ mailbox' = Append(room, MailFor(m, k, gone[k]))
  /\ askEdges' = Without(WithoutAsks(Fresh(askEdges), ExpiredMail \cup evicted), Answered(m))
  /\ routes' = WithoutMail(Fresh(routes), ExpiredMail \cup evicted)
  /\ gone' = Fresh(gone)
  /\ \E victims \in Room(settled) :
       /\ records' = Recorded(settled, victims, me, m, k[2], "queued", None)
       /\ lost' = lost \cup Dropped(records) \cup victims
  /\ out' = Acked(<<me, m.id>>, "queued")
  /\ UNCHANGED <<connVars, sessions, epoch, copies, withdrawn, timer, mode>>

-----------------------------------------------------------------------------
(* Cancelling, receipts, the idle timer and the passing of time.           *)

\* handleCancelMessage, the message still queued
CancelQueued(s, i) ==
  LET me == conn[s].key
      mine(e) == e.msg.id = i /\ e.from = me
      at == {j \in DOMAIN FreshMail : mine(FreshMail[j])}
      first == CHOOSE j \in at : \A h \in at : j <= h
  IN
  /\ mode = "up"
  /\ conn[s].state = "open" /\ me # None
  /\ at # {}
  /\ mailbox' = Filtered(FreshMail, DOMAIN FreshMail \ {first})
  /\ records' = Updated(AfterExpiry(records), {<<me, i>>}, "failed", "E_DELIVERY_CANCELLED")
  /\ routes' = WithoutMail(Fresh(routes), ExpiredMail)
  /\ askEdges' = LET kept == WithoutAsks(askEdges, ExpiredMail)
                 IN Without(kept, {j \in DOMAIN kept : j = i /\ kept[j].from = me})
  /\ withdrawn' = withdrawn \cup {<<me, i>>}
  /\ out' = Acked(<<me, i>>, "delivered")
  /\ UNCHANGED <<connVars, rosterVars, copies, lost, timer, mode>>

\* handleCancelMessage, the message already with a live receiver, or not cancellable
CancelSent(s, i) ==
  LET me == conn[s].key
      rts == WithoutMail(Fresh(routes), ExpiredMail)
      kept == WithoutAsks(askEdges, ExpiredMail)
      routed == i \in DOMAIN rts /\ rts[i].from = me /\ rts[i].to \in DOMAIN sessions
  IN
  /\ mode = "up"
  /\ conn[s].state = "open" /\ me # None
  /\ \A j \in DOMAIN FreshMail : ~(FreshMail[j].msg.id = i /\ FreshMail[j].from = me)
  /\ mailbox' = FreshMail
  /\ routes' = rts
  /\ askEdges' = IF routed THEN Without(kept, {j \in DOMAIN kept : j = i /\ kept[j].from = me})
                 ELSE kept
  /\ records' = Updated(AfterExpiry(records), IF routed THEN {<<me, i>>} ELSE {},
                        "failed", "E_DELIVERY_CANCELLED")
  /\ out' = [acks |-> {Ack(<<me, i>>, IF routed THEN "delivered" ELSE "delivery_failed")},
             sent |-> IF routed THEN {Frame("cancel", me, rts[i].to, i, None)} ELSE {}]
  /\ UNCHANGED <<connVars, rosterVars, copies, lost, withdrawn, timer, mode>>

\* cancel_ask: only the asker drops its edge
CancelAsk(s, i) ==
  /\ mode = "up"
  /\ conn[s].state = "open" /\ conn[s].key # None
  /\ askEdges' = Without(askEdges, {j \in DOMAIN askEdges : j = i /\ askEdges[j].from = conn[s].key})
  /\ out' = Quiet
  /\ UNCHANGED <<connVars, rosterVars, mailVars, routes, timer, mode>>

\* message_receipt: forwarded only along the message's route
Receipt(s, i) ==
  LET rts == Fresh(routes) IN
  /\ mode = "up"
  /\ conn[s].state = "open" /\ conn[s].key # None
  /\ routes' = rts
  /\ out' = IF i \in DOMAIN rts /\ rts[i].to = conn[s].key /\ rts[i].from \in DOMAIN sessions
            THEN [acks |-> {}, sent |-> {Frame("receipt", conn[s].key, rts[i].from, i, None)}]
            ELSE Quiet
  /\ UNCHANGED <<connVars, rosterVars, mailVars, askEdges, timer, mode>>

ExitAnyway == TRUE                                     \* mutant: waiting mail is ignored
MayExit == FreshMail = <<>>
GiveUp == "off"                                        \* mutant: the timer is not armed again
NextTimer == IF MayExit THEN "off" ELSE "idle"

\* the shutdown timer fires: exit when nobody is here and no mail waits, else look again
IdleCheck ==
  /\ mode = "up"
  /\ timer # "off"
  /\ out' = Quiet
  /\ IF sessions # EmptyMap
     THEN timer' = "off" /\ UNCHANGED <<mode, mailbox, records, routes, askEdges>>
     ELSE /\ mailbox' = FreshMail
          /\ records' = AfterExpiry(records)
          /\ routes' = WithoutMail(routes, ExpiredMail)
          /\ askEdges' = WithoutAsks(askEdges, ExpiredMail)
          /\ timer' = NextTimer
          /\ mode' = IF MayExit THEN timer ELSE mode
  /\ UNCHANGED <<connVars, rosterVars, copies, lost, withdrawn>>

\* SIGTERM or SIGINT
Terminate ==
  /\ mode = "up" /\ "signal" \in Events
  /\ mode' = "signal"
  /\ sessions' = EmptyMap /\ gone' = EmptyMap
  /\ askEdges' = EmptyMap /\ routes' = EmptyMap
  /\ mailbox' = <<>> /\ records' = EmptyMap
  /\ timer' = "off"
  /\ lost' = lost \cup DOMAIN records
  /\ out' = Quiet
  /\ UNCHANGED <<connVars, epoch, copies, withdrawn>>

\* a retention time runs out for one entry of a kind
Elapse(kind) ==
  /\ mode = "up" /\ kind \in Events
  /\ \/ kind = "ask" /\ \E i \in DOMAIN askEdges :
          ~askEdges[i].old /\ askEdges' = [askEdges EXCEPT ![i].old = TRUE]
        /\ UNCHANGED <<routes, records, gone, mailbox>>
     \/ kind = "route" /\ \E i \in DOMAIN routes :
          ~routes[i].old /\ routes' = [routes EXCEPT ![i].old = TRUE]
        /\ UNCHANGED <<askEdges, records, gone, mailbox>>
     \/ kind = "record" /\ \E k \in DOMAIN records :
          ~records[k].old /\ records' = [records EXCEPT ![k].old = TRUE]
        /\ UNCHANGED <<askEdges, routes, gone, mailbox>>
     \/ kind = "gone" /\ \E k \in DOMAIN gone :
          ~gone[k].old /\ gone' = [gone EXCEPT ![k].old = TRUE]
        /\ UNCHANGED <<askEdges, routes, records, mailbox>>
     \/ kind = "mail" /\ \E i \in DOMAIN mailbox :
          ~mailbox[i].old /\ mailbox' = [mailbox EXCEPT ![i].old = TRUE]
        /\ UNCHANGED <<askEdges, routes, records, gone>>
  /\ out' = Quiet
  /\ UNCHANGED <<connVars, sessions, epoch, copies, lost, withdrawn, timer, mode>>

-----------------------------------------------------------------------------
(* The specification.                                                      *)

\* what a session registers with; only a name can be an alias
Infos == {i \in [name : Names \cup {NoName}, cwd : Cwds, alias : BOOLEAN] :
            i.alias => i.name # NoName}

Init ==
  /\ conn = [s \in Sockets |-> [state |-> "none", key |-> None]]
  /\ unregistered = <<>>
  /\ sessions = EmptyMap /\ gone = EmptyMap
  /\ askEdges = EmptyMap /\ routes = EmptyMap
  /\ mailbox = <<>> /\ records = EmptyMap
  /\ timer = "off" /\ mode = "up" /\ epoch = 0
  /\ out = Quiet
  /\ copies = [k \in RecKeys |-> 0]
  /\ lost = {} /\ withdrawn = {}

\* the ids a client may have resolved an address to, from a list that may be stale
Resolvable(to) == IF to \in Ids THEN {to} ELSE Ids

SendFrame(s) ==
  \E m \in Messages :
    \/ SendRefused(s, m, m.to, 0)
    \/ SendReplayed(s, m, m.to, 0)
    \/ SendDelivered(s, m, m.to, 0)
    \/ SendRelogged(s, m, m.to, 0)
    \/ SendQueued(s, m, m.to, 0)
    \/ \E id \in Resolvable(m.to), ep \in 1..epoch :
         \/ SendRefused(s, m, id, ep)
         \/ SendReplayed(s, m, id, ep)
         \/ SendDelivered(s, m, id, ep)
         \/ SendExactFailed(s, m, id, ep)

Next ==
  \/ \E s \in Sockets :
       \/ Connect(s) \/ RegistrationTimeout(s) \/ FrameRejected(s) \/ Close(s) \/ Unregister(s)
       \/ \E name \in Names, alias \in BOOLEAN : Presence(s, name, alias)
       \/ \E k \in Keys : RegisterRefused(s, k) \/ \E info \in Infos : Register(s, k, info)
       \/ SendFrame(s)
       \/ \E i \in MsgIds : CancelQueued(s, i) \/ CancelSent(s, i) \/ CancelAsk(s, i) \/ Receipt(s, i)
  \/ IdleCheck \/ Terminate
  \/ \E kind \in Events : Elapse(kind)

Spec == Init /\ [][Next]_vars

\* what the next step depends on: everything but the frames of the last one
futureVars == <<conn, unregistered, sessions, gone, askEdges, routes, mailbox, records,
                timer, mode, epoch, copies, lost, withdrawn>>

\* timers fire, and a day passes for mail nobody collects
FairSpec == Spec /\ WF_futureVars(IdleCheck) /\ WF_futureVars(Elapse("mail"))

-----------------------------------------------------------------------------
(* Types.                                                                  *)

EdgeType == [from : Keys, to : Keys, old : BOOLEAN]
InfoType == [name : Names \cup {NoName}, cwd : Cwds, alias : BOOLEAN]
GoneType == [name : Names \cup {NoName}, cwd : Cwds, alias : BOOLEAN, old : BOOLEAN]
SessionType == [socket : Sockets, name : Names \cup {NoName}, cwd : Cwds, alias : BOOLEAN,
                epoch : 1..MaxEpoch]
MailType == [from : Keys, fromInfo : InfoType, to : Keys, toInfo : InfoType,
             msg : Messages, old : BOOLEAN]
DeliveryStates == {"socket_delivered", "queued", "failed"}
Codes == {None, "E_TARGET_NOT_FOUND", "E_TARGET_REBOUND", "E_DELIVERY_SUPERSEDED",
          "E_DELIVERY_EXPIRED", "E_DELIVERY_EVICTED", "E_DELIVERY_CANCELLED"}
RecordType == [print : Messages \X Ids, state : DeliveryStates, code : Codes, old : BOOLEAN]

ConnType ==
  /\ conn \in [Sockets -> [state : {"none", "open", "closing"}, key : Keys \cup {None}]]
  /\ unregistered \in Seq(Sockets) /\ Len(unregistered) <= MaxUnregistered
RosterType ==
  /\ MapOf(sessions, Keys, SessionType) /\ IsFiniteSet(DOMAIN sessions)
  /\ Cardinality(DOMAIN sessions) <= MaxSessions
  /\ MapOf(gone, Keys, GoneType)
  /\ epoch \in 0..MaxEpoch
  /\ timer \in {"off", "early", "idle"} /\ mode \in {"up", "early", "idle", "signal"}
TableType ==
  /\ MapOf(askEdges, MsgIds, EdgeType)
  /\ MapOf(routes, MsgIds, EdgeType)
  /\ MapOf(records, RecKeys, RecordType) /\ IsFiniteSet(DOMAIN records)
  /\ Cardinality(DOMAIN records) <= MaxRecords
MailboxType == mailbox \in Seq(MailType) /\ Len(mailbox) <= MaxMailbox
HistoryType ==
  copies \in [RecKeys -> 0..2] /\ lost \subseteq RecKeys /\ withdrawn \subseteq RecKeys

\* The type of the broker's state, with the MAX_* caps of its tables.
TypeOK ==
  /\ ConnType /\ RosterType /\ TableType /\ MailboxType /\ HistoryType

-----------------------------------------------------------------------------
(* Safety.                                                                 *)

\* A session belongs to exactly the connection whose closure holds its key, so a close
\* event never takes down another connection's session (removeSession's socket check).
SessionsOwnTheirSockets ==
  mode = "up" =>
    /\ \A s \in Sockets : conn[s].key # None =>
          conn[s].key \in DOMAIN sessions /\ sessions[conn[s].key].socket = s
    /\ \A k \in DOMAIN sessions : conn[sessions[k].socket].key = k

\* Every ask edge has a live asker: the edges of a session that left went with it, so
\* none can refuse E_MUTUAL_ASK on behalf of a waiter that died (clearAskEdgesForSession).
AskersAreLive == mode = "up" => \A i \in DOMAIN askEdges : askEdges[i].from \in DOMAIN sessions

\* Two sessions never wait on each other's reply, whatever the order of asks, answers
\* that ask back, cancellations, reconnects and expiries (E_MUTUAL_ASK).
NoMutualAsk ==
  \A i, j \in DOMAIN askEdges :
    i # j => ~(askEdges[i].from = askEdges[j].to /\ askEdges[i].to = askEdges[j].from)

\* A route ends at a live receiver, and it is the connection the message went to: no
\* receipt, cancel or supersede reaches a later session under the same id.
RoutesEndLive == mode = "up" => \A i \in DOMAIN routes : routes[i].to \in DOMAIN sessions

\* Mail waits only for sessions that are away, and a live session is not in the
\* disconnected roster: registering collects everything queued for the id.
MailWaitsForTheAbsent ==
  mode = "up" => /\ DOMAIN gone \cap DOMAIN sessions = {}
                 /\ \A j \in DOMAIN mailbox : mailbox[j].to \notin DOMAIN sessions

\* A closed connection's closure is gone, and so is the key it held.
ClosedHoldNoKey == \A s \in Sockets : conn[s].state = "none" => conn[s].key = None

\* The inductive invariant behind the theorems of IntercomBroker_proofs.
Safety == /\ SessionsOwnTheirSockets /\ ClosedHoldNoKey
          /\ AskersAreLive /\ RoutesEndLive /\ NoMutualAsk
BrokerInv == TypeOK /\ Safety

MailCopies(k) == Cardinality({j \in DOMAIN mailbox : RecKey(mailbox[j]) = k})

\* While the broker remembers a message, retries of it never make a second copy, written
\* or queued ("A client that retries a send after a timeout must not deliver twice").
AtMostOnce == \A k \in RecKeys \ lost : copies[k] + MailCopies(k) <= 1

\* The outcome reported to a retry is the truth about the mailbox: "queued" as long as
\* the mail is there, whatever flushed, expired, evicted or cancelled it.
QueuedMeansInMailbox ==
  /\ \A k \in DOMAIN records : records[k].state = "queued" => MailCopies(k) >= 1
  /\ \A k \in RecKeys \ lost : MailCopies(k) >= 1 =>
        k \in DOMAIN records /\ records[k].state = "queued"

\* The idle exit loses no mail and drops no session.
IdleExitLosesNothing == mode \in {"early", "idle"} => sessions = EmptyMap /\ mailbox = <<>>

\* The rest of what the theorems about mail rest on: mail and routes stay within a scope,
\* and no reply waits in the mailbox, because the asker it answers is live.
WithinScope ==
  /\ \A j \in DOMAIN mailbox : Scope(mailbox[j].from) = Scope(mailbox[j].to)
  /\ \A i \in DOMAIN routes : Scope(routes[i].from) = Scope(routes[i].to)
NoReplyWaits == \A j \in DOMAIN mailbox : mailbox[j].msg.replyTo = NoMsg
MailInv == MailWaitsForTheAbsent /\ WithinScope /\ NoReplyWaits /\ IdleExitLosesNothing

\* The accounts of the retried sends, over a mailbox, its delivery records and the
\* histories: unless its record was lost, a message is in the mailbox at most once and
\* then recorded as queued, was written at most once and then recorded as settled, and
\* once withdrawn stays recorded as failed.
KeysOf(mail) == {RecKey(mail[i]) : i \in DOMAIN mail}
Rebound(r) == r.code = "E_TARGET_REBOUND"
NoTwins(mail, gaps) ==
  \A i, j \in DOMAIN mail :
    RecKey(mail[i]) = RecKey(mail[j]) => i = j \/ RecKey(mail[i]) \in gaps
WaitingIsRecorded(mail, recs, gaps) ==
  \A k \in KeysOf(mail) \ gaps : k \in DOMAIN recs /\ recs[k].state = "queued"
RecordedIsWaiting(mail, recs) ==
  \A k \in DOMAIN recs : /\ recs[k].state = "queued" => k \in KeysOf(mail)
                         /\ Rebound(recs[k]) => recs[k].state = "failed"
WrittenIsSettled(recs, written, gaps) ==
  \A k \in RecKeys \ gaps :
    /\ written[k] <= 1
    /\ written[k] = 1 => k \in DOMAIN recs /\ recs[k].state # "queued" /\ ~Rebound(recs[k])
WithdrawnHasFailed(recs, back, gaps) ==
  \A k \in back \ gaps : k \in DOMAIN recs /\ recs[k].state = "failed" /\ ~Rebound(recs[k])
Accounts(mail, recs, written, gaps, back) ==
  /\ NoTwins(mail, gaps)
  /\ WaitingIsRecorded(mail, recs, gaps)
  /\ RecordedIsWaiting(mail, recs)
  /\ WrittenIsSettled(recs, written, gaps)
  /\ WithdrawnHasFailed(recs, back, gaps)

\* A route was made by writing its message to the receiver.
RoutesWereWritten == \A i \in DOMAIN routes : copies[<<routes[i].from, i>>] >= 1

RetryInv == Accounts(mailbox, records, copies, lost, withdrawn) /\ RoutesWereWritten

-----------------------------------------------------------------------------
(* The abstract specification: what becomes of each message.               *)

\* what the delivery record says, and what it stands for
FateIn(r, back) ==
  IF r.state = "queued" THEN "queued"
  ELSE IF r.state = "socket_delivered" THEN "written"
  ELSE IF Rebound(r) THEN "rebound"
  ELSE IF r.code = "E_DELIVERY_SUPERSEDED" THEN "calledBack"
  ELSE IF r.code # "E_DELIVERY_CANCELLED" THEN "failed"
  ELSE IF back THEN "withdrawn" ELSE "calledBack"
FateOf(k) ==
  IF k \in lost THEN [is |-> "forgotten", waiting |-> 0, written |-> 0]
  ELSE [is |-> IF k \in DOMAIN records THEN FateIn(records[k], k \in withdrawn) ELSE "unsent",
        waiting |-> MailCopies(k), written |-> copies[k]]

Sent == INSTANCE SentMessages WITH MessageKeys <- RecKeys, sent <- [k \in RecKeys |-> FateOf(k)]

\* What the refinement rests on beside the accounts: what the record of a message says is
\* what became of it, and no message that was withdrawn was written.
FateInv ==
  \A k \in RecKeys \ lost : FateOf(k) \in Sent!Fates /\ (k \in withdrawn => copies[k] = 0)

\* While the broker remembers a message its record tells what became of it, and a message
\* takes the steps of SentMessages only: nothing that was queued vanishes without being
\* written or recorded as failed, a retry is told "delivered" only of what was written, and
\* what was withdrawn or has failed is neither queued nor written again.
ImplementsSentMessages == Sent!Spec

-----------------------------------------------------------------------------
(* Action properties.                                                      *)

MessageFrames == {f \in out'.sent : f.type = "message"}

\* A reply goes to the live session whose ask it answers, from the session that was
\* asked, and answers it once: the edge is gone afterwards.
ReplyAnswersItsAsk ==
  [][\A f \in MessageFrames : f.msg.replyTo # NoMsg =>
       /\ f.msg.replyTo \in DOMAIN askEdges
       /\ askEdges[f.msg.replyTo].from = f.to /\ askEdges[f.msg.replyTo].to = f.from
       /\ f.msg.replyTo \notin DOMAIN askEdges']_vars

\* Queued mail crosses neither scope nor project: it reaches its addressee, or the one
\* live session with the addressee's explicit name and directory.
MailKeepsItsIdentity ==
  [][\A f \in MessageFrames : f.via # None =>
       \/ f.to = f.via.to
       \/ /\ Scope(f.to) = Scope(f.via.to)
          /\ sessions'[f.to].name = f.via.toInfo.name /\ f.via.toInfo.name # NoName
          /\ sessions'[f.to].cwd = f.via.toInfo.cwd
          /\ ~sessions'[f.to].alias
          /\ \A l \in DOMAIN sessions' \ {f.to, f.from} :
               ~(/\ Scope(l) = Scope(f.to) /\ ~sessions'[l].alias
                 /\ sessions'[l].name = sessions'[f.to].name
                 /\ sessions'[l].cwd = sessions'[f.to].cwd)]_vars

\* A live session keeps its id: no registration takes it from the connection that has it.
IncumbentKeepsItsId ==
  [][\A k \in DOMAIN sessions \cap DOMAIN sessions' :
       /\ sessions'[k].socket = sessions[k].socket
       /\ sessions'[k].epoch = sessions[k].epoch]_vars

\* What a sender is told of a message has become of it, unless the broker forgot the message:
\* a first answer, the answer to a retry and the answer to a cancel.
Stands(says) ==
  CASE says = "socket_delivered" -> {Sent!Written}
    [] says = "queued" -> {Sent!Queued}
    [] says \in {"E_DELIVERY_EXPIRED", "E_DELIVERY_EVICTED"} -> {Sent!Failed}
    [] says = "E_TARGET_REBOUND" -> {Sent!Rebound}
    [] says = "E_DELIVERY_SUPERSEDED" -> {Sent!CalledBack}
    [] says \in {"E_DELIVERY_CANCELLED", "delivered"} -> {Sent!Withdrawn, Sent!CalledBack}
    [] OTHER -> Sent!Fates
AnswersAreTrue ==
  [][\A k \in RecKeys : \A a \in out'.acks : a.about = k =>
       FateOf(k)' \in Stands(a.says) \cup {Sent!Forgotten}]_vars

\* What follows a message reaches its other end: a route lasts no longer than the connection
\* the message was written to, so no cancel, supersede or receipt meets a later session under
\* the same id; and each is about a message that was written.
ControlFollowsTheMessage ==
  [][/\ \A i \in DOMAIN routes \cap DOMAIN routes' : routes'[i].to = routes[i].to =>
          /\ routes[i].to \in DOMAIN sessions \cap DOMAIN sessions'
          /\ sessions'[routes[i].to].epoch = sessions[routes[i].to].epoch
     /\ \A f \in out'.sent :
          /\ f.type = "cancel" => copies[<<f.from, f.msg>>] >= 1
          /\ f.type = "supersede" => copies[<<f.from, f.msg.supersedes>>] >= 1
          /\ f.type = "receipt" => copies[<<f.to, f.msg>>] >= 1]_vars

\* Mail withdrawn while it was queued is never written to anyone later, by a flush or by
\* a retry of the send, as long as the broker remembers the withdrawal.
WithdrawnMailStaysAway ==
  [][\A f \in MessageFrames : <<f.from, f.msg.id>> \in withdrawn => <<f.from, f.msg.id>> \in lost']_vars

\* Nothing a session writes reaches a session of another scope.
ScopesAreIsolated == [][\A f \in out'.sent : Scope(f.from) = Scope(f.to)]_vars

-----------------------------------------------------------------------------
(* Liveness.                                                               *)

\* A broker that served someone and was left for good exits, after its mail was
\* collected or expired.
AbandonedBrokerExits ==
  (<>(epoch > 0) /\ <>[](sessions = EmptyMap)) => <>(mode # "up")
=============================================================================
