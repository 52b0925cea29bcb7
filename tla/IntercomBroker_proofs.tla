------------------------ MODULE IntercomBroker_proofs ------------------------
(***************************************************************************)
(* Theorems about IntercomBroker for any number of sockets, scopes, ids,   *)
(* names and messages and any caps: the type of the state, the ownership   *)
(* of sessions by connections, what the ask edges and receipt routes may   *)
(* point at, whom mail waits for and whom it reaches, what a retried send  *)
(* may count on, that the broker implements SentMessages, and where what   *)
(* follows a message goes.                                                 *)
(***************************************************************************)
EXTENDS IntercomBroker, MapLemmas

-----------------------------------------------------------------------------
(* The tables.                                                             *)

\* Pruning keeps a table's type and the entries that stay.
LEMMA FreshMap ==
  ASSUME NEW f, NEW K, NEW V, MapOf(f, K, V)
  PROVE  /\ MapOf(Fresh(f), K, V)
         /\ DOMAIN Fresh(f) \subseteq DOMAIN f
         /\ \A x \in DOMAIN Fresh(f) : Fresh(f)[x] = f[x]
BY DEF MapOf, Fresh

\* updateDeliveryRecord adds no record and keeps their type.
LEMMA UpdatedRecords ==
  ASSUME NEW recs, MapOf(recs, RecKeys, RecordType), NEW S,
         NEW state \in DeliveryStates, NEW code \in Codes
  PROVE  /\ MapOf(Updated(recs, S, state, code), RecKeys, RecordType)
         /\ DOMAIN Updated(recs, S, state, code) = DOMAIN recs
BY DEF MapOf, Updated, RecordType

\* A table of delivery records within its cap.
RecordTable(recs) ==
  /\ MapOf(recs, RecKeys, RecordType)
  /\ IsFiniteSet(DOMAIN recs) /\ Cardinality(DOMAIN recs) <= MaxRecords

\* Pruning and updating keep the table within its cap.
LEMMA FreshTable ==
  ASSUME NEW recs, RecordTable(recs)
  PROVE  RecordTable(Fresh(recs))
<1>1. DOMAIN Fresh(recs) \subseteq DOMAIN recs /\ MapOf(Fresh(recs), RecKeys, RecordType)
  BY FreshMap DEF RecordTable
<1>2. IsFiniteSet(DOMAIN Fresh(recs)) /\ Cardinality(DOMAIN Fresh(recs)) \in Nat
      /\ Cardinality(DOMAIN recs) \in Nat
      /\ Cardinality(DOMAIN Fresh(recs)) <= Cardinality(DOMAIN recs)
  BY <1>1, SubsetCardinality DEF RecordTable
<1>3. QED
  BY <1>1, <1>2, BrokerAssumption DEF RecordTable

LEMMA UpdatedTable ==
  ASSUME NEW recs, RecordTable(recs), NEW S, NEW state \in DeliveryStates, NEW code \in Codes
  PROVE  RecordTable(Updated(recs, S, state, code))
BY UpdatedRecords DEF RecordTable

\* recordDelivery makes room before it sets: the cap holds afterwards.
LEMMA RecordedTable ==
  ASSUME NEW recs, RecordTable(recs), NEW victims \in Room(recs),
         NEW me \in Keys, NEW m \in Messages, NEW id \in Ids,
         NEW state \in DeliveryStates, NEW code \in Codes
  PROVE  RecordTable(Recorded(recs, victims, me, m, id, state, code))
<1> DEFINE D == DOMAIN recs
           kept == Without(recs, victims)
           new == [print |-> Fingerprint(m, id), state |-> state, code |-> code, old |-> FALSE]
<1>1. victims \in SUBSET D
      /\ Cardinality(victims) = IF Cardinality(D) < MaxRecords THEN 0
                                ELSE Cardinality(D) + 1 - MaxRecords
  BY DEF Room
<1>2. IsFiniteSet(D) /\ Cardinality(D) \in Nat /\ Cardinality(D) <= MaxRecords
  BY FS_CardinalityType DEF RecordTable
<1>3. DOMAIN kept = D \ victims /\ MapOf(kept, RecKeys, RecordType)
  BY WithoutMap DEF RecordTable
<1>4. IsFiniteSet(D \ victims) /\ Cardinality(D \ victims) = Cardinality(D) - Cardinality(victims)
  <2>1. D \cap victims = victims
    BY <1>1
  <2>2. QED
    BY <1>2, <2>1, FS_Difference
<1>5. Cardinality(D \ victims) \in Nat /\ Cardinality(D \ victims) + 1 <= MaxRecords
  BY <1>1, <1>2, <1>4, FS_CardinalityType, BrokerAssumption
<1>6. <<me, m.id>> \in RecKeys /\ new \in RecordType
  BY DEF RecKeys, MsgIds, RecordType, Fingerprint
<1>7. MapOf(Put(kept, <<me, m.id>>, new), RecKeys, RecordType)
  BY <1>3, <1>6, PutMap
<1>8. IsFiniteSet(DOMAIN kept) /\ Cardinality(DOMAIN kept) + 1 <= MaxRecords
      /\ Cardinality(DOMAIN kept) \in Nat
  BY <1>3, <1>4, <1>5
<1>9. IsFiniteSet(DOMAIN Put(kept, <<me, m.id>>, new))
      /\ Cardinality(DOMAIN Put(kept, <<me, m.id>>, new)) <= MaxRecords
  <2>1. /\ IsFiniteSet(DOMAIN Put(kept, <<me, m.id>>, new))
        /\ Cardinality(DOMAIN Put(kept, <<me, m.id>>, new)) \in Nat
        /\ Cardinality(DOMAIN Put(kept, <<me, m.id>>, new)) <= Cardinality(DOMAIN kept) + 1
    BY <1>8, PutCardinality
  <2>2. QED
    BY <1>8, <2>1, BrokerAssumption
<1>10. QED
  BY <1>7, <1>9 DEF Recorded, RecordTable

-----------------------------------------------------------------------------
(* The mailbox.                                                            *)

LEMMA FreshMailSeq ==
  ASSUME MailboxType
  PROVE  /\ FreshMail \in Seq(MailType) /\ Len(FreshMail) <= Len(mailbox)
         /\ Len(FreshMail) <= MaxMailbox
<1>1. {i \in DOMAIN mailbox : ~mailbox[i].old} \in SUBSET DOMAIN mailbox
  OBVIOUS
<1>2. FreshMail \in Seq(MailType) /\ Len(FreshMail) <= Len(mailbox)
  BY <1>1, FilteredSeq DEF FreshMail, MailboxType
<1>3. QED
  BY <1>2, BrokerAssumption DEF MailboxType

LEMMA ExpiryKeeps ==
  ASSUME NEW recs, RecordTable(recs)
  PROVE  RecordTable(AfterExpiry(recs))
BY UpdatedTable DEF AfterExpiry, DeliveryStates, Codes

LEMMA WithoutMailMap ==
  ASSUME NEW f, NEW K, NEW V, MapOf(f, K, V), NEW E
  PROVE  /\ MapOf(WithoutMail(f, E), K, V) /\ MapOf(WithoutAsks(f, E), K, V)
         /\ DOMAIN WithoutMail(f, E) \subseteq DOMAIN f
         /\ DOMAIN WithoutAsks(f, E) \subseteq DOMAIN f
         /\ \A x \in DOMAIN WithoutMail(f, E) : WithoutMail(f, E)[x] = f[x]
         /\ \A x \in DOMAIN WithoutAsks(f, E) : WithoutAsks(f, E)[x] = f[x]
BY DEF WithoutMail, WithoutAsks, MapOf, Without


-----------------------------------------------------------------------------
(* What the safety part needs of a step that only touches the tables.      *)

Shrinks(g, f) ==
  /\ DOMAIN g \subseteq DOMAIN f
  /\ \A x \in DOMAIN g : g[x].from = f[x].from /\ g[x].to = f[x].to

\* Steps that keep the connections and the roster, or exit, and only drop edges and routes.
LEMMA TablesOnly ==
  ASSUME Safety, UNCHANGED <<conn, sessions>>, mode' = mode \/ mode' # "up",
         Shrinks(askEdges', askEdges), Shrinks(routes', routes)
  PROVE  Safety'
<1>1. SessionsOwnTheirSockets' /\ ClosedHoldNoKey'
  BY DEF Safety, SessionsOwnTheirSockets, ClosedHoldNoKey
<1>2. AskersAreLive' /\ RoutesEndLive'
  BY DEF Safety, AskersAreLive, RoutesEndLive, Shrinks
<1>3. NoMutualAsk'
  BY DEF Safety, NoMutualAsk, Shrinks
<1>4. QED
  BY <1>1, <1>2, <1>3 DEF Safety

LEMMA ShrinksRefl == ASSUME NEW f PROVE Shrinks(f, f)
BY DEF Shrinks

LEMMA ShrinksByWithout == ASSUME NEW f, NEW S PROVE Shrinks(Without(f, S), f)
BY DEF Shrinks, Without

LEMMA ShrinksByFresh == ASSUME NEW f PROVE Shrinks(Fresh(f), f)
BY DEF Shrinks, Fresh

LEMMA ShrinksByMail ==
  ASSUME NEW f, NEW E PROVE Shrinks(WithoutMail(f, E), f) /\ Shrinks(WithoutAsks(f, E), f)
BY ShrinksByWithout DEF WithoutMail, WithoutAsks

LEMMA ShrinksTrans == ASSUME NEW f, NEW g, NEW h, Shrinks(g, f), Shrinks(h, g) PROVE Shrinks(h, f)
BY DEF Shrinks

\* The session of a connection that holds a key.
LEMMA KeyHolder ==
  ASSUME TypeOK, SessionsOwnTheirSockets, mode = "up", NEW s \in Sockets, conn[s].key # None
  PROVE  /\ conn[s].key \in Keys /\ conn[s].key \in DOMAIN sessions
         /\ sessions[conn[s].key] \in SessionType /\ sessions[conn[s].key].socket = s
<1>1. conn[s].key \in Keys \cup {None}
  BY DEF TypeOK, ConnType
<1>2. QED
  BY <1>1 DEF SessionsOwnTheirSockets, TypeOK, RosterType, MapOf

-----------------------------------------------------------------------------
(* Connections.                                                            *)

LEMMA WaitingQueue ==
  ASSUME ConnType, NEW s \in Sockets
  PROVE  /\ Registered(s) \in Seq(Sockets) /\ Len(Registered(s)) <= MaxUnregistered
         /\ Waiting(s) \in Seq(Sockets)
         /\ ArmedQueue(s) \in Seq(Sockets) /\ Len(ArmedQueue(s)) <= MaxUnregistered
         /\ Len(Waiting(s)) > MaxUnregistered => Head(Waiting(s)) \in Sockets
<1>1. {i \in DOMAIN unregistered : unregistered[i] # s} \in SUBSET DOMAIN unregistered
  OBVIOUS
<1>2. Registered(s) \in Seq(Sockets) /\ Len(Registered(s)) <= Len(unregistered)
  BY <1>1, FilteredSeq DEF Registered, ConnType
<1>3. Len(Registered(s)) <= MaxUnregistered
  BY <1>2, BrokerAssumption DEF ConnType
<1>4. Waiting(s) \in Seq(Sockets) /\ Len(Waiting(s)) = Len(Registered(s)) + 1
  BY <1>2 DEF Waiting
<1>5. Len(Waiting(s)) > MaxUnregistered =>
        Head(Waiting(s)) \in Sockets /\ Tail(Waiting(s)) \in Seq(Sockets)
        /\ Len(Tail(Waiting(s))) <= MaxUnregistered
  BY <1>2, <1>3, <1>4, BrokerAssumption
<1>6. Len(Waiting(s)) \in Nat
  BY <1>4
<1>7. ArmedQueue(s) \in Seq(Sockets) /\ Len(ArmedQueue(s)) <= MaxUnregistered
  BY <1>4, <1>5, <1>6, BrokerAssumption DEF ArmedQueue
<1>8. QED
  BY <1>2, <1>3, <1>4, <1>5, <1>7

ConnFuns == [Sockets -> [state : {"none", "open", "closing"}, key : Keys \cup {None}]]

\* Arming a registration timer changes no key and leaves no connection without one behind.
LEMMA ArmedKeys ==
  ASSUME ConnType, NEW s \in Sockets, NEW c \in ConnFuns
  PROVE  /\ Armed(c, s) \in ConnFuns
         /\ \A r \in Sockets : /\ Armed(c, s)[r].key = c[r].key
                               /\ Armed(c, s)[r].state = c[r].state \/ Armed(c, s)[r].state = "closing"
BY WaitingQueue DEF Armed, ConnFuns

\* removeSession: the session's edges and routes go, and nobody else's session does.
LEMMA RemoveSessionTypes ==
  ASSUME TypeOK, NEW k \in DOMAIN sessions, RemoveSession(k)
  PROVE  /\ MapOf(sessions', Keys, SessionType) /\ IsFiniteSet(DOMAIN sessions')
         /\ Cardinality(DOMAIN sessions') <= MaxSessions
         /\ MapOf(gone', Keys, GoneType) /\ timer' \in {"off", "early", "idle"}
         /\ MapOf(askEdges', MsgIds, EdgeType) /\ MapOf(routes', MsgIds, EdgeType)
<1> USE DEF TypeOK, RosterType, TableType
<1>1. MapOf(sessions', Keys, SessionType) /\ DOMAIN sessions' = DOMAIN sessions \ {k}
  BY WithoutMap DEF RemoveSession
<1>2. IsFiniteSet(DOMAIN sessions') /\ Cardinality(DOMAIN sessions') <= MaxSessions
  <2>1. /\ IsFiniteSet(DOMAIN sessions \ {k}) /\ Cardinality(DOMAIN sessions \ {k}) \in Nat
        /\ Cardinality(DOMAIN sessions) \in Nat
        /\ Cardinality(DOMAIN sessions \ {k}) <= Cardinality(DOMAIN sessions)
    <3>1. DOMAIN sessions \ {k} \in SUBSET DOMAIN sessions
      OBVIOUS
    <3>2. QED
      BY <3>1, SubsetCardinality
  <2>2. QED
    BY <1>1, <2>1, BrokerAssumption
<1>3. Remembered(sessions[k]) \in GoneType /\ k \in Keys
  BY DEF MapOf, Remembered, SessionType, GoneType
<1>4. MapOf(gone', Keys, GoneType)
  BY <1>3, FreshMap, PutMap DEF RemoveSession
<1>5. MapOf(askEdges', MsgIds, EdgeType) /\ MapOf(routes', MsgIds, EdgeType)
  BY WithoutMap DEF RemoveSession
<1>6. timer' \in {"off", "early", "idle"}
  BY DEF RemoveSession, Scheduled
<1>7. QED
  BY <1>1, <1>2, <1>4, <1>5, <1>6


\* A connection that opens or is destroyed leaves the sessions alone.
LEMMA ConnectStep ==
  ASSUME BrokerInv, NEW s \in Sockets, Connect(s) PROVE BrokerInv'
<1> USE DEF BrokerInv
<1> DEFINE fresh == [conn EXCEPT ![s] = [state |-> "open", key |-> None]]
<1>1. fresh \in ConnFuns /\ \A r \in Sockets : fresh[r].key = conn[r].key
  BY DEF TypeOK, ConnType, ConnFuns, Connect, Safety, ClosedHoldNoKey
<1>2. /\ conn' \in ConnFuns
      /\ \A r \in Sockets : conn'[r].key = conn[r].key
      /\ \A r \in Sockets : conn'[r].state = fresh[r].state \/ conn'[r].state = "closing"
  BY <1>1, ArmedKeys DEF Connect, TypeOK
<1>3. ConnType'
  BY <1>2, WaitingQueue DEF Connect, TypeOK, ConnType, ConnFuns
<1>4. TypeOK'
  BY <1>3 DEF TypeOK, Connect, RosterType, TableType, MailboxType, HistoryType, rosterVars, mailVars
<1>5. SessionsOwnTheirSockets'
  BY <1>2 DEF Safety, SessionsOwnTheirSockets, Connect, rosterVars, TypeOK, RosterType, MapOf, SessionType
<1>6. ClosedHoldNoKey'
  BY <1>2 DEF Safety, ClosedHoldNoKey, Connect, TypeOK, ConnType
<1>7. AskersAreLive' /\ RoutesEndLive' /\ NoMutualAsk'
  BY DEF Safety, AskersAreLive, RoutesEndLive, NoMutualAsk, Connect, rosterVars
<1>8. QED
  BY <1>4, <1>5, <1>6, <1>7 DEF Safety

LEMMA DestroyStep ==
  ASSUME BrokerInv, NEW s \in Sockets, RegistrationTimeout(s) \/ FrameRejected(s) PROVE BrokerInv'
<1> USE DEF BrokerInv
<1>1. /\ conn' = [conn EXCEPT ![s].state = "closing"]
      /\ UNCHANGED <<unregistered, rosterVars, mailVars, askEdges, routes, timer, mode>>
  BY DEF RegistrationTimeout, FrameRejected
<1>2. ConnType' /\ \A r \in Sockets : conn'[r].key = conn[r].key
                                      /\ (conn'[r].state = "none" => conn[r].state = "none")
  BY <1>1 DEF TypeOK, ConnType
<1>3. TypeOK'
  BY <1>1, <1>2 DEF TypeOK, RosterType, TableType, MailboxType, HistoryType, rosterVars, mailVars
<1>4. SessionsOwnTheirSockets' /\ ClosedHoldNoKey'
  BY <1>1, <1>2 DEF Safety, SessionsOwnTheirSockets, ClosedHoldNoKey, rosterVars,
                    TypeOK, RosterType, MapOf, SessionType
<1>5. AskersAreLive' /\ RoutesEndLive' /\ NoMutualAsk'
  BY <1>1 DEF Safety, AskersAreLive, RoutesEndLive, NoMutualAsk, rosterVars
<1>6. QED
  BY <1>3, <1>4, <1>5 DEF Safety

\* A session that leaves takes its own edges and all its routes with it.
LEMMA LeavingKeepsTables ==
  ASSUME Safety, mode = "up", NEW k \in DOMAIN sessions, RemoveSession(k)
  PROVE  /\ \A i \in DOMAIN askEdges' : askEdges'[i].from \in DOMAIN sessions'
         /\ \A i \in DOMAIN routes' : routes'[i].to \in DOMAIN sessions'
         /\ NoMutualAsk'
BY DEF Safety, AskersAreLive, RoutesEndLive, NoMutualAsk, RemoveSession, EdgesFrom, RoutesOf, Without

\* ... and every other connection keeps its own session.
LEMMA LeavingKeepsOwners ==
  ASSUME TypeOK, Safety, mode = "up", NEW s \in Sockets, conn[s].key # None,
         sessions' = Without(sessions, {conn[s].key}),
         \A r \in Sockets : conn'[r].key = IF r = s THEN None ELSE conn[r].key
  PROVE  SessionsOwnTheirSockets'
<1> DEFINE k == conn[s].key
<1>1. /\ \A r \in Sockets : conn[r].key # None =>
            conn[r].key \in DOMAIN sessions /\ sessions[conn[r].key].socket = r
      /\ \A j \in DOMAIN sessions : conn[sessions[j].socket].key = j
  BY DEF Safety, SessionsOwnTheirSockets
<1>2. DOMAIN sessions' = DOMAIN sessions \ {k} /\ \A j \in DOMAIN sessions' : sessions'[j] = sessions[j]
  BY DEF Without
<1>3. \A j \in DOMAIN sessions : sessions[j].socket \in Sockets
  BY DEF TypeOK, RosterType, MapOf, SessionType
<1>4. ASSUME NEW r \in Sockets, conn'[r].key # None
      PROVE  conn'[r].key \in DOMAIN sessions' /\ sessions'[conn'[r].key].socket = r
  <2>1. r # s /\ conn'[r].key = conn[r].key
    BY <1>4
  <2>2. conn[r].key # k
    BY <1>1, <2>1
  <2>3. conn[r].key \in DOMAIN sessions /\ sessions[conn[r].key].socket = r
    BY <1>1, <1>4, <2>1
  <2>4. conn[r].key \in DOMAIN sessions'
    BY <1>2, <2>2, <2>3
  <2>5. sessions'[conn[r].key] = sessions[conn[r].key]
    BY <1>2, <2>4
  <2>6. QED
    BY <2>1, <2>3, <2>4, <2>5
<1>5. ASSUME NEW j \in DOMAIN sessions'
      PROVE  conn'[sessions'[j].socket].key = j
  <2>1. sessions[j].socket # s
    BY <1>1, <1>2
  <2>2. sessions'[j] = sessions[j] /\ j \in DOMAIN sessions
    BY <1>2
  <2>3. conn[sessions[j].socket].key = j /\ sessions[j].socket \in Sockets
    BY <1>1, <1>3, <2>2
  <2>4. conn'[sessions[j].socket].key = conn[sessions[j].socket].key
    BY <2>1, <2>3
  <2>5. QED
    BY <2>2, <2>3, <2>4
<1>6. QED
  BY <1>4, <1>5 DEF SessionsOwnTheirSockets

LEMMA CloseStep ==
  ASSUME BrokerInv, NEW s \in Sockets, Close(s) PROVE BrokerInv'
<1> USE DEF BrokerInv
<1>1. /\ mode = "up" /\ mode' = mode
      /\ conn' = [conn EXCEPT ![s] = [state |-> "none", key |-> None]]
      /\ unregistered' = Registered(s)
      /\ UNCHANGED <<epoch, mailVars>>
  BY DEF Close
<1>2. ConnType' /\ \A r \in Sockets : conn'[r] = IF r = s THEN [state |-> "none", key |-> None] ELSE conn[r]
  BY <1>1, WaitingQueue DEF TypeOK, ConnType
<1>3. ClosedHoldNoKey'
  BY <1>2 DEF Safety, ClosedHoldNoKey
<1>4. CASE conn[s].key # None
  <2> DEFINE k == conn[s].key
  <2>1. k \in DOMAIN sessions /\ sessions[k].socket = s
    BY <1>1, <1>4, KeyHolder DEF Safety
  <2>2. RemoveSession(k)
    BY <1>4, <2>1 DEF Close
  <2>3. TypeOK'
    BY <1>1, <1>2, <2>1, <2>2, RemoveSessionTypes
       DEF TypeOK, RosterType, TableType, MailboxType, HistoryType, mailVars
  <2>4. sessions' = Without(sessions, {k})
    BY <2>2 DEF RemoveSession
  <2>5. SessionsOwnTheirSockets'
    BY <1>1, <1>2, <1>4, <2>4, LeavingKeepsOwners
  <2>6. AskersAreLive' /\ RoutesEndLive' /\ NoMutualAsk'
    BY <1>1, <2>1, <2>2, LeavingKeepsTables DEF AskersAreLive, RoutesEndLive
  <2>7. QED
    BY <1>3, <2>3, <2>5, <2>6 DEF Safety
<1>5. CASE conn[s].key = None
  <2>1. UNCHANGED <<sessions, gone, routes, askEdges, timer>>
    BY <1>5 DEF Close
  <2>2. TypeOK'
    BY <1>1, <1>2, <2>1 DEF TypeOK, RosterType, TableType, MailboxType, HistoryType, mailVars
  <2>3. SessionsOwnTheirSockets'
    <3>1. \A j \in DOMAIN sessions : j # None /\ sessions[j].socket \in Sockets
      BY BrokerAssumption DEF TypeOK, RosterType, MapOf, SessionType
    <3>2. \A j \in DOMAIN sessions : sessions[j].socket # s
      BY <1>1, <1>5, <3>1 DEF Safety, SessionsOwnTheirSockets
    <3>3. QED
      BY <1>1, <1>2, <1>5, <2>1, <3>1, <3>2 DEF Safety, SessionsOwnTheirSockets
  <2>4. AskersAreLive' /\ RoutesEndLive' /\ NoMutualAsk'
    BY <1>1, <2>1 DEF Safety, AskersAreLive, RoutesEndLive, NoMutualAsk
  <2>5. QED
    BY <1>3, <2>2, <2>3, <2>4 DEF Safety
<1>6. QED
  BY <1>4, <1>5

LEMMA UnregisterStep ==
  ASSUME BrokerInv, NEW s \in Sockets, Unregister(s) PROVE BrokerInv'
<1> USE DEF BrokerInv
<1> DEFINE k == conn[s].key
           c == [conn EXCEPT ![s].key = None]
<1>1. /\ mode = "up" /\ mode' = mode /\ conn[s].state = "open" /\ k # None
      /\ conn' = Armed(c, s) /\ unregistered' = ArmedQueue(s)
      /\ UNCHANGED <<epoch, mailVars>> /\ RemoveSession(k)
  BY DEF Unregister
<1>2. k \in DOMAIN sessions /\ sessions[k].socket = s
  BY <1>1, KeyHolder DEF Safety
<1>3. c \in ConnFuns /\ \A r \in Sockets : c[r].key = (IF r = s THEN None ELSE conn[r].key)
                                           /\ c[r].state = conn[r].state
  BY DEF TypeOK, ConnType, ConnFuns
<1>4. /\ conn' \in ConnFuns
      /\ \A r \in Sockets : conn'[r].key = IF r = s THEN None ELSE conn[r].key
      /\ \A r \in Sockets : conn'[r].state = conn[r].state \/ conn'[r].state = "closing"
  BY <1>1, <1>3, ArmedKeys DEF TypeOK
<1>5. ConnType'
  BY <1>1, <1>4, WaitingQueue DEF TypeOK, ConnType, ConnFuns
<1>6. TypeOK'
  BY <1>1, <1>2, <1>5, RemoveSessionTypes
     DEF TypeOK, RosterType, TableType, MailboxType, HistoryType, mailVars
<1>7. sessions' = Without(sessions, {k})
  BY <1>1 DEF RemoveSession
<1>8. SessionsOwnTheirSockets'
  BY <1>1, <1>4, <1>7, LeavingKeepsOwners
<1>9. ClosedHoldNoKey'
  BY <1>4 DEF Safety, ClosedHoldNoKey
<1>10. AskersAreLive' /\ RoutesEndLive' /\ NoMutualAsk'
  BY <1>1, <1>2, LeavingKeepsTables DEF AskersAreLive, RoutesEndLive
<1>11. QED
  BY <1>6, <1>8, <1>9, <1>10 DEF Safety


LEMMA CountedType ==
  ASSUME HistoryType, NEW n \in Nat, NEW ks, DOMAIN ks = 1..n
  PROVE  Counted(ks) \in [RecKeys -> 0..2]
<1>1. ASSUME NEW k \in RecKeys
      PROVE  Counted(ks)[k] \in 0..2
  <2> DEFINE S == {i \in DOMAIN ks : ks[i] = k}
  <2>1. IsFiniteSet(1..n)
    BY FS_Interval
  <2>2. S \in SUBSET (1..n)
    OBVIOUS
  <2>3. Cardinality(S) \in Nat
    BY <2>1, <2>2, SubsetCardinality
  <2>4. copies[k] \in 0..2
    BY DEF HistoryType
  <2>5. copies[k] + Cardinality(S) \in Nat
    BY <2>3, <2>4
  <2>6. QED
    BY <2>5 DEF Counted
<1>2. QED
  BY <1>1 DEF Counted

LEMMA CountedOne ==
  ASSUME HistoryType, NEW x PROVE Counted(<<x>>) \in [RecKeys -> 0..2]
<1>1. DOMAIN <<x>> = 1..1
  OBVIOUS
<1>2. QED
  BY <1>1, CountedType

LEMMA PresenceStep ==
  ASSUME BrokerInv, NEW s \in Sockets, NEW name \in Names, NEW alias \in BOOLEAN,
         Presence(s, name, alias)
  PROVE  BrokerInv'
<1> USE DEF BrokerInv
<1> DEFINE k == conn[s].key
<1>1. /\ mode = "up" /\ mode' = mode /\ k # None
      /\ sessions' = [sessions EXCEPT ![k].name = name, ![k].alias = alias]
      /\ UNCHANGED <<connVars, gone, epoch, mailVars, askEdges, routes, timer, mode>>
  BY DEF Presence
<1>2. k \in DOMAIN sessions /\ sessions[k] \in SessionType
  BY <1>1, KeyHolder DEF Safety
<1>3. /\ DOMAIN sessions' = DOMAIN sessions
      /\ \A j \in DOMAIN sessions : sessions'[j].socket = sessions[j].socket
      /\ \A j \in DOMAIN sessions : sessions[j] \in SessionType => sessions'[j] \in SessionType
  BY <1>1, <1>2 DEF SessionType
<1>4. TypeOK'
  BY <1>1, <1>3 DEF TypeOK, ConnType, RosterType, TableType, MailboxType, HistoryType, connVars, mailVars, MapOf
<1>5. SessionsOwnTheirSockets' /\ ClosedHoldNoKey'
  BY <1>1, <1>3 DEF Safety, SessionsOwnTheirSockets, ClosedHoldNoKey, connVars
<1>6. AskersAreLive' /\ RoutesEndLive' /\ NoMutualAsk'
  BY <1>1, <1>3 DEF Safety, AskersAreLive, RoutesEndLive, NoMutualAsk
<1>7. QED
  BY <1>4, <1>5, <1>6 DEF Safety

-----------------------------------------------------------------------------
(* Registration.                                                           *)

LEMMA RefusedStep ==
  ASSUME BrokerInv, NEW s \in Sockets, NEW k \in Keys, RegisterRefused(s, k) PROVE BrokerInv'
<1> USE DEF BrokerInv
<1>1. /\ mode = "up" /\ mode' = mode
      /\ conn' = [conn EXCEPT ![s].state = "closing"]
      /\ gone' = Fresh(gone) /\ mailbox' = FreshMail /\ records' = AfterExpiry(records)
      /\ routes' = WithoutMail(routes, ExpiredMail)
      /\ askEdges' = WithoutAsks(askEdges, ExpiredMail)
      /\ UNCHANGED <<unregistered, sessions, epoch, timer, mode, copies, lost, withdrawn>>
  BY DEF RegisterRefused
<1>2. ConnType' /\ \A r \in Sockets : conn'[r].key = conn[r].key
                                      /\ (conn'[r].state = "none" => conn[r].state = "none")
  BY <1>1 DEF TypeOK, ConnType
<1>3. TableType'
  BY <1>1, ExpiryKeeps, WithoutMailMap DEF TypeOK, TableType, RecordTable
<1>4. MailboxType'
  BY <1>1, FreshMailSeq DEF TypeOK, MailboxType
<1>5. RosterType' /\ HistoryType'
  BY <1>1, FreshMap DEF TypeOK, RosterType, HistoryType
<1>6. TypeOK'
  BY <1>2, <1>3, <1>4, <1>5 DEF TypeOK
<1>7. Shrinks(askEdges', askEdges) /\ Shrinks(routes', routes)
  BY <1>1, ShrinksByMail
<1>8. SessionsOwnTheirSockets' /\ ClosedHoldNoKey'
  BY <1>1, <1>2 DEF Safety, SessionsOwnTheirSockets, ClosedHoldNoKey, TypeOK, RosterType, MapOf, SessionType
<1>9. AskersAreLive' /\ RoutesEndLive' /\ NoMutualAsk'
  BY <1>1, <1>7 DEF Safety, AskersAreLive, RoutesEndLive, NoMutualAsk, Shrinks
<1>10. QED
  BY <1>6, <1>8, <1>9 DEF Safety

\* The newcomer gets its own connection's key, and the mail it claims gets routes to it.
LEMMA RegisterStep ==
  ASSUME BrokerInv, NEW s \in Sockets, NEW k \in Keys, NEW info \in Infos, Register(s, k, info)
  PROVE  BrokerInv'
<1> USE DEF BrokerInv
<1> DEFINE live == Put(sessions, k, Connected(s, info, epoch + 1))
           takes == {i \in DOMAIN FreshMail : Claims(k, live, FreshMail[i])}
           claimed == Filtered(FreshMail, takes)
           Took == {claimed[i] : i \in DOMAIN claimed}
           flushedKeys == [i \in DOMAIN claimed |-> RecKey(claimed[i])]
           kept == WithoutMail(routes, ExpiredMail)
<1>1. /\ mode = "up" /\ mode' = mode /\ epoch < MaxEpoch
      /\ conn[s].state = "open" /\ conn[s].key = None
      /\ k \notin DOMAIN sessions /\ Cardinality(DOMAIN sessions) < MaxSessions
      /\ conn' = [conn EXCEPT ![s].key = k] /\ unregistered' = Registered(s)
      /\ sessions' = live /\ gone' = Without(Fresh(gone), {k})
      /\ epoch' = epoch + 1 /\ timer' = "off"
      /\ askEdges' = WithoutAsks(askEdges, ExpiredMail)
      /\ UNCHANGED <<lost, withdrawn>>
  BY DEF Register, HeldByLive
<1>2. /\ mailbox' = Filtered(FreshMail, DOMAIN FreshMail \ takes)
      /\ records' = Updated(AfterExpiry(records), {RecKey(e) : e \in Took}, "socket_delivered", None)
      /\ copies' = Counted(flushedKeys)
      /\ routes' = [i \in DOMAIN kept \cup {e.msg.id : e \in Took} |->
                      IF \E e \in Took : e.msg.id = i
                      THEN [from |-> (CHOOSE e \in Took : e.msg.id = i).from, to |-> k, old |-> FALSE]
                      ELSE kept[i]]
  BY DEF Register
<1>3. Connected(s, info, epoch + 1) \in SessionType
  BY <1>1, BrokerAssumption DEF Connected, SessionType, Infos, TypeOK, RosterType
<1>4. /\ MapOf(sessions', Keys, SessionType) /\ DOMAIN sessions' = DOMAIN sessions \cup {k}
      /\ sessions'[k].socket = s
      /\ \A j \in DOMAIN sessions : sessions'[j] = sessions[j]
  BY <1>1, <1>3, PutMap DEF TypeOK, RosterType, Connected
<1>5. IsFiniteSet(DOMAIN sessions') /\ Cardinality(DOMAIN sessions') <= MaxSessions
  <2>1. /\ IsFiniteSet(DOMAIN live) /\ Cardinality(DOMAIN live) \in Nat
        /\ Cardinality(DOMAIN sessions) \in Nat
        /\ Cardinality(DOMAIN live) <= Cardinality(DOMAIN sessions) + 1
    BY PutCardinality DEF TypeOK, RosterType
  <2>2. QED
    BY <1>1, <2>1, BrokerAssumption
<1>6. MapOf(gone', Keys, GoneType)
  BY <1>1, FreshMap, WithoutMap DEF TypeOK, RosterType
<1>7. RosterType'
  <2>1. epoch' \in 0..MaxEpoch
    BY <1>1, BrokerAssumption DEF TypeOK, RosterType
  <2>2. QED
    BY <1>1, <1>4, <1>5, <1>6, <2>1 DEF TypeOK, RosterType
<1>8. ConnType' /\ \A r \in Sockets : /\ conn'[r].key = (IF r = s THEN k ELSE conn[r].key)
                                      /\ conn'[r].state = conn[r].state
  BY <1>1, WaitingQueue DEF TypeOK, ConnType
<1>9. /\ FreshMail \in Seq(MailType) /\ Len(FreshMail) <= MaxMailbox
      /\ claimed \in Seq(MailType)
      /\ Len(Filtered(FreshMail, DOMAIN FreshMail \ takes)) <= Len(FreshMail)
      /\ Filtered(FreshMail, DOMAIN FreshMail \ takes) \in Seq(MailType)
  <2>1. FreshMail \in Seq(MailType) /\ Len(FreshMail) <= MaxMailbox
    BY FreshMailSeq DEF TypeOK
  <2>2. takes \in SUBSET DOMAIN FreshMail /\ DOMAIN FreshMail \ takes \in SUBSET DOMAIN FreshMail
    OBVIOUS
  <2>3. claimed \in Seq(MailType)
    BY <2>1, <2>2, FilteredSeq
  <2>4. QED
    BY <2>1, <2>2, <2>3, FilteredSeq
<1>10. MailboxType'
  BY <1>2, <1>9, BrokerAssumption DEF MailboxType
<1>11. \A e \in Took : e \in MailType /\ e.from \in Keys /\ e.msg.id \in MsgIds
  <2>1. \A i \in DOMAIN claimed : claimed[i] \in MailType
    BY <1>9
  <2>2. \A e \in MailType : e.from \in Keys /\ e.msg \in Messages
    BY DEF MailType
  <2>3. QED
    BY <2>1, <2>2 DEF MsgIds
<1>12. MapOf(kept, MsgIds, EdgeType)
  BY WithoutMailMap DEF TypeOK, TableType
<1>13. /\ DOMAIN routes' = DOMAIN kept \cup {e.msg.id : e \in Took}
       /\ \A i \in DOMAIN routes' : \/ routes'[i] \in EdgeType /\ routes'[i].to = k
                                    \/ i \in DOMAIN kept /\ routes'[i] = kept[i]
  <2> DEFINE r == [i \in DOMAIN kept \cup {e.msg.id : e \in Took} |->
                     IF \E e \in Took : e.msg.id = i
                     THEN [from |-> (CHOOSE e \in Took : e.msg.id = i).from, to |-> k, old |-> FALSE]
                     ELSE kept[i]]
  <2>1. ASSUME NEW i \in DOMAIN r, \E e \in Took : e.msg.id = i
        PROVE  r[i] \in EdgeType /\ r[i].to = k
    <3>1. (CHOOSE e \in Took : e.msg.id = i) \in Took
      BY <2>1
    <3>2. (CHOOSE e \in Took : e.msg.id = i).from \in Keys
      BY <3>1, <1>11
    <3>3. QED
      BY <2>1, <3>2 DEF EdgeType
  <2>2. ASSUME NEW i \in DOMAIN r, ~ \E e \in Took : e.msg.id = i
        PROVE  i \in DOMAIN kept /\ r[i] = kept[i]
    BY <2>2
  <2>3. QED
    BY <1>2, <2>1, <2>2
<1>14. MapOf(routes', MsgIds, EdgeType)
  BY <1>11, <1>12, <1>13 DEF MapOf
<1>15. TableType'
  <2>1. RecordTable(records')
    BY <1>2, ExpiryKeeps, UpdatedTable DEF TypeOK, TableType, RecordTable, DeliveryStates, Codes
  <2>2. MapOf(askEdges', MsgIds, EdgeType)
    BY <1>1, WithoutMailMap DEF TypeOK, TableType
  <2>3. QED
    BY <1>14, <2>1, <2>2 DEF TableType, RecordTable
<1>16. HistoryType'
  <2>1. DOMAIN flushedKeys = 1..Len(claimed) /\ Len(claimed) \in Nat
    BY <1>9
  <2>2. copies' \in [RecKeys -> 0..2]
    BY <1>2, <2>1, CountedType DEF TypeOK
  <2>3. QED
    BY <1>1, <2>2 DEF TypeOK, HistoryType
<1>17. TypeOK'
  BY <1>7, <1>8, <1>10, <1>15, <1>16 DEF TypeOK
<1>18. SessionsOwnTheirSockets'
  <2>1. /\ \A r \in Sockets : conn[r].key # None =>
              conn[r].key \in DOMAIN sessions /\ sessions[conn[r].key].socket = r
        /\ \A j \in DOMAIN sessions : conn[sessions[j].socket].key = j
    BY <1>1 DEF Safety, SessionsOwnTheirSockets
  <2>2. \A j \in DOMAIN sessions : sessions[j].socket \in Sockets /\ j # None
    BY BrokerAssumption DEF TypeOK, RosterType, MapOf, SessionType
  <2>3. \A j \in DOMAIN sessions : sessions[j].socket # s
    BY <1>1, <2>1, <2>2
  <2>4. ASSUME NEW r \in Sockets, conn'[r].key # None
        PROVE  conn'[r].key \in DOMAIN sessions' /\ sessions'[conn'[r].key].socket = r
    <3>1. CASE r = s
      BY <1>4, <1>8, <3>1
    <3>2. CASE r # s
      BY <1>4, <1>8, <2>1, <2>4, <3>2
    <3>3. QED
      BY <3>1, <3>2
  <2>5. ASSUME NEW j \in DOMAIN sessions'
        PROVE  conn'[sessions'[j].socket].key = j
    <3>1. CASE j = k
      BY <1>4, <1>8, <3>1
    <3>2. CASE j # k
      <4>1. j \in DOMAIN sessions /\ sessions'[j] = sessions[j]
        BY <1>4, <3>2
      <4>2. conn'[sessions[j].socket].key = conn[sessions[j].socket].key
        BY <1>8, <2>2, <2>3, <4>1
      <4>3. QED
        BY <2>1, <4>1, <4>2
    <3>3. QED
      BY <3>1, <3>2
  <2>6. QED
    BY <2>4, <2>5 DEF SessionsOwnTheirSockets
<1>19. ClosedHoldNoKey'
  BY <1>1, <1>8 DEF Safety, ClosedHoldNoKey
<1>20. AskersAreLive' /\ NoMutualAsk'
  <2>1. Shrinks(askEdges', askEdges)
    BY <1>1, ShrinksByMail
  <2>2. QED
    BY <1>1, <1>4, <2>1 DEF Safety, AskersAreLive, NoMutualAsk, Shrinks
<1>21. RoutesEndLive'
  <2>1. Shrinks(kept, routes)
    BY ShrinksByMail
  <2>2. QED
    BY <1>1, <1>4, <1>13, <2>1 DEF Safety, RoutesEndLive, Shrinks
<1>22. QED
  BY <1>17, <1>18, <1>19, <1>20, <1>21 DEF Safety


-----------------------------------------------------------------------------
(* Sending.                                                                *)

\* The sender of a frame is the live session of its connection.
LEMMA Sender ==
  ASSUME BrokerInv, NEW s \in Sockets, NEW m \in Messages, Sends(s, m)
  PROVE  mode = "up" /\ m.by \in Keys /\ m.by \in DOMAIN sessions /\ m.id \in MsgIds
         /\ sessions[m.by] \in SessionType
BY KeyHolder DEF BrokerInv, Safety, Sends, MsgIds

\* The pruned tables keep their types.
LEMMA PrunedTables ==
  ASSUME TypeOK
  PROVE  /\ MapOf(Fresh(askEdges), MsgIds, EdgeType) /\ MapOf(Fresh(routes), MsgIds, EdgeType)
         /\ MapOf(Fresh(gone), Keys, GoneType)
         /\ RecordTable(records) /\ RecordTable(Fresh(records))
BY FreshMap, FreshTable DEF TypeOK, TableType, RosterType, RecordTable

\* Records that are dropped are record keys.
LEMMA DroppedKeys ==
  ASSUME TypeOK, NEW recs, RecordTable(recs), NEW victims \in Room(recs)
  PROVE  lost \cup Dropped(records) \cup victims \subseteq RecKeys
BY DEF TypeOK, TableType, HistoryType, Dropped, Room, RecordTable, MapOf

\* Frames that are refused or answered from a record only prune.
LEMMA SendPruneStep ==
  ASSUME BrokerInv, NEW s \in Sockets, NEW m \in Messages, NEW to, NEW ep,
         SendRefused(s, m, to, ep) \/ SendReplayed(s, m, to, ep)
  PROVE  BrokerInv'
<1> USE DEF BrokerInv
<1>1. /\ askEdges' = Fresh(askEdges) /\ routes' = Fresh(routes)
      /\ gone' = GoneAfterLookup(m.by, to, ep)
      /\ \/ records' = Fresh(records) /\ lost' = lost \cup Dropped(records)
         \/ UNCHANGED <<records, lost>>
      /\ UNCHANGED <<connVars, sessions, epoch, mailbox, copies, withdrawn, timer, mode>>
  BY DEF SendRefused, SendReplayed
<1>2. RosterType'
  BY <1>1, PrunedTables DEF TypeOK, RosterType, GoneAfterLookup
<1>3. TableType'
  BY <1>1, PrunedTables DEF TypeOK, TableType, RecordTable
<1>4. HistoryType'
  BY <1>1 DEF TypeOK, TableType, HistoryType, Dropped, MapOf
<1>5. TypeOK'
  BY <1>1, <1>2, <1>3, <1>4 DEF TypeOK, ConnType, MailboxType, connVars
<1>6. Safety'
  BY <1>1, TablesOnly, ShrinksByFresh DEF connVars
<1>7. QED
  BY <1>5, <1>6

LEMMA SendExactFailedStep ==
  ASSUME BrokerInv, NEW s \in Sockets, NEW m \in Messages, NEW to \in Ids, NEW ep,
         SendExactFailed(s, m, to, ep)
  PROVE  BrokerInv'
<1> USE DEF BrokerInv
<1>1. /\ Sends(s, m)
      /\ askEdges' = Fresh(askEdges) /\ routes' = Fresh(routes)
      /\ UNCHANGED <<connVars, sessions, gone, epoch, mailbox, copies, withdrawn, timer, mode>>
  BY DEF SendExactFailed
<1>2. PICK victims \in Room(Fresh(records)), code \in Codes :
        /\ records' = Recorded(Fresh(records), victims, m.by, m, to, "failed", code)
        /\ lost' = lost \cup Dropped(records) \cup victims
  BY DEF SendExactFailed, Codes
<1>3. RecordTable(records')
  BY <1>1, <1>2, PrunedTables, RecordedTable, Sender DEF DeliveryStates
<1>4. TypeOK'
  BY <1>1, <1>2, <1>3, PrunedTables, DroppedKeys
     DEF TypeOK, ConnType, RosterType, TableType, MailboxType, HistoryType, RecordTable, connVars
<1>5. Safety'
  BY <1>1, TablesOnly, ShrinksByFresh DEF connVars
<1>6. QED
  BY <1>4, <1>5


\* A frame that is delivered goes to a live session that passed every check.
LEMMA DeliverTarget ==
  ASSUME BrokerInv, NEW me \in Keys, NEW m \in Messages, NEW to, NEW ep,
         Verdict(m, me, to, ep) = "deliver"
  PROVE  /\ TheOne(Targets(sessions, to, Scope(me))) \in DOMAIN sessions
         /\ LiveVerdict(m, me, TheOne(Targets(sessions, to, Scope(me)))) = "deliver"
<1> DEFINE live == Targets(sessions, to, Scope(me))
<1>1. live \subseteq DOMAIN sessions
  BY DEF Targets
<1>2. CASE ep = 0
  <2>1. Single(live) /\ LiveVerdict(m, me, TheOne(live)) = "deliver"
    BY <1>2 DEF Verdict, GoneVerdict, Replay
  <2>2. QED
    BY <1>1, <2>1 DEF Single, TheOne
<1>3. CASE ep # 0
  <2> DEFINE k == <<Scope(me), to>>
  <2>1. k \in DOMAIN sessions /\ LiveVerdict(m, me, k) = "deliver"
    BY <1>3 DEF Verdict, ExactVerdict, Replay
  <2>2. \A j \in DOMAIN sessions : j \in Scopes \X Ids
    BY DEF BrokerInv, TypeOK, RosterType, MapOf, Keys
  <2>3. \A j \in DOMAIN sessions : Scope(j) = Scope(me) /\ j[2] = to => j = k
    BY <2>2 DEF Scope
  <2>4. Scope(k) = Scope(me) /\ k[2] = to
    BY DEF Scope
  <2>5. live = {k}
    BY <2>1, <2>3, <2>4 DEF Targets
  <2>6. TheOne(live) = k
    BY <2>5 DEF TheOne
  <2>7. QED
    BY <2>1, <2>6
<1>4. QED
  BY <1>2, <1>3

\* A delivered ask adds the one edge that no edge opposes.
LEMMA SendDeliveredStep ==
  ASSUME BrokerInv, NEW s \in Sockets, NEW m \in Messages, NEW to, NEW ep,
         SendDelivered(s, m, to, ep)
  PROVE  BrokerInv'
<1> USE DEF BrokerInv
<1> DEFINE me == m.by
           k == TheOne(Targets(sessions, to, Scope(me)))
           asked == IF m.expectsReply
                    THEN Put(Fresh(askEdges), m.id, [from |-> me, to |-> k, old |-> FALSE])
                    ELSE Fresh(askEdges)
           superseded == Updated(Fresh(records), {<<me, m.supersedes>>}, "failed",
                                 "E_DELIVERY_SUPERSEDED")
<1>1. /\ Sends(s, m) /\ Verdict(m, me, to, ep) = "deliver"
      /\ askEdges' = Without(asked, Answered(m))
      /\ routes' = Put(Fresh(routes), m.id, [from |-> me, to |-> k, old |-> FALSE])
      /\ copies' = Counted(<< <<me, m.id>> >>)
      /\ UNCHANGED <<connVars, sessions, gone, epoch, mailbox, withdrawn, timer, mode>>
  BY DEF SendDelivered
<1>2. PICK victims \in Room(superseded) :
        /\ records' = Recorded(superseded, victims, me, m, k[2], "socket_delivered", None)
        /\ lost' = lost \cup Dropped(records) \cup victims
  BY DEF SendDelivered
<1>3. mode = "up" /\ me \in Keys /\ me \in DOMAIN sessions /\ m.id \in MsgIds
  BY <1>1, Sender
<1>4. k \in DOMAIN sessions /\ LiveVerdict(m, me, k) = "deliver"
  BY <1>1, <1>3, DeliverTarget
<1>5. k \in Keys /\ k[2] \in Ids
  BY <1>4 DEF TypeOK, RosterType, MapOf, Keys
<1>6. m.expectsReply => ~Reverse(m, me, k)
  BY <1>4 DEF LiveVerdict, Replay
<1>7. [from |-> me, to |-> k, old |-> FALSE] \in EdgeType
  BY <1>3, <1>5 DEF EdgeType
<1>8. MapOf(askEdges', MsgIds, EdgeType) /\ MapOf(routes', MsgIds, EdgeType)
  <2>1. MapOf(asked, MsgIds, EdgeType)
    BY <1>3, <1>7, PutMap, PrunedTables
  <2>2. QED
    BY <1>1, <1>3, <1>7, <2>1, PutMap, WithoutMap, PrunedTables
<1>9. RecordTable(superseded)
  BY PrunedTables, UpdatedTable DEF DeliveryStates, Codes
<1>10. RecordTable(records')
  BY <1>2, <1>3, <1>5, <1>9, RecordedTable DEF DeliveryStates, Codes
<1>11. HistoryType'
  <2>1. copies' \in [RecKeys -> 0..2]
    BY <1>1, CountedOne DEF TypeOK
  <2>2. lost' \subseteq RecKeys
    BY <1>2, <1>9, DroppedKeys
  <2>3. QED
    BY <1>1, <2>1, <2>2 DEF TypeOK, HistoryType
<1>12. TypeOK'
  BY <1>1, <1>8, <1>10, <1>11
     DEF TypeOK, ConnType, RosterType, TableType, MailboxType, RecordTable, connVars
<1>13. SessionsOwnTheirSockets' /\ ClosedHoldNoKey'
  BY <1>1 DEF Safety, SessionsOwnTheirSockets, ClosedHoldNoKey, connVars
<1>14. \A i \in DOMAIN asked :
         \/ m.expectsReply /\ i = m.id /\ asked[i].from = me /\ asked[i].to = k
         \/ i \in DOMAIN Fresh(askEdges) /\ asked[i] = Fresh(askEdges)[i]
  BY DEF Put
<1>15. \A i \in DOMAIN Fresh(askEdges) : i \in DOMAIN askEdges /\ Fresh(askEdges)[i] = askEdges[i]
  BY DEF Fresh
<1>16. /\ DOMAIN askEdges' = DOMAIN asked \ Answered(m)
       /\ \A i \in DOMAIN askEdges' : askEdges'[i] = asked[i]
  BY <1>1 DEF Without
<1>17. AskersAreLive'
  BY <1>1, <1>3, <1>14, <1>15, <1>16 DEF Safety, AskersAreLive
<1>18. NoMutualAsk'
  <2> SUFFICES ASSUME NEW i \in DOMAIN askEdges', NEW j \in DOMAIN askEdges', i # j,
                      askEdges'[i].from = askEdges'[j].to, askEdges'[i].to = askEdges'[j].from
               PROVE  FALSE
    BY DEF NoMutualAsk
  <2> DEFINE Opposes(h) == /\ h \in DOMAIN Fresh(askEdges) \ {m.replyTo}
                           /\ Fresh(askEdges)[h].from = k /\ Fresh(askEdges)[h].to = me
  <2>1. m.expectsReply => \A h : ~Opposes(h)
    BY <1>6 DEF Reverse
  <2>2. i # m.replyTo /\ j # m.replyTo
    BY <1>16 DEF Answered
  <2>3. CASE i \in DOMAIN Fresh(askEdges) /\ asked[i] = Fresh(askEdges)[i]
             /\ j \in DOMAIN Fresh(askEdges) /\ asked[j] = Fresh(askEdges)[j]
    <3>1. i \in DOMAIN askEdges /\ askEdges'[i] = askEdges[i]
      BY <1>15, <1>16, <2>3
    <3>2. j \in DOMAIN askEdges /\ askEdges'[j] = askEdges[j]
      BY <1>15, <1>16, <2>3
    <3>3. ~(askEdges[i].from = askEdges[j].to /\ askEdges[i].to = askEdges[j].from)
      BY <3>1, <3>2 DEF Safety, NoMutualAsk
    <3>4. QED
      BY <3>1, <3>2, <3>3
  <2>4. CASE m.expectsReply /\ i = m.id /\ asked[i].from = me /\ asked[i].to = k
    <3>1. j \in DOMAIN Fresh(askEdges) /\ asked[j] = Fresh(askEdges)[j]
      BY <1>14, <1>16, <2>4
    <3>2. Opposes(j)
      BY <1>16, <2>2, <2>4, <3>1
    <3>3. QED
      BY <2>1, <2>4, <3>2
  <2>5. CASE m.expectsReply /\ j = m.id /\ asked[j].from = me /\ asked[j].to = k
    <3>1. i \in DOMAIN Fresh(askEdges) /\ asked[i] = Fresh(askEdges)[i]
      BY <1>14, <1>16, <2>5
    <3>2. Opposes(i)
      BY <1>16, <2>2, <2>5, <3>1
    <3>3. QED
      BY <2>1, <2>5, <3>2
  <2>6. QED
    BY <1>14, <1>16, <2>3, <2>4, <2>5
<1>19. RoutesEndLive'
  BY <1>1, <1>4 DEF Safety, RoutesEndLive, Put, Fresh
<1>20. QED
  BY <1>12, <1>13, <1>17, <1>18, <1>19 DEF Safety


\* A message for a session that has left goes to its one successor or waits for it.
LEMMA GoneTarget ==
  ASSUME BrokerInv, NEW me \in Keys, NEW m \in Messages, NEW to, NEW ep,
         Verdict(m, me, to, ep) \in {"relog", "queue"}
  PROVE  LET k == TheOne(Targets(Fresh(gone), to, Scope(me)))
         IN /\ k \in DOMAIN gone /\ k \in Keys /\ k[2] \in Ids /\ gone[k] \in GoneType
            /\ GoneVerdict(m, me, k) = Verdict(m, me, to, ep)
<1> DEFINE left == Targets(Fresh(gone), to, Scope(me))
           k == TheOne(left)
<1>1. left \subseteq DOMAIN gone
  BY DEF Targets, Fresh
<1>2. Single(left) /\ GoneVerdict(m, me, k) = Verdict(m, me, to, ep)
  BY DEF Verdict, ExactVerdict, LiveVerdict, Replay
<1>3. k \in left
  BY <1>2 DEF Single, TheOne
<1>4. k \in DOMAIN gone
  BY <1>1, <1>3
<1>5. k \in Keys /\ gone[k] \in GoneType
  BY <1>4 DEF BrokerInv, TypeOK, RosterType, MapOf
<1>6. QED
  BY <1>2, <1>4, <1>5 DEF Keys

LEMMA SendReloggedStep ==
  ASSUME BrokerInv, NEW s \in Sockets, NEW m \in Messages, NEW to, NEW ep,
         SendRelogged(s, m, to, ep)
  PROVE  BrokerInv'
<1> USE DEF BrokerInv
<1> DEFINE me == m.by
           k == TheOne(Targets(Fresh(gone), to, Scope(me)))
           l == TheOne(Successors(k, me))
<1>1. /\ Sends(s, m) /\ Verdict(m, me, to, ep) = "relog"
      /\ askEdges' = Without(Fresh(askEdges), Answered(m))
      /\ routes' = Put(Fresh(routes), m.id, [from |-> me, to |-> l, old |-> FALSE])
      /\ gone' = Fresh(gone)
      /\ copies' = Counted(<< <<me, m.id>> >>)
      /\ UNCHANGED <<connVars, sessions, epoch, mailbox, withdrawn, timer, mode>>
  BY DEF SendRelogged
<1>2. PICK victims \in Room(Fresh(records)) :
        /\ records' = Recorded(Fresh(records), victims, me, m, k[2], "socket_delivered", None)
        /\ lost' = lost \cup Dropped(records) \cup victims
  BY DEF SendRelogged
<1>3. mode = "up" /\ me \in Keys /\ me \in DOMAIN sessions /\ m.id \in MsgIds
  BY <1>1, Sender
<1>4. k \in Keys /\ k[2] \in Ids /\ GoneVerdict(m, me, k) = "relog"
  BY <1>1, <1>3, GoneTarget
<1>5. l \in DOMAIN sessions
  <2>1. Single(Successors(k, me))
    BY <1>4 DEF GoneVerdict, Replay
  <2>2. l \in Successors(k, me)
    BY <2>1 DEF Single, TheOne
  <2>3. QED
    BY <2>2 DEF Successors, SharingMailbox
<1>6. l \in Keys
  BY <1>5 DEF TypeOK, RosterType, MapOf
<1>7. MapOf(routes', MsgIds, EdgeType)
  <2>1. [from |-> me, to |-> l, old |-> FALSE] \in EdgeType
    BY <1>3, <1>6 DEF EdgeType
  <2>2. QED
    BY <1>1, <1>3, <2>1, PutMap, PrunedTables
<1>8. MapOf(askEdges', MsgIds, EdgeType) /\ MapOf(gone', Keys, GoneType)
  BY <1>1, PrunedTables, WithoutMap
<1>9. RecordTable(records')
  BY <1>2, <1>3, <1>4, PrunedTables, RecordedTable DEF DeliveryStates, Codes
<1>10. HistoryType'
  BY <1>1, <1>2, CountedOne, DroppedKeys, PrunedTables DEF TypeOK, HistoryType
<1>11. TypeOK'
  BY <1>1, <1>7, <1>8, <1>9, <1>10
     DEF TypeOK, ConnType, RosterType, TableType, MailboxType, RecordTable, connVars
<1>12. Shrinks(askEdges', askEdges)
  BY <1>1, ShrinksByFresh, ShrinksByWithout, ShrinksTrans
<1>13. SessionsOwnTheirSockets' /\ ClosedHoldNoKey'
  BY <1>1 DEF Safety, SessionsOwnTheirSockets, ClosedHoldNoKey, connVars
<1>14. AskersAreLive' /\ NoMutualAsk'
  BY <1>1, <1>3, <1>12 DEF Safety, AskersAreLive, NoMutualAsk, Shrinks
<1>15. RoutesEndLive'
  BY <1>1, <1>5 DEF Safety, RoutesEndLive, Put, Fresh
<1>16. QED
  BY <1>11, <1>13, <1>14, <1>15 DEF Safety

LEMMA SendQueuedStep ==
  ASSUME BrokerInv, NEW s \in Sockets, NEW m \in Messages, NEW to, NEW ep,
         SendQueued(s, m, to, ep)
  PROVE  BrokerInv'
<1> USE DEF BrokerInv
<1> DEFINE me == m.by
           k == TheOne(Targets(Fresh(gone), to, Scope(me)))
           full == Len(FreshMail) >= MaxMailbox
           room == IF full THEN Tail(FreshMail) ELSE FreshMail
           evicted == IF full THEN {Head(FreshMail)} ELSE {}
           settled == Updated(AfterExpiry(Fresh(records)), {RecKey(e) : e \in evicted},
                              "failed", "E_DELIVERY_EVICTED")
<1>1. /\ Sends(s, m) /\ Verdict(m, me, to, ep) = "queue"
      /\ mailbox' = Append(room, MailFor(m, k, gone[k]))
      /\ askEdges' = Without(WithoutAsks(Fresh(askEdges), ExpiredMail \cup evicted), Answered(m))
      /\ routes' = WithoutMail(Fresh(routes), ExpiredMail \cup evicted)
      /\ gone' = Fresh(gone)
      /\ UNCHANGED <<connVars, sessions, epoch, copies, withdrawn, timer, mode>>
  BY DEF SendQueued
<1>2. PICK victims \in Room(settled) :
        /\ records' = Recorded(settled, victims, me, m, k[2], "queued", None)
        /\ lost' = lost \cup Dropped(records) \cup victims
  BY DEF SendQueued
<1>3. mode = "up" /\ me \in Keys /\ me \in DOMAIN sessions /\ sessions[me] \in SessionType
  BY <1>1, Sender
<1>4. k \in Keys /\ k[2] \in Ids /\ gone[k] \in GoneType
  BY <1>1, <1>3, GoneTarget
<1>5. MailFor(m, k, gone[k]) \in MailType
  BY <1>3, <1>4 DEF MailFor, Info, MailType, InfoType, SessionType, GoneType
<1>6. MailboxType'
  <2>1. FreshMail \in Seq(MailType) /\ Len(FreshMail) <= MaxMailbox
    BY FreshMailSeq DEF TypeOK
  <2>2. room \in Seq(MailType) /\ Len(room) + 1 <= MaxMailbox
    BY <2>1, BrokerAssumption
  <2>3. QED
    BY <1>1, <1>5, <2>2 DEF MailboxType
<1>7. RecordTable(settled)
  BY PrunedTables, ExpiryKeeps, UpdatedTable DEF DeliveryStates, Codes
<1>8. RecordTable(records')
  BY <1>2, <1>3, <1>4, <1>7, RecordedTable DEF DeliveryStates, Codes
<1>9. MapOf(askEdges', MsgIds, EdgeType) /\ MapOf(routes', MsgIds, EdgeType)
      /\ MapOf(gone', Keys, GoneType)
  BY <1>1, PrunedTables, WithoutMailMap, WithoutMap
<1>10. HistoryType'
  BY <1>1, <1>2, <1>7, DroppedKeys DEF TypeOK, HistoryType
<1>11. TypeOK'
  BY <1>1, <1>6, <1>8, <1>9, <1>10
     DEF TypeOK, ConnType, RosterType, TableType, RecordTable, connVars
<1>12. Shrinks(askEdges', askEdges) /\ Shrinks(routes', routes)
  BY <1>1, ShrinksByFresh, ShrinksByMail, ShrinksByWithout, ShrinksTrans
<1>13. Safety'
  BY <1>1, <1>12, TablesOnly DEF connVars
<1>14. QED
  BY <1>11, <1>13

-----------------------------------------------------------------------------
(* Cancelling, receipts, the timers and the passing of time.               *)

LEMMA CancelQueuedStep ==
  ASSUME BrokerInv, NEW s \in Sockets, NEW i \in MsgIds, CancelQueued(s, i) PROVE BrokerInv'
<1> USE DEF BrokerInv
<1> DEFINE me == conn[s].key
           at == {j \in DOMAIN FreshMail : FreshMail[j].msg.id = i /\ FreshMail[j].from = me}
           first == CHOOSE j \in at : \A h \in at : j <= h
           kept == WithoutAsks(askEdges, ExpiredMail)
<1>1. /\ mode = "up" /\ me # None /\ at # {}
      /\ mailbox' = Filtered(FreshMail, DOMAIN FreshMail \ {first})
      /\ records' = Updated(AfterExpiry(records), {<<me, i>>}, "failed", "E_DELIVERY_CANCELLED")
      /\ routes' = WithoutMail(Fresh(routes), ExpiredMail)
      /\ askEdges' = Without(kept, {j \in DOMAIN kept : j = i /\ kept[j].from = me})
      /\ withdrawn' = withdrawn \cup {<<me, i>>}
      /\ UNCHANGED <<connVars, rosterVars, copies, lost, timer, mode>>
  BY DEF CancelQueued
<1>2. me \in Keys
  BY <1>1, KeyHolder DEF Safety
<1>3. FreshMail \in Seq(MailType) /\ Len(FreshMail) <= MaxMailbox /\ Len(FreshMail) \in Nat
  BY FreshMailSeq DEF TypeOK
<1>4. DOMAIN FreshMail \ {first} \in SUBSET DOMAIN FreshMail
  OBVIOUS
<1>5. MailboxType'
  <2>1. mailbox' \in Seq(MailType) /\ Len(mailbox') <= Len(FreshMail) /\ Len(mailbox') \in Nat
    BY <1>1, <1>3, <1>4, FilteredSeq
  <2>2. QED
    BY <1>3, <2>1, BrokerAssumption DEF MailboxType
<1>6. RecordTable(records')
  BY <1>1, ExpiryKeeps, UpdatedTable DEF TypeOK, TableType, RecordTable, DeliveryStates, Codes
<1>7. MapOf(askEdges', MsgIds, EdgeType) /\ MapOf(routes', MsgIds, EdgeType)
  BY <1>1, PrunedTables, WithoutMailMap, WithoutMap DEF TypeOK, TableType
<1>8. HistoryType'
  BY <1>1, <1>2 DEF TypeOK, HistoryType, RecKeys
<1>9. TypeOK'
  BY <1>1, <1>5, <1>6, <1>7, <1>8
     DEF TypeOK, ConnType, RosterType, TableType, RecordTable, connVars, rosterVars
<1>10. Shrinks(askEdges', askEdges) /\ Shrinks(routes', routes)
  BY <1>1, ShrinksByFresh, ShrinksByMail, ShrinksByWithout, ShrinksTrans
<1>11. Safety'
  BY <1>1, <1>10, TablesOnly DEF connVars, rosterVars
<1>12. QED
  BY <1>9, <1>11

LEMMA CancelSentStep ==
  ASSUME BrokerInv, NEW s \in Sockets, NEW i \in MsgIds, CancelSent(s, i) PROVE BrokerInv'
<1> USE DEF BrokerInv
<1> DEFINE me == conn[s].key
           rts == WithoutMail(Fresh(routes), ExpiredMail)
           kept == WithoutAsks(askEdges, ExpiredMail)
           routed == i \in DOMAIN rts /\ rts[i].from = me /\ rts[i].to \in DOMAIN sessions
           mine == IF routed THEN {<<me, i>>} ELSE {}
           dropped == IF routed THEN {j \in DOMAIN kept : j = i /\ kept[j].from = me} ELSE {}
<1>1. /\ mode = "up"
      /\ mailbox' = FreshMail
      /\ routes' = rts
      /\ records' = Updated(AfterExpiry(records), mine, "failed", "E_DELIVERY_CANCELLED")
      /\ UNCHANGED <<connVars, rosterVars, copies, lost, withdrawn, timer, mode>>
  BY DEF CancelSent
<1>2. askEdges' = IF routed THEN Without(kept, dropped) ELSE kept
  BY DEF CancelSent
<1>3. MailboxType'
  BY <1>1, FreshMailSeq DEF TypeOK, MailboxType
<1>4. RecordTable(records')
  BY <1>1, ExpiryKeeps, UpdatedTable DEF TypeOK, TableType, RecordTable, DeliveryStates, Codes
<1>5. MapOf(kept, MsgIds, EdgeType) /\ MapOf(routes', MsgIds, EdgeType)
  BY <1>1, PrunedTables, WithoutMailMap DEF TypeOK, TableType
<1>6. MapOf(askEdges', MsgIds, EdgeType)
  BY <1>2, <1>5, WithoutMap
<1>7. TypeOK'
  BY <1>1, <1>3, <1>4, <1>5, <1>6
     DEF TypeOK, ConnType, RosterType, TableType, HistoryType, RecordTable, connVars, rosterVars
<1>8. Shrinks(askEdges', askEdges) /\ Shrinks(routes', routes)
  <2>1. Shrinks(kept, askEdges) /\ Shrinks(routes', routes)
    BY <1>1, ShrinksByFresh, ShrinksByMail, ShrinksTrans
  <2>2. QED
    BY <1>2, <2>1, ShrinksByWithout, ShrinksTrans
<1>9. Safety'
  BY <1>1, <1>8, TablesOnly DEF connVars, rosterVars
<1>10. QED
  BY <1>7, <1>9

LEMMA CancelAskStep ==
  ASSUME BrokerInv, NEW s \in Sockets, NEW i \in MsgIds, CancelAsk(s, i) PROVE BrokerInv'
<1> USE DEF BrokerInv
<1> DEFINE dropped == {j \in DOMAIN askEdges : j = i /\ askEdges[j].from = conn[s].key}
<1>1. /\ askEdges' = Without(askEdges, dropped)
      /\ UNCHANGED <<connVars, rosterVars, mailVars, routes, timer, mode>>
  BY DEF CancelAsk
<1>2. MapOf(askEdges', MsgIds, EdgeType)
  BY <1>1, WithoutMap DEF TypeOK, TableType
<1>3. TypeOK'
  BY <1>1, <1>2 DEF TypeOK, ConnType, RosterType, TableType, MailboxType, HistoryType,
                    connVars, rosterVars, mailVars
<1>4. Shrinks(askEdges', askEdges) /\ Shrinks(routes', routes)
  BY <1>1, ShrinksByWithout, ShrinksRefl
<1>5. Safety'
  BY <1>1, <1>4, TablesOnly DEF connVars, rosterVars
<1>6. QED
  BY <1>3, <1>5

LEMMA ReceiptStep ==
  ASSUME BrokerInv, NEW s \in Sockets, NEW i \in MsgIds, Receipt(s, i) PROVE BrokerInv'
<1> USE DEF BrokerInv
<1>1. /\ routes' = Fresh(routes)
      /\ UNCHANGED <<connVars, rosterVars, mailVars, askEdges, timer, mode>>
  BY DEF Receipt
<1>2. MapOf(routes', MsgIds, EdgeType)
  BY <1>1, PrunedTables
<1>3. TypeOK'
  BY <1>1, <1>2 DEF TypeOK, ConnType, RosterType, TableType, MailboxType, HistoryType,
                    connVars, rosterVars, mailVars
<1>4. Shrinks(askEdges', askEdges) /\ Shrinks(routes', routes)
  BY <1>1, ShrinksByFresh, ShrinksRefl
<1>5. Safety'
  BY <1>1, <1>4, TablesOnly DEF connVars, rosterVars
<1>6. QED
  BY <1>3, <1>5

LEMMA IdleCheckStep ==
  ASSUME BrokerInv, IdleCheck PROVE BrokerInv'
<1> USE DEF BrokerInv
<1>1. mode = "up" /\ timer \in {"early", "idle"} /\ UNCHANGED <<connVars, rosterVars, copies, lost, withdrawn>>
  BY DEF IdleCheck, TypeOK, RosterType
<1>2. CASE timer' = "off" /\ UNCHANGED <<mode, mailbox, records, routes, askEdges>>
  <2>1. TypeOK'
    BY <1>1, <1>2 DEF TypeOK, ConnType, RosterType, TableType, MailboxType, HistoryType,
                      connVars, rosterVars
  <2>2. Safety'
    BY <1>1, <1>2, ShrinksRefl, TablesOnly DEF connVars, rosterVars
  <2>3. QED
    BY <2>1, <2>2
<1>3. CASE /\ mailbox' = FreshMail
           /\ records' = AfterExpiry(records)
           /\ routes' = WithoutMail(routes, ExpiredMail)
           /\ askEdges' = WithoutAsks(askEdges, ExpiredMail)
           /\ timer' = NextTimer
           /\ mode' = IF MayExit THEN timer ELSE mode
  <2>1. MailboxType'
    BY <1>3, FreshMailSeq DEF TypeOK, MailboxType
  <2>2. RecordTable(records')
    BY <1>3, ExpiryKeeps DEF TypeOK, TableType, RecordTable
  <2>3. MapOf(askEdges', MsgIds, EdgeType) /\ MapOf(routes', MsgIds, EdgeType)
    BY <1>3, WithoutMailMap DEF TypeOK, TableType
  <2>4. RosterType'
    BY <1>1, <1>3 DEF TypeOK, RosterType, NextTimer, rosterVars
  <2>5. TypeOK'
    BY <1>1, <2>1, <2>2, <2>3, <2>4 DEF TypeOK, ConnType, TableType, RecordTable, HistoryType, connVars
  <2>6. Shrinks(askEdges', askEdges) /\ Shrinks(routes', routes)
    BY <1>3, ShrinksByMail
  <2>7. mode' = mode \/ mode' # "up"
    BY <1>1, <1>3
  <2>8. Safety'
    BY <1>1, <2>6, <2>7, TablesOnly DEF connVars, rosterVars
  <2>9. QED
    BY <2>5, <2>8
<1>4. QED
  BY <1>2, <1>3 DEF IdleCheck

\* Clearing the maps on a signal leaves nothing to be wrong.
LEMMA TerminateStep ==
  ASSUME BrokerInv, Terminate PROVE BrokerInv'
<1> USE DEF BrokerInv
<1>1. /\ mode' = "signal" /\ timer' = "off"
      /\ sessions' = EmptyMap /\ gone' = EmptyMap
      /\ askEdges' = EmptyMap /\ routes' = EmptyMap
      /\ mailbox' = <<>> /\ records' = EmptyMap
      /\ lost' = lost \cup DOMAIN records
      /\ UNCHANGED <<connVars, epoch, copies, withdrawn>>
  BY DEF Terminate
<1>2. IsFiniteSet({}) /\ Cardinality({}) = 0
  BY FS_EmptySet
<1>3. RosterType'
  BY <1>1, <1>2, EmptyIsMap, BrokerAssumption DEF TypeOK, RosterType
<1>4. TableType'
  BY <1>1, <1>2, EmptyIsMap, BrokerAssumption DEF TableType
<1>5. MailboxType'
  BY <1>1, BrokerAssumption DEF MailboxType
<1>6. HistoryType' /\ ConnType'
  BY <1>1 DEF TypeOK, HistoryType, ConnType, connVars, TableType, MapOf
<1>7. Safety'
  BY <1>1 DEF Safety, SessionsOwnTheirSockets, ClosedHoldNoKey, AskersAreLive, RoutesEndLive,
              NoMutualAsk, EmptyMap, connVars
<1>8. QED
  BY <1>3, <1>4, <1>5, <1>6, <1>7 DEF TypeOK

\* An entry marked in a table.
LEMMA MarkedMap ==
  ASSUME NEW f, NEW K, NEW V, MapOf(f, K, V), NEW x \in DOMAIN f,
         \A v \in V : [v EXCEPT !.old = TRUE] \in V
  PROVE  /\ MapOf([f EXCEPT ![x].old = TRUE], K, V)
         /\ DOMAIN [f EXCEPT ![x].old = TRUE] = DOMAIN f
         /\ \A y \in DOMAIN f : [f EXCEPT ![x].old = TRUE][y] = f[y]
                                \/ [f EXCEPT ![x].old = TRUE][y] = [f[y] EXCEPT !.old = TRUE]
BY DEF MapOf

LEMMA MarkedEdges ==
  ASSUME NEW f, MapOf(f, MsgIds, EdgeType), NEW g,
         g = f \/ \E x \in DOMAIN f : g = [f EXCEPT ![x].old = TRUE]
  PROVE  MapOf(g, MsgIds, EdgeType) /\ Shrinks(g, f)
<1>1. \A v \in EdgeType : /\ [v EXCEPT !.old = TRUE] \in EdgeType
                          /\ [v EXCEPT !.old = TRUE].from = v.from
                          /\ [v EXCEPT !.old = TRUE].to = v.to
  BY DEF EdgeType
<1>2. ASSUME NEW x \in DOMAIN f
      PROVE  MapOf([f EXCEPT ![x].old = TRUE], MsgIds, EdgeType) /\ Shrinks([f EXCEPT ![x].old = TRUE], f)
  <2> DEFINE h == [f EXCEPT ![x].old = TRUE]
  <2>1. /\ MapOf(h, MsgIds, EdgeType) /\ DOMAIN h = DOMAIN f
        /\ \A y \in DOMAIN f : h[y] = f[y] \/ h[y] = [f[y] EXCEPT !.old = TRUE]
    BY <1>1, MarkedMap
  <2>2. \A y \in DOMAIN f : f[y] \in EdgeType
    BY DEF MapOf
  <2>3. QED
    BY <1>1, <2>1, <2>2 DEF Shrinks
<1>3. QED
  BY <1>2, ShrinksRefl

\* Marking an entry as past its retention time changes neither its ends nor its type.
LEMMA ElapseStep ==
  ASSUME BrokerInv, NEW kind, Elapse(kind) PROVE BrokerInv'
<1> USE DEF BrokerInv
<1>1. UNCHANGED <<connVars, sessions, epoch, copies, lost, withdrawn, timer, mode>>
  BY DEF Elapse
<1>2. MapOf(askEdges', MsgIds, EdgeType) /\ Shrinks(askEdges', askEdges)
  <2>1. askEdges' = askEdges \/ \E x \in DOMAIN askEdges : askEdges' = [askEdges EXCEPT ![x].old = TRUE]
    BY DEF Elapse
  <2>2. QED
    BY <2>1, MarkedEdges DEF TypeOK, TableType
<1>3. MapOf(routes', MsgIds, EdgeType) /\ Shrinks(routes', routes)
  <2>1. routes' = routes \/ \E x \in DOMAIN routes : routes' = [routes EXCEPT ![x].old = TRUE]
    BY DEF Elapse
  <2>2. QED
    BY <2>1, MarkedEdges DEF TypeOK, TableType
<1>4. MapOf(records', RecKeys, RecordType) /\ DOMAIN records' = DOMAIN records
  <2>1. records' = records \/ \E x \in DOMAIN records : records' = [records EXCEPT ![x].old = TRUE]
    BY DEF Elapse
  <2>2. \A v \in RecordType : [v EXCEPT !.old = TRUE] \in RecordType
    BY DEF RecordType
  <2>3. QED
    BY <2>1, <2>2, MarkedMap DEF TypeOK, TableType
<1>5. MapOf(gone', Keys, GoneType)
  <2>1. gone' = gone \/ \E x \in DOMAIN gone : gone' = [gone EXCEPT ![x].old = TRUE]
    BY DEF Elapse
  <2>2. \A v \in GoneType : [v EXCEPT !.old = TRUE] \in GoneType
    BY DEF GoneType
  <2>3. QED
    BY <2>1, <2>2, MarkedMap DEF TypeOK, RosterType
<1>6. mailbox' \in Seq(MailType) /\ Len(mailbox') = Len(mailbox)
  <2>1. mailbox \in Seq(MailType)
    BY DEF TypeOK, MailboxType
  <2>2. ASSUME NEW i \in DOMAIN mailbox
        PROVE  [mailbox EXCEPT ![i].old = TRUE] \in Seq(MailType)
               /\ Len([mailbox EXCEPT ![i].old = TRUE]) = Len(mailbox)
    <3>1. mailbox[i] \in MailType
      BY <2>1
    <3>2. [mailbox[i] EXCEPT !.old = TRUE] \in MailType
      BY <3>1 DEF MailType
    <3>3. QED
      BY <2>1, <3>2
  <2>3. mailbox' = mailbox \/ \E i \in DOMAIN mailbox : mailbox' = [mailbox EXCEPT ![i].old = TRUE]
    BY DEF Elapse
  <2>4. QED
    BY <2>1, <2>2, <2>3
<1>7. TypeOK'
  BY <1>1, <1>2, <1>3, <1>4, <1>5, <1>6
     DEF TypeOK, ConnType, RosterType, TableType, MailboxType, HistoryType, connVars
<1>8. Safety'
  BY <1>1, <1>2, <1>3, TablesOnly DEF connVars
<1>9. QED
  BY <1>7, <1>8

-----------------------------------------------------------------------------
(* The invariant.                                                          *)

LEMMA InitInv == Init => BrokerInv
<1> SUFFICES ASSUME Init PROVE BrokerInv
  OBVIOUS
<1>1. IsFiniteSet({}) /\ Cardinality({}) = 0
  BY FS_EmptySet
<1>2. ConnType /\ MailboxType /\ HistoryType
  BY BrokerAssumption DEF Init, ConnType, MailboxType, HistoryType
<1>3. RosterType
  BY <1>1, EmptyIsMap, BrokerAssumption DEF Init, RosterType
<1>4. TableType
  BY <1>1, EmptyIsMap, BrokerAssumption DEF Init, TableType
<1>5. Safety
  BY DEF Init, Safety, SessionsOwnTheirSockets, ClosedHoldNoKey, AskersAreLive, RoutesEndLive,
         NoMutualAsk, EmptyMap
<1>6. QED
  BY <1>2, <1>3, <1>4, <1>5 DEF BrokerInv, TypeOK

\* A send frame, with and without an endpoint epoch.
LEMMA SendFrameStep ==
  ASSUME BrokerInv, NEW s \in Sockets, SendFrame(s) PROVE BrokerInv'
<1>1. PICK m \in Messages :
        \/ SendRefused(s, m, m.to, 0) \/ SendReplayed(s, m, m.to, 0)
        \/ SendDelivered(s, m, m.to, 0) \/ SendRelogged(s, m, m.to, 0)
        \/ SendQueued(s, m, m.to, 0)
        \/ \E id \in Resolvable(m.to), ep \in 1..epoch :
             \/ SendRefused(s, m, id, ep) \/ SendReplayed(s, m, id, ep)
             \/ SendDelivered(s, m, id, ep) \/ SendExactFailed(s, m, id, ep)
  BY DEF SendFrame
<1>2. Resolvable(m.to) \subseteq Ids
  BY DEF Resolvable
<1>3. QED
  BY <1>1, <1>2, SendPruneStep, SendDeliveredStep, SendReloggedStep, SendQueuedStep, SendExactFailedStep

\* Every step of the broker preserves the invariant.
LEMMA NextInv == BrokerInv /\ [Next]_vars => BrokerInv'
<1> SUFFICES ASSUME BrokerInv, [Next]_vars PROVE BrokerInv'
  OBVIOUS
<1>1. CASE UNCHANGED vars
  BY <1>1 DEF BrokerInv, vars, TypeOK, ConnType, RosterType, TableType, MailboxType, HistoryType,
              Safety, SessionsOwnTheirSockets, ClosedHoldNoKey, AskersAreLive, RoutesEndLive, NoMutualAsk
<1>2. ASSUME NEW s \in Sockets,
             \/ Connect(s) \/ RegistrationTimeout(s) \/ FrameRejected(s) \/ Close(s) \/ Unregister(s)
      PROVE  BrokerInv'
  BY <1>2, ConnectStep, DestroyStep, CloseStep, UnregisterStep
<1>3. ASSUME NEW s \in Sockets, NEW name \in Names, NEW alias \in BOOLEAN, Presence(s, name, alias)
      PROVE  BrokerInv'
  BY <1>3, PresenceStep
<1>4. ASSUME NEW s \in Sockets, NEW k \in Keys,
             RegisterRefused(s, k) \/ \E info \in Infos : Register(s, k, info)
      PROVE  BrokerInv'
  BY <1>4, RefusedStep, RegisterStep
<1>5. ASSUME NEW s \in Sockets, NEW i \in MsgIds,
             CancelQueued(s, i) \/ CancelSent(s, i) \/ CancelAsk(s, i) \/ Receipt(s, i)
      PROVE  BrokerInv'
  BY <1>5, CancelQueuedStep, CancelSentStep, CancelAskStep, ReceiptStep
<1>6. ASSUME NEW s \in Sockets, SendFrame(s)
      PROVE  BrokerInv'
  BY <1>6, SendFrameStep
<1>7. CASE IdleCheck \/ Terminate \/ \E kind \in Events : Elapse(kind)
  BY <1>7, IdleCheckStep, TerminateStep, ElapseStep
<1>8. QED
  BY <1>1, <1>2, <1>3, <1>4, <1>5, <1>6, <1>7 DEF Next

\* The inductive invariant holds in every reachable state of the broker.
THEOREM BrokerInvariant == Spec => []BrokerInv
BY InitInv, NextInv, PTL DEF Spec

\* The broker's state always has its type: no map outgrows its MAX_* cap, no array holds
\* a stray entry, and a record's code is one of the codes of the delivery outcomes.
THEOREM TypeCorrect == Spec => []TypeOK
<1>1. BrokerInv => TypeOK
  BY DEF BrokerInv
<1>2. QED
  BY <1>1, BrokerInvariant, PTL

\* Connections and sessions own each other one to one.
THEOREM Ownership == Spec => []SessionsOwnTheirSockets
<1>1. BrokerInv => SessionsOwnTheirSockets
  BY DEF BrokerInv, Safety
<1>2. QED
  BY <1>1, BrokerInvariant, PTL

\* No ask edge outlives its asker.
THEOREM LiveAskers == Spec => []AskersAreLive
<1>1. BrokerInv => AskersAreLive
  BY DEF BrokerInv, Safety
<1>2. QED
  BY <1>1, BrokerInvariant, PTL

\* No two sessions ever wait for each other.
THEOREM NoMutualWaiting == Spec => []NoMutualAsk
<1>1. BrokerInv => NoMutualAsk
  BY DEF BrokerInv, Safety
<1>2. QED
  BY <1>1, BrokerInvariant, PTL

\* No receipt route outlives its receiver.
THEOREM LiveRoutes == Spec => []RoutesEndLive
<1>1. BrokerInv => RoutesEndLive
  BY DEF BrokerInv, Safety
<1>2. QED
  BY <1>1, BrokerInvariant, PTL

-----------------------------------------------------------------------------
(* What a step may never do.                                               *)

\* The steps that change the roster: a session leaves, changes its name, or joins under
\* a key nobody holds.
LEMMA RosterSteps ==
  ASSUME BrokerInv, Next
  PROVE  \/ sessions' = sessions
         \/ \E k : sessions' = Without(sessions, {k})
         \/ \E k, n, a : sessions' = [sessions EXCEPT ![k].name = n, ![k].alias = a]
         \/ \E k, v : k \notin DOMAIN sessions /\ sessions' = Put(sessions, k, v)
         \/ sessions' = EmptyMap
<1>1. ASSUME NEW s \in Sockets,
             \/ Connect(s) \/ RegistrationTimeout(s) \/ FrameRejected(s)
             \/ \E k \in Keys : RegisterRefused(s, k)
      PROVE  sessions' = sessions
  BY <1>1 DEF Connect, RegistrationTimeout, FrameRejected, RegisterRefused, rosterVars
<1>2. ASSUME NEW s \in Sockets, Close(s) \/ Unregister(s)
      PROVE  sessions' = sessions \/ \E k : sessions' = Without(sessions, {k})
  BY <1>2 DEF Close, Unregister, RemoveSession
<1>3. ASSUME NEW s \in Sockets, NEW name \in Names, NEW alias \in BOOLEAN, Presence(s, name, alias)
      PROVE  \E k, n, a : sessions' = [sessions EXCEPT ![k].name = n, ![k].alias = a]
  BY <1>3 DEF Presence
<1>4. ASSUME NEW s \in Sockets, NEW k \in Keys, NEW info \in Infos, Register(s, k, info)
      PROVE  k \notin DOMAIN sessions /\ \E v : sessions' = Put(sessions, k, v)
  BY <1>4 DEF Register, HeldByLive
<1>5. ASSUME NEW s \in Sockets, SendFrame(s)
      PROVE  sessions' = sessions
  <2>1. ASSUME NEW m, NEW to, NEW ep, SendRefused(s, m, to, ep) \/ SendReplayed(s, m, to, ep)
        PROVE  sessions' = sessions
    BY <2>1 DEF SendRefused, SendReplayed
  <2>2. ASSUME NEW m, NEW to, NEW ep, SendDelivered(s, m, to, ep) PROVE sessions' = sessions
    BY <2>2 DEF SendDelivered
  <2>3. ASSUME NEW m, NEW to, NEW ep, SendRelogged(s, m, to, ep) PROVE sessions' = sessions
    BY <2>3 DEF SendRelogged
  <2>4. ASSUME NEW m, NEW to, NEW ep, SendQueued(s, m, to, ep) PROVE sessions' = sessions
    BY <2>4 DEF SendQueued
  <2>5. ASSUME NEW m, NEW to, NEW ep, SendExactFailed(s, m, to, ep) PROVE sessions' = sessions
    BY <2>5 DEF SendExactFailed
  <2>6. QED
    BY <1>5, <2>1, <2>2, <2>3, <2>4, <2>5 DEF SendFrame
<1>6. ASSUME NEW s \in Sockets, NEW i \in MsgIds,
             CancelQueued(s, i) \/ CancelSent(s, i) \/ CancelAsk(s, i) \/ Receipt(s, i)
      PROVE  sessions' = sessions
  BY <1>6 DEF CancelQueued, CancelSent, CancelAsk, Receipt, rosterVars
<1>7. IdleCheck \/ (\E kind \in Events : Elapse(kind)) => sessions' = sessions
  BY DEF IdleCheck, Elapse, rosterVars
<1>8. Terminate => sessions' = EmptyMap
  BY DEF Terminate
<1>9. QED
  BY <1>1, <1>2, <1>3, <1>4, <1>5, <1>6, <1>7, <1>8 DEF Next

\* Sessions that stay keep their connection and epoch.
Stays(k) == sessions'[k].socket = sessions[k].socket /\ sessions'[k].epoch = sessions[k].epoch

\* A session that is there before and after a step is the same one.
LEMMA SessionsStay ==
  ASSUME BrokerInv, Next, NEW x \in DOMAIN sessions \cap DOMAIN sessions' PROVE Stays(x)
<1>1. \A k \in DOMAIN sessions : sessions[k] \in SessionType
  BY DEF BrokerInv, TypeOK, RosterType, MapOf
<1>2. ASSUME NEW k PROVE sessions' = Without(sessions, {k}) => Stays(x)
  BY DEF Without, Stays
<1>3. ASSUME NEW k, NEW n, NEW a, sessions' = [sessions EXCEPT ![k].name = n, ![k].alias = a]
      PROVE  Stays(x)
  BY <1>1, <1>3 DEF SessionType, Stays
<1>4. ASSUME NEW k, NEW v, k \notin DOMAIN sessions, sessions' = Put(sessions, k, v)
      PROVE  Stays(x)
  BY <1>4 DEF Put, Stays
<1>5. sessions' = EmptyMap => Stays(x)
  BY DEF EmptyMap
<1>6. sessions' = sessions => Stays(x)
  BY DEF Stays
<1>7. QED
  BY RosterSteps, <1>2, <1>3, <1>4, <1>5, <1>6

\* A live session keeps its connection and its endpoint epoch until it leaves: no
\* registration, send or timer takes its id away.
THEOREM IncumbentStays == Spec => IncumbentKeepsItsId
<1>1. BrokerInv /\ [Next]_vars
      => [\A k \in DOMAIN sessions \cap DOMAIN sessions' :
            /\ sessions'[k].socket = sessions[k].socket
            /\ sessions'[k].epoch = sessions[k].epoch]_vars
  BY SessionsStay DEF Stays
<1>2. QED
  BY <1>1, BrokerInvariant, PTL DEF Spec, IncumbentKeepsItsId

-----------------------------------------------------------------------------
(* Who mail waits for.                                                     *)

\* The mail of r is mail of s.
SomeOf(r, s) ==
  \A n \in DOMAIN r : \E i \in DOMAIN s :
    r[n].from = s[i].from /\ r[n].to = s[i].to /\ r[n].msg = s[i].msg

LEMMA SomeOfItself == ASSUME NEW s PROVE SomeOf(s, s)
BY DEF SomeOf

LEMMA SomeOfFiltered ==
  ASSUME NEW s \in Seq(MailType), NEW I \in SUBSET DOMAIN s
  PROVE  SomeOf(Filtered(s, I), s)
<1>1. \A n \in DOMAIN Filtered(s, I) : \E i \in I : Filtered(s, I)[n] = s[i]
  BY FilteredSeq
<1>2. QED
  BY <1>1 DEF SomeOf

LEMMA SomeOfTrans == ASSUME NEW r, NEW s, NEW t, SomeOf(r, s), SomeOf(s, t) PROVE SomeOf(r, t)
<1> SUFFICES ASSUME NEW n \in DOMAIN r
             PROVE  \E j \in DOMAIN t :
                      r[n].from = t[j].from /\ r[n].to = t[j].to /\ r[n].msg = t[j].msg
  BY DEF SomeOf
<1>1. PICK i \in DOMAIN s : r[n].from = s[i].from /\ r[n].to = s[i].to /\ r[n].msg = s[i].msg
  BY DEF SomeOf
<1>2. QED
  BY <1>1 DEF SomeOf

LEMMA SomeOfFresh == ASSUME TypeOK PROVE SomeOf(FreshMail, mailbox)
<1>1. mailbox \in Seq(MailType) /\ {i \in DOMAIN mailbox : ~mailbox[i].old} \in SUBSET DOMAIN mailbox
  BY DEF TypeOK, MailboxType
<1>2. QED
  BY <1>1, SomeOfFiltered DEF FreshMail

\* Steps that keep who is live and only drop mail, routes and the departed.
LEMMA MailShrinks ==
  ASSUME MailInv, mode = "up", mode' = "up", DOMAIN sessions' = DOMAIN sessions,
         DOMAIN gone' \subseteq DOMAIN gone, SomeOf(mailbox', mailbox), Shrinks(routes', routes)
  PROVE  MailInv'
<1>1. MailWaitsForTheAbsent'
  BY DEF MailInv, MailWaitsForTheAbsent, SomeOf
<1>2. WithinScope'
  BY DEF MailInv, WithinScope, SomeOf, Shrinks
<1>3. NoReplyWaits'
  BY DEF MailInv, NoReplyWaits, SomeOf
<1>4. QED
  BY <1>1, <1>2, <1>3 DEF MailInv, IdleExitLosesNothing

LEMMA FreshShrinks == ASSUME NEW f PROVE DOMAIN Fresh(f) \subseteq DOMAIN f
BY DEF Fresh

\* Frames and timers that only drop.
LEMMA MailConnStep ==
  ASSUME MailInv, NEW s \in Sockets, Connect(s) \/ RegistrationTimeout(s) \/ FrameRejected(s)
  PROVE  MailInv'
<1>1. mode = "up" /\ UNCHANGED <<rosterVars, mailVars, routes, mode>>
  BY DEF Connect, RegistrationTimeout, FrameRejected
<1>2. QED
  BY <1>1, MailShrinks, SomeOfItself, ShrinksRefl DEF rosterVars, mailVars

LEMMA MailPresenceStep ==
  ASSUME MailInv, NEW s \in Sockets, NEW name, NEW alias, Presence(s, name, alias)
  PROVE  MailInv'
<1>1. mode = "up" /\ DOMAIN sessions' = DOMAIN sessions /\ UNCHANGED <<gone, mailVars, routes, mode>>
  BY DEF Presence
<1>2. QED
  BY <1>1, MailShrinks, SomeOfItself, ShrinksRefl DEF mailVars

LEMMA MailRefusedStep ==
  ASSUME BrokerInv, MailInv, NEW s \in Sockets, NEW k \in Keys, RegisterRefused(s, k)
  PROVE  MailInv'
<1>1. /\ mode = "up" /\ mode' = mode /\ sessions' = sessions
      /\ gone' = Fresh(gone) /\ mailbox' = FreshMail /\ routes' = WithoutMail(routes, ExpiredMail)
  BY DEF RegisterRefused
<1>2. QED
  BY <1>1, MailShrinks, FreshShrinks, SomeOfFresh, ShrinksByMail DEF BrokerInv

LEMMA MailSendPruneStep ==
  ASSUME MailInv, NEW s \in Sockets, NEW m, NEW to, NEW ep,
         \/ SendRefused(s, m, to, ep) \/ SendReplayed(s, m, to, ep)
         \/ SendExactFailed(s, m, to, ep)
  PROVE  MailInv'
<1> DEFINE Prunes == /\ mode = "up" /\ routes' = Fresh(routes)
                     /\ gone' = gone \/ gone' = Fresh(gone)
                     /\ UNCHANGED <<sessions, mailbox, mode>>
<1>1. Prunes
  <2>1. SendRefused(s, m, to, ep) => Prunes
    BY DEF SendRefused, Sends, GoneAfterLookup
  <2>2. SendReplayed(s, m, to, ep) => Prunes
    BY DEF SendReplayed, Sends, GoneAfterLookup
  <2>3. SendExactFailed(s, m, to, ep) => Prunes
    BY DEF SendExactFailed, Sends
  <2>4. QED
    BY <2>1, <2>2, <2>3
<1>2. QED
  BY <1>1, MailShrinks, FreshShrinks, SomeOfItself, ShrinksByFresh

LEMMA MailCancelStep ==
  ASSUME BrokerInv, MailInv, NEW s \in Sockets, NEW i \in MsgIds,
         CancelQueued(s, i) \/ CancelSent(s, i) \/ CancelAsk(s, i) \/ Receipt(s, i)
  PROVE  MailInv'
<1>1. ASSUME CancelQueued(s, i) PROVE MailInv'
  <2>1. PICK first :
          /\ mode = "up" /\ UNCHANGED <<rosterVars, mode>>
          /\ mailbox' = Filtered(FreshMail, DOMAIN FreshMail \ {first})
          /\ routes' = WithoutMail(Fresh(routes), ExpiredMail)
    BY <1>1 DEF CancelQueued
  <2>2. FreshMail \in Seq(MailType)
    BY FreshMailSeq DEF BrokerInv, TypeOK
  <2>3. DOMAIN FreshMail \ {first} \in SUBSET DOMAIN FreshMail
    OBVIOUS
  <2>4. SomeOf(mailbox', mailbox)
    BY <2>1, <2>2, <2>3, SomeOfFiltered, SomeOfFresh, SomeOfTrans DEF BrokerInv
  <2>5. Shrinks(routes', routes)
    BY <2>1, ShrinksByFresh, ShrinksByMail, ShrinksTrans
  <2>6. QED
    BY <2>1, <2>4, <2>5, MailShrinks DEF rosterVars
<1>2. ASSUME CancelSent(s, i) PROVE MailInv'
  <2>1. /\ mode = "up" /\ UNCHANGED <<rosterVars, mode>> /\ mailbox' = FreshMail
        /\ routes' = WithoutMail(Fresh(routes), ExpiredMail)
    BY <1>2 DEF CancelSent
  <2>2. Shrinks(routes', routes)
    BY <2>1, ShrinksByFresh, ShrinksByMail, ShrinksTrans
  <2>3. QED
    BY <2>1, <2>2, SomeOfFresh, MailShrinks DEF rosterVars, BrokerInv
<1>3. ASSUME CancelAsk(s, i) \/ Receipt(s, i) PROVE MailInv'
  <2>1. /\ mode = "up" /\ UNCHANGED <<rosterVars, mailVars, mode>>
        /\ routes' = routes \/ routes' = Fresh(routes)
    BY <1>3 DEF CancelAsk, Receipt
  <2>2. QED
    BY <2>1, SomeOfItself, ShrinksRefl, ShrinksByFresh, MailShrinks DEF rosterVars, mailVars
<1>4. QED
  BY <1>1, <1>2, <1>3

LEMMA MailElapseStep ==
  ASSUME BrokerInv, MailInv, NEW kind, Elapse(kind) PROVE MailInv'
<1>1. mode = "up" /\ UNCHANGED <<sessions, mode>>
  BY DEF Elapse
<1>2. DOMAIN gone' = DOMAIN gone
  BY DEF Elapse
<1>3. Shrinks(routes', routes)
  <2>1. routes' = routes \/ \E x \in DOMAIN routes : routes' = [routes EXCEPT ![x].old = TRUE]
    BY DEF Elapse
  <2>2. QED
    BY <2>1, MarkedEdges DEF BrokerInv, TypeOK, TableType
<1>4. SomeOf(mailbox', mailbox)
  <2>1. mailbox' = mailbox \/ \E i \in DOMAIN mailbox : mailbox' = [mailbox EXCEPT ![i].old = TRUE]
    BY DEF Elapse
  <2>2. \A i \in DOMAIN mailbox : mailbox[i] \in MailType
    BY DEF BrokerInv, TypeOK, MailboxType
  <2>3. QED
    BY <2>1, <2>2 DEF SomeOf, MailType
<1>5. QED
  BY <1>1, <1>2, <1>3, <1>4, MailShrinks

\* The timer stops the broker only over an empty mailbox and an empty roster.
LEMMA MailIdleStep ==
  ASSUME BrokerInv, MailInv, IdleCheck PROVE MailInv'
<1>1. mode = "up" /\ UNCHANGED rosterVars
  BY DEF IdleCheck
<1>2. CASE UNCHANGED <<mode, mailbox, routes>>
  BY <1>1, <1>2, MailShrinks, SomeOfItself, ShrinksRefl DEF rosterVars
<1>3. CASE /\ sessions = EmptyMap /\ mailbox' = FreshMail
           /\ routes' = WithoutMail(routes, ExpiredMail)
           /\ mode' = IF MayExit THEN timer ELSE mode
  <2>1. SomeOf(mailbox', mailbox) /\ Shrinks(routes', routes)
    BY <1>3, SomeOfFresh, ShrinksByMail DEF BrokerInv
  <2>2. CASE mode' = "up"
    BY <1>1, <2>1, <2>2, MailShrinks DEF rosterVars
  <2>3. CASE mode' # "up"
    <3>1. mailbox' = <<>> /\ sessions' = EmptyMap
      BY <1>1, <1>3, <2>3 DEF MayExit, rosterVars
    <3>2. WithinScope' /\ NoReplyWaits'
      BY <2>1, <3>1 DEF MailInv, WithinScope, NoReplyWaits, Shrinks
    <3>3. QED
      BY <2>3, <3>1, <3>2 DEF MailInv, MailWaitsForTheAbsent, IdleExitLosesNothing
  <2>4. QED
    BY <2>2, <2>3
<1>4. QED
  BY <1>2, <1>3 DEF IdleCheck

LEMMA MailTerminateStep == ASSUME MailInv, Terminate PROVE MailInv'
BY DEF Terminate, MailInv, MailWaitsForTheAbsent, WithinScope, NoReplyWaits,
       IdleExitLosesNothing, EmptyMap

\* A session that leaves becomes one of the departed.
LEMMA MailLeavingStep ==
  ASSUME MailInv, mode = "up", mode' = "up", NEW k \in DOMAIN sessions, RemoveSession(k),
         mailbox' = mailbox
  PROVE  MailInv'
<1>1. /\ DOMAIN sessions' = DOMAIN sessions \ {k}
      /\ DOMAIN gone' \subseteq DOMAIN gone \cup {k}
      /\ Shrinks(routes', routes)
  BY ShrinksByWithout DEF RemoveSession, Without, Put, Fresh
<1>2. MailWaitsForTheAbsent'
  BY <1>1 DEF MailInv, MailWaitsForTheAbsent
<1>3. WithinScope' /\ NoReplyWaits'
  BY <1>1 DEF MailInv, WithinScope, NoReplyWaits, Shrinks
<1>4. QED
  BY <1>2, <1>3 DEF MailInv, IdleExitLosesNothing

LEMMA MailCloseStep ==
  ASSUME BrokerInv, MailInv, NEW s \in Sockets, Close(s) \/ Unregister(s) PROVE MailInv'
<1>1. mode = "up" /\ UNCHANGED <<mailVars, mode>>
  BY DEF Close, Unregister
<1>2. CASE conn[s].key # None /\ RemoveSession(conn[s].key)
  <2>1. conn[s].key \in DOMAIN sessions
    BY <1>1, <1>2, KeyHolder DEF BrokerInv, Safety
  <2>2. QED
    BY <1>1, <1>2, <2>1, MailLeavingStep DEF mailVars
<1>3. CASE UNCHANGED <<sessions, gone, routes>>
  BY <1>1, <1>3, MailShrinks, SomeOfItself, ShrinksRefl DEF mailVars
<1>4. QED
  BY <1>2, <1>3 DEF Close, Unregister
\* The newcomer takes all mail addressed to its id, and routes only within its scope.
LEMMA MailRegisterStep ==
  ASSUME BrokerInv, MailInv, NEW s \in Sockets, NEW k \in Keys, NEW info \in Infos,
         Register(s, k, info)
  PROVE  MailInv'
<1> USE DEF BrokerInv
<1> DEFINE live == Put(sessions, k, Connected(s, info, epoch + 1))
           takes == {i \in DOMAIN FreshMail : Claims(k, live, FreshMail[i])}
           rest == DOMAIN FreshMail \ takes
           claimed == Filtered(FreshMail, takes)
           Took == {claimed[i] : i \in DOMAIN claimed}
           kept == WithoutMail(routes, ExpiredMail)
<1>1. /\ mode = "up" /\ mode' = mode /\ sessions' = live /\ gone' = Without(Fresh(gone), {k})
      /\ mailbox' = Filtered(FreshMail, rest)
  BY DEF Register
<1>2. routes' = [i \in DOMAIN kept \cup {e.msg.id : e \in Took} |->
                   IF \E e \in Took : e.msg.id = i
                   THEN [from |-> (CHOOSE e \in Took : e.msg.id = i).from, to |-> k, old |-> FALSE]
                   ELSE kept[i]]
  BY DEF Register
<1>3. FreshMail \in Seq(MailType) /\ takes \in SUBSET DOMAIN FreshMail
      /\ rest \in SUBSET DOMAIN FreshMail
  BY FreshMailSeq DEF TypeOK
<1>4. \A n \in DOMAIN mailbox' : \E i \in rest : mailbox'[n] = FreshMail[i]
  <2> HIDE DEF rest
  <2>1. \A n \in DOMAIN Filtered(FreshMail, rest) : \E i \in rest : Filtered(FreshMail, rest)[n] = FreshMail[i]
    BY <1>3, FilteredSeq
  <2>2. QED
    BY <1>1, <2>1
<1>5. \A e \in Took : \E i \in takes : e = FreshMail[i]
  <2> HIDE DEF takes
  <2>1. \A n \in DOMAIN claimed : \E i \in takes : claimed[n] = FreshMail[i]
    BY <1>3, FilteredSeq
  <2>2. QED
    BY <2>1
<1>6. \A i \in DOMAIN FreshMail : \E j \in DOMAIN mailbox :
        FreshMail[i].from = mailbox[j].from /\ FreshMail[i].to = mailbox[j].to
        /\ FreshMail[i].msg = mailbox[j].msg
  BY SomeOfFresh DEF SomeOf
<1>7. \A i \in rest : FreshMail[i].to # k
  BY DEF Claims
<1>8. SomeOf(mailbox', mailbox)
  BY <1>4, <1>6 DEF SomeOf
<1>9. MailWaitsForTheAbsent'
  <2>1. DOMAIN sessions' = DOMAIN sessions \cup {k}
    BY <1>1 DEF Put
  <2>2. DOMAIN gone' \subseteq DOMAIN gone \ {k}
    BY <1>1 DEF Without, Fresh
  <2>3. ASSUME NEW n \in DOMAIN mailbox' PROVE mailbox'[n].to \notin DOMAIN sessions'
    <3>1. PICK i \in rest : mailbox'[n] = FreshMail[i]
      BY <1>4
    <3>2. FreshMail[i].to \notin DOMAIN sessions
      BY <1>1, <1>6 DEF MailInv, MailWaitsForTheAbsent
    <3>3. QED
      BY <1>7, <2>1, <3>1, <3>2
  <2>4. QED
    BY <1>1, <2>1, <2>2, <2>3 DEF MailInv, MailWaitsForTheAbsent
<1>10. \A e \in Took : Scope(e.from) = Scope(k)
  <2>1. ASSUME NEW i \in takes PROVE Scope(FreshMail[i].from) = Scope(k)
    BY <1>6 DEF Claims, MailInv, WithinScope
  <2>2. QED
    BY <1>5, <2>1
<1>11. ASSUME NEW i \in DOMAIN routes' PROVE Scope(routes'[i].from) = Scope(routes'[i].to)
  <2>1. CASE \E e \in Took : e.msg.id = i
    <3>1. (CHOOSE e \in Took : e.msg.id = i) \in Took
      BY <2>1
    <3>2. /\ routes'[i].from = (CHOOSE e \in Took : e.msg.id = i).from
          /\ routes'[i].to = k
      BY <1>2, <2>1
    <3>3. QED
      BY <1>10, <3>1, <3>2
  <2>2. CASE ~ \E e \in Took : e.msg.id = i
    <3>1. i \in DOMAIN kept /\ routes'[i] = kept[i]
      BY <1>2, <2>2
    <3>2. Shrinks(kept, routes)
      BY ShrinksByMail
    <3>3. QED
      BY <3>1, <3>2 DEF Shrinks, MailInv, WithinScope
  <2>3. QED
    BY <2>1, <2>2
<1>12. WithinScope' /\ NoReplyWaits'
  BY <1>8, <1>11 DEF SomeOf, MailInv, WithinScope, NoReplyWaits
<1>13. QED
  BY <1>1, <1>9, <1>12 DEF MailInv, IdleExitLosesNothing

\* Addresses resolve within the sender's scope.
LEMMA TargetsInScope ==
  ASSUME NEW pool, NEW to, NEW scope
  PROVE  /\ Targets(pool, to, scope) \subseteq DOMAIN pool
         /\ \A k \in Targets(pool, to, scope) : Scope(k) = scope
BY DEF Targets

\* Of what is delivered to a live session.
LEMMA DeliverScope ==
  ASSUME BrokerInv, NEW me \in Keys, NEW m \in Messages, NEW to, NEW ep,
         Verdict(m, me, to, ep) = "deliver"
  PROVE  Scope(TheOne(Targets(sessions, to, Scope(me)))) = Scope(me)
<1> DEFINE live == Targets(sessions, to, Scope(me))
<1>1. CASE ep = 0
  <2>1. Single(live)
    BY <1>1 DEF Verdict, GoneVerdict, Replay
  <2>2. TheOne(live) \in live
    BY <2>1 DEF Single, TheOne
  <2>3. QED
    BY <2>2, TargetsInScope
<1>2. CASE ep # 0
  <2> DEFINE k == <<Scope(me), to>>
  <2>1. k \in DOMAIN sessions
    BY <1>2 DEF Verdict, ExactVerdict, Replay
  <2>2. \A j \in DOMAIN sessions : j \in Scopes \X Ids
    BY DEF BrokerInv, TypeOK, RosterType, MapOf, Keys
  <2>3. \A j \in DOMAIN sessions : Scope(j) = Scope(me) /\ j[2] = to => j = k
    BY <2>2 DEF Scope
  <2>4. Scope(k) = Scope(me) /\ k[2] = to
    BY DEF Scope
  <2>5. live = {k}
    BY <2>1, <2>3, <2>4 DEF Targets
  <2>6. QED
    BY <2>4, <2>5 DEF TheOne
<1>3. QED
  BY <1>1, <1>2

\* Of what is for a session that has left: in scope, and no reply, since the asker that
\* a reply answers is live.
LEMMA GoneScope ==
  ASSUME BrokerInv, MailInv, mode = "up", NEW me \in Keys, NEW m \in Messages, NEW to, NEW ep,
         Verdict(m, me, to, ep) \in {"relog", "queue"}
  PROVE  LET k == TheOne(Targets(Fresh(gone), to, Scope(me)))
         IN Scope(k) = Scope(me) /\ k \notin DOMAIN sessions /\ m.replyTo = NoMsg
<1> DEFINE left == Targets(Fresh(gone), to, Scope(me))
           k == TheOne(left)
<1>1. Single(left) /\ GoneVerdict(m, me, k) \in {"relog", "queue"}
  BY DEF Verdict, ExactVerdict, LiveVerdict, Replay
<1>2. k \in left
  BY <1>1 DEF Single, TheOne
<1>3. Scope(k) = Scope(me) /\ k \in DOMAIN gone
  BY <1>2, TargetsInScope DEF Fresh
<1>4. k \notin DOMAIN sessions
  BY <1>3 DEF MailInv, MailWaitsForTheAbsent
<1>5. m.replyTo # NoMsg => m.replyTo \in DOMAIN askEdges /\ askEdges[m.replyTo].from = k
  BY <1>1 DEF GoneVerdict, ReplyEdge, Replay, Matches, Fresh
<1>6. QED
  BY <1>3, <1>4, <1>5 DEF BrokerInv, Safety, AskersAreLive

\* The session that takes a message for one that has left is another in its scope.
LEMMA SuccessorTarget ==
  ASSUME BrokerInv, NEW me \in Keys, NEW m \in Messages, NEW to, NEW ep,
         Verdict(m, me, to, ep) = "relog"
  PROVE  LET k == TheOne(Targets(Fresh(gone), to, Scope(me)))
             l == TheOne(Successors(k, me))
         IN Successors(k, me) = {l} /\ l \in SharingMailbox(sessions, k, gone[k])
<1> DEFINE k == TheOne(Targets(Fresh(gone), to, Scope(me)))
           l == TheOne(Successors(k, me))
<1>1. GoneVerdict(m, me, k) = "relog"
  BY GoneTarget
<1>2. Single(Successors(k, me))
  BY <1>1 DEF GoneVerdict, Replay
<1>3. Successors(k, me) = {l}
  BY <1>2 DEF Single, TheOne
<1>4. QED
  BY <1>3 DEF Successors

LEMMA MailDeliveredStep ==
  ASSUME BrokerInv, MailInv, NEW s \in Sockets, NEW m \in Messages, NEW to, NEW ep,
         SendDelivered(s, m, to, ep)
  PROVE  MailInv'
<1> DEFINE k == TheOne(Targets(sessions, to, Scope(m.by)))
<1>1. /\ Sends(s, m) /\ Verdict(m, m.by, to, ep) = "deliver"
      /\ routes' = Put(Fresh(routes), m.id, [from |-> m.by, to |-> k, old |-> FALSE])
      /\ UNCHANGED <<sessions, gone, mailbox, mode>>
  BY DEF SendDelivered
<1>2. mode = "up" /\ m.by \in Keys
  BY <1>1, Sender
<1>3. Scope(k) = Scope(m.by)
  BY <1>1, <1>2, DeliverScope
<1>4. WithinScope'
  BY <1>1, <1>3 DEF MailInv, WithinScope, Put, Fresh
<1>5. QED
  BY <1>1, <1>2, <1>4 DEF MailInv, MailWaitsForTheAbsent, NoReplyWaits, IdleExitLosesNothing

LEMMA MailReloggedStep ==
  ASSUME BrokerInv, MailInv, NEW s \in Sockets, NEW m \in Messages, NEW to, NEW ep,
         SendRelogged(s, m, to, ep)
  PROVE  MailInv'
<1> DEFINE k == TheOne(Targets(Fresh(gone), to, Scope(m.by)))
           l == TheOne(Successors(k, m.by))
<1>1. /\ Sends(s, m) /\ Verdict(m, m.by, to, ep) = "relog"
      /\ routes' = Put(Fresh(routes), m.id, [from |-> m.by, to |-> l, old |-> FALSE])
      /\ gone' = Fresh(gone)
      /\ UNCHANGED <<sessions, mailbox, mode>>
  BY DEF SendRelogged
<1>2. mode = "up" /\ m.by \in Keys
  BY <1>1, Sender
<1>3. Scope(k) = Scope(m.by)
  BY <1>1, <1>2, GoneScope
<1>4. l \in SharingMailbox(sessions, k, gone[k])
  BY <1>1, <1>2, SuccessorTarget
<1>5. Scope(l) = Scope(m.by)
  BY <1>3, <1>4 DEF SharingMailbox
<1>6. WithinScope'
  BY <1>1, <1>5 DEF MailInv, WithinScope, Put, Fresh
<1>7. MailWaitsForTheAbsent'
  BY <1>1, <1>2, FreshShrinks DEF MailInv, MailWaitsForTheAbsent
<1>8. QED
  BY <1>1, <1>2, <1>6, <1>7 DEF MailInv, NoReplyWaits, IdleExitLosesNothing

\* What is queued is addressed to a session that has left.
LEMMA MailQueuedStep ==
  ASSUME BrokerInv, MailInv, NEW s \in Sockets, NEW m \in Messages, NEW to, NEW ep,
         SendQueued(s, m, to, ep)
  PROVE  MailInv'
<1> DEFINE k == TheOne(Targets(Fresh(gone), to, Scope(m.by)))
           full == Len(FreshMail) >= MaxMailbox
           room == IF full THEN Tail(FreshMail) ELSE FreshMail
           evicted == IF full THEN {Head(FreshMail)} ELSE {}
           mail == MailFor(m, k, gone[k])
<1>1. /\ Sends(s, m) /\ Verdict(m, m.by, to, ep) = "queue"
      /\ mailbox' = Append(room, mail)
      /\ routes' = WithoutMail(Fresh(routes), ExpiredMail \cup evicted)
      /\ gone' = Fresh(gone)
      /\ UNCHANGED <<sessions, mode>>
  BY DEF SendQueued
<1>2. mode = "up" /\ m.by \in Keys
  BY <1>1, Sender
<1>3. Scope(k) = Scope(m.by) /\ k \notin DOMAIN sessions /\ m.replyTo = NoMsg
  BY <1>1, <1>2, GoneScope
<1>4. FreshMail \in Seq(MailType)
  BY FreshMailSeq DEF BrokerInv, TypeOK
<1>5. room \in Seq(MailType) /\ SomeOf(room, FreshMail)
  <2>1. CASE ~full
    BY <1>4, <2>1, SomeOfItself
  <2>2. CASE full
    <3>1. FreshMail # <<>>
      BY <2>2, BrokerAssumption
    <3>2. Tail(FreshMail) \in Seq(MailType) /\ \A n \in DOMAIN Tail(FreshMail) :
            n + 1 \in DOMAIN FreshMail /\ Tail(FreshMail)[n] = FreshMail[n + 1]
      BY <1>4, <3>1
    <3>3. QED
      BY <2>2, <3>2 DEF SomeOf
  <2>3. QED
    BY <2>1, <2>2
<1>6. SomeOf(room, mailbox)
  BY <1>5, SomeOfFresh, SomeOfTrans DEF BrokerInv
<1>7. \A n \in DOMAIN mailbox' : mailbox'[n] = mail \/ (n \in DOMAIN room /\ mailbox'[n] = room[n])
  BY <1>1, <1>5
<1>8. mail.from = m.by /\ mail.to = k /\ mail.msg = m
  BY DEF MailFor
<1>9. Shrinks(routes', routes)
  BY <1>1, ShrinksByFresh, ShrinksByMail, ShrinksTrans
<1> HIDE DEF room, mail, k
<1>10. MailWaitsForTheAbsent'
  BY <1>1, <1>2, <1>3, <1>6, <1>7, <1>8, FreshShrinks DEF MailInv, MailWaitsForTheAbsent, SomeOf
<1>11. WithinScope'
  BY <1>3, <1>6, <1>7, <1>8, <1>9 DEF MailInv, WithinScope, SomeOf, Shrinks
<1>12. NoReplyWaits'
  BY <1>3, <1>6, <1>7, <1>8 DEF MailInv, NoReplyWaits, SomeOf
<1>13. QED
  BY <1>1, <1>2, <1>10, <1>11, <1>12 DEF MailInv, IdleExitLosesNothing

LEMMA MailInit == Init => MailInv
BY DEF Init, MailInv, MailWaitsForTheAbsent, WithinScope, NoReplyWaits, IdleExitLosesNothing, EmptyMap

LEMMA MailSendFrame ==
  ASSUME BrokerInv, MailInv, NEW s \in Sockets, SendFrame(s) PROVE MailInv'
BY MailSendPruneStep, MailDeliveredStep, MailReloggedStep, MailQueuedStep DEF SendFrame

\* Every step of the broker preserves what mail waits for.
LEMMA MailNext == BrokerInv /\ MailInv /\ [Next]_vars => MailInv'
<1> SUFFICES ASSUME BrokerInv, MailInv, [Next]_vars PROVE MailInv'
  OBVIOUS
<1>1. CASE UNCHANGED vars
  BY <1>1 DEF vars, MailInv, MailWaitsForTheAbsent, WithinScope, NoReplyWaits, IdleExitLosesNothing
<1>2. ASSUME NEW s \in Sockets,
             \/ Connect(s) \/ RegistrationTimeout(s) \/ FrameRejected(s) \/ Close(s) \/ Unregister(s)
             \/ \E name \in Names, alias \in BOOLEAN : Presence(s, name, alias)
      PROVE  MailInv'
  BY <1>2, MailConnStep, MailCloseStep, MailPresenceStep
<1>3. ASSUME NEW s \in Sockets, NEW k \in Keys,
             RegisterRefused(s, k) \/ \E info \in Infos : Register(s, k, info)
      PROVE  MailInv'
  BY <1>3, MailRefusedStep, MailRegisterStep
<1>4. ASSUME NEW s \in Sockets, NEW i \in MsgIds,
             CancelQueued(s, i) \/ CancelSent(s, i) \/ CancelAsk(s, i) \/ Receipt(s, i)
      PROVE  MailInv'
  BY <1>4, MailCancelStep
<1>5. CASE IdleCheck \/ Terminate \/ \E kind \in Events : Elapse(kind)
  BY <1>5, MailIdleStep, MailTerminateStep, MailElapseStep
<1>6. QED
  BY <1>1, <1>2, <1>3, <1>4, <1>5, MailSendFrame DEF Next

THEOREM MailInvariant == Spec => []MailInv
BY InitInv, NextInv, MailInit, MailNext, PTL DEF Spec

\* Mail waits only for sessions that are away, and whoever registers collects it.
THEOREM MailWaits == Spec => []MailWaitsForTheAbsent
<1>1. MailInv => MailWaitsForTheAbsent
  BY DEF MailInv
<1>2. QED
  BY <1>1, MailInvariant, PTL

\* The timer never stops the broker over a session or over waiting mail.
THEOREM IdleExitIsSafe == Spec => []IdleExitLosesNothing
<1>1. MailInv => IdleExitLosesNothing
  BY DEF MailInv
<1>2. QED
  BY <1>1, MailInvariant, PTL

\* The steps that write to somebody other than the sender.
LEMMA WritingSteps ==
  ASSUME Next
  PROVE  \/ out'.sent = {}
         \/ \E s \in Sockets :
              \/ \E k \in Keys, info \in Infos : Register(s, k, info)
              \/ \E m \in Messages : \E to, ep : SendDelivered(s, m, to, ep) \/ SendRelogged(s, m, to, ep)
              \/ \E i \in MsgIds : CancelSent(s, i) \/ Receipt(s, i)
<1> DEFINE Writes(s) ==
             \/ \E k \in Keys, info \in Infos : Register(s, k, info)
             \/ \E m \in Messages : \E to, ep : SendDelivered(s, m, to, ep) \/ SendRelogged(s, m, to, ep)
             \/ \E i \in MsgIds : CancelSent(s, i) \/ Receipt(s, i)
<1>1. \A s \in Sockets :
        \/ Connect(s) \/ RegistrationTimeout(s) \/ FrameRejected(s) \/ Close(s) \/ Unregister(s)
        => out'.sent = {}
  BY DEF Connect, RegistrationTimeout, FrameRejected, Close, Unregister, Quiet
<1>2. \A s \in Sockets, name \in Names, alias \in BOOLEAN : Presence(s, name, alias) => out'.sent = {}
  BY DEF Presence, Quiet
<1>3. \A s \in Sockets, k \in Keys : RegisterRefused(s, k) => out'.sent = {}
  BY DEF RegisterRefused, Quiet
<1>4. \A s \in Sockets, i \in MsgIds : CancelQueued(s, i) \/ CancelAsk(s, i) => out'.sent = {}
  BY DEF CancelQueued, CancelAsk, Quiet, Acked
<1>5. IdleCheck \/ Terminate \/ (\E kind \in Events : Elapse(kind)) => out'.sent = {}
  BY DEF IdleCheck, Terminate, Elapse, Quiet
<1>6. ASSUME NEW s \in Sockets, SendFrame(s) PROVE out'.sent = {} \/ Writes(s)
  <2>1. PICK m \in Messages :
          \/ SendRefused(s, m, m.to, 0) \/ SendReplayed(s, m, m.to, 0)
          \/ SendDelivered(s, m, m.to, 0) \/ SendRelogged(s, m, m.to, 0)
          \/ SendQueued(s, m, m.to, 0)
          \/ \E id \in Resolvable(m.to), ep \in 1..epoch :
               \/ SendRefused(s, m, id, ep) \/ SendReplayed(s, m, id, ep)
               \/ SendDelivered(s, m, id, ep) \/ SendExactFailed(s, m, id, ep)
    BY <1>6 DEF SendFrame
  <2>2. \A to, ep : SendRefused(s, m, to, ep) => out'.sent = {}
    BY DEF SendRefused, Acked
  <2>3. \A to, ep : SendReplayed(s, m, to, ep) => out'.sent = {}
    BY DEF SendReplayed, Acked
  <2>4. \A to, ep : SendQueued(s, m, to, ep) => out'.sent = {}
    BY DEF SendQueued, Acked
  <2>5. \A to, ep : SendExactFailed(s, m, to, ep) => out'.sent = {}
    BY DEF SendExactFailed, Acked
  <2>6. QED
    BY <2>1, <2>2, <2>3, <2>4, <2>5
<1>7. QED
  BY <1>1, <1>2, <1>3, <1>4, <1>5, <1>6 DEF Next

\* What a registration writes: mail the newcomer may claim, to the newcomer.
LEMMA FlushedFrames ==
  ASSUME BrokerInv, NEW s \in Sockets, NEW k \in Keys, NEW info \in Infos, Register(s, k, info),
         NEW f \in out'.sent
  PROVE  /\ f.to = k /\ f.type = "message"
         /\ \E j \in DOMAIN mailbox :
              f.from = mailbox[j].from /\ f.msg = mailbox[j].msg
         /\ f.from = f.via.from /\ f.msg = f.via.msg
         /\ f.via \in MailType /\ f.via \in {FreshMail[i] : i \in DOMAIN FreshMail}
         /\ Claims(k, sessions', f.via)
<1> DEFINE live == Put(sessions, k, Connected(s, info, epoch + 1))
           takes == {i \in DOMAIN FreshMail : Claims(k, live, FreshMail[i])}
           claimed == Filtered(FreshMail, takes)
           Took == {claimed[i] : i \in DOMAIN claimed}
<1>1. sessions' = live /\ out'.sent = {Frame("message", e.from, k, e.msg, e) : e \in Took}
  BY DEF Register
<1>2. PICK e \in Took : f = Frame("message", e.from, k, e.msg, e)
  BY <1>1
<1>3. FreshMail \in Seq(MailType)
  BY FreshMailSeq DEF BrokerInv, TypeOK
<1>4. PICK i \in takes : e = FreshMail[i]
  <2>1. takes \in SUBSET DOMAIN FreshMail
    OBVIOUS
  <2> HIDE DEF takes
  <2>2. QED
    BY <1>2, <1>3, <2>1, FilteredSeq
<1>5. e \in MailType /\ Claims(k, live, e)
  BY <1>3, <1>4
<1>6. PICK j \in DOMAIN mailbox : e.from = mailbox[j].from /\ e.msg = mailbox[j].msg
  BY <1>4, SomeOfFresh DEF BrokerInv, SomeOf
<1>7. f.to = k /\ f.type = "message" /\ f.from = e.from /\ f.msg = e.msg /\ f.via = e
  BY <1>2 DEF Frame
<1>8. QED
  BY <1>1, <1>4, <1>5, <1>6, <1>7

\* What a send to a live session writes.
LEMMA DeliveredFrames ==
  ASSUME BrokerInv, NEW s \in Sockets, NEW m \in Messages, NEW to, NEW ep,
         SendDelivered(s, m, to, ep), NEW f \in out'.sent
  PROVE  LET k == TheOne(Targets(sessions, to, Scope(m.by)))
         IN f.from = m.by /\ f.to = k /\ f.msg = m /\ f.via = None
BY DEF SendDelivered, Frame

\* What a send to a session that has left writes.
LEMMA ReloggedFrames ==
  ASSUME BrokerInv, NEW s \in Sockets, NEW m \in Messages, NEW to, NEW ep,
         SendRelogged(s, m, to, ep), NEW f \in out'.sent
  PROVE  LET k == TheOne(Targets(Fresh(gone), to, Scope(m.by)))
         IN /\ f.from = m.by /\ f.to = TheOne(Successors(k, m.by)) /\ f.msg = m
            /\ f.via = MailFor(m, k, gone[k])
BY DEF SendRelogged, Frame

\* A reply goes to the session whose ask it answers, from the one that was asked, once.
THEOREM RepliesAnswerAsks == Spec => ReplyAnswersItsAsk
<1> DEFINE Answers(f) ==
             f.msg.replyTo # NoMsg =>
               /\ f.msg.replyTo \in DOMAIN askEdges
               /\ askEdges[f.msg.replyTo].from = f.to /\ askEdges[f.msg.replyTo].to = f.from
               /\ f.msg.replyTo \notin DOMAIN askEdges'
<1>1. ASSUME BrokerInv, MailInv, Next, NEW f \in MessageFrames PROVE Answers(f)
  <2>1. f \in out'.sent /\ f.type = "message"
    BY DEF MessageFrames
  <2>2. ASSUME NEW s \in Sockets, NEW k \in Keys, NEW info \in Infos, Register(s, k, info)
        PROVE  Answers(f)
    BY <1>1, <2>1, <2>2, FlushedFrames DEF MailInv, NoReplyWaits
  <2>3. ASSUME NEW s \in Sockets, NEW m \in Messages, NEW to, NEW ep, SendDelivered(s, m, to, ep)
        PROVE  Answers(f)
    <3> DEFINE k == TheOne(Targets(sessions, to, Scope(m.by)))
    <3>1. f.from = m.by /\ f.to = k /\ f.msg = m
      BY <1>1, <2>1, <2>3, DeliveredFrames
    <3>2. Sends(s, m) /\ Verdict(m, m.by, to, ep) = "deliver"
      BY <2>3 DEF SendDelivered
    <3>3. LiveVerdict(m, m.by, k) = "deliver"
      BY <1>1, <3>2, Sender, DeliverTarget
    <3>4. m.replyTo # NoMsg => ReplyEdge(m) /\ Matches(m, m.by, k)
      BY <3>3 DEF LiveVerdict, Replay
    <3>5. m.replyTo \notin DOMAIN askEdges'
      BY <2>3 DEF SendDelivered, Without, Answered
    <3>6. QED
      BY <3>1, <3>4, <3>5 DEF ReplyEdge, Matches, Fresh
  <2>4. ASSUME NEW s \in Sockets, NEW m \in Messages, NEW to, NEW ep, SendRelogged(s, m, to, ep)
        PROVE  Answers(f)
    <3>1. f.msg = m
      BY <1>1, <2>1, <2>4, ReloggedFrames
    <3>2. Sends(s, m) /\ Verdict(m, m.by, to, ep) = "relog"
      BY <2>4 DEF SendRelogged
    <3>3. m.replyTo = NoMsg
      BY <1>1, <3>2, Sender, GoneScope
    <3>4. QED
      BY <3>1, <3>3
  <2>5. ASSUME NEW s \in Sockets, NEW i \in MsgIds, CancelSent(s, i) \/ Receipt(s, i)
        PROVE  FALSE
    BY <2>1, <2>5 DEF CancelSent, Receipt, Frame, Quiet
  <2>6. QED
    BY <1>1, <2>1, <2>2, <2>3, <2>4, <2>5, WritingSteps
<1>2. BrokerInv /\ MailInv /\ [Next]_vars => [\A f \in MessageFrames : Answers(f)]_vars
  BY <1>1
<1>3. QED
  BY <1>2, BrokerInvariant, MailInvariant, PTL DEF Spec, ReplyAnswersItsAsk

\* A newcomer that claims mail of a name is the only live session under the name.
LEMMA ClaimedIdentity ==
  ASSUME NEW k, NEW live, k \in DOMAIN live, NEW e, Claims(k, live, e), e.to # k
  PROVE  /\ Scope(k) = Scope(e.to)
         /\ live[k].name = e.toInfo.name /\ e.toInfo.name # NoName
         /\ live[k].cwd = e.toInfo.cwd /\ ~live[k].alias
         /\ \A l \in DOMAIN live \ {k} :
              ~(/\ Scope(l) = Scope(k) /\ ~live[l].alias
                /\ live[l].name = live[k].name /\ live[l].cwd = live[k].cwd)
<1> DEFINE me == live[k]
           sharing == SharingMailbox(live, k, Info(me))
<1>1. /\ Scope(e.to) = Scope(k) /\ Single(sharing)
      /\ me.name # NoName /\ e.toInfo.name = me.name /\ e.toInfo.cwd = me.cwd
  BY DEF Claims
<1>2. ~me.alias
  BY <1>1 DEF SharingMailbox, Info, Single
<1>3. sharing = {l \in DOMAIN live : /\ Scope(l) = Scope(k) /\ ~live[l].alias
                                     /\ live[l].name = me.name /\ live[l].cwd = me.cwd}
  BY <1>1, <1>2 DEF SharingMailbox, Info
<1>4. k \in sharing
  BY <1>2, <1>3
<1>5. sharing = {k}
  BY <1>1, <1>4 DEF Single
<1>6. QED
  BY <1>1, <1>2, <1>3, <1>5

\* Mail that was queued for, or is passed on from, a session that left reaches that
\* session, or the one live session with its explicit name and directory.
THEOREM MailIdentity == Spec => MailKeepsItsIdentity
<1> DEFINE Kept(f) ==
             f.via # None =>
               \/ f.to = f.via.to
               \/ /\ Scope(f.to) = Scope(f.via.to)
                  /\ sessions'[f.to].name = f.via.toInfo.name /\ f.via.toInfo.name # NoName
                  /\ sessions'[f.to].cwd = f.via.toInfo.cwd
                  /\ ~sessions'[f.to].alias
                  /\ \A l \in DOMAIN sessions' \ {f.to, f.from} :
                       ~(/\ Scope(l) = Scope(f.to) /\ ~sessions'[l].alias
                         /\ sessions'[l].name = sessions'[f.to].name
                         /\ sessions'[l].cwd = sessions'[f.to].cwd)
<1>1. ASSUME BrokerInv, MailInv, Next, NEW f \in MessageFrames PROVE Kept(f)
  <2>1. f \in out'.sent /\ f.type = "message"
    BY DEF MessageFrames
  <2>2. ASSUME NEW s \in Sockets, NEW k \in Keys, NEW info \in Infos, Register(s, k, info)
        PROVE  Kept(f)
    <3>1. f.to = k /\ Claims(k, sessions', f.via)
      BY <1>1, <2>1, <2>2, FlushedFrames
    <3>2. k \in DOMAIN sessions'
      BY <2>2 DEF Register, Put
    <3>3. QED
      BY <3>1, <3>2, ClaimedIdentity
  <2>3. ASSUME NEW s \in Sockets, NEW m \in Messages, NEW to, NEW ep, SendDelivered(s, m, to, ep)
        PROVE  Kept(f)
    BY <1>1, <2>1, <2>3, DeliveredFrames
  <2>4. ASSUME NEW s \in Sockets, NEW m \in Messages, NEW to, NEW ep, SendRelogged(s, m, to, ep)
        PROVE  Kept(f)
    <3> DEFINE k == TheOne(Targets(Fresh(gone), to, Scope(m.by)))
               l == TheOne(Successors(k, m.by))
    <3>1. f.from = m.by /\ f.to = l /\ f.via = MailFor(m, k, gone[k])
      BY <1>1, <2>1, <2>4, ReloggedFrames
    <3>2. Sends(s, m) /\ Verdict(m, m.by, to, ep) = "relog" /\ sessions' = sessions
      BY <2>4 DEF SendRelogged
    <3>3. Successors(k, m.by) = {l} /\ l \in SharingMailbox(sessions, k, gone[k])
      BY <1>1, <3>2, Sender, SuccessorTarget
    <3>4. f.via.to = k /\ f.via.toInfo.name = gone[k].name /\ f.via.toInfo.cwd = gone[k].cwd
      BY <3>1 DEF MailFor, Info
    <3> HIDE DEF k, l
    <3>5. /\ gone[k].name # NoName
          /\ SharingMailbox(sessions, k, gone[k]) =
               {h \in DOMAIN sessions : /\ Scope(h) = Scope(k) /\ ~sessions[h].alias
                                        /\ sessions[h].name = gone[k].name
                                        /\ sessions[h].cwd = gone[k].cwd}
      BY <3>3 DEF SharingMailbox
    <3>6. /\ Scope(l) = Scope(k) /\ sessions[l].name = gone[k].name
          /\ sessions[l].cwd = gone[k].cwd /\ ~sessions[l].alias
      BY <3>3, <3>5
    <3>7. ASSUME NEW h \in DOMAIN sessions \ {l, m.by},
                 Scope(h) = Scope(l), ~sessions[h].alias,
                 sessions[h].name = sessions[l].name, sessions[h].cwd = sessions[l].cwd
          PROVE  FALSE
      BY <3>3, <3>5, <3>6, <3>7 DEF Successors
    <3>8. QED
      BY <3>1, <3>2, <3>4, <3>5, <3>6, <3>7
  <2>5. ASSUME NEW s \in Sockets, NEW i \in MsgIds, CancelSent(s, i) \/ Receipt(s, i)
        PROVE  FALSE
    BY <2>1, <2>5 DEF CancelSent, Receipt, Frame, Quiet
  <2>6. QED
    BY <1>1, <2>1, <2>2, <2>3, <2>4, <2>5, WritingSteps
<1>2. BrokerInv /\ MailInv /\ [Next]_vars => [\A f \in MessageFrames : Kept(f)]_vars
  BY <1>1
<1>3. QED
  BY <1>2, BrokerInvariant, MailInvariant, PTL DEF Spec, MailKeepsItsIdentity

\* Nothing one session has written reaches a session of another scope: message, mail,
\* supersession, cancellation or receipt.
THEOREM ScopeIsolation == Spec => ScopesAreIsolated
<1> DEFINE Isolated(f) == Scope(f.from) = Scope(f.to)
<1>1. ASSUME BrokerInv, MailInv, Next, NEW f \in out'.sent PROVE Isolated(f)
  <2>1. ASSUME NEW s \in Sockets, NEW k \in Keys, NEW info \in Infos, Register(s, k, info)
        PROVE  Isolated(f)
    <3>1. f.to = k /\ f.from = f.via.from /\ Claims(k, sessions', f.via)
          /\ f.via \in {FreshMail[i] : i \in DOMAIN FreshMail}
      BY <1>1, <2>1, FlushedFrames
    <3>2. Scope(f.via.from) = Scope(f.via.to)
      BY <1>1, <3>1, SomeOfFresh DEF BrokerInv, SomeOf, MailInv, WithinScope
    <3>3. QED
      BY <3>1, <3>2 DEF Claims
  <2>2. ASSUME NEW s \in Sockets, NEW m \in Messages, NEW to, NEW ep, SendDelivered(s, m, to, ep)
        PROVE  Isolated(f)
    <3>1. Sends(s, m) /\ Verdict(m, m.by, to, ep) = "deliver"
      BY <2>2 DEF SendDelivered
    <3>2. Scope(TheOne(Targets(sessions, to, Scope(m.by)))) = Scope(m.by)
      BY <1>1, <3>1, Sender, DeliverScope
    <3>3. QED
      BY <1>1, <2>2, <3>2, DeliveredFrames
  <2>3. ASSUME NEW s \in Sockets, NEW m \in Messages, NEW to, NEW ep, SendRelogged(s, m, to, ep)
        PROVE  Isolated(f)
    <3> DEFINE k == TheOne(Targets(Fresh(gone), to, Scope(m.by)))
               l == TheOne(Successors(k, m.by))
    <3>1. Sends(s, m) /\ Verdict(m, m.by, to, ep) = "relog"
      BY <2>3 DEF SendRelogged
    <3>2. l \in SharingMailbox(sessions, k, gone[k])
      BY <1>1, <3>1, Sender, SuccessorTarget
    <3>3. Scope(k) = Scope(m.by)
      BY <1>1, <3>1, Sender, GoneScope
    <3>4. f.from = m.by /\ f.to = l
      BY <1>1, <2>3, ReloggedFrames
    <3>5. QED
      BY <3>2, <3>3, <3>4 DEF SharingMailbox
  <2>4. ASSUME NEW s \in Sockets, NEW i \in MsgIds, CancelSent(s, i)
        PROVE  Isolated(f)
    <3> DEFINE rts == WithoutMail(Fresh(routes), ExpiredMail)
    <3>1. i \in DOMAIN rts /\ f.from = rts[i].from /\ f.to = rts[i].to
      BY <1>1, <2>4 DEF CancelSent, Frame
    <3>2. Shrinks(rts, routes)
      BY ShrinksByFresh, ShrinksByMail, ShrinksTrans
    <3>3. QED
      BY <1>1, <3>1, <3>2 DEF Shrinks, MailInv, WithinScope
  <2>5. ASSUME NEW s \in Sockets, NEW i \in MsgIds, Receipt(s, i)
        PROVE  Isolated(f)
    BY <1>1, <2>5 DEF Receipt, Frame, Quiet, Fresh, MailInv, WithinScope
  <2>6. QED
    BY <1>1, <2>1, <2>2, <2>3, <2>4, <2>5, WritingSteps
<1>2. BrokerInv /\ MailInv /\ [Next]_vars => [\A f \in out'.sent : Isolated(f)]_vars
  BY <1>1
<1>3. QED
  BY <1>2, BrokerInvariant, MailInvariant, PTL DEF Spec, ScopesAreIsolated

-----------------------------------------------------------------------------
(* The accounts of the retried sends: what the updates of the tables do.   *)

\* Records that are pruned are gaps in the accounts.
LEMMA PruneAccounts ==
  ASSUME NEW mail, NEW recs, NEW written, NEW gaps, NEW back,
         Accounts(mail, recs, written, gaps, back)
  PROVE  Accounts(mail, Fresh(recs), written, gaps \cup Dropped(recs), back)
<1> DEFINE kept == Fresh(recs)
           more == gaps \cup Dropped(recs)
<1>1. /\ \A k \in DOMAIN recs : k \notin more => k \in DOMAIN kept
      /\ \A k \in DOMAIN kept : k \in DOMAIN recs /\ kept[k] = recs[k]
      /\ \A k \in more : k \in gaps \/ k \in Dropped(recs)
      /\ \A k : k \notin more => k \notin gaps
  BY DEF Fresh, Dropped
<1> HIDE DEF kept, more
<1>2. NoTwins(mail, more)
  BY <1>1 DEF Accounts, NoTwins
<1>3. WaitingIsRecorded(mail, kept, more)
  BY <1>1 DEF Accounts, WaitingIsRecorded
<1>4. RecordedIsWaiting(mail, kept)
  BY <1>1 DEF Accounts, RecordedIsWaiting
<1>5. WrittenIsSettled(kept, written, more)
  BY <1>1 DEF Accounts, WrittenIsSettled
<1>6. WithdrawnHasFailed(kept, back, more)
  BY <1>1 DEF Accounts, WithdrawnHasFailed
<1>7. QED
  BY <1>2, <1>3, <1>4, <1>5, <1>6 DEF Accounts, kept, more

\* Mail that is taken out: its records get an outcome that is not "queued".
OutcomeOf(mail, I) == {RecKey(mail[i]) : i \in DOMAIN mail \ I}

\* What is known of the messages that are taken out.
LEMMA TakenOut ==
  ASSUME NEW mail, NEW recs, NEW written, NEW gaps, NEW back, NEW I,
         Accounts(mail, recs, written, gaps, back), KeysOf(mail) \subseteq RecKeys,
         NEW k \in OutcomeOf(mail, I), k \notin gaps
  PROVE  /\ k \in DOMAIN recs /\ recs[k].state = "queued"
         /\ written[k] # 1 /\ k \notin back
         /\ \A i \in I \cap DOMAIN mail : RecKey(mail[i]) # k
<1>1. k \in KeysOf(mail) /\ k \in RecKeys
  BY DEF OutcomeOf, KeysOf
<1>2. k \in DOMAIN recs /\ recs[k].state = "queued"
  BY <1>1 DEF Accounts, WaitingIsRecorded
<1>3. written[k] # 1
  BY <1>1, <1>2 DEF Accounts, WrittenIsSettled
<1>4. k \notin back
  BY <1>2 DEF Accounts, WithdrawnHasFailed
<1>5. \A i \in I \cap DOMAIN mail : RecKey(mail[i]) # k
  BY DEF Accounts, NoTwins, OutcomeOf
<1>6. QED
  BY <1>2, <1>3, <1>4, <1>5

LEMMA TakeAccounts ==
  ASSUME NEW mail, NEW rest, NEW I \in SUBSET DOMAIN mail, Selects(rest, mail, I),
         NEW recs, MapOf(recs, RecKeys, RecordType), NEW written, NEW gaps, NEW back,
         Accounts(mail, recs, written, gaps, back), KeysOf(mail) \subseteq RecKeys,
         NEW state \in {"failed", "socket_delivered"}, NEW code, code # "E_TARGET_REBOUND"
  PROVE  LET new == Updated(recs, OutcomeOf(mail, I), state, code)
         IN /\ NoTwins(rest, gaps)
            /\ WaitingIsRecorded(rest, new, gaps)
            /\ RecordedIsWaiting(rest, new)
            /\ WithdrawnHasFailed(new, back, gaps)
            /\ WrittenIsSettled(new, written, gaps)
<1> DEFINE out_ == OutcomeOf(mail, I)
           new == Updated(recs, out_, state, code)
<1>1. /\ DOMAIN new = DOMAIN recs
      /\ \A k \in DOMAIN recs : k \notin out_ => new[k] = recs[k]
      /\ \A k \in DOMAIN recs : k \in out_ => new[k].state = state /\ new[k].code = code
  BY DEF Updated, MapOf, RecordType
<1>2. PICK at \in [DOMAIN rest -> I] :
        /\ \A n \in DOMAIN rest : rest[n] = mail[at[n]]
        /\ \A n, p \in DOMAIN rest : at[n] = at[p] => n = p
        /\ \A i \in I : \E n \in DOMAIN rest : at[n] = i
  BY DEF Selects
<1>3. \A n \in DOMAIN rest : at[n] \in DOMAIN mail /\ at[n] \in I
  BY <1>2
<1>4. ASSUME NEW k \in out_, k \notin gaps
      PROVE  /\ k \in DOMAIN recs /\ recs[k].state = "queued" /\ written[k] # 1 /\ k \notin back
             /\ k \notin KeysOf(rest)
  <2>1. \A i \in I \cap DOMAIN mail : RecKey(mail[i]) # k
    BY <1>4, TakenOut
  <2>2. k \notin KeysOf(rest)
    BY <1>2, <1>3, <2>1 DEF KeysOf
  <2>3. QED
    BY <1>4, <2>2, TakenOut
<1>5. KeysOf(rest) \subseteq KeysOf(mail)
  BY <1>2, <1>3 DEF KeysOf
<1>6. \A k \in KeysOf(mail) : k \in out_ \/ k \in KeysOf(rest)
  <2> SUFFICES ASSUME NEW i \in DOMAIN mail, RecKey(mail[i]) \notin out_
               PROVE  RecKey(mail[i]) \in KeysOf(rest)
    BY DEF KeysOf
  <2>1. i \in I
    BY DEF OutcomeOf
  <2>2. PICK n \in DOMAIN rest : at[n] = i
    BY <1>2, <2>1
  <2>3. QED
    BY <1>2, <2>2 DEF KeysOf
<1> HIDE DEF out_, new
<1>7. NoTwins(rest, gaps)
  <2> SUFFICES ASSUME NEW n \in DOMAIN rest, NEW p \in DOMAIN rest,
                      RecKey(rest[n]) = RecKey(rest[p]), RecKey(rest[n]) \notin gaps
               PROVE  n = p
    BY DEF NoTwins
  <2>1. at[n] = at[p]
    BY <1>2, <1>3 DEF Accounts, NoTwins
  <2>2. QED
    BY <1>2, <2>1
<1>8. WaitingIsRecorded(rest, new, gaps)
  BY <1>1, <1>4, <1>5 DEF Accounts, WaitingIsRecorded
<1>9. RecordedIsWaiting(rest, new)
  BY <1>1, <1>6 DEF Accounts, RecordedIsWaiting, Rebound
<1>10. WithdrawnHasFailed(new, back, gaps)
  BY <1>1, <1>4 DEF Accounts, WithdrawnHasFailed, Rebound
<1>11. WrittenIsSettled(new, written, gaps)
  BY <1>1, <1>4 DEF Accounts, WrittenIsSettled, Rebound
<1>12. QED
  BY <1>7, <1>8, <1>9, <1>10, <1>11 DEF new, out_

\* A record for a message that is not remembered, or that a rebound left to be retried.
Retriable(recs, k, gaps) == k \notin DOMAIN recs \/ Rebound(recs[k]) \/ k \in gaps

LEMMA RetriableUnwritten ==
  ASSUME NEW mail, NEW recs, NEW written, NEW gaps, NEW back,
         Accounts(mail, recs, written, gaps, back),
         NEW k \in RecKeys, Retriable(recs, k, gaps), k \notin gaps
  PROVE  written[k] # 1 /\ k \notin KeysOf(mail) /\ k \notin back
<1>1. k \in DOMAIN recs => recs[k].state = "failed"
  BY DEF Accounts, RecordedIsWaiting, Retriable
<1>2. written[k] # 1
  BY DEF Accounts, WrittenIsSettled, Retriable
<1>3. k \notin KeysOf(mail)
  BY <1>1 DEF Accounts, WaitingIsRecorded, Retriable
<1>4. k \notin back
  BY DEF Accounts, WithdrawnHasFailed, Retriable
<1>5. QED
  BY <1>2, <1>3, <1>4

\* recordDelivery for such a message; the evicted records are gaps.
LEMMA RecordAccounts ==
  ASSUME NEW mail, NEW recs, NEW written, NEW gaps, NEW back,
         Accounts(mail, recs, written, gaps, back), KeysOf(mail) \subseteq RecKeys,
         NEW victims, NEW me \in Keys, NEW m \in Messages, NEW id, NEW state, NEW code,
         Retriable(recs, <<me, m.id>>, gaps),
         code = "E_TARGET_REBOUND" => state = "failed",
         NEW box, KeysOf(mail) \subseteq KeysOf(box), NoTwins(box, gaps),
         state = "queued" => KeysOf(box) = KeysOf(mail) \cup {<<me, m.id>>},
         state # "queued" => KeysOf(box) = KeysOf(mail),
         NEW count,
         \A k \in RecKeys : k # <<me, m.id>> => count[k] = written[k],
         <<me, m.id>> \notin gaps =>
            IF state = "socket_delivered" /\ code # "E_TARGET_REBOUND"
            THEN count[<<me, m.id>>] <= 1
            ELSE count[<<me, m.id>>] = written[<<me, m.id>>]
  PROVE  Accounts(box, Recorded(recs, victims, me, m, id, state, code), count,
                  gaps \cup victims, back)
<1> DEFINE key == <<me, m.id>>
           new == Recorded(recs, victims, me, m, id, state, code)
           more == gaps \cup victims
<1>1. key \in RecKeys
  BY DEF RecKeys, MsgIds
<1>2. /\ key \in DOMAIN new /\ new[key].state = state /\ new[key].code = code
      /\ \A k \in DOMAIN new : k # key => k \in DOMAIN recs /\ new[k] = recs[k]
      /\ \A k \in DOMAIN recs : k \notin more => k \in DOMAIN new
  BY DEF Recorded, Put, Without
<1>3. key \notin gaps => written[key] # 1 /\ key \notin KeysOf(mail) /\ key \notin back
  BY <1>1, RetriableUnwritten
<1>4. \A k : k \notin more => k \notin gaps
  OBVIOUS
<1> HIDE DEF new, more, key
<1>5. NoTwins(box, more)
  BY <1>4 DEF NoTwins
<1>6. WaitingIsRecorded(box, new, more)
  BY <1>2, <1>3, <1>4 DEF Accounts, WaitingIsRecorded, key
<1>7. RecordedIsWaiting(box, new)
  BY <1>2 DEF Accounts, RecordedIsWaiting, Rebound, key
<1>8. WrittenIsSettled(new, count, more)
  <2> SUFFICES ASSUME NEW k \in RecKeys, k \notin more
               PROVE  /\ count[k] <= 1
                      /\ count[k] = 1 => k \in DOMAIN new /\ new[k].state # "queued" /\ ~Rebound(new[k])
    BY DEF WrittenIsSettled
  <2>1. CASE k # key
    BY <1>2, <1>4, <2>1 DEF Accounts, WrittenIsSettled, key
  <2>2. CASE k = key
    BY <1>1, <1>2, <1>3, <1>4, <2>2 DEF Accounts, WrittenIsSettled, Rebound, key
  <2>3. QED
    BY <2>1, <2>2
<1>9. WithdrawnHasFailed(new, back, more)
  BY <1>2, <1>3, <1>4 DEF Accounts, WithdrawnHasFailed
<1>10. QED
  BY <1>5, <1>6, <1>7, <1>8, <1>9 DEF Accounts, new, more, key

\* A message that was written gets the outcome "failed": superseded, or cancelled.
LEMMA FailWrittenAccounts ==
  ASSUME NEW mail, NEW recs, MapOf(recs, RecKeys, RecordType), NEW written \in [RecKeys -> 0..2],
         NEW gaps, NEW back, Accounts(mail, recs, written, gaps, back),
         NEW S, \A k \in S : k \in DOMAIN recs => k \in RecKeys /\ written[k] >= 1,
         NEW code, code # "E_TARGET_REBOUND"
  PROVE  Accounts(mail, Updated(recs, S, "failed", code), written, gaps, back)
<1> DEFINE new == Updated(recs, S, "failed", code)
<1>1. /\ DOMAIN new = DOMAIN recs
      /\ \A k \in DOMAIN recs : k \notin S => new[k] = recs[k]
      /\ \A k \in DOMAIN recs : k \in S => new[k].state = "failed" /\ new[k].code = code
  BY DEF Updated, MapOf, RecordType
<1>2. ASSUME NEW k \in S, k \in DOMAIN recs, k \notin gaps
      PROVE  recs[k].state # "queued" /\ k \notin KeysOf(mail)
  <2>1. written[k] = 1
    BY <1>2 DEF Accounts, WrittenIsSettled
  <2>2. recs[k].state # "queued"
    BY <1>2, <2>1 DEF Accounts, WrittenIsSettled
  <2>3. QED
    BY <1>2, <2>2 DEF Accounts, WaitingIsRecorded
<1> HIDE DEF new
<1>3. NoTwins(mail, gaps)
  BY DEF Accounts
<1>4. WaitingIsRecorded(mail, new, gaps)
  BY <1>1, <1>2 DEF Accounts, WaitingIsRecorded
<1>5. RecordedIsWaiting(mail, new)
  BY <1>1 DEF Accounts, RecordedIsWaiting, Rebound
<1>6. WrittenIsSettled(new, written, gaps)
  BY <1>1 DEF Accounts, WrittenIsSettled, Rebound
<1>7. WithdrawnHasFailed(new, back, gaps)
  BY <1>1 DEF Accounts, WithdrawnHasFailed, Rebound
<1>8. QED
  BY <1>3, <1>4, <1>5, <1>6, <1>7 DEF Accounts, new

\* What one more round of writes does to the count of one message.
LEMMA CountedAt ==
  ASSUME HistoryType, NEW n \in Nat, NEW ks, DOMAIN ks = 1..n, NEW k \in RecKeys
  PROVE  /\ (\A i \in DOMAIN ks : ks[i] # k) => Counted(ks)[k] = copies[k]
         /\ (\E i \in DOMAIN ks : ks[i] = k) => Counted(ks)[k] >= 1
         /\ copies[k] = 0 /\ (\E i \in DOMAIN ks : \A j \in DOMAIN ks : ks[j] = k => j = i)
            => Counted(ks)[k] <= 1
<1> DEFINE S == {i \in DOMAIN ks : ks[i] = k}
<1>1. IsFiniteSet(S) /\ Cardinality(S) \in Nat
  <2>1. IsFiniteSet(1..n)
    BY FS_Interval
  <2>2. S \in SUBSET (1..n)
    OBVIOUS
  <2>3. QED
    BY <2>1, <2>2, SubsetCardinality
<1>2. copies[k] \in 0..2
  BY DEF HistoryType
<1>3. Counted(ks)[k] = IF copies[k] + Cardinality(S) > 2 THEN 2 ELSE copies[k] + Cardinality(S)
  BY DEF Counted
<1>4. ASSUME \A i \in DOMAIN ks : ks[i] # k PROVE Counted(ks)[k] = copies[k]
  <2>1. S = {}
    BY <1>4
  <2>2. Cardinality(S) = 0
    BY <2>1, FS_EmptySet
  <2>3. QED
    BY <1>2, <1>3, <2>2
<1>5. ASSUME \E i \in DOMAIN ks : ks[i] = k PROVE Counted(ks)[k] >= 1
  <2>1. S # {}
    BY <1>5
  <2>2. Cardinality(S) # 0
    BY <1>1, <2>1, FS_EmptySet
  <2>3. QED
    BY <1>1, <1>2, <1>3, <2>2
<1>6. ASSUME copies[k] = 0, NEW i \in DOMAIN ks, \A j \in DOMAIN ks : ks[j] = k => j = i
      PROVE  Counted(ks)[k] <= 1
  <2>1. S \in SUBSET {i}
    BY <1>6
  <2>2. IsFiniteSet({i}) /\ Cardinality({i}) = 1
    BY FS_Singleton
  <2>3. Cardinality(S) <= 1
    BY <2>1, <2>2, FS_Subset
  <2>4. QED
    BY <1>1, <1>3, <1>6, <2>3
<1>7. QED
  BY <1>4, <1>5, <1>6

LEMMA CountedSingle ==
  ASSUME HistoryType, NEW x \in RecKeys
  PROVE  /\ \A k \in RecKeys : k # x => Counted(<<x>>)[k] = copies[k]
         /\ Counted(<<x>>)[x] >= 1
         /\ copies[x] # 1 => copies[x] = 2 \/ Counted(<<x>>)[x] <= 1
<1> DEFINE ks == <<x>>
<1>1. DOMAIN ks = 1..1 /\ ks[1] = x
  OBVIOUS
<1>2. copies[x] \in 0..2
  BY DEF HistoryType
<1> HIDE DEF ks
<1>3. ASSUME NEW k \in RecKeys
      PROVE  /\ (\A i \in DOMAIN ks : ks[i] # k) => Counted(ks)[k] = copies[k]
             /\ (\E i \in DOMAIN ks : ks[i] = k) => Counted(ks)[k] >= 1
             /\ copies[k] = 0 /\ (\E i \in DOMAIN ks : \A j \in DOMAIN ks : ks[j] = k => j = i)
                => Counted(ks)[k] <= 1
  <2>1. 1 \in Nat
    OBVIOUS
  <2>2. QED
    BY <1>1, <2>1, CountedAt
<1>4. \A k \in RecKeys : k # x => Counted(ks)[k] = copies[k]
  BY <1>1, <1>3
<1>5. Counted(ks)[x] >= 1
  BY <1>1, <1>3
<1>6. copies[x] = 0 => Counted(ks)[x] <= 1
  BY <1>1, <1>3
<1>7. QED
  BY <1>2, <1>4, <1>5, <1>6 DEF ks

-----------------------------------------------------------------------------
(* The accounts of the broker's own state.                                 *)

LEMMA MailKeys == ASSUME NEW mail \in Seq(MailType) PROVE KeysOf(mail) \subseteq RecKeys
<1>1. \A i \in DOMAIN mail : mail[i] \in MailType
  OBVIOUS
<1>2. QED
  BY <1>1 DEF KeysOf, RecKey, RecKeys, MsgIds, MailType

LEMMA BoxKeys ==
  ASSUME TypeOK
  PROVE  /\ KeysOf(mailbox) \subseteq RecKeys /\ KeysOf(FreshMail) \subseteq RecKeys
         /\ mailbox \in Seq(MailType) /\ FreshMail \in Seq(MailType)
BY MailKeys, FreshMailSeq DEF TypeOK, MailboxType

LEMMA RecordsMap ==
  ASSUME NEW recs, MapOf(recs, RecKeys, RecordType)
  PROVE  /\ MapOf(Fresh(recs), RecKeys, RecordType)
         /\ MapOf(AfterExpiry(recs), RecKeys, RecordType)
         /\ DOMAIN AfterExpiry(recs) = DOMAIN recs
BY FreshMap, UpdatedRecords DEF AfterExpiry, DeliveryStates, Codes

\* Mail that expires is recorded as failed.
LEMMA ExpireAccounts ==
  ASSUME TypeOK, NEW recs, MapOf(recs, RecKeys, RecordType), NEW gaps,
         Accounts(mailbox, recs, copies, gaps, withdrawn)
  PROVE  Accounts(FreshMail, AfterExpiry(recs), copies, gaps, withdrawn)
<1> DEFINE I == {i \in DOMAIN mailbox : ~mailbox[i].old}
<1>1. I \in SUBSET DOMAIN mailbox
  OBVIOUS
<1>2. Selects(FreshMail, mailbox, I)
  BY <1>1, BoxKeys, FilteredSelects DEF FreshMail
<1>3. {RecKey(e) : e \in ExpiredMail} = OutcomeOf(mailbox, I)
  BY DEF ExpiredMail, OutcomeOf
<1> HIDE DEF I
<1>4. AfterExpiry(recs) = Updated(recs, OutcomeOf(mailbox, I), "failed", "E_DELIVERY_EXPIRED")
  BY <1>3 DEF AfterExpiry
<1>5. QED
  BY <1>1, <1>2, <1>4, BoxKeys, TakeAccounts DEF Accounts

\* A send that is not a replay is for a message the records do not answer for.
LEMMA FreshReplay ==
  ASSUME NEW m, NEW me, NEW id, Replay(m, me, id) = "fresh", NEW gaps
  PROVE  Retriable(Fresh(records), <<me, m.id>>, gaps)
BY DEF Replay, Retriable, Rebound

\* Routes that stay were written.
LEMMA RoutesStayWritten ==
  ASSUME RoutesWereWritten, Shrinks(routes', routes), copies' = copies
  PROVE  RoutesWereWritten'
BY DEF RoutesWereWritten, Shrinks

\* A route added for a message that is written in the same step.
LEMMA RouteWritten ==
  ASSUME BrokerInv, RoutesWereWritten, NEW me \in Keys, NEW m \in Messages, NEW to,
         routes' = Put(Fresh(routes), m.id, [from |-> me, to |-> to, old |-> FALSE]),
         copies' = Counted(<< <<me, m.id>> >>)
  PROVE  RoutesWereWritten'
<1> DEFINE x == <<me, m.id>>
<1>1. x \in RecKeys
  BY DEF RecKeys, MsgIds
<1>2. copies'[x] >= 1 /\ \A k \in RecKeys : k # x => copies'[k] = copies[k]
  BY <1>1, CountedSingle DEF BrokerInv, TypeOK
<1>3. ASSUME NEW i \in DOMAIN routes' PROVE copies'[<<routes'[i].from, i>>] >= 1
  <2>1. CASE i = m.id
    BY <1>2, <2>1 DEF Put
  <2>2. CASE i # m.id
    <3>1. i \in DOMAIN routes /\ routes'[i] = routes[i]
      BY <2>2 DEF Put, Fresh
    <3>2. <<routes[i].from, i>> \in RecKeys /\ <<routes[i].from, i>> # x
      BY <2>2, <3>1 DEF BrokerInv, TypeOK, TableType, MapOf, EdgeType, RecKeys
    <3>3. QED
      BY <1>2, <3>1, <3>2 DEF RoutesWereWritten
  <2>3. QED
    BY <2>1, <2>2
<1>4. QED
  BY <1>3 DEF RoutesWereWritten

LEMMA RetryIdleSteps ==
  ASSUME BrokerInv, RetryInv, UNCHANGED mailVars, Shrinks(routes', routes)
  PROVE  RetryInv'
BY RoutesStayWritten DEF RetryInv, mailVars

LEMMA RetryConnStep ==
  ASSUME BrokerInv, RetryInv, NEW s \in Sockets,
         \/ Connect(s) \/ RegistrationTimeout(s) \/ FrameRejected(s) \/ Close(s) \/ Unregister(s)
         \/ \E name \in Names, alias \in BOOLEAN : Presence(s, name, alias)
         \/ \E i \in MsgIds : CancelAsk(s, i) \/ Receipt(s, i)
  PROVE  RetryInv'
<1>1. UNCHANGED mailVars
  BY DEF Connect, RegistrationTimeout, FrameRejected, Close, Unregister, Presence, CancelAsk, Receipt
<1>2. routes' = routes \/ routes' = Fresh(routes) \/ \E S : routes' = Without(routes, S)
  BY DEF Connect, RegistrationTimeout, FrameRejected, Close, Unregister, Presence, CancelAsk, Receipt,
         RemoveSession
<1>3. Shrinks(routes', routes)
  BY <1>2, ShrinksRefl, ShrinksByFresh, ShrinksByWithout
<1>4. QED
  BY <1>1, <1>3, RetryIdleSteps

LEMMA RetryRefusedStep ==
  ASSUME BrokerInv, RetryInv, NEW s \in Sockets, NEW k \in Keys, RegisterRefused(s, k)
  PROVE  RetryInv'
<1>1. /\ mailbox' = FreshMail /\ records' = AfterExpiry(records)
      /\ routes' = WithoutMail(routes, ExpiredMail)
      /\ UNCHANGED <<copies, lost, withdrawn>>
  BY DEF RegisterRefused
<1>2. Accounts(mailbox', records', copies', lost', withdrawn')
  BY <1>1, ExpireAccounts DEF BrokerInv, TypeOK, TableType, RetryInv
<1>3. QED
  BY <1>1, <1>2, RoutesStayWritten, ShrinksByMail DEF RetryInv

LEMMA RetryIdleStep ==
  ASSUME BrokerInv, RetryInv, IdleCheck PROVE RetryInv'
<1>1. UNCHANGED <<copies, lost, withdrawn>>
  BY DEF IdleCheck
<1>2. CASE UNCHANGED <<mailbox, records, routes>>
  BY <1>1, <1>2, ShrinksRefl, RetryIdleSteps DEF mailVars
<1>3. CASE /\ mailbox' = FreshMail /\ records' = AfterExpiry(records)
           /\ routes' = WithoutMail(routes, ExpiredMail)
  <2>1. Accounts(mailbox', records', copies', lost', withdrawn')
    BY <1>1, <1>3, ExpireAccounts DEF BrokerInv, TypeOK, TableType, RetryInv
  <2>2. QED
    BY <1>1, <1>3, <2>1, RoutesStayWritten, ShrinksByMail DEF RetryInv
<1>4. QED
  BY <1>2, <1>3 DEF IdleCheck

LEMMA RetryTerminateStep ==
  ASSUME BrokerInv, RetryInv, Terminate PROVE RetryInv'
<1>1. /\ mailbox' = <<>> /\ records' = EmptyMap /\ routes' = EmptyMap
      /\ lost' = lost \cup DOMAIN records /\ UNCHANGED <<copies, withdrawn>>
  BY DEF Terminate
<1>2. DOMAIN mailbox' = {} /\ DOMAIN records' = {} /\ DOMAIN routes' = {}
  BY <1>1 DEF EmptyMap
<1>3. NoTwins(mailbox', lost') /\ WaitingIsRecorded(mailbox', records', lost')
      /\ RecordedIsWaiting(mailbox', records')
  BY <1>2 DEF NoTwins, WaitingIsRecorded, RecordedIsWaiting, KeysOf
<1>4. WrittenIsSettled(records', copies', lost')
  BY <1>1 DEF RetryInv, Accounts, WrittenIsSettled
<1>5. WithdrawnHasFailed(records', withdrawn', lost')
  BY <1>1 DEF RetryInv, Accounts, WithdrawnHasFailed
<1>6. RoutesWereWritten'
  BY <1>2 DEF RoutesWereWritten
<1>7. QED
  BY <1>3, <1>4, <1>5, <1>6 DEF RetryInv, Accounts

\* Refused and replayed sends prune the records.
LEMMA RetryPruneStep ==
  ASSUME BrokerInv, RetryInv, NEW s \in Sockets, NEW m, NEW to, NEW ep,
         SendRefused(s, m, to, ep) \/ SendReplayed(s, m, to, ep)
  PROVE  RetryInv'
<1>1. /\ routes' = Fresh(routes) /\ UNCHANGED <<mailbox, copies, withdrawn>>
      /\ \/ records' = Fresh(records) /\ lost' = lost \cup Dropped(records)
         \/ UNCHANGED <<records, lost>>
  BY DEF SendRefused, SendReplayed
<1>2. Accounts(mailbox', records', copies', lost', withdrawn')
  BY <1>1, PruneAccounts DEF RetryInv
<1>3. QED
  BY <1>1, <1>2, RoutesStayWritten, ShrinksByFresh DEF RetryInv

LEMMA RetryExactStep ==
  ASSUME BrokerInv, RetryInv, NEW s \in Sockets, NEW m \in Messages, NEW to \in Ids, NEW ep \in Nat \ {0},
         SendExactFailed(s, m, to, ep)
  PROVE  RetryInv'
<1> DEFINE gaps == lost \cup Dropped(records)
<1>1. /\ Sends(s, m) /\ Verdict(m, m.by, to, ep) \in {"exact_not_found", "exact_rebound"}
      /\ routes' = Fresh(routes) /\ UNCHANGED <<mailbox, copies, withdrawn>>
  BY DEF SendExactFailed
<1>2. PICK victims \in Room(Fresh(records)), code \in {"E_TARGET_REBOUND", "E_TARGET_NOT_FOUND"} :
        /\ records' = Recorded(Fresh(records), victims, m.by, m, to, "failed", code)
        /\ lost' = gaps \cup victims
  BY DEF SendExactFailed
<1>3. m.by \in Keys
  BY <1>1, Sender
<1>4. Replay(m, m.by, to) = "fresh"
  BY <1>1 DEF Verdict, ExactVerdict, Replay
<1>5. Accounts(mailbox, Fresh(records), copies, gaps, withdrawn)
  BY PruneAccounts DEF RetryInv
<1>6. Retriable(Fresh(records), <<m.by, m.id>>, gaps)
  BY <1>4, FreshReplay
<1>7. Accounts(mailbox, Recorded(Fresh(records), victims, m.by, m, to, "failed", code), copies,
               gaps \cup victims, withdrawn)
  <2>1. KeysOf(mailbox) \subseteq RecKeys /\ NoTwins(mailbox, gaps)
    BY <1>5, BoxKeys DEF BrokerInv, Accounts
  <2> HIDE DEF gaps
  <2>2. QED
    BY <1>3, <1>5, <1>6, <2>1, RecordAccounts
<1>8. QED
  BY <1>1, <1>2, <1>7, RoutesStayWritten, ShrinksByFresh DEF RetryInv

\* The record of a message that is written to its receiver.
LEMMA WriteAccounts ==
  ASSUME NEW mail, NEW recs, NEW written, NEW gaps, NEW back,
         Accounts(mail, recs, written, gaps, back), KeysOf(mail) \subseteq RecKeys,
         NEW victims, NEW me \in Keys, NEW m \in Messages, NEW id,
         Retriable(recs, <<me, m.id>>, gaps), NEW count,
         \A k \in RecKeys : k # <<me, m.id>> => count[k] = written[k],
         <<me, m.id>> \notin gaps => count[<<me, m.id>>] <= 1
  PROVE  Accounts(mail, Recorded(recs, victims, me, m, id, "socket_delivered", None), count,
                  gaps \cup victims, back)
<1>1. NoTwins(mail, gaps)
  BY DEF Accounts
<1>2. None # "E_TARGET_REBOUND"
  BY BrokerAssumption
<1>3. QED
  BY <1>1, <1>2, RecordAccounts

LEMMA RetryDeliveredStep ==
  ASSUME BrokerInv, RetryInv, NEW s \in Sockets, NEW m \in Messages, NEW to, NEW ep,
         SendDelivered(s, m, to, ep)
  PROVE  RetryInv'
<1> DEFINE me == m.by
           key == <<me, m.id>>
           older == <<me, m.supersedes>>
           k == TheOne(Targets(sessions, to, Scope(me)))
           gaps == lost \cup Dropped(records)
           recs == Fresh(records)
           superseded == Updated(recs, {older}, "failed", "E_DELIVERY_SUPERSEDED")
<1>1. /\ Sends(s, m) /\ Verdict(m, me, to, ep) = "deliver"
      /\ routes' = Put(Fresh(routes), m.id, [from |-> me, to |-> k, old |-> FALSE])
      /\ copies' = Counted(<< key >>)
      /\ UNCHANGED <<mailbox, withdrawn>>
  BY DEF SendDelivered
<1>2. PICK victims :
        /\ records' = Recorded(superseded, victims, me, m, k[2], "socket_delivered", None)
        /\ lost' = gaps \cup victims
  BY DEF SendDelivered
<1>3. me \in Keys /\ key \in RecKeys
  BY <1>1, Sender DEF RecKeys
<1>4. LiveVerdict(m, me, k) = "deliver"
  BY <1>1, <1>3, DeliverTarget
<1>5. Replay(m, me, k[2]) = "fresh"
  BY <1>4 DEF LiveVerdict, Replay
<1>6. m.supersedes # NoMsg =>
        /\ m.supersedes \in DOMAIN Fresh(routes) /\ Fresh(routes)[m.supersedes].from = me
  BY <1>4 DEF LiveVerdict, Replay
<1>7. MapOf(recs, RecKeys, RecordType) /\ copies \in [RecKeys -> 0..2]
  BY RecordsMap DEF BrokerInv, TypeOK, TableType, HistoryType
<1>8. older \in DOMAIN recs => older \in RecKeys /\ copies[older] >= 1
  <2>1. CASE m.supersedes = NoMsg
    <3>1. older \notin RecKeys
      BY <2>1, BrokerAssumption DEF RecKeys
    <3>2. QED
      BY <1>7, <3>1 DEF MapOf
  <2>2. CASE m.supersedes # NoMsg
    BY <1>6, <1>7, <2>2 DEF RetryInv, RoutesWereWritten, Fresh, MapOf
  <2>3. QED
    BY <2>1, <2>2
<1>9. Accounts(mailbox, recs, copies, gaps, withdrawn)
  BY PruneAccounts DEF RetryInv
<1>10. Retriable(recs, key, gaps)
  BY <1>5, FreshReplay
<1> HIDE DEF recs, gaps, key, older
<1>11. Accounts(mailbox, superseded, copies, gaps, withdrawn)
  BY <1>7, <1>8, <1>9, FailWrittenAccounts
<1>12. Retriable(superseded, key, gaps)
  <2>1. key # older
    BY BrokerAssumption DEF key, older
  <2>2. QED
    BY <1>10, <2>1 DEF Retriable, Updated
<1>13. key \notin gaps => copies[key] # 1 /\ copies[key] # 2
  <2>1. key \notin gaps => copies[key] # 1
    BY <1>3, <1>11, <1>12, RetriableUnwritten
  <2>2. key \notin gaps => copies[key] <= 1
    BY <1>3, <1>11 DEF Accounts, WrittenIsSettled
  <2>3. QED
    BY <2>1, <2>2
<1>14. /\ \A x \in RecKeys : x # key => copies'[x] = copies[x]
       /\ key \notin gaps => copies'[key] <= 1
  BY <1>1, <1>3, <1>13, CountedSingle DEF BrokerInv, TypeOK
<1>15. Accounts(mailbox, records', copies', gaps \cup victims, withdrawn)
  <2>1. KeysOf(mailbox) \subseteq RecKeys /\ NoTwins(mailbox, gaps)
    BY <1>11, BoxKeys DEF BrokerInv, Accounts
  <2>2. Accounts(mailbox, Recorded(superseded, victims, me, m, k[2], "socket_delivered", None),
                 copies', gaps \cup victims, withdrawn)
    <3> HIDE DEF superseded, me, k
    <3>1. QED
      BY <1>3, <1>11, <1>12, <1>14, <2>1, WriteAccounts DEF key
  <2>3. QED
    BY <1>2, <2>2
<1>16. RoutesWereWritten'
  BY <1>1, <1>3, RouteWritten DEF key, RetryInv
<1>17. QED
  BY <1>1, <1>2, <1>15, <1>16 DEF RetryInv

LEMMA RetryReloggedStep ==
  ASSUME BrokerInv, RetryInv, NEW s \in Sockets, NEW m \in Messages, NEW to, NEW ep,
         SendRelogged(s, m, to, ep)
  PROVE  RetryInv'
<1> DEFINE me == m.by
           key == <<me, m.id>>
           k == TheOne(Targets(Fresh(gone), to, Scope(me)))
           l == TheOne(Successors(k, me))
           gaps == lost \cup Dropped(records)
           recs == Fresh(records)
<1>1. /\ Sends(s, m) /\ Verdict(m, me, to, ep) = "relog"
      /\ routes' = Put(Fresh(routes), m.id, [from |-> me, to |-> l, old |-> FALSE])
      /\ copies' = Counted(<< key >>)
      /\ UNCHANGED <<mailbox, withdrawn>>
  BY DEF SendRelogged
<1>2. PICK victims :
        /\ records' = Recorded(recs, victims, me, m, k[2], "socket_delivered", None)
        /\ lost' = gaps \cup victims
  BY DEF SendRelogged
<1>3. me \in Keys /\ key \in RecKeys
  BY <1>1, Sender DEF RecKeys
<1>4. GoneVerdict(m, me, k) = "relog"
  BY <1>1, <1>3, GoneTarget
<1>5. Replay(m, me, k[2]) = "fresh"
  BY <1>4 DEF GoneVerdict, Replay
<1>6. Accounts(mailbox, recs, copies, gaps, withdrawn)
  BY PruneAccounts DEF RetryInv
<1>7. Retriable(recs, key, gaps)
  BY <1>5, FreshReplay
<1> HIDE DEF recs, gaps, key
<1>8. key \notin gaps => copies[key] # 1 /\ copies[key] # 2
  <2>1. key \notin gaps => copies[key] # 1
    BY <1>3, <1>6, <1>7, RetriableUnwritten
  <2>2. key \notin gaps => copies[key] <= 1
    BY <1>3, <1>6 DEF Accounts, WrittenIsSettled
  <2>3. QED
    BY <2>1, <2>2
<1>9. /\ \A x \in RecKeys : x # key => copies'[x] = copies[x]
      /\ key \notin gaps => copies'[key] <= 1
  BY <1>1, <1>3, <1>8, CountedSingle DEF BrokerInv, TypeOK
<1>10. Accounts(mailbox, records', copies', gaps \cup victims, withdrawn)
  <2>1. KeysOf(mailbox) \subseteq RecKeys /\ NoTwins(mailbox, gaps)
    BY <1>6, BoxKeys DEF BrokerInv, Accounts
  <2>2. Accounts(mailbox, Recorded(recs, victims, me, m, k[2], "socket_delivered", None),
                 copies', gaps \cup victims, withdrawn)
    <3> HIDE DEF me, k
    <3>1. QED
      BY <1>3, <1>6, <1>7, <1>9, <2>1, WriteAccounts DEF key
  <2>3. QED
    BY <1>2, <2>2
<1>11. RoutesWereWritten'
  BY <1>1, <1>3, RouteWritten DEF key, RetryInv
<1>12. QED
  BY <1>1, <1>2, <1>10, <1>11 DEF RetryInv

\* What is taken out of the mailbox is not the message that may be sent again.
LEMMA RetriableKept ==
  ASSUME NEW mail, NEW recs, NEW written, NEW gaps, NEW back, NEW I,
         Accounts(mail, recs, written, gaps, back), NEW k \in RecKeys, Retriable(recs, k, gaps),
         NEW state, NEW code
  PROVE  Retriable(Updated(recs, OutcomeOf(mail, I), state, code), k, gaps)
<1>1. k \notin gaps => k \notin KeysOf(mail)
  BY RetriableUnwritten
<1>2. OutcomeOf(mail, I) \subseteq KeysOf(mail)
  BY DEF OutcomeOf, KeysOf
<1>3. QED
  BY <1>1, <1>2 DEF Retriable, Updated

\* An array holds its own elements.
LEMMA SelfSelects == ASSUME NEW s PROVE Selects(s, s, DOMAIN s)
<1> DEFINE at == [n \in DOMAIN s |-> n]
<1>1. /\ at \in [DOMAIN s -> DOMAIN s] /\ \A n \in DOMAIN s : s[n] = s[at[n]]
      /\ \A n, p \in DOMAIN s : at[n] = at[p] => n = p
      /\ \A i \in DOMAIN s : \E n \in DOMAIN s : at[n] = i
  OBVIOUS
<1> HIDE DEF at
<1>2. QED
  BY <1>1 DEF Selects

\* Over the cap, the oldest mail is evicted and recorded as failed.
LEMMA EvictAccounts ==
  ASSUME NEW mail \in Seq(MailType), NEW full \in BOOLEAN, full => mail # <<>>,
         NEW recs, MapOf(recs, RecKeys, RecordType),
         NEW written, NEW gaps, NEW back, Accounts(mail, recs, written, gaps, back)
  PROVE  LET room == IF full THEN Tail(mail) ELSE mail
             evicted == IF full THEN {Head(mail)} ELSE {}
             settled == Updated(recs, {RecKey(e) : e \in evicted}, "failed", "E_DELIVERY_EVICTED")
         IN /\ room \in Seq(MailType)
            /\ Accounts(room, settled, written, gaps, back)
            /\ \A k \in RecKeys : Retriable(recs, k, gaps) => Retriable(settled, k, gaps)
<1> DEFINE room == IF full THEN Tail(mail) ELSE mail
           evicted == IF full THEN {Head(mail)} ELSE {}
           I == IF full THEN DOMAIN mail \ {1} ELSE DOMAIN mail
           settled == Updated(recs, {RecKey(e) : e \in evicted}, "failed", "E_DELIVERY_EVICTED")
<1>1. room \in Seq(MailType)
  OBVIOUS
<1>2. I \in SUBSET DOMAIN mail /\ Selects(room, mail, I)
  BY TailSelects, SelfSelects
<1>3. {RecKey(e) : e \in evicted} = OutcomeOf(mail, I)
  <2>1. CASE full
    <3>1. 1 \in DOMAIN mail /\ Head(mail) = mail[1]
      BY <2>1
    <3>2. DOMAIN mail \ I = {1}
      BY <2>1, <3>1
    <3>3. QED
      BY <2>1, <3>1, <3>2 DEF OutcomeOf
  <2>2. CASE ~full
    BY <2>2 DEF OutcomeOf
  <2>3. QED
    BY <2>1, <2>2
<1>4. settled = Updated(recs, OutcomeOf(mail, I), "failed", "E_DELIVERY_EVICTED")
  BY <1>3
<1> HIDE DEF room, I, settled
<1>5. Accounts(room, settled, written, gaps, back)
  BY <1>2, <1>4, MailKeys, TakeAccounts DEF Accounts
<1>6. \A k \in RecKeys : Retriable(recs, k, gaps) => Retriable(settled, k, gaps)
  BY <1>4, RetriableKept
<1>7. QED
  BY <1>1, <1>5, <1>6 DEF room, settled

LEMMA RetryQueuedStep ==
  ASSUME BrokerInv, RetryInv, NEW s \in Sockets, NEW m \in Messages, NEW to, NEW ep,
         SendQueued(s, m, to, ep)
  PROVE  RetryInv'
<1> DEFINE me == m.by
           key == <<me, m.id>>
           k == TheOne(Targets(Fresh(gone), to, Scope(me)))
           full == Len(FreshMail) >= MaxMailbox
           room == IF full THEN Tail(FreshMail) ELSE FreshMail
           evicted == IF full THEN {Head(FreshMail)} ELSE {}
           gaps == lost \cup Dropped(records)
           expired == AfterExpiry(Fresh(records))
           settled == Updated(expired, {RecKey(e) : e \in evicted}, "failed", "E_DELIVERY_EVICTED")
           mail == MailFor(m, k, gone[k])
           box == Append(room, mail)
<1>1. /\ Sends(s, m) /\ Verdict(m, me, to, ep) = "queue"
      /\ mailbox' = box
      /\ routes' = WithoutMail(Fresh(routes), ExpiredMail \cup evicted)
      /\ UNCHANGED <<copies, withdrawn>>
  BY DEF SendQueued
<1>2. PICK victims :
        /\ records' = Recorded(settled, victims, me, m, k[2], "queued", None)
        /\ lost' = gaps \cup victims
  BY DEF SendQueued
<1>3. me \in Keys /\ key \in RecKeys
  BY <1>1, Sender DEF RecKeys
<1>4. GoneVerdict(m, me, k) = "queue"
  BY <1>1, <1>3, GoneTarget
<1>5. Replay(m, me, k[2]) = "fresh"
  BY <1>4 DEF GoneVerdict, Replay
<1>6. MapOf(Fresh(records), RecKeys, RecordType) /\ MapOf(expired, RecKeys, RecordType)
  BY RecordsMap DEF BrokerInv, TypeOK, TableType
<1>7. Accounts(mailbox, Fresh(records), copies, gaps, withdrawn)
  BY PruneAccounts DEF RetryInv
<1>8. Retriable(Fresh(records), key, gaps)
  BY <1>5, FreshReplay
<1> HIDE DEF gaps, key
<1>9. Accounts(FreshMail, expired, copies, gaps, withdrawn)
  BY <1>6, <1>7, ExpireAccounts DEF BrokerInv
<1>10. Retriable(expired, key, gaps)
  <2>1. {RecKey(e) : e \in ExpiredMail} = OutcomeOf(mailbox, {i \in DOMAIN mailbox : ~mailbox[i].old})
    BY DEF ExpiredMail, OutcomeOf
  <2>2. QED
    BY <1>3, <1>7, <1>8, <2>1, RetriableKept DEF AfterExpiry
<1>11. FreshMail \in Seq(MailType) /\ (full => FreshMail # <<>>) /\ full \in BOOLEAN
  BY BoxKeys, BrokerAssumption DEF BrokerInv
<1> HIDE DEF expired
<1>12. /\ room \in Seq(MailType)
       /\ Accounts(room, settled, copies, gaps, withdrawn)
       /\ Retriable(settled, key, gaps)
  <2> HIDE DEF full
  <2>1. QED
    BY <1>3, <1>6, <1>9, <1>10, <1>11, EvictAccounts
<1> HIDE DEF room, settled, mail
<1>13. RecKey(mail) = key
  BY DEF RecKey, mail, MailFor, key
<1>14. /\ DOMAIN box = 1..(Len(room) + 1) /\ DOMAIN room = 1..Len(room) /\ Len(room) \in Nat
       /\ box[Len(room) + 1] = mail
       /\ \A n \in DOMAIN room : box[n] = room[n]
  BY <1>12
<1>15. KeysOf(box) = KeysOf(room) \cup {key}
  <2> HIDE DEF box
  <2>1. \A n \in DOMAIN box : n \in DOMAIN room \/ n = Len(room) + 1
    BY <1>14
  <2>2. QED
    BY <1>13, <1>14, <2>1 DEF KeysOf
<1>16. NoTwins(box, gaps)
  <2>1. key \notin gaps => key \notin KeysOf(room)
    BY <1>3, <1>12, RetriableUnwritten
  <2>2. \A n \in DOMAIN box : n \in DOMAIN room \/ n = Len(room) + 1
    BY <1>14
  <2>3. NoTwins(room, gaps)
    BY <1>12 DEF Accounts
  <2> HIDE DEF box
  <2>4. QED
    BY <1>13, <1>14, <2>1, <2>2, <2>3 DEF NoTwins, KeysOf
<1>17. Accounts(box, records', copies, gaps \cup victims, withdrawn)
  <2>1. KeysOf(room) \subseteq RecKeys
    BY <1>12, MailKeys
  <2>2. Accounts(box, Recorded(settled, victims, me, m, k[2], "queued", None),
                 copies, gaps \cup victims, withdrawn)
    <3> HIDE DEF me, k, box
    <3>1. QED
      BY <1>3, <1>12, <1>15, <1>16, <2>1, RecordAccounts, BrokerAssumption DEF key
  <2>3. QED
    BY <1>2, <2>2
<1>18. RoutesWereWritten'
  BY <1>1, ShrinksByFresh, ShrinksByMail, ShrinksTrans, RoutesStayWritten DEF RetryInv
<1>19. QED
  BY <1>1, <1>2, <1>17, <1>18 DEF RetryInv

\* The queued message that is cancelled is taken out, and its record says so.
LEMMA RetryCancelQueuedStep ==
  ASSUME BrokerInv, RetryInv, NEW s \in Sockets, NEW i \in MsgIds, CancelQueued(s, i) PROVE RetryInv'
<1> DEFINE me == conn[s].key
           at == {j \in DOMAIN FreshMail : FreshMail[j].msg.id = i /\ FreshMail[j].from = me}
           first == CHOOSE j \in at : \A h \in at : j <= h
           rest == DOMAIN FreshMail \ {first}
           expired == AfterExpiry(records)
           new == Updated(expired, {<<me, i>>}, "failed", "E_DELIVERY_CANCELLED")
<1>1. /\ at # {} /\ mailbox' = Filtered(FreshMail, rest) /\ records' = new
      /\ routes' = WithoutMail(Fresh(routes), ExpiredMail)
      /\ withdrawn' = withdrawn \cup {<<me, i>>}
      /\ UNCHANGED <<copies, lost>>
  BY DEF CancelQueued
<1>2. MapOf(expired, RecKeys, RecordType)
  BY RecordsMap DEF BrokerInv, TypeOK, TableType
<1>3. Accounts(FreshMail, expired, copies, lost, withdrawn)
  BY ExpireAccounts DEF BrokerInv, TypeOK, TableType, RetryInv
<1>4. FreshMail \in Seq(MailType) /\ KeysOf(FreshMail) \subseteq RecKeys
  BY BoxKeys DEF BrokerInv
<1>5. first \in at
  <2>1. at \subseteq Nat /\ IsFiniteSet(at)
    <3>1. at \subseteq 1..Len(FreshMail) /\ Len(FreshMail) \in Nat
      BY <1>4
    <3>2. IsFiniteSet(1..Len(FreshMail))
      BY <3>1, FS_Interval
    <3>3. QED
      BY <3>1, <3>2, FS_Subset
  <2> HIDE DEF at
  <2>2. QED
    BY <1>1, <2>1, LeastIndex
<1>6. first \in DOMAIN FreshMail /\ RecKey(FreshMail[first]) = <<me, i>>
  BY <1>5 DEF RecKey
<1>7. rest \in SUBSET DOMAIN FreshMail /\ OutcomeOf(FreshMail, rest) = {<<me, i>>}
  BY <1>6 DEF OutcomeOf
<1> HIDE DEF at, first, expired
<1>8. /\ NoTwins(mailbox', lost) /\ WaitingIsRecorded(mailbox', new, lost)
      /\ RecordedIsWaiting(mailbox', new)
      /\ WithdrawnHasFailed(new, withdrawn, lost)
      /\ WrittenIsSettled(new, copies, lost)
  <2>1. Selects(mailbox', FreshMail, rest)
    BY <1>1, <1>4, <1>7, FilteredSelects
  <2>2. new = Updated(expired, OutcomeOf(FreshMail, rest), "failed", "E_DELIVERY_CANCELLED")
    BY <1>7
  <2>3. rest \in SUBSET DOMAIN FreshMail
    BY <1>7
  <2> HIDE DEF rest, me, new
  <2>4. QED
    BY <1>2, <1>3, <1>4, <2>1, <2>2, <2>3, TakeAccounts
<1>9. WithdrawnHasFailed(new, withdrawn', lost)
  <2>1. <<me, i>> \notin lost => <<me, i>> \in DOMAIN expired
    BY <1>3, <1>4, <1>7, TakenOut
  <2>2. <<me, i>> \in DOMAIN expired =>
          /\ <<me, i>> \in DOMAIN new /\ new[<<me, i>>].state = "failed"
          /\ new[<<me, i>>].code = "E_DELIVERY_CANCELLED"
    BY <1>2 DEF Updated, MapOf, RecordType
  <2> HIDE DEF new, me
  <2>3. QED
    BY <1>1, <1>8, <2>1, <2>2 DEF WithdrawnHasFailed, Rebound
<1>10. RoutesWereWritten'
  BY <1>1, ShrinksByFresh, ShrinksByMail, ShrinksTrans, RoutesStayWritten DEF RetryInv
<1>11. QED
  BY <1>1, <1>8, <1>9, <1>10 DEF RetryInv, Accounts

LEMMA RetryCancelSentStep ==
  ASSUME BrokerInv, RetryInv, NEW s \in Sockets, NEW i \in MsgIds, CancelSent(s, i) PROVE RetryInv'
<1> DEFINE me == conn[s].key
           rts == WithoutMail(Fresh(routes), ExpiredMail)
           routed == i \in DOMAIN rts /\ rts[i].from = me /\ rts[i].to \in DOMAIN sessions
           mine == IF routed THEN {<<me, i>>} ELSE {}
           expired == AfterExpiry(records)
<1>1. /\ mailbox' = FreshMail /\ routes' = rts
      /\ records' = Updated(expired, mine, "failed", "E_DELIVERY_CANCELLED")
      /\ UNCHANGED <<copies, lost, withdrawn>>
  BY DEF CancelSent
<1>2. MapOf(expired, RecKeys, RecordType) /\ copies \in [RecKeys -> 0..2]
  BY RecordsMap DEF BrokerInv, TypeOK, TableType, HistoryType
<1>3. Accounts(FreshMail, expired, copies, lost, withdrawn)
  BY ExpireAccounts DEF BrokerInv, TypeOK, TableType, RetryInv
<1>4. Shrinks(rts, routes)
  BY ShrinksByFresh, ShrinksByMail, ShrinksTrans
<1>5. \A k \in mine : k \in DOMAIN expired => k \in RecKeys /\ copies[k] >= 1
  <2>1. routed => i \in DOMAIN routes /\ routes[i].from = me
    BY <1>4 DEF Shrinks
  <2>2. routed => copies[<<me, i>>] >= 1
    BY <2>1 DEF RetryInv, RoutesWereWritten
  <2>3. QED
    BY <1>2, <2>2 DEF MapOf
<1> HIDE DEF mine, expired
<1>6. Accounts(mailbox', records', copies, lost, withdrawn)
  BY <1>1, <1>2, <1>3, <1>5, FailWrittenAccounts
<1>7. QED
  BY <1>1, <1>4, <1>6, RoutesStayWritten DEF RetryInv

\* The newcomer's mail is written to it: each message once, and its record says so.
LEMMA RetryRegisterStep ==
  ASSUME BrokerInv, RetryInv, NEW s \in Sockets, NEW k \in Keys, NEW info \in Infos,
         Register(s, k, info)
  PROVE  RetryInv'
<1> DEFINE live == Put(sessions, k, Connected(s, info, epoch + 1))
           takes == {i \in DOMAIN FreshMail : Claims(k, live, FreshMail[i])}
           rest == DOMAIN FreshMail \ takes
           claimed == Filtered(FreshMail, takes)
           Took == {claimed[i] : i \in DOMAIN claimed}
           flushedKeys == [i \in DOMAIN claimed |-> RecKey(claimed[i])]
           kept == WithoutMail(routes, ExpiredMail)
           expired == AfterExpiry(records)
           new == Updated(expired, {RecKey(e) : e \in Took}, "socket_delivered", None)
<1>1. /\ mailbox' = Filtered(FreshMail, rest) /\ records' = new
      /\ copies' = Counted(flushedKeys)
      /\ UNCHANGED <<lost, withdrawn>>
  BY DEF Register
<1>2. routes' = [i \in DOMAIN kept \cup {e.msg.id : e \in Took} |->
                   IF \E e \in Took : e.msg.id = i
                   THEN [from |-> (CHOOSE e \in Took : e.msg.id = i).from, to |-> k, old |-> FALSE]
                   ELSE kept[i]]
  BY DEF Register
<1>3. MapOf(expired, RecKeys, RecordType)
  BY RecordsMap DEF BrokerInv, TypeOK, TableType
<1>4. Accounts(FreshMail, expired, copies, lost, withdrawn)
  BY ExpireAccounts DEF BrokerInv, TypeOK, TableType, RetryInv
<1>5. /\ FreshMail \in Seq(MailType) /\ KeysOf(FreshMail) \subseteq RecKeys
      /\ takes \in SUBSET DOMAIN FreshMail /\ rest \in SUBSET DOMAIN FreshMail
      /\ DOMAIN FreshMail \ rest = takes
  BY BoxKeys DEF BrokerInv
<1> HIDE DEF takes, expired
<1>6. claimed \in Seq(MailType)
  BY <1>5, FilteredSeq
<1>7. DOMAIN claimed = 1..Len(claimed) /\ Len(claimed) \in Nat
  BY <1>6
<1>8. PICK at \in [DOMAIN claimed -> takes] :
        /\ \A n \in DOMAIN claimed : claimed[n] = FreshMail[at[n]]
        /\ \A n, p \in DOMAIN claimed : at[n] = at[p] => n = p
        /\ \A i \in takes : \E n \in DOMAIN claimed : at[n] = i
  <2>1. Selects(claimed, FreshMail, takes)
    BY <1>5, FilteredSelects
  <2> HIDE DEF claimed
  <2>2. QED
    BY <2>1 DEF Selects
<1>9. Selects(mailbox', FreshMail, rest)
  BY <1>1, <1>5, FilteredSelects
<1> HIDE DEF claimed, rest
<1>10. {RecKey(e) : e \in Took} = OutcomeOf(FreshMail, rest)
  <2>1. \A n \in DOMAIN claimed : at[n] \in takes /\ RecKey(claimed[n]) = RecKey(FreshMail[at[n]])
    BY <1>8
  <2>2. \A i \in takes : \E n \in DOMAIN claimed : RecKey(claimed[n]) = RecKey(FreshMail[i])
    BY <1>8
  <2>3. QED
    BY <1>5, <2>1, <2>2 DEF OutcomeOf
<1>11. /\ NoTwins(mailbox', lost) /\ WaitingIsRecorded(mailbox', new, lost)
       /\ RecordedIsWaiting(mailbox', new)
       /\ WithdrawnHasFailed(new, withdrawn, lost)
       /\ WrittenIsSettled(new, copies, lost)
  <2>1. None # "E_TARGET_REBOUND"
    BY BrokerAssumption
  <2>2. new = Updated(expired, OutcomeOf(FreshMail, rest), "socket_delivered", None)
    BY <1>10
  <2> HIDE DEF new
  <2>3. QED
    BY <1>3, <1>4, <1>5, <1>9, <2>1, <2>2, TakeAccounts
<1>12. /\ DOMAIN flushedKeys = 1..Len(claimed)
       /\ \A n \in DOMAIN claimed : flushedKeys[n] = RecKey(claimed[n])
       /\ \A n \in DOMAIN claimed : flushedKeys[n] \in OutcomeOf(FreshMail, rest)
  BY <1>7, <1>10
<1>13. \A x \in RecKeys :
         /\ (\A n \in DOMAIN flushedKeys : flushedKeys[n] # x) => copies'[x] = copies[x]
         /\ (\E n \in DOMAIN flushedKeys : flushedKeys[n] = x) => copies'[x] >= 1
         /\ copies[x] = 0 /\ (\E n \in DOMAIN flushedKeys :
                                \A p \in DOMAIN flushedKeys : flushedKeys[p] = x => p = n)
            => copies'[x] <= 1
  <2> HIDE DEF flushedKeys
  <2>1. QED
    BY <1>1, <1>7, <1>12, CountedAt DEF BrokerInv, TypeOK
<1>14. DOMAIN flushedKeys = DOMAIN claimed
  OBVIOUS
<1> HIDE DEF flushedKeys
<1>15. WrittenIsSettled(new, copies', lost)
  <2> SUFFICES ASSUME NEW x \in RecKeys, x \notin lost
               PROVE  /\ copies'[x] <= 1
                      /\ copies'[x] = 1 => x \in DOMAIN new /\ new[x].state # "queued" /\ ~Rebound(new[x])
    BY DEF WrittenIsSettled
  <2>1. CASE \A n \in DOMAIN flushedKeys : flushedKeys[n] # x
    BY <1>11, <1>13, <2>1 DEF WrittenIsSettled
  <2>2. CASE \E n \in DOMAIN flushedKeys : flushedKeys[n] = x
    <3>1. PICK n \in DOMAIN claimed : RecKey(claimed[n]) = x
      BY <1>12, <1>14, <2>2
    <3>2. x \in OutcomeOf(FreshMail, rest)
      BY <1>12, <3>1
    <3>3. x \in DOMAIN expired /\ copies[x] # 1
      BY <1>4, <1>5, <3>2, TakenOut
    <3>4. copies[x] = 0
      <4>1. copies[x] <= 1
        BY <1>4 DEF Accounts, WrittenIsSettled
      <4>2. copies[x] \in 0..2
        BY DEF BrokerInv, TypeOK, HistoryType
      <4>3. QED
        BY <3>3, <4>1, <4>2
    <3>5. ASSUME NEW p \in DOMAIN claimed, RecKey(claimed[p]) = x PROVE p = n
      <4>1. at[n] \in DOMAIN FreshMail /\ at[p] \in DOMAIN FreshMail
        BY <1>5, <1>8
      <4>2. RecKey(FreshMail[at[n]]) = x /\ RecKey(FreshMail[at[p]]) = x
        BY <1>8, <3>1, <3>5
      <4>3. at[n] = at[p]
        BY <1>4, <4>1, <4>2 DEF Accounts, NoTwins
      <4>4. QED
        BY <1>8, <4>3
    <3>6. copies'[x] <= 1
      BY <1>12, <1>13, <1>14, <3>4, <3>5
    <3>7. x \in DOMAIN new /\ new[x].state = "socket_delivered" /\ new[x].code = None
      BY <1>3, <1>10, <3>2, <3>3 DEF Updated, MapOf, RecordType
    <3>8. QED
      BY <3>6, <3>7, BrokerAssumption DEF Rebound
  <2>3. QED
    BY <2>1, <2>2
<1>16. RoutesWereWritten'
  <2> SUFFICES ASSUME NEW i \in DOMAIN routes' PROVE copies'[<<routes'[i].from, i>>] >= 1
    BY DEF RoutesWereWritten
  <2>1. CASE \E e \in Took : e.msg.id = i
    <3> DEFINE e == CHOOSE e \in Took : e.msg.id = i
    <3>1. e \in Took /\ e.msg.id = i
      BY <2>1
    <3>2. routes'[i].from = e.from
      BY <1>2, <2>1
    <3>3. PICK n \in DOMAIN claimed : e = claimed[n]
      BY <3>1
    <3>4. flushedKeys[n] = <<e.from, i>>
      BY <1>12, <3>1, <3>3 DEF RecKey
    <3>5. flushedKeys[n] \in RecKeys
      BY <1>5, <1>12, <3>3 DEF OutcomeOf, KeysOf
    <3>6. QED
      BY <1>13, <1>14, <3>2, <3>4, <3>5
  <2>2. CASE ~ \E e \in Took : e.msg.id = i
    <3>1. i \in DOMAIN kept /\ routes'[i] = kept[i]
      BY <1>2, <2>2
    <3>2. Shrinks(kept, routes)
      BY ShrinksByMail
    <3>3. i \in DOMAIN routes /\ routes'[i].from = routes[i].from
      BY <3>1, <3>2 DEF Shrinks
    <3>4. <<routes[i].from, i>> \in RecKeys
      BY <3>3 DEF BrokerInv, TypeOK, TableType, MapOf, EdgeType, RecKeys
    <3>5. copies[<<routes[i].from, i>>] >= 1
      BY <3>3 DEF RetryInv, RoutesWereWritten
    <3>6. QED
      BY <1>13, <3>3, <3>4, <3>5
  <2>3. QED
    BY <2>1, <2>2
<1>17. QED
  BY <1>1, <1>11, <1>15, <1>16 DEF RetryInv, Accounts

\* Marks of age change neither keys nor outcomes.
LEMMA AgedAccounts ==
  ASSUME NEW mail, NEW recs, NEW written, NEW gaps, NEW back,
         Accounts(mail, recs, written, gaps, back),
         NEW box, DOMAIN box = DOMAIN mail, \A i \in DOMAIN mail : RecKey(box[i]) = RecKey(mail[i]),
         NEW new, DOMAIN new = DOMAIN recs,
         \A k \in DOMAIN recs : new[k].state = recs[k].state /\ new[k].code = recs[k].code
  PROVE  Accounts(box, new, written, gaps, back)
<1>1. KeysOf(box) = KeysOf(mail)
  BY DEF KeysOf
<1>2. NoTwins(box, gaps)
  BY DEF Accounts, NoTwins
<1>3. WaitingIsRecorded(box, new, gaps) /\ RecordedIsWaiting(box, new)
  BY <1>1 DEF Accounts, WaitingIsRecorded, RecordedIsWaiting, Rebound
<1>4. WrittenIsSettled(new, written, gaps) /\ WithdrawnHasFailed(new, back, gaps)
  BY DEF Accounts, WrittenIsSettled, WithdrawnHasFailed, Rebound
<1>5. QED
  BY <1>2, <1>3, <1>4 DEF Accounts

LEMMA RetryElapseStep ==
  ASSUME BrokerInv, RetryInv, NEW kind, Elapse(kind) PROVE RetryInv'
<1>1. UNCHANGED <<copies, lost, withdrawn>>
  BY DEF Elapse
<1>2. DOMAIN mailbox' = DOMAIN mailbox /\ \A i \in DOMAIN mailbox : RecKey(mailbox'[i]) = RecKey(mailbox[i])
  <2>1. mailbox' = mailbox \/ \E i \in DOMAIN mailbox : mailbox' = [mailbox EXCEPT ![i].old = TRUE]
    BY DEF Elapse
  <2>2. mailbox \in Seq(MailType) /\ \A i \in DOMAIN mailbox : mailbox[i] \in MailType
    BY DEF BrokerInv, TypeOK, MailboxType
  <2>3. QED
    BY <2>1, <2>2 DEF RecKey, MailType
<1>3. /\ DOMAIN records' = DOMAIN records
      /\ \A k \in DOMAIN records :
           records'[k].state = records[k].state /\ records'[k].code = records[k].code
  <2>1. records' = records \/ \E x \in DOMAIN records : records' = [records EXCEPT ![x].old = TRUE]
    BY DEF Elapse
  <2>2. \A x \in DOMAIN records : records[x] \in RecordType
    BY DEF BrokerInv, TypeOK, TableType, MapOf
  <2>3. QED
    BY <2>1, <2>2 DEF RecordType
<1>4. Accounts(mailbox', records', copies, lost, withdrawn)
  BY <1>2, <1>3, AgedAccounts DEF RetryInv
<1>5. Shrinks(routes', routes)
  <2>1. routes' = routes \/ \E x \in DOMAIN routes : routes' = [routes EXCEPT ![x].old = TRUE]
    BY DEF Elapse
  <2>2. QED
    BY <2>1, MarkedEdges DEF BrokerInv, TypeOK, TableType
<1>6. QED
  BY <1>1, <1>4, <1>5, RoutesStayWritten DEF RetryInv

LEMMA RetryInit == Init => RetryInv
<1> SUFFICES ASSUME Init PROVE RetryInv
  OBVIOUS
<1>1. /\ mailbox = <<>> /\ records = EmptyMap /\ routes = EmptyMap
      /\ copies = [k \in RecKeys |-> 0] /\ lost = {} /\ withdrawn = {}
  BY DEF Init
<1>2. DOMAIN mailbox = {} /\ DOMAIN records = {} /\ DOMAIN routes = {}
  BY <1>1 DEF EmptyMap
<1>3. \A k \in RecKeys : copies[k] <= 1 /\ copies[k] # 1
  BY <1>1
<1>4. NoTwins(mailbox, lost) /\ WithdrawnHasFailed(records, withdrawn, lost) /\ RoutesWereWritten
  BY <1>1, <1>2 DEF NoTwins, WithdrawnHasFailed, RoutesWereWritten
<1>5. WaitingIsRecorded(mailbox, records, lost) /\ RecordedIsWaiting(mailbox, records)
  BY <1>2 DEF WaitingIsRecorded, RecordedIsWaiting, KeysOf
<1>6. WrittenIsSettled(records, copies, lost)
  BY <1>3 DEF WrittenIsSettled
<1>7. QED
  BY <1>4, <1>5, <1>6 DEF RetryInv, Accounts

LEMMA RetrySendFrame ==
  ASSUME BrokerInv, RetryInv, NEW s \in Sockets, SendFrame(s) PROVE RetryInv'
<1>1. PICK m \in Messages :
        \/ SendRefused(s, m, m.to, 0) \/ SendReplayed(s, m, m.to, 0)
        \/ SendDelivered(s, m, m.to, 0) \/ SendRelogged(s, m, m.to, 0)
        \/ SendQueued(s, m, m.to, 0)
        \/ \E id \in Resolvable(m.to), ep \in 1..epoch :
             \/ SendRefused(s, m, id, ep) \/ SendReplayed(s, m, id, ep)
             \/ SendDelivered(s, m, id, ep) \/ SendExactFailed(s, m, id, ep)
  BY DEF SendFrame
<1>2. \A to, ep : SendRefused(s, m, to, ep) \/ SendReplayed(s, m, to, ep) => RetryInv'
  BY RetryPruneStep
<1>3. \A to, ep : SendDelivered(s, m, to, ep) => RetryInv'
  BY RetryDeliveredStep
<1>4. \A to, ep : SendRelogged(s, m, to, ep) => RetryInv'
  BY RetryReloggedStep
<1>5. \A to, ep : SendQueued(s, m, to, ep) => RetryInv'
  BY RetryQueuedStep
<1>6. ASSUME NEW id \in Resolvable(m.to), NEW ep \in 1..epoch, SendExactFailed(s, m, id, ep)
      PROVE  RetryInv'
  <2>1. id \in Ids
    BY DEF Resolvable
  <2>2. ep \in Nat \ {0}
    BY BrokerAssumption DEF BrokerInv, TypeOK
  <2>3. QED
    BY <1>6, <2>1, <2>2, RetryExactStep
<1>7. QED
  BY <1>1, <1>2, <1>3, <1>4, <1>5, <1>6

\* Every step of the broker keeps the accounts of every message that is remembered.
LEMMA RetryNext == BrokerInv /\ RetryInv /\ [Next]_vars => RetryInv'
<1> SUFFICES ASSUME BrokerInv, RetryInv, [Next]_vars PROVE RetryInv'
  OBVIOUS
<1>1. CASE UNCHANGED vars
  BY <1>1 DEF vars, RetryInv, RoutesWereWritten
<1>2. ASSUME NEW s \in Sockets,
             \/ Connect(s) \/ RegistrationTimeout(s) \/ FrameRejected(s) \/ Close(s) \/ Unregister(s)
             \/ \E name \in Names, alias \in BOOLEAN : Presence(s, name, alias)
      PROVE  RetryInv'
  BY <1>2, RetryConnStep
<1>3. ASSUME NEW s \in Sockets, NEW k \in Keys,
             RegisterRefused(s, k) \/ \E info \in Infos : Register(s, k, info)
      PROVE  RetryInv'
  BY <1>3, RetryRefusedStep, RetryRegisterStep
<1>4. ASSUME NEW s \in Sockets, NEW i \in MsgIds,
             CancelQueued(s, i) \/ CancelSent(s, i) \/ CancelAsk(s, i) \/ Receipt(s, i)
      PROVE  RetryInv'
  <2>1. CASE CancelAsk(s, i) \/ Receipt(s, i)
    <3>1. UNCHANGED mailVars /\ Shrinks(routes', routes)
      <4>1. CASE CancelAsk(s, i)
        BY <4>1, ShrinksRefl DEF CancelAsk, mailVars
      <4>2. CASE Receipt(s, i)
        BY <4>2, ShrinksByFresh DEF Receipt, mailVars
      <4>3. QED
        BY <2>1, <4>1, <4>2
    <3>2. QED
      BY <3>1, RetryIdleSteps
  <2>2. QED
    BY <1>4, <2>1, RetryCancelQueuedStep, RetryCancelSentStep
<1>5. CASE IdleCheck \/ Terminate \/ \E kind \in Events : Elapse(kind)
  BY <1>5, RetryIdleStep, RetryTerminateStep, RetryElapseStep
<1>6. QED
  BY <1>1, <1>2, <1>3, <1>4, <1>5, RetrySendFrame DEF Next

\* The books the broker keeps are true: of every message it has not forgotten, the record,
\* the mailbox, the number of times it was written and the withdrawals agree.
THEOREM RetryInvariant == Spec => []RetryInv
BY InitInv, NextInv, RetryInit, RetryNext, PTL DEF Spec

\* How many entries of a mailbox are of one message, by its accounts.
CopiesIn(mail, k) == Cardinality({j \in DOMAIN mail : RecKey(mail[j]) = k})

\* A mailbox has entries of a message iff its accounts say so, and one at most.
LEMMA CountIn ==
  ASSUME NEW mail \in Seq(MailType), NEW k
  PROVE  /\ CopiesIn(mail, k) \in Nat
         /\ CopiesIn(mail, k) >= 1 <=> k \in KeysOf(mail)
         /\ \A gaps : NoTwins(mail, gaps) /\ k \notin gaps => CopiesIn(mail, k) <= 1
<1> DEFINE at == {j \in DOMAIN mail : RecKey(mail[j]) = k}
<1>1. IsFiniteSet(at)
  <2>1. DOMAIN mail = 1..Len(mail) /\ Len(mail) \in Nat
    OBVIOUS
  <2>2. IsFiniteSet(DOMAIN mail) /\ at \in SUBSET DOMAIN mail
    BY <2>1, FS_Interval
  <2>3. QED
    BY <2>2, FS_Subset
<1>2. CopiesIn(mail, k) = Cardinality(at)
  BY DEF CopiesIn
<1>3. at = {} <=> k \notin KeysOf(mail)
  BY DEF KeysOf
<1>4. ASSUME NEW gaps, NoTwins(mail, gaps), k \notin gaps, at # {} PROVE Cardinality(at) = 1
  <2>1. PICK j \in at : TRUE
    BY <1>4
  <2>2. at = {j}
    BY <1>4, <2>1 DEF NoTwins
  <2>3. QED
    BY <2>2, FS_Singleton
<1> HIDE DEF at
<1>5. Cardinality(at) \in Nat /\ (Cardinality(at) = 0 <=> at = {})
  BY <1>1, FS_CardinalityType, FS_EmptySet
<1>6. QED
  BY <1>2, <1>3, <1>4, <1>5

\* How many entries of a mailbox are of one message.
LEMMA CountOfMail ==
  ASSUME BrokerInv, NEW k
  PROVE  /\ MailCopies(k) \in Nat
         /\ MailCopies(k) >= 1 <=> k \in KeysOf(mailbox)
         /\ NoTwins(mailbox, lost) /\ k \notin lost => MailCopies(k) <= 1
<1>1. mailbox \in Seq(MailType) /\ MailCopies(k) = CopiesIn(mailbox, k)
  BY DEF BrokerInv, TypeOK, MailboxType, MailCopies, CopiesIn
<1>2. QED
  BY <1>1, CountIn

\* However often a send is retried and whatever happens to its mail in between, a message
\* that the broker has not forgotten exists once at most, written or waiting.
THEOREM NeverTwice == Spec => []AtMostOnce
<1>1. ASSUME BrokerInv, RetryInv, NEW k \in RecKeys \ lost PROVE copies[k] + MailCopies(k) <= 1
  <2>1. copies[k] \in 0..2 /\ copies[k] <= 1
    BY <1>1 DEF BrokerInv, TypeOK, HistoryType, RetryInv, Accounts, WrittenIsSettled
  <2>2. MailCopies(k) \in Nat /\ MailCopies(k) <= 1
    BY <1>1, CountOfMail DEF RetryInv, Accounts
  <2>3. MailCopies(k) >= 1 => copies[k] # 1
    BY <1>1, CountOfMail DEF RetryInv, Accounts, WaitingIsRecorded, WrittenIsSettled
  <2>4. QED
    BY <2>1, <2>2, <2>3
<1>2. BrokerInv /\ RetryInv => AtMostOnce
  BY <1>1 DEF AtMostOnce
<1>3. QED
  BY <1>2, BrokerInvariant, RetryInvariant, PTL

\* A retry that is told "queued" is told the truth, and mail that waits has that record.
THEOREM QueuedIsTrue == Spec => []QueuedMeansInMailbox
<1>1. BrokerInv /\ RetryInv => QueuedMeansInMailbox
  BY CountOfMail
  DEF QueuedMeansInMailbox, RetryInv, Accounts, WaitingIsRecorded, RecordedIsWaiting
<1>2. QED
  BY <1>1, BrokerInvariant, RetryInvariant, PTL

\* Mail whose sender withdrew it while it waited is written to nobody, unless the record
\* that says so was dropped.
THEOREM WithdrawnIsNotWritten == Spec => WithdrawnMailStaysAway
<1> DEFINE Key(f) == <<f.from, f.msg.id>>
<1>1. ASSUME BrokerInv, RetryInv, Next, NEW f \in MessageFrames, Key(f) \in withdrawn
      PROVE  Key(f) \in lost'
  <2>1. f \in out'.sent /\ f.type = "message"
    BY DEF MessageFrames
  <2>2. Accounts(mailbox, Fresh(records), copies, lost \cup Dropped(records), withdrawn)
    BY <1>1, PruneAccounts DEF RetryInv
  <2>3. ASSUME NEW s \in Sockets, NEW k \in Keys, NEW info \in Infos, Register(s, k, info)
        PROVE  Key(f) \in lost'
    <3>1. Key(f) \in KeysOf(mailbox)
      BY <1>1, <2>1, <2>3, FlushedFrames DEF KeysOf, RecKey
    <3>2. Key(f) \in lost
      BY <1>1, <3>1 DEF RetryInv, Accounts, WaitingIsRecorded, WithdrawnHasFailed
    <3>3. QED
      BY <2>3, <3>2 DEF Register
  <2>4. ASSUME NEW s \in Sockets, NEW m \in Messages, NEW to, NEW ep,
               SendDelivered(s, m, to, ep) \/ SendRelogged(s, m, to, ep)
        PROVE  Key(f) \in lost'
    <3>1. f.from = m.by /\ f.msg = m
      BY <1>1, <2>1, <2>4, DeliveredFrames, ReloggedFrames
    <3>2. Sends(s, m) /\ Verdict(m, m.by, to, ep) \in {"deliver", "relog"}
      BY <2>4 DEF SendDelivered, SendRelogged
    <3>3. m.by \in Keys /\ Key(f) \in RecKeys
      BY <1>1, <3>1, <3>2, Sender DEF RecKeys
    <3>4. PICK id : Replay(m, m.by, id) = "fresh"
      <4>1. ASSUME SendDelivered(s, m, to, ep) PROVE \E id : Replay(m, m.by, id) = "fresh"
        <5>1. Verdict(m, m.by, to, ep) = "deliver"
          BY <4>1 DEF SendDelivered
        <5>2. LiveVerdict(m, m.by, TheOne(Targets(sessions, to, Scope(m.by)))) = "deliver"
          BY <1>1, <3>3, <5>1, DeliverTarget
        <5>3. QED
          BY <5>2 DEF LiveVerdict, Replay
      <4>2. ASSUME SendRelogged(s, m, to, ep) PROVE \E id : Replay(m, m.by, id) = "fresh"
        <5>1. Verdict(m, m.by, to, ep) = "relog"
          BY <4>2 DEF SendRelogged
        <5>2. GoneVerdict(m, m.by, TheOne(Targets(Fresh(gone), to, Scope(m.by)))) = "relog"
          BY <1>1, <3>3, <5>1, GoneTarget
        <5>3. QED
          BY <5>2 DEF GoneVerdict, Replay
      <4>3. QED
        BY <2>4, <4>1, <4>2
    <3>5. Key(f) \in lost \cup Dropped(records)
      <4> DEFINE gaps == lost \cup Dropped(records)
      <4>1. Retriable(Fresh(records), Key(f), gaps)
        BY <3>1, <3>4, FreshReplay
      <4> HIDE DEF gaps
      <4>2. QED
        BY <1>1, <2>2, <3>3, <4>1, RetriableUnwritten DEF gaps
    <3>6. lost \cup Dropped(records) \subseteq lost'
      BY <2>4 DEF SendDelivered, SendRelogged
    <3>7. QED
      BY <3>5, <3>6
  <2>5. ASSUME NEW s \in Sockets, NEW i \in MsgIds, CancelSent(s, i) \/ Receipt(s, i)
        PROVE  FALSE
    BY <2>1, <2>5 DEF CancelSent, Receipt, Frame, Quiet
  <2>6. QED
    BY <1>1, <2>1, <2>3, <2>4, <2>5, WritingSteps
<1>2. BrokerInv /\ RetryInv /\ [Next]_vars
      => [\A f \in MessageFrames : Key(f) \in withdrawn => Key(f) \in lost']_vars
  BY <1>1
<1>3. QED
  BY <1>2, BrokerInvariant, RetryInvariant, PTL DEF Spec, WithdrawnMailStaysAway

-----------------------------------------------------------------------------
(* The fate of a message: how one step changes its record.                 *)

\* A record that stays as it is, and one whose mail expires or is evicted.
Kept(recs, new, k) ==
  /\ k \in DOMAIN recs <=> k \in DOMAIN new
  /\ k \in DOMAIN recs => new[k].state = recs[k].state /\ new[k].code = recs[k].code
GivenUp(recs, new, k) ==
  /\ k \in DOMAIN recs /\ recs[k].state = "queued"
  /\ k \in DOMAIN new /\ new[k].state = "failed"
  /\ new[k].code \in {"E_DELIVERY_EXPIRED", "E_DELIVERY_EVICTED"}
Thinned(recs, new, k) == Kept(recs, new, k) \/ GivenUp(recs, new, k)

\* The other steps of a record: a send is handled, mail is collected or withdrawn, and what
\* was written is called back.
Handled(k) ==
  /\ k \notin DOMAIN records \/ Rebound(records[k])
  /\ k \in DOMAIN records'
  /\ \/ /\ records'[k].state = "socket_delivered" /\ copies'[k] >= 1
     \/ /\ copies'[k] = copies[k]
        /\ \/ records'[k].state = "queued"
           \/ /\ records'[k].state = "failed"
              /\ records'[k].code \in {"E_TARGET_REBOUND", "E_TARGET_NOT_FOUND"}
Collected(k) ==
  /\ k \in DOMAIN records /\ records[k].state = "queued"
  /\ k \in DOMAIN records' /\ records'[k].state = "socket_delivered" /\ copies'[k] >= 1
Retracted(k) ==
  /\ k \in DOMAIN records /\ records[k].state = "queued"
  /\ k \in DOMAIN records' /\ records'[k].state = "failed"
  /\ records'[k].code = "E_DELIVERY_CANCELLED" /\ k \in withdrawn'
  /\ copies'[k] = copies[k]
TakenBack(k) ==
  /\ k \in DOMAIN records /\ copies[k] >= 1
  /\ k \in DOMAIN records' /\ records'[k].state = "failed"
  /\ records'[k].code \in {"E_DELIVERY_SUPERSEDED", "E_DELIVERY_CANCELLED"}
  /\ copies'[k] = copies[k]

\* Every step does one of these to a message that is remembered after it.
FateSteps ==
  /\ lost \subseteq lost'
  /\ \A k \in RecKeys \ lost' :
       \/ Retracted(k)
       \/ /\ k \in withdrawn' <=> k \in withdrawn
          /\ \/ Thinned(records, records', k) /\ copies'[k] = copies[k]
             \/ Handled(k) \/ Collected(k) \/ TakenBack(k)

\* A record that pruning does not drop is there unchanged.
LEMMA KeptFresh == ASSUME NEW recs, NEW k, k \notin Dropped(recs) PROVE Kept(recs, Fresh(recs), k)
BY DEF Kept, Fresh, Dropped

\* Two thinnings of the mail are one.
LEMMA ThinnedTrans ==
  ASSUME NEW r, NEW s, NEW t, NEW k, Thinned(r, s, k), Thinned(s, t, k)
  PROVE  Thinned(r, t, k)
BY DEF Thinned, Kept, GivenUp

\* Records of mail that is given up, and no others, change when mail is.
LEMMA ThinnedUpdate ==
  ASSUME NEW mail, NEW recs, MapOf(recs, RecKeys, RecordType), NEW written, NEW gaps, NEW back,
         Accounts(mail, recs, written, gaps, back), NEW S, S \subseteq KeysOf(mail),
         NEW code \in {"E_DELIVERY_EXPIRED", "E_DELIVERY_EVICTED"}, NEW k, k \notin gaps
  PROVE  Thinned(recs, Updated(recs, S, "failed", code), k)
<1>1. CASE k \in S
  BY <1>1 DEF Accounts, WaitingIsRecorded, Thinned, GivenUp, Updated, MapOf, RecordType
<1>2. CASE k \notin S
  BY <1>2 DEF Thinned, Kept, Updated
<1>3. QED
  BY <1>1, <1>2

\* Expiry only thins the mail, and gives up what it takes out.
LEMMA ThinnedExpiry ==
  ASSUME NEW recs, MapOf(recs, RecKeys, RecordType), NEW gaps,
         Accounts(mailbox, recs, copies, gaps, withdrawn), NEW k, k \notin gaps
  PROVE  Thinned(recs, AfterExpiry(recs), k)
<1>1. {RecKey(e) : e \in ExpiredMail} \subseteq KeysOf(mailbox)
  BY DEF ExpiredMail, KeysOf
<1>2. QED
  BY <1>1, ThinnedUpdate DEF AfterExpiry

\* recordDelivery touches the records of the message and of the victims only.
LEMMA ThinnedRecorded ==
  ASSUME NEW recs, NEW victims, NEW me, NEW m, NEW id, NEW state, NEW code, NEW k, k \notin victims
  PROVE  LET new == Recorded(recs, victims, me, m, id, state, code)
         IN /\ k # <<me, m.id>> => Kept(recs, new, k)
            /\ k = <<me, m.id>> =>
                 k \in DOMAIN new /\ new[k].state = state /\ new[k].code = code
BY DEF Kept, Recorded, Put, Without

\* A step that only thins the mail moves every message as FateSteps allows.
LEMMA ThinnedStep ==
  ASSUME lost \subseteq lost', copies' = copies, withdrawn' = withdrawn,
         \A k \in RecKeys \ lost' : Thinned(records, records', k)
  PROVE  FateSteps
BY DEF FateSteps

\* A step that leaves mail and records alone moves no message.
LEMMA FateIdle ==
  ASSUME UNCHANGED mailVars PROVE FateSteps
<1>1. \A k : Kept(records, records', k)
  BY DEF Kept, mailVars
<1>2. QED
  BY <1>1 DEF FateSteps, Thinned, mailVars

\* An expiry that writes nothing moves messages only to failed.
LEMMA FateExpiry ==
  ASSUME BrokerInv, RetryInv, records' = AfterExpiry(records), UNCHANGED <<copies, lost, withdrawn>>
  PROVE  FateSteps
<1>1. \A k \in RecKeys \ lost : Thinned(records, records', k)
  BY ThinnedExpiry DEF BrokerInv, TypeOK, TableType, RetryInv
<1>2. QED
  BY <1>1, ThinnedStep

\* A frame that is refused or answered from its record only prunes the records.
LEMMA FatePrune ==
  ASSUME NEW s \in Sockets, NEW m, NEW to, NEW ep,
         SendRefused(s, m, to, ep) \/ SendReplayed(s, m, to, ep)
  PROVE  FateSteps
<1>1. /\ UNCHANGED <<copies, withdrawn>>
      /\ \/ records' = Fresh(records) /\ lost' = lost \cup Dropped(records)
         \/ UNCHANGED <<records, lost>>
  BY DEF SendRefused, SendReplayed
<1>2. \A k \in RecKeys \ lost' : Kept(records, records', k)
  <2>1. CASE UNCHANGED <<records, lost>>
    BY <2>1 DEF Kept
  <2>2. CASE records' = Fresh(records) /\ lost' = lost \cup Dropped(records)
    BY <2>2, KeptFresh
  <2>3. QED
    BY <1>1, <2>1, <2>2
<1>3. QED
  BY <1>1, <1>2, ThinnedStep DEF Thinned

\* Terminate: all mail goes, and all records with it.
LEMMA FateTerminate == ASSUME BrokerInv, RetryInv, Terminate PROVE FateSteps
<1>1. /\ records' = EmptyMap /\ lost' = lost \cup DOMAIN records /\ UNCHANGED <<copies, withdrawn>>
  BY DEF Terminate
<1>2. \A k \in RecKeys \ lost' : Kept(records, records', k)
  BY <1>1 DEF Kept, EmptyMap
<1>3. QED
  BY <1>1, <1>2, ThinnedStep DEF Thinned

\* The passing of a time limit.
LEMMA FateElapse == ASSUME BrokerInv, NEW kind, Elapse(kind) PROVE FateSteps
<1>1. UNCHANGED <<copies, lost, withdrawn>>
  BY DEF Elapse
<1>2. records' = records \/ \E x \in DOMAIN records : records' = [records EXCEPT ![x].old = TRUE]
  BY DEF Elapse
<1>3. \A x \in DOMAIN records : records[x] \in RecordType
  BY DEF BrokerInv, TypeOK, TableType, MapOf
<1>4. \A k : Kept(records, records', k)
  BY <1>2, <1>3 DEF Kept, RecordType
<1>5. QED
  BY <1>1, <1>4, ThinnedStep DEF Thinned

\* An exact send that fails is recorded, as one that may be tried again or may not.
LEMMA FateExact ==
  ASSUME NEW s \in Sockets, NEW m \in Messages, NEW to \in Ids, NEW ep \in Nat \ {0},
         SendExactFailed(s, m, to, ep)
  PROVE  FateSteps
<1> DEFINE key == <<m.by, m.id>>
           recs == Fresh(records)
<1>1. /\ Verdict(m, m.by, to, ep) \in {"exact_not_found", "exact_rebound"}
      /\ UNCHANGED <<copies, withdrawn>>
  BY DEF SendExactFailed
<1>2. PICK victims \in Room(recs), code \in {"E_TARGET_REBOUND", "E_TARGET_NOT_FOUND"} :
        /\ records' = Recorded(recs, victims, m.by, m, to, "failed", code)
        /\ lost' = lost \cup Dropped(records) \cup victims
  BY DEF SendExactFailed
<1>3. Replay(m, m.by, to) = "fresh"
  BY <1>1 DEF Verdict, ExactVerdict, Replay
<1>4. key \notin DOMAIN recs \/ Rebound(recs[key])
  BY <1>3 DEF Replay, Rebound
<1>5. ASSUME NEW k \in RecKeys \ lost'
      PROVE  Kept(records, records', k) \/ Handled(k)
  <2>1. k \notin Dropped(records) /\ k \notin victims
    BY <1>2
  <2>2. Kept(records, recs, k)
    BY <2>1, KeptFresh
  <2> HIDE DEF recs
  <2>3. CASE k # key
    <3>1. Kept(recs, records', k)
      BY <1>2, <2>1, <2>3, ThinnedRecorded
    <3>2. QED
      BY <2>2, <3>1 DEF Kept
  <2>4. CASE k = key
    <3>1. k \in DOMAIN records' /\ records'[k].state = "failed" /\ records'[k].code = code
      BY <1>2, <2>1, <2>4, ThinnedRecorded
    <3>2. k \notin DOMAIN records \/ Rebound(records[k])
      BY <1>4, <2>2, <2>4 DEF Kept, Rebound
    <3>3. QED
      BY <1>1, <1>2, <3>1, <3>2 DEF Handled
  <2>5. QED
    BY <2>3, <2>4
<1>6. QED
  BY <1>1, <1>2, <1>5 DEF FateSteps, Thinned

\* A message that is written at once: handled, while a message it supersedes is called back.
LEMMA FateWritten ==
  ASSUME BrokerInv, RetryInv, NEW key \in RecKeys, NEW recs, NEW older,
         \A k \in RecKeys : k \notin Dropped(records) /\ k # older => Kept(records, recs, k),
         older \in DOMAIN recs =>
           /\ older # key /\ older \in RecKeys /\ copies[older] >= 1
           /\ older \notin Dropped(records) => older \in DOMAIN records
           /\ recs[older].state = "failed" /\ recs[older].code = "E_DELIVERY_SUPERSEDED",
         older \notin DOMAIN recs /\ older \notin Dropped(records) => Kept(records, recs, older),
         key \notin Dropped(records) => key \notin DOMAIN records \/ Rebound(records[key]),
         NEW victims, NEW me \in Keys, NEW m \in Messages, key = <<me, m.id>>, NEW id,
         records' = Recorded(recs, victims, me, m, id, "socket_delivered", None),
         lost' = lost \cup Dropped(records) \cup victims,
         copies' = Counted(<<key>>), withdrawn' = withdrawn
  PROVE  FateSteps
<1>1. copies'[key] >= 1 /\ \A k \in RecKeys : k # key => copies'[k] = copies[k]
  BY CountedSingle DEF BrokerInv, TypeOK
<1>2. ASSUME NEW k \in RecKeys \ lost'
      PROVE  (Kept(records, records', k) /\ copies'[k] = copies[k]) \/ Handled(k) \/ TakenBack(k)
  <2>1. k \notin Dropped(records) /\ k \notin victims
    OBVIOUS
  <2>2. CASE k = key
    <3>1. k \in DOMAIN records' /\ records'[k].state = "socket_delivered"
      BY <2>1, <2>2, ThinnedRecorded
    <3>2. QED
      BY <1>1, <2>1, <2>2, <3>1 DEF Handled
  <2>3. CASE k # key
    <3>1. Kept(recs, records', k)
      BY <2>1, <2>3, ThinnedRecorded
    <3>2. CASE k = older /\ older \in DOMAIN recs
      BY <1>1, <2>1, <2>3, <3>1, <3>2 DEF TakenBack, Kept
    <3>3. CASE ~(k = older /\ older \in DOMAIN recs)
      <4>1. Kept(records, recs, k)
        BY <2>1, <3>3
      <4>2. QED
        BY <1>1, <2>3, <3>1, <4>1 DEF Kept
    <3>4. QED
      BY <3>2, <3>3
  <2>4. QED
    BY <2>2, <2>3
<1>3. QED
  BY <1>2 DEF FateSteps, Thinned

\* A send that is written to its target at once.
LEMMA FateDelivered ==
  ASSUME BrokerInv, RetryInv, NEW s \in Sockets, NEW m \in Messages, NEW to, NEW ep,
         SendDelivered(s, m, to, ep)
  PROVE  FateSteps
<1> DEFINE me == m.by
           key == <<me, m.id>>
           older == <<me, m.supersedes>>
           k == TheOne(Targets(sessions, to, Scope(me)))
           fresh == Fresh(records)
           superseded == Updated(fresh, {older}, "failed", "E_DELIVERY_SUPERSEDED")
<1>1. /\ Sends(s, m) /\ Verdict(m, me, to, ep) = "deliver"
      /\ copies' = Counted(<< key >>) /\ withdrawn' = withdrawn
  BY DEF SendDelivered
<1>2. PICK victims :
        /\ records' = Recorded(superseded, victims, me, m, k[2], "socket_delivered", None)
        /\ lost' = lost \cup Dropped(records) \cup victims
  BY DEF SendDelivered
<1>3. me \in Keys /\ key \in RecKeys
  BY <1>1, Sender DEF RecKeys
<1>4. LiveVerdict(m, me, k) = "deliver"
  BY <1>1, <1>3, DeliverTarget
<1>5. Replay(m, me, k[2]) = "fresh"
  BY <1>4 DEF LiveVerdict, Replay
<1>6. m.supersedes # NoMsg =>
        /\ m.supersedes \in DOMAIN Fresh(routes) /\ Fresh(routes)[m.supersedes].from = me
  BY <1>4 DEF LiveVerdict, Replay
<1>7. MapOf(fresh, RecKeys, RecordType)
  BY RecordsMap DEF BrokerInv, TypeOK, TableType
<1>8. older \in DOMAIN fresh => older \in RecKeys /\ copies[older] >= 1
  <2>1. CASE m.supersedes = NoMsg
    <3>1. older \notin RecKeys
      BY <2>1, BrokerAssumption DEF RecKeys
    <3>2. QED
      BY <1>7, <3>1 DEF MapOf
  <2>2. CASE m.supersedes # NoMsg
    BY <1>6, <1>7, <2>2 DEF RetryInv, RoutesWereWritten, Fresh, MapOf
  <2>3. QED
    BY <2>1, <2>2
<1>9. older # key
  BY BrokerAssumption
<1>10. \A x : x \notin Dropped(records) => Kept(records, fresh, x)
  BY KeptFresh
<1>11. /\ DOMAIN superseded = DOMAIN fresh
       /\ \A x \in DOMAIN fresh : x # older => superseded[x] = fresh[x]
       /\ older \in DOMAIN fresh => /\ superseded[older].state = "failed"
                                     /\ superseded[older].code = "E_DELIVERY_SUPERSEDED"
  BY <1>7 DEF Updated, MapOf, RecordType
<1>12. key \notin Dropped(records) => key \notin DOMAIN records \/ Rebound(records[key])
  <2>1. key \notin DOMAIN fresh \/ Rebound(fresh[key])
    BY <1>5 DEF Replay, Rebound
  <2>2. QED
    BY <1>10, <2>1 DEF Kept, Rebound
<1> HIDE DEF fresh, superseded, older, key
<1>13. \A x \in RecKeys : x \notin Dropped(records) /\ x # older => Kept(records, superseded, x)
  BY <1>10, <1>11 DEF Kept
<1>14. older \notin DOMAIN superseded /\ older \notin Dropped(records) => Kept(records, superseded, older)
  BY <1>10, <1>11 DEF Kept
<1>15. older \in DOMAIN superseded =>
           /\ older # key /\ older \in RecKeys /\ copies[older] >= 1
           /\ older \notin Dropped(records) => older \in DOMAIN records
           /\ superseded[older].state = "failed"
           /\ superseded[older].code = "E_DELIVERY_SUPERSEDED"
  BY <1>8, <1>9, <1>10, <1>11 DEF Kept
<1> HIDE DEF k, me
<1>16. key = <<me, m.id>>
  BY DEF key
<1>17. QED
  BY <1>1, <1>2, <1>3, <1>12, <1>13, <1>14, <1>15, <1>16, FateWritten

\* A send to a disconnected session that is answered from the log.
LEMMA FateRelogged ==
  ASSUME BrokerInv, RetryInv, NEW s \in Sockets, NEW m \in Messages, NEW to, NEW ep,
         SendRelogged(s, m, to, ep)
  PROVE  FateSteps
<1> DEFINE me == m.by
           key == <<me, m.id>>
           k == TheOne(Targets(Fresh(gone), to, Scope(me)))
           fresh == Fresh(records)
<1>1. /\ Sends(s, m) /\ Verdict(m, me, to, ep) = "relog"
      /\ copies' = Counted(<< key >>) /\ withdrawn' = withdrawn
  BY DEF SendRelogged
<1>2. PICK victims :
        /\ records' = Recorded(fresh, victims, me, m, k[2], "socket_delivered", None)
        /\ lost' = lost \cup Dropped(records) \cup victims
  BY DEF SendRelogged
<1>3. me \in Keys /\ key \in RecKeys
  BY <1>1, Sender DEF RecKeys
<1>4. GoneVerdict(m, me, k) = "relog"
  BY <1>1, <1>3, GoneTarget
<1>5. Replay(m, me, k[2]) = "fresh"
  BY <1>4 DEF GoneVerdict, Replay
<1>6. \A x : x \notin Dropped(records) => Kept(records, fresh, x)
  BY KeptFresh
<1>7. key \notin Dropped(records) => key \notin DOMAIN records \/ Rebound(records[key])
  <2>1. key \notin DOMAIN fresh \/ Rebound(fresh[key])
    BY <1>5 DEF Replay, Rebound
  <2>2. QED
    BY <1>6, <2>1 DEF Kept, Rebound
<1>8. MapOf(fresh, RecKeys, RecordType)
  BY RecordsMap DEF BrokerInv, TypeOK, TableType
<1>9. <<me, NoMsg>> \notin DOMAIN fresh
  BY <1>8, BrokerAssumption DEF MapOf, RecKeys
<1> DEFINE older == <<me, NoMsg>>
<1> HIDE DEF fresh, k, me, key, older
<1>10. key = <<me, m.id>> /\ older \notin DOMAIN fresh
  BY <1>9 DEF key, older
<1>11. QED
  BY <1>1, <1>2, <1>3, <1>6, <1>7, <1>10, FateWritten

\* A message that is queued: handled, while mail expires or is evicted.
LEMMA FateQueued ==
  ASSUME BrokerInv, RetryInv, NEW s \in Sockets, NEW m \in Messages, NEW to, NEW ep,
         SendQueued(s, m, to, ep)
  PROVE  FateSteps
<1> DEFINE me == m.by
           key == <<me, m.id>>
           k == TheOne(Targets(Fresh(gone), to, Scope(me)))
           full == Len(FreshMail) >= MaxMailbox
           evicted == IF full THEN {Head(FreshMail)} ELSE {}
           gaps == lost \cup Dropped(records)
           fresh == Fresh(records)
           expired == AfterExpiry(fresh)
           settled == Updated(expired, {RecKey(e) : e \in evicted}, "failed", "E_DELIVERY_EVICTED")
<1>1. /\ Sends(s, m) /\ Verdict(m, me, to, ep) = "queue" /\ UNCHANGED <<copies, withdrawn>>
  BY DEF SendQueued
<1>2. PICK victims :
        /\ records' = Recorded(settled, victims, me, m, k[2], "queued", None)
        /\ lost' = gaps \cup victims
  BY DEF SendQueued
<1>3. me \in Keys /\ key \in RecKeys
  BY <1>1, Sender DEF RecKeys
<1>4. GoneVerdict(m, me, k) = "queue"
  BY <1>1, <1>3, GoneTarget
<1>5. Replay(m, me, k[2]) = "fresh"
  BY <1>4 DEF GoneVerdict, Replay
<1>6. MapOf(fresh, RecKeys, RecordType) /\ MapOf(expired, RecKeys, RecordType)
  BY RecordsMap DEF BrokerInv, TypeOK, TableType
<1>7. Accounts(mailbox, fresh, copies, gaps, withdrawn)
  BY PruneAccounts DEF RetryInv
<1>8. key \notin DOMAIN fresh \/ Rebound(fresh[key])
  BY <1>5 DEF Replay, Rebound
<1>9. \A x : x \notin Dropped(records) => Kept(records, fresh, x)
  BY KeptFresh
<1> HIDE DEF gaps, fresh
<1>10. Accounts(FreshMail, expired, copies, gaps, withdrawn)
  BY <1>6, <1>7, ExpireAccounts DEF BrokerInv
<1>11. {RecKey(e) : e \in evicted} \subseteq KeysOf(FreshMail)
  <2>1. FreshMail \in Seq(MailType) /\ (full => FreshMail # <<>>)
    BY BoxKeys, BrokerAssumption DEF BrokerInv
  <2>2. full => 1 \in DOMAIN FreshMail /\ Head(FreshMail) = FreshMail[1]
    BY <2>1
  <2> HIDE DEF full
  <2>3. QED
    BY <2>2 DEF KeysOf
<1> HIDE DEF expired, evicted
<1>12. \A x : x \notin gaps => Thinned(fresh, expired, x)
  BY <1>6, <1>7, ThinnedExpiry DEF expired
<1>13. \A x : x \notin gaps => Thinned(expired, settled, x)
  BY <1>6, <1>10, <1>11, ThinnedUpdate
<1> HIDE DEF settled, key, k
<1>14. ASSUME NEW x \in RecKeys \ lost'
       PROVE  Thinned(records, records', x) \/ Handled(x)
  <2>1. x \notin gaps /\ x \notin victims /\ x \notin Dropped(records)
    BY <1>2 DEF gaps
  <2>2. Thinned(fresh, settled, x)
    BY <1>12, <1>13, <2>1, ThinnedTrans
  <2>3. Kept(records, fresh, x)
    BY <1>9, <2>1
  <2>4. CASE x # key
    <3>1. Kept(settled, records', x)
      BY <1>2, <2>1, <2>4, ThinnedRecorded DEF key
    <3>2. Thinned(fresh, records', x)
      BY <2>2, <3>1, ThinnedTrans DEF Thinned
    <3>3. QED
      BY <2>3, <3>2, ThinnedTrans DEF Thinned
  <2>5. CASE x = key
    <3>1. x \in DOMAIN records' /\ records'[x].state = "queued"
      BY <1>2, <2>1, <2>5, ThinnedRecorded DEF key
    <3>2. x \notin DOMAIN records \/ Rebound(records[x])
      BY <1>8, <2>3, <2>5 DEF Kept, Rebound
    <3>3. QED
      BY <1>1, <3>1, <3>2 DEF Handled
  <2>6. QED
    BY <2>4, <2>5
<1>15. QED
  BY <1>1, <1>2, <1>14 DEF FateSteps, gaps

\* The sender cancels a message that waits: it is withdrawn.
LEMMA FateCancelQueued ==
  ASSUME BrokerInv, RetryInv, NEW s \in Sockets, NEW i \in MsgIds, CancelQueued(s, i)
  PROVE  FateSteps
<1> DEFINE key == <<conn[s].key, i>>
           expired == AfterExpiry(records)
<1>1. /\ \E j \in DOMAIN FreshMail : RecKey(FreshMail[j]) = key
      /\ records' = Updated(expired, {key}, "failed", "E_DELIVERY_CANCELLED")
      /\ withdrawn' = withdrawn \cup {key} /\ UNCHANGED <<copies, lost>>
  BY DEF CancelQueued, RecKey
<1>2. MapOf(expired, RecKeys, RecordType) /\ DOMAIN expired = DOMAIN records
  BY RecordsMap DEF BrokerInv, TypeOK, TableType
<1>3. Accounts(FreshMail, expired, copies, lost, withdrawn)
  BY ExpireAccounts DEF BrokerInv, TypeOK, TableType, RetryInv
<1>4. \A k : k \notin lost => Thinned(records, expired, k)
  BY ThinnedExpiry DEF BrokerInv, TypeOK, TableType, RetryInv
<1> HIDE DEF expired, key
<1>5. ASSUME NEW k \in RecKeys \ lost, k # key PROVE Thinned(records, records', k)
  <2>1. Kept(expired, records', k)
    BY <1>1, <1>5 DEF Kept, Updated
  <2>2. QED
    BY <1>4, <1>5, <2>1, ThinnedTrans DEF Thinned
<1>6. ASSUME key \in RecKeys \ lost PROVE Retracted(key)
  <2>1. key \in DOMAIN expired /\ expired[key].state = "queued"
    BY <1>1, <1>3, <1>6 DEF Accounts, WaitingIsRecorded, KeysOf
  <2>2. key \in DOMAIN records /\ records[key].state = "queued"
    BY <1>4, <1>6, <2>1 DEF Thinned, Kept, GivenUp
  <2>3. /\ key \in DOMAIN records' /\ records'[key].state = "failed"
        /\ records'[key].code = "E_DELIVERY_CANCELLED"
    BY <1>1, <1>2, <2>1 DEF Updated, MapOf, RecordType
  <2>4. QED
    BY <1>1, <2>2, <2>3 DEF Retracted
<1>7. QED
  BY <1>1, <1>5, <1>6 DEF FateSteps

\* The sender cancels a message that was written: it is called back.
LEMMA FateCancelSent ==
  ASSUME BrokerInv, RetryInv, NEW s \in Sockets, NEW i \in MsgIds, CancelSent(s, i)
  PROVE  FateSteps
<1> DEFINE me == conn[s].key
           rts == WithoutMail(Fresh(routes), ExpiredMail)
           routed == i \in DOMAIN rts /\ rts[i].from = me /\ rts[i].to \in DOMAIN sessions
           mine == IF routed THEN {<<me, i>>} ELSE {}
           expired == AfterExpiry(records)
<1>1. /\ records' = Updated(expired, mine, "failed", "E_DELIVERY_CANCELLED")
      /\ UNCHANGED <<copies, lost, withdrawn>>
  BY DEF CancelSent
<1>2. MapOf(expired, RecKeys, RecordType) /\ DOMAIN expired = DOMAIN records
  BY RecordsMap DEF BrokerInv, TypeOK, TableType
<1>3. \A k : k \notin lost => Thinned(records, expired, k)
  BY ThinnedExpiry DEF BrokerInv, TypeOK, TableType, RetryInv
<1>4. \A k \in mine : copies[k] >= 1
  <2>1. Shrinks(rts, routes)
    BY ShrinksByFresh, ShrinksByMail, ShrinksTrans
  <2>2. routed => i \in DOMAIN routes /\ routes[i].from = me
    BY <2>1 DEF Shrinks
  <2>3. QED
    BY <2>2 DEF RetryInv, RoutesWereWritten
<1> HIDE DEF expired, mine
<1>5. ASSUME NEW k \in RecKeys \ lost PROVE Thinned(records, records', k) \/ TakenBack(k)
  <2>1. CASE k \in mine /\ k \in DOMAIN expired
    <3>1. /\ k \in DOMAIN records' /\ records'[k].state = "failed"
          /\ records'[k].code = "E_DELIVERY_CANCELLED"
      BY <1>1, <1>2, <2>1 DEF Updated, MapOf, RecordType
    <3>2. QED
      BY <1>1, <1>2, <1>4, <2>1, <3>1 DEF TakenBack
  <2>2. CASE ~(k \in mine /\ k \in DOMAIN expired)
    <3>1. Kept(expired, records', k)
      BY <1>1, <2>2 DEF Kept, Updated
    <3>2. QED
      BY <1>3, <1>5, <3>1, ThinnedTrans DEF Thinned
  <2>3. QED
    BY <2>1, <2>2
<1>6. QED
  BY <1>1, <1>5 DEF FateSteps

\* What the newcomer takes was queued, and is written to it.
LEMMA FateRegister ==
  ASSUME BrokerInv, RetryInv, NEW s \in Sockets, NEW k \in Keys, NEW info \in Infos,
         Register(s, k, info)
  PROVE  FateSteps
<1> DEFINE live == Put(sessions, k, Connected(s, info, epoch + 1))
           takes == {i \in DOMAIN FreshMail : Claims(k, live, FreshMail[i])}
           claimed == Filtered(FreshMail, takes)
           Took == {claimed[i] : i \in DOMAIN claimed}
           flushedKeys == [i \in DOMAIN claimed |-> RecKey(claimed[i])]
           expired == AfterExpiry(records)
           taken == {RecKey(e) : e \in Took}
<1>1. /\ records' = Updated(expired, taken, "socket_delivered", None)
      /\ copies' = Counted(flushedKeys) /\ UNCHANGED <<lost, withdrawn>>
  BY DEF Register
<1>2. MapOf(expired, RecKeys, RecordType) /\ DOMAIN expired = DOMAIN records
  BY RecordsMap DEF BrokerInv, TypeOK, TableType
<1>3. Accounts(FreshMail, expired, copies, lost, withdrawn)
  BY ExpireAccounts DEF BrokerInv, TypeOK, TableType, RetryInv
<1>4. \A x : x \notin lost => Thinned(records, expired, x)
  BY ThinnedExpiry DEF BrokerInv, TypeOK, TableType, RetryInv
<1>5. FreshMail \in Seq(MailType) /\ takes \in SUBSET DOMAIN FreshMail
  BY BoxKeys DEF BrokerInv
<1> HIDE DEF takes, expired
<1>6. claimed \in Seq(MailType)
  BY <1>5, FilteredSeq
<1>7. DOMAIN claimed = 1..Len(claimed) /\ Len(claimed) \in Nat
  BY <1>6
<1>8. \A n \in DOMAIN claimed : \E i \in DOMAIN FreshMail : claimed[n] = FreshMail[i]
  <2>1. Selects(claimed, FreshMail, takes)
    BY <1>5, FilteredSelects
  <2> HIDE DEF claimed
  <2>2. QED
    BY <1>5, <2>1 DEF Selects
<1> HIDE DEF claimed
<1>9. /\ DOMAIN flushedKeys = 1..Len(claimed) /\ Len(claimed) \in Nat
      /\ \A x \in taken : \E n \in DOMAIN flushedKeys : flushedKeys[n] = x
      /\ \A n \in DOMAIN flushedKeys : flushedKeys[n] \in taken
  BY <1>7
<1>10. taken \subseteq KeysOf(FreshMail)
  BY <1>8 DEF KeysOf
<1> HIDE DEF flushedKeys, taken
<1>11. \A x \in RecKeys : IF x \in taken THEN copies'[x] >= 1 ELSE copies'[x] = copies[x]
  BY <1>1, <1>9, CountedAt DEF BrokerInv, TypeOK
<1>12. ASSUME NEW x \in RecKeys \ lost
       PROVE  (Thinned(records, records', x) /\ copies'[x] = copies[x]) \/ Collected(x)
  <2>1. CASE x \in taken
    <3>1. x \in DOMAIN expired /\ expired[x].state = "queued"
      BY <1>3, <1>10, <1>12, <2>1 DEF Accounts, WaitingIsRecorded
    <3>2. x \in DOMAIN records /\ records[x].state = "queued"
      BY <1>4, <1>12, <3>1 DEF Thinned, Kept, GivenUp
    <3>3. x \in DOMAIN records' /\ records'[x].state = "socket_delivered"
      BY <1>1, <1>2, <2>1, <3>1 DEF Updated, MapOf, RecordType
    <3>4. QED
      BY <1>11, <2>1, <3>2, <3>3 DEF Collected
  <2>2. CASE x \notin taken
    <3>1. Kept(expired, records', x)
      BY <1>1, <2>2 DEF Kept, Updated
    <3>2. QED
      BY <1>4, <1>11, <1>12, <2>2, <3>1, ThinnedTrans DEF Thinned
  <2>3. QED
    BY <2>1, <2>2
<1>13. QED
  BY <1>1, <1>12 DEF FateSteps

\* Every outcome of a send frame.
LEMMA FateSendFrame ==
  ASSUME BrokerInv, RetryInv, NEW s \in Sockets, SendFrame(s) PROVE FateSteps
<1>1. PICK m \in Messages :
        \/ SendRefused(s, m, m.to, 0) \/ SendReplayed(s, m, m.to, 0)
        \/ SendDelivered(s, m, m.to, 0) \/ SendRelogged(s, m, m.to, 0)
        \/ SendQueued(s, m, m.to, 0)
        \/ \E id \in Resolvable(m.to), ep \in 1..epoch :
             \/ SendRefused(s, m, id, ep) \/ SendReplayed(s, m, id, ep)
             \/ SendDelivered(s, m, id, ep) \/ SendExactFailed(s, m, id, ep)
  BY DEF SendFrame
<1>2. \A to, ep : SendRefused(s, m, to, ep) \/ SendReplayed(s, m, to, ep) => FateSteps
  BY FatePrune
<1>3. \A to, ep : SendDelivered(s, m, to, ep) => FateSteps
  BY FateDelivered
<1>4. \A to, ep : SendRelogged(s, m, to, ep) => FateSteps
  BY FateRelogged
<1>5. \A to, ep : SendQueued(s, m, to, ep) => FateSteps
  BY FateQueued
<1>6. ASSUME NEW id \in Resolvable(m.to), NEW ep \in 1..epoch, SendExactFailed(s, m, id, ep)
      PROVE  FateSteps
  <2>1. id \in Ids
    BY DEF Resolvable
  <2>2. ep \in Nat \ {0}
    BY BrokerAssumption DEF BrokerInv, TypeOK
  <2>3. QED
    BY <1>6, <2>1, <2>2, FateExact
<1>7. QED
  BY <1>1, <1>2, <1>3, <1>4, <1>5, <1>6

\* Every step of the broker.
LEMMA FateNext == ASSUME BrokerInv, RetryInv, [Next]_vars PROVE FateSteps
<1>1. CASE UNCHANGED vars
  BY <1>1, FateIdle DEF vars, mailVars
<1>2. ASSUME NEW s \in Sockets,
             \/ Connect(s) \/ RegistrationTimeout(s) \/ FrameRejected(s) \/ Close(s) \/ Unregister(s)
             \/ \E name \in Names, alias \in BOOLEAN : Presence(s, name, alias)
             \/ \E i \in MsgIds : CancelAsk(s, i) \/ Receipt(s, i)
      PROVE  FateSteps
  <2>1. UNCHANGED mailVars
    BY <1>2 DEF Connect, RegistrationTimeout, FrameRejected, Close, Unregister, Presence, CancelAsk,
                Receipt
  <2>2. QED
    BY <2>1, FateIdle
<1>3. ASSUME NEW s \in Sockets, NEW k \in Keys, RegisterRefused(s, k) PROVE FateSteps
  BY <1>3, FateExpiry DEF RegisterRefused
<1>4. ASSUME NEW s \in Sockets, NEW k \in Keys, NEW info \in Infos, Register(s, k, info)
      PROVE  FateSteps
  BY <1>4, FateRegister
<1>5. ASSUME NEW s \in Sockets, NEW i \in MsgIds, CancelQueued(s, i) \/ CancelSent(s, i)
      PROVE  FateSteps
  BY <1>5, FateCancelQueued, FateCancelSent
<1>6. CASE IdleCheck
  <2>1. UNCHANGED <<copies, lost, withdrawn>>
    BY <1>6 DEF IdleCheck
  <2>2. CASE records' = AfterExpiry(records)
    BY <2>1, <2>2, FateExpiry
  <2>3. CASE records' = records
    <3>1. \A k : Kept(records, records', k)
      BY <2>3 DEF Kept
    <3>2. QED
      BY <2>1, <3>1, ThinnedStep DEF Thinned
  <2>4. QED
    BY <1>6, <2>2, <2>3 DEF IdleCheck
<1>7. CASE Terminate \/ \E kind \in Events : Elapse(kind)
  BY <1>7, FateTerminate, FateElapse
<1>8. QED
  BY <1>1, <1>2, <1>3, <1>4, <1>5, <1>6, <1>7, FateSendFrame DEF Next

\* What FateInv says of a message, fate by fate.
LEMMA FateFacts ==
  ASSUME NEW mail \in Seq(MailType), NEW recs, MapOf(recs, RecKeys, RecordType),
         NEW written \in [RecKeys -> 0..2], NEW gaps, NEW back,
         Accounts(mail, recs, written, gaps, back), NEW k \in RecKeys \ gaps
  PROVE  /\ CopiesIn(mail, k) \in {0, 1} /\ written[k] \in {0, 1}
         /\ CopiesIn(mail, k) = 1 <=> k \in DOMAIN recs /\ recs[k].state = "queued"
         /\ written[k] = 1 => k \in DOMAIN recs /\ recs[k].state # "queued" /\ ~Rebound(recs[k])
         /\ k \in DOMAIN recs => /\ recs[k].state \in DeliveryStates
                                 /\ Rebound(recs[k]) => recs[k].state = "failed"
         /\ k \in back => k \in DOMAIN recs /\ recs[k].state = "failed" /\ ~Rebound(recs[k])
<1>1. written[k] \in 0..2 /\ written[k] <= 1
  BY DEF Accounts, WrittenIsSettled
<1>2. /\ CopiesIn(mail, k) \in Nat /\ CopiesIn(mail, k) <= 1
      /\ CopiesIn(mail, k) >= 1 <=> k \in KeysOf(mail)
  BY CountIn DEF Accounts
<1>3. k \in KeysOf(mail) <=> k \in DOMAIN recs /\ recs[k].state = "queued"
  BY DEF Accounts, WaitingIsRecorded, RecordedIsWaiting
<1>4. /\ written[k] = 1 => k \in DOMAIN recs /\ recs[k].state # "queued" /\ ~Rebound(recs[k])
      /\ k \in back => k \in DOMAIN recs /\ recs[k].state = "failed" /\ ~Rebound(recs[k])
  BY DEF Accounts, WrittenIsSettled, WithdrawnHasFailed
<1>5. k \in DOMAIN recs => /\ recs[k].state \in DeliveryStates
                           /\ Rebound(recs[k]) => recs[k].state = "failed"
  BY DEF Accounts, RecordedIsWaiting, MapOf, RecordType
<1>6. QED
  BY <1>1, <1>2, <1>3, <1>4, <1>5

\* The steps of the abstract specification that one message may take.
Moves(old, new) ==
  \/ new = old \/ Sent!Handle(old, new) \/ Sent!Settle(old, new)
  \/ Sent!CallBack(old, new) \/ Sent!Forget(old, new)

\* A step that FateSteps allows is a step of SentMessages for every message.
LEMMA FateMoves ==
  ASSUME BrokerInv, RetryInv, FateInv, BrokerInv', RetryInv', FateSteps, NEW k \in RecKeys
  PROVE  /\ FateOf(k)' \in Sent!Fates /\ Moves(FateOf(k), FateOf(k)')
         /\ k \notin lost' /\ k \in withdrawn' => copies'[k] = 0
<1> USE DEF Sent!Fates, Sent!Unsent, Sent!Queued, Sent!Written, Sent!CalledBack, Sent!Failed,
            Sent!Rebound, Sent!Withdrawn, Sent!Forgotten, Sent!Fate
<1>1. CASE k \in lost'
  <2>1. FateOf(k)' = Sent!Forgotten
    BY <1>1 DEF FateOf
  <2>2. QED
    BY <1>1, <2>1 DEF Moves, Sent!Forget
<1>2. CASE k \notin lost'
  <2>1. k \notin lost
    BY <1>2 DEF FateSteps
  <2> DEFINE n == CopiesIn(mailbox, k)
             c == copies[k]
             is == IF k \in DOMAIN records THEN FateIn(records[k], k \in withdrawn) ELSE "unsent"
             n1 == CopiesIn(mailbox', k)
             c1 == copies'[k]
             is1 == IF k \in DOMAIN records' THEN FateIn(records'[k], k \in withdrawn') ELSE "unsent"
  <2>2. /\ n \in {0, 1} /\ c \in {0, 1}
        /\ n = 1 <=> k \in DOMAIN records /\ records[k].state = "queued"
        /\ c = 1 => k \in DOMAIN records /\ records[k].state # "queued" /\ ~Rebound(records[k])
        /\ k \in DOMAIN records => /\ records[k].state \in DeliveryStates
                                   /\ Rebound(records[k]) => records[k].state = "failed"
        /\ k \in withdrawn => k \in DOMAIN records /\ records[k].state = "failed" /\ ~Rebound(records[k])
    BY <2>1, FateFacts DEF BrokerInv, TypeOK, TableType, MailboxType, HistoryType, RetryInv
  <2>3. /\ n1 \in {0, 1} /\ c1 \in {0, 1}
        /\ n1 = 1 <=> k \in DOMAIN records' /\ records'[k].state = "queued"
        /\ c1 = 1 => k \in DOMAIN records' /\ records'[k].state # "queued" /\ ~Rebound(records'[k])
    BY <1>2, FateFacts DEF BrokerInv, TypeOK, TableType, MailboxType, HistoryType, RetryInv
  <2>4. FateOf(k) = [is |-> is, waiting |-> n, written |-> c]
    BY <2>1 DEF FateOf, MailCopies, CopiesIn
  <2>5. FateOf(k)' = [is |-> is1, waiting |-> n1, written |-> c1]
    BY <1>2 DEF FateOf, MailCopies, CopiesIn
  <2>6. FateOf(k) \in Sent!Fates /\ (k \in withdrawn => c = 0)
    BY <2>1 DEF FateInv
  <2> HIDE DEF n, c, n1, c1
  <2>7. CASE Kept(records, records', k) /\ c1 = c /\ (k \in withdrawn' <=> k \in withdrawn)
    <3>1. is1 = is
      BY <2>7 DEF Kept, FateIn, Rebound
    <3>2. n1 = n
      BY <2>2, <2>3, <2>7 DEF Kept
    <3>3. FateOf(k)' = FateOf(k)
      BY <2>4, <2>5, <2>7, <3>1, <3>2
    <3>4. QED
      BY <2>6, <2>7, <3>3 DEF Moves, c1
  <2>8. CASE GivenUp(records, records', k) /\ c1 = c /\ (k \in withdrawn' <=> k \in withdrawn)
    <3>1. is = "queued" /\ n = 1 /\ c = 0 /\ k \notin withdrawn
      BY <2>2, <2>8 DEF GivenUp, FateIn
    <3>2. is1 = "failed" /\ n1 = 0
      BY <2>3, <2>8 DEF GivenUp, FateIn, Rebound
    <3>3. FateOf(k) = Sent!Queued /\ FateOf(k)' = Sent!Failed
      BY <2>4, <2>5, <2>8, <3>1, <3>2
    <3>4. QED
      BY <2>8, <3>1, <3>3 DEF Moves, Sent!Settle
  <2>9. CASE Handled(k) /\ (k \in withdrawn' <=> k \in withdrawn)
    <3>1. FateOf(k) \in {Sent!Unsent, Sent!Rebound} /\ c = 0 /\ k \notin withdrawn
      BY <2>2, <2>4, <2>9 DEF Handled, FateIn
    <3>2. FateOf(k)' \in {Sent!Queued, Sent!Written, Sent!Failed, Sent!Rebound}
      BY <2>3, <2>5, <2>9, <3>1 DEF Handled, FateIn, Rebound, c, c1
    <3>3. QED
      BY <2>9, <3>1, <3>2 DEF Moves, Sent!Handle
  <2>10. CASE Collected(k) /\ (k \in withdrawn' <=> k \in withdrawn)
    <3>1. FateOf(k) = Sent!Queued /\ k \notin withdrawn
      BY <2>2, <2>4, <2>10 DEF Collected, FateIn
    <3>2. FateOf(k)' = Sent!Written
      BY <2>3, <2>5, <2>10 DEF Collected, FateIn, c1
    <3>3. QED
      BY <2>10, <3>1, <3>2 DEF Moves, Sent!Settle
  <2>11. CASE Retracted(k)
    <3>1. FateOf(k) = Sent!Queued /\ c = 0
      BY <2>2, <2>4, <2>11 DEF Retracted, FateIn
    <3>2. FateOf(k)' = Sent!Withdrawn /\ c1 = 0
      BY <2>3, <2>5, <2>11, <3>1 DEF Retracted, FateIn, Rebound, c, c1
    <3>3. QED
      BY <3>1, <3>2 DEF Moves, Sent!Settle, c1
  <2>12. CASE TakenBack(k) /\ (k \in withdrawn' <=> k \in withdrawn)
    <3>1. c = 1 /\ c1 = 1 /\ k \notin withdrawn
      BY <2>2, <2>6, <2>12 DEF TakenBack, c, c1
    <3>2. FateOf(k) \in {Sent!Written, Sent!CalledBack}
      BY <2>4, <2>6, <3>1
    <3>3. FateOf(k)' = Sent!CalledBack
      BY <2>3, <2>5, <2>12, <3>1 DEF TakenBack, FateIn, Rebound
    <3>4. QED
      BY <2>12, <3>1, <3>2, <3>3 DEF Moves, Sent!CallBack
  <2>13. QED
    BY <1>2, <2>7, <2>8, <2>9, <2>10, <2>11, <2>12 DEF FateSteps, Thinned, c, c1
<1>3. QED
  BY <1>1, <1>2

\* At the start no message is sent.
LEMMA FateInit == Init => FateInv /\ Sent!Init
<1> SUFFICES ASSUME Init PROVE FateInv /\ Sent!Init
  OBVIOUS
<1>1. ASSUME NEW k \in RecKeys PROVE FateOf(k) = Sent!Unsent /\ copies[k] = 0
  <2>1. /\ mailbox = <<>> /\ records = EmptyMap
        /\ copies = [x \in RecKeys |-> 0] /\ lost = {} /\ withdrawn = {}
    BY DEF Init
  <2>2. DOMAIN records = {} /\ {j \in DOMAIN mailbox : RecKey(mailbox[j]) = k} = {}
    BY <2>1 DEF EmptyMap
  <2>3. MailCopies(k) = 0
    BY <2>2, FS_EmptySet DEF MailCopies
  <2>4. QED
    BY <2>1, <2>2, <2>3 DEF FateOf, Sent!Unsent, Sent!Fate
<1>2. QED
  BY <1>1 DEF FateInv, Sent!Init, Sent!Fates

\* Every step keeps FateInv and is a step of SentMessages or a stutter.
LEMMA FateStep ==
  BrokerInv /\ RetryInv /\ FateInv /\ BrokerInv' /\ RetryInv' /\ [Next]_vars
  => FateInv' /\ [Sent!Next]_([k \in RecKeys |-> FateOf(k)])
<1> SUFFICES ASSUME BrokerInv, RetryInv, FateInv, BrokerInv', RetryInv', [Next]_vars
             PROVE  FateInv' /\ Sent!Next
  OBVIOUS
<1>1. \A k \in RecKeys :
        /\ FateOf(k)' \in Sent!Fates /\ Moves(FateOf(k), FateOf(k)')
        /\ k \notin lost' /\ k \in withdrawn' => copies'[k] = 0
  BY FateNext, FateMoves
<1>2. FateInv'
  BY <1>1 DEF FateInv
<1>3. Sent!Next
  BY <1>1 DEF Sent!Next, Moves
<1>4. QED
  BY <1>2, <1>3

\* What the record of a message says is what became of it, and nothing withdrawn was written.
THEOREM FateInvariant == Spec => []FateInv
<1>1. Spec => [](BrokerInv /\ RetryInv)
  BY BrokerInvariant, RetryInvariant, PTL
<1>2. QED
  BY <1>1, FateInit, FateStep, PTL DEF Spec

\* For every number of sessions and messages and all caps, what becomes of each message that
\* the broker has not forgotten is what SentMessages allows.
THEOREM SentRefinement == Spec => ImplementsSentMessages
<1>1. Spec => [](BrokerInv /\ RetryInv)
  BY BrokerInvariant, RetryInvariant, PTL
<1>2. QED
  BY <1>1, FateInit, FateStep, PTL DEF Spec, ImplementsSentMessages, Sent!Spec

-----------------------------------------------------------------------------
(* Where cancels, supersedes and receipts go.                              *)

\* Only a broker that is up takes a step, and when it exits nobody joins or leaves, or all
\* routes go.
LEMMA UpSteps ==
  ASSUME Next
  PROVE  mode = "up" /\ (mode' = mode \/ sessions' = sessions \/ routes' = EmptyMap)
<1> DEFINE Up == mode = "up" /\ mode' = mode
<1>1. ASSUME NEW s \in Sockets,
             \/ Connect(s) \/ RegistrationTimeout(s) \/ FrameRejected(s) \/ Close(s) \/ Unregister(s)
             \/ \E name \in Names, alias \in BOOLEAN : Presence(s, name, alias)
             \/ \E k \in Keys : RegisterRefused(s, k) \/ \E info \in Infos : Register(s, k, info)
             \/ \E i \in MsgIds : CancelQueued(s, i) \/ CancelSent(s, i) \/ CancelAsk(s, i) \/ Receipt(s, i)
      PROVE  Up
  BY <1>1 DEF Connect, RegistrationTimeout, FrameRejected, Close, Unregister, Presence, RegisterRefused,
              Register, CancelQueued, CancelSent, CancelAsk, Receipt
<1>2. ASSUME NEW s \in Sockets, SendFrame(s) PROVE Up
  <2>1. \A m, to, ep : SendRefused(s, m, to, ep) => Up
    BY DEF SendRefused, Sends
  <2>2. \A m, to, ep : SendReplayed(s, m, to, ep) => Up
    BY DEF SendReplayed, Sends
  <2>3. \A m, to, ep : SendDelivered(s, m, to, ep) => Up
    BY DEF SendDelivered, Sends
  <2>4. \A m, to, ep : SendRelogged(s, m, to, ep) => Up
    BY DEF SendRelogged, Sends
  <2>5. \A m, to, ep : SendQueued(s, m, to, ep) => Up
    BY DEF SendQueued, Sends
  <2>6. \A m, to, ep : SendExactFailed(s, m, to, ep) => Up
    BY DEF SendExactFailed, Sends
  <2>7. QED
    BY <1>2, <2>1, <2>2, <2>3, <2>4, <2>5, <2>6 DEF SendFrame
<1>3. (\E kind \in Events : Elapse(kind)) => Up
  BY DEF Elapse
<1>4. IdleCheck => mode = "up" /\ sessions' = sessions
  BY DEF IdleCheck, rosterVars
<1>5. Terminate => mode = "up" /\ routes' = EmptyMap
  BY DEF Terminate
<1>6. QED
  BY <1>1, <1>2, <1>3, <1>4, <1>5 DEF Next

\* A cancel, a supersede or a receipt is about a message that was written, and finds at the
\* end of its route the connection that the message was written to.
THEOREM ControlFollows == Spec => ControlFollowsTheMessage
<1> DEFINE Routed ==
             \A i \in DOMAIN routes \cap DOMAIN routes' : routes'[i].to = routes[i].to =>
               /\ routes[i].to \in DOMAIN sessions \cap DOMAIN sessions'
               /\ sessions'[routes[i].to].epoch = sessions[routes[i].to].epoch
           About(f) ==
             /\ f.type = "cancel" => copies[<<f.from, f.msg>>] >= 1
             /\ f.type = "supersede" => copies[<<f.from, f.msg.supersedes>>] >= 1
             /\ f.type = "receipt" => copies[<<f.to, f.msg>>] >= 1
<1>1. ASSUME BrokerInv, BrokerInv', Next PROVE Routed
  <2> SUFFICES ASSUME NEW i \in DOMAIN routes \cap DOMAIN routes', routes'[i].to = routes[i].to
               PROVE  /\ routes[i].to \in DOMAIN sessions \cap DOMAIN sessions'
                      /\ sessions'[routes[i].to].epoch = sessions[routes[i].to].epoch
    OBVIOUS
  <2>1. routes[i].to \in DOMAIN sessions
    BY <1>1, UpSteps DEF BrokerInv, Safety, RoutesEndLive
  <2>2. routes[i].to \in DOMAIN sessions'
    <3>1. CASE mode' = "up"
      BY <1>1, <3>1 DEF BrokerInv, Safety, RoutesEndLive
    <3>2. CASE mode' # "up"
      BY <1>1, <2>1, <3>2, UpSteps DEF EmptyMap
    <3>3. QED
      BY <3>1, <3>2
  <2>3. QED
    BY <1>1, <2>1, <2>2, SessionsStay DEF Stays
<1>2. ASSUME BrokerInv, RetryInv, Next, NEW f \in out'.sent PROVE About(f)
  <2>1. ASSUME NEW i \in DOMAIN Fresh(routes)
        PROVE  i \in DOMAIN routes /\ Fresh(routes)[i] = routes[i] /\ copies[<<routes[i].from, i>>] >= 1
    BY <1>2, <2>1 DEF Fresh, RetryInv, RoutesWereWritten
  <2>2. ASSUME NEW s \in Sockets, NEW k \in Keys, NEW info \in Infos, Register(s, k, info)
        PROVE  About(f)
    BY <1>2, <2>2, FlushedFrames
  <2>3. ASSUME NEW s \in Sockets, NEW m \in Messages, NEW to, NEW ep, SendRelogged(s, m, to, ep)
        PROVE  About(f)
    BY <2>3 DEF SendRelogged, Frame
  <2>4. ASSUME NEW s \in Sockets, NEW m \in Messages, NEW to, NEW ep, SendDelivered(s, m, to, ep)
        PROVE  About(f)
    <3> DEFINE k == TheOne(Targets(sessions, to, Scope(m.by)))
    <3>1. /\ Sends(s, m) /\ Verdict(m, m.by, to, ep) = "deliver"
          /\ f.type \in {"message", "supersede"} /\ f.from = m.by /\ f.msg = m
          /\ f.type = "supersede" => m.supersedes # NoMsg
      BY <2>4 DEF SendDelivered, Frame
    <3>2. LiveVerdict(m, m.by, k) = "deliver"
      BY <1>2, <3>1, Sender, DeliverTarget
    <3>3. m.supersedes # NoMsg =>
            /\ m.supersedes \in DOMAIN Fresh(routes) /\ Fresh(routes)[m.supersedes].from = m.by
      BY <3>2 DEF LiveVerdict, Replay
    <3>4. QED
      BY <2>1, <3>1, <3>3
  <2>5. ASSUME NEW s \in Sockets, NEW i \in MsgIds, CancelSent(s, i) PROVE About(f)
    <3> DEFINE rts == WithoutMail(Fresh(routes), ExpiredMail)
    <3>1. f.type = "cancel" /\ f.msg = i /\ i \in DOMAIN rts /\ rts[i].from = f.from
      BY <2>5 DEF CancelSent, Frame
    <3>2. Shrinks(rts, routes)
      BY ShrinksByFresh, ShrinksByMail, ShrinksTrans
    <3>3. i \in DOMAIN routes /\ routes[i].from = f.from
      BY <3>1, <3>2 DEF Shrinks
    <3>4. QED
      BY <1>2, <3>1, <3>3 DEF RetryInv, RoutesWereWritten
  <2>6. ASSUME NEW s \in Sockets, NEW i \in MsgIds, Receipt(s, i) PROVE About(f)
    <3>1. /\ f.type = "receipt" /\ f.msg = i /\ i \in DOMAIN Fresh(routes)
          /\ f.to = Fresh(routes)[i].from
      BY <2>6 DEF Receipt, Frame, Quiet
    <3>2. QED
      BY <2>1, <3>1
  <2>7. QED
    BY <1>2, <2>2, <2>3, <2>4, <2>5, <2>6, WritingSteps
<1>3. BrokerInv /\ BrokerInv' /\ RetryInv /\ [Next]_vars
      => [Routed /\ \A f \in out'.sent : About(f)]_vars
  BY <1>1, <1>2
<1>4. QED
  BY <1>3, BrokerInvariant, RetryInvariant, PTL DEF Spec, ControlFollowsTheMessage

-----------------------------------------------------------------------------
(* What senders are told.                                                  *)

\* What the record of a message says, as an answer, stands for what became of the message.
LEMMA RecordsStand ==
  ASSUME BrokerInv', FateInv', NEW k \in RecKeys \ lost', k \in DOMAIN records'
  PROVE  FateOf(k)' \in Stands(Outcome(records'[k]))
<1> DEFINE r == records'[k]
           back == k \in withdrawn'
<1>1. FateOf(k)' \in Sent!Fates /\ FateOf(k)'.is = FateIn(r, back)
  BY DEF FateInv, FateOf
<1>2. r.state \in DeliveryStates /\ r.code \in Codes
  BY DEF BrokerInv, TypeOK, TableType, MapOf, RecordType
<1> HIDE DEF r, back
<1>3. \A x \in Sent!Fates :
        /\ x.is = "queued" => x = Sent!Queued
        /\ x.is = "written" => x = Sent!Written
        /\ x.is = "rebound" => x = Sent!Rebound
        /\ x.is = "calledBack" => x = Sent!CalledBack
        /\ x.is = "failed" => x = Sent!Failed
        /\ x.is = "withdrawn" => x = Sent!Withdrawn
  BY DEF Sent!Fates, Sent!Unsent, Sent!Queued, Sent!Written, Sent!CalledBack, Sent!Failed,
         Sent!Rebound, Sent!Withdrawn, Sent!Forgotten, Sent!Fate
<1> DEFINE x == FateOf(k)'
<1> HIDE DEF x
<1>4. x \in Sent!Fates /\ x.is = FateIn(r, back)
  BY <1>1 DEF x
<1>5. CASE r.state = "queued"
  BY <1>3, <1>4, <1>5 DEF FateIn, Outcome, Stands, x, r
<1>6. CASE r.state = "socket_delivered"
  BY <1>3, <1>4, <1>6 DEF FateIn, Outcome, Stands, x, r
<1>7. CASE r.state = "failed"
  <2>1. Outcome(r) = r.code
    BY <1>7 DEF Outcome
  <2>2. CASE r.code = "E_TARGET_REBOUND"
    BY <1>3, <1>4, <1>7, <2>1, <2>2 DEF FateIn, Rebound, Stands, x, r
  <2>3. CASE r.code = "E_DELIVERY_SUPERSEDED"
    BY <1>3, <1>4, <1>7, <2>1, <2>3 DEF FateIn, Rebound, Stands, x, r
  <2>4. CASE r.code = "E_DELIVERY_CANCELLED"
    BY <1>3, <1>4, <1>7, <2>1, <2>4 DEF FateIn, Rebound, Stands, x, r
  <2>5. CASE r.code \in {"E_DELIVERY_EXPIRED", "E_DELIVERY_EVICTED"}
    BY <1>3, <1>4, <1>7, <2>1, <2>5 DEF FateIn, Rebound, Stands, x, r
  <2>6. CASE r.code = "E_TARGET_NOT_FOUND"
    BY <1>4, <2>1, <2>6 DEF Stands, x, r
  <2>7. CASE r.code = None
    <3>1. r.code \notin {"E_TARGET_REBOUND", "E_DELIVERY_SUPERSEDED", "E_DELIVERY_CANCELLED",
                        "E_DELIVERY_EXPIRED", "E_DELIVERY_EVICTED"} => x.is = "failed"
      BY <1>4, <1>7 DEF FateIn, Rebound
    <3>2. r.code \notin {"socket_delivered", "queued", "delivered"}
      BY <2>7, BrokerAssumption
    <3>3. QED
      BY <1>3, <1>4, <2>1, <2>2, <2>3, <2>4, <2>5, <3>1, <3>2 DEF Stands, x, r
  <2>8. QED
    BY <1>2, <2>2, <2>3, <2>4, <2>5, <2>6, <2>7 DEF Codes
<1>8. QED
  BY <1>2, <1>5, <1>6, <1>7 DEF DeliveryStates

\* The steps that answer the sender of a message.
LEMMA AnsweringSteps ==
  ASSUME Next
  PROVE  \/ out'.acks = {}
         \/ \E s \in Sockets :
              \/ \E m \in Messages : \E to, ep :
                   \/ SendRefused(s, m, to, ep) \/ SendReplayed(s, m, to, ep)
                   \/ SendDelivered(s, m, to, ep) \/ SendRelogged(s, m, to, ep)
                   \/ SendQueued(s, m, to, ep) \/ SendExactFailed(s, m, to, ep)
              \/ \E i \in MsgIds : CancelQueued(s, i) \/ CancelSent(s, i)
<1>1. \A s \in Sockets :
        \/ Connect(s) \/ RegistrationTimeout(s) \/ FrameRejected(s) \/ Close(s) \/ Unregister(s)
        => out'.acks = {}
  BY DEF Connect, RegistrationTimeout, FrameRejected, Close, Unregister, Quiet
<1>2. \A s \in Sockets, name \in Names, alias \in BOOLEAN : Presence(s, name, alias) => out'.acks = {}
  BY DEF Presence, Quiet
<1>3. \A s \in Sockets, k \in Keys : RegisterRefused(s, k) => out'.acks = {}
  BY DEF RegisterRefused, Quiet
<1>4. \A s \in Sockets, k \in Keys, info \in Infos : Register(s, k, info) => out'.acks = {}
  BY DEF Register
<1>5. \A s \in Sockets, i \in MsgIds : CancelAsk(s, i) \/ Receipt(s, i) => out'.acks = {}
  BY DEF CancelAsk, Receipt, Quiet
<1>6. IdleCheck \/ Terminate \/ (\E kind \in Events : Elapse(kind)) => out'.acks = {}
  BY DEF IdleCheck, Terminate, Elapse, Quiet
<1>7. ASSUME NEW s \in Sockets, SendFrame(s)
      PROVE  \E m \in Messages : \E to, ep :
               \/ SendRefused(s, m, to, ep) \/ SendReplayed(s, m, to, ep)
               \/ SendDelivered(s, m, to, ep) \/ SendRelogged(s, m, to, ep)
               \/ SendQueued(s, m, to, ep) \/ SendExactFailed(s, m, to, ep)
  BY <1>7 DEF SendFrame
<1>8. QED
  BY <1>1, <1>2, <1>3, <1>4, <1>5, <1>6, <1>7 DEF Next

\* What the record of a message says, unless it was dropped.
Says(k, says) == k \in lost' \/ (k \in DOMAIN records' /\ Outcome(records'[k]) = says)

\* recordDelivery: the answer to a send that was handled is what its new record says.
LEMMA HandledSays ==
  ASSUME NEW recs, NEW victims, NEW me, NEW m, NEW id, NEW state \in DeliveryStates, NEW code,
         records' = Recorded(recs, victims, me, m, id, state, code)
  PROVE  Says(<<me, m.id>>, IF state = "failed" THEN code ELSE state)
<1> DEFINE k == <<me, m.id>>
           r == [print |-> Fingerprint(m, id), state |-> state, code |-> code, old |-> FALSE]
<1>1. records' = Put(Without(recs, victims), k, r)
  BY DEF Recorded
<1>2. k \in DOMAIN records' /\ records'[k] = r
  BY <1>1 DEF Put
<1>3. QED
  BY <1>2 DEF Says, Outcome

\* replayOrReject answers from a record that is there.
LEMMA ReplayedSays ==
  ASSUME NEW s \in Sockets, NEW m \in Messages, NEW to, NEW ep, SendReplayed(s, m, to, ep)
  PROVE  LET k == <<m.by, m.id>> IN Says(k, Outcome(records[k]))
<1> DEFINE k == <<m.by, m.id>>
<1>1. Verdict(m, m.by, to, ep) = "replay" /\ records' = Fresh(records)
  BY DEF SendReplayed
<1>2. \A id : Replay(m, m.by, id) = "replay" => k \in DOMAIN Fresh(records)
  BY DEF Replay
<1>3. \A t : LiveVerdict(m, m.by, t) = "replay" => Replay(m, m.by, t[2]) = "replay"
  BY DEF LiveVerdict
<1>4. \A t : GoneVerdict(m, m.by, t) = "replay" => Replay(m, m.by, t[2]) = "replay"
  BY DEF GoneVerdict
<1>5. ExactVerdict(m, m.by, to, ep) = "replay"
      => Replay(m, m.by, to) = "replay" \/ LiveVerdict(m, m.by, <<Scope(m.by), to>>) = "replay"
  BY DEF ExactVerdict
<1>6. k \in DOMAIN Fresh(records)
  BY <1>1, <1>2, <1>3, <1>4, <1>5 DEF Verdict
<1>7. Fresh(records)[k] = records[k]
  BY <1>6 DEF Fresh
<1>8. QED
  BY <1>1, <1>6, <1>7 DEF Says

\* handleCancelMessage: what it reports as withdrawn is recorded so.
LEMMA CancelledSays ==
  ASSUME BrokerInv, RetryInv, NEW s \in Sockets, NEW i \in MsgIds, conn[s].key \in Keys,
         \/ CancelQueued(s, i)
         \/ CancelSent(s, i) /\ out' # [acks |-> {Ack(<<conn[s].key, i>>, "delivery_failed")}, sent |-> {}]
  PROVE  Says(<<conn[s].key, i>>, "E_DELIVERY_CANCELLED")
<1> DEFINE key == <<conn[s].key, i>>
           expired == AfterExpiry(records)
<1>1. MapOf(expired, RecKeys, RecordType) /\ DOMAIN expired = DOMAIN records
  BY RecordsMap DEF BrokerInv, TypeOK, TableType
<1>2. lost' = lost /\ records' = Updated(expired, {key}, "failed", "E_DELIVERY_CANCELLED")
  BY DEF CancelQueued, CancelSent
<1>3. key \in RecKeys
  BY DEF RecKeys
<1>4. ASSUME CancelQueued(s, i), key \notin lost PROVE key \in DOMAIN expired
  <2>1. \E j \in DOMAIN FreshMail : RecKey(FreshMail[j]) = key
    BY <1>4 DEF CancelQueued, RecKey
  <2>2. Accounts(FreshMail, expired, copies, lost, withdrawn)
    BY ExpireAccounts DEF BrokerInv, TypeOK, TableType, RetryInv
  <2>3. QED
    BY <1>4, <2>1, <2>2 DEF Accounts, WaitingIsRecorded, KeysOf
<1>5. ASSUME CancelSent(s, i), key \notin lost,
             out' # [acks |-> {Ack(key, "delivery_failed")}, sent |-> {}]
      PROVE  key \in DOMAIN expired
  <2> DEFINE rts == WithoutMail(Fresh(routes), ExpiredMail)
  <2>1. i \in DOMAIN rts /\ rts[i].from = conn[s].key
    BY <1>5 DEF CancelSent
  <2>2. Shrinks(rts, routes)
    BY ShrinksByFresh, ShrinksByMail, ShrinksTrans
  <2>3. copies[key] >= 1
    BY <2>1, <2>2 DEF Shrinks, RetryInv, RoutesWereWritten
  <2>4. copies[key] \in 0..2
    BY <1>3 DEF BrokerInv, TypeOK, HistoryType
  <2>5. key \in DOMAIN records
    BY <1>3, <1>5, <2>3, <2>4 DEF RetryInv, Accounts, WrittenIsSettled
  <2>6. QED
    BY <1>1, <2>5
<1> HIDE DEF key, expired
<1>6. ASSUME key \in DOMAIN expired
      PROVE  /\ key \in DOMAIN records' /\ records'[key].state = "failed"
             /\ records'[key].code = "E_DELIVERY_CANCELLED"
  BY <1>1, <1>2, <1>6 DEF Updated, MapOf, RecordType
<1>7. Says(key, "E_DELIVERY_CANCELLED")
  BY <1>2, <1>4, <1>5, <1>6 DEF Says, Outcome, key
<1>8. QED
  BY <1>7 DEF key

\* For all caps, every answer tells what has become of the message, unless it was forgotten.
THEOREM AnswersHold == Spec => AnswersAreTrue
<1> DEFINE True(k, a) == FateOf(k)' \in Stands(a.says) \cup {Sent!Forgotten}
<1>1. ASSUME BrokerInv, RetryInv, BrokerInv', FateInv', Next,
             NEW k \in RecKeys, NEW a \in out'.acks, a.about = k
      PROVE  True(k, a)
  <2>1. CASE k \in lost'
    BY <2>1 DEF FateOf, Sent!Forgotten, Sent!Fate
  <2>2. CASE Stands(a.says) = Sent!Fates
    <3>1. k \notin lost' => FateOf(k)' \in Sent!Fates
      BY <1>1 DEF FateInv
    <3>2. QED
      BY <2>1, <2>2, <3>1
  <2>3. ASSUME NEW says, Says(k, says), Stands(says) = Stands(a.says) PROVE True(k, a)
    <3>1. CASE k \in lost'
      BY <2>1, <3>1
    <3>2. CASE k \notin lost'
      <4>1. k \in DOMAIN records' /\ Outcome(records'[k]) = says
        BY <2>3, <3>2 DEF Says
      <4>2. FateOf(k)' \in Stands(says)
        BY <1>1, <3>2, <4>1, RecordsStand
      <4>3. QED
        BY <2>3, <4>2
    <3>3. QED
      BY <3>1, <3>2
  <2> HIDE DEF True
  <2>4. ASSUME NEW recs, NEW victims, NEW m, NEW id, NEW state \in DeliveryStates, NEW code,
               records' = Recorded(recs, victims, m.by, m, id, state, code),
               a = Ack(<<m.by, m.id>>, IF state = "failed" THEN code ELSE state)
        PROVE  True(k, a)
    <3>1. k = <<m.by, m.id>> /\ a.says = IF state = "failed" THEN code ELSE state
      BY <1>1, <2>4 DEF Ack
    <3>2. Says(k, a.says)
      BY <2>4, <3>1, HandledSays
    <3>3. QED
      BY <2>3, <3>2
  <2>5. ASSUME NEW s \in Sockets, NEW m \in Messages, NEW to, NEW ep, SendRefused(s, m, to, ep)
        PROVE  True(k, a)
    <3>1. a.says \in Refusals
      BY <1>1, <2>5 DEF SendRefused, Acked, Ack
    <3>2. Stands(a.says) = Sent!Fates
      BY <3>1 DEF Stands, Refusals
    <3>3. QED
      BY <2>2, <3>2
  <2>6. ASSUME NEW s \in Sockets, NEW m \in Messages, NEW to, NEW ep, SendReplayed(s, m, to, ep)
        PROVE  True(k, a)
    <3>1. a = Ack(<<m.by, m.id>>, Outcome(records[<<m.by, m.id>>]))
      BY <1>1, <2>6 DEF SendReplayed, Acked
    <3>2. k = <<m.by, m.id>> /\ a.says = Outcome(records[k])
      BY <1>1, <3>1 DEF Ack
    <3>3. Says(k, a.says)
      BY <2>6, <3>2, ReplayedSays
    <3>4. QED
      BY <2>3, <3>3
  <2>7. ASSUME NEW s \in Sockets, NEW m \in Messages, NEW to, NEW ep, SendExactFailed(s, m, to, ep)
        PROVE  True(k, a)
    <3> DEFINE code == IF Verdict(m, m.by, to, ep) = "exact_rebound"
                       THEN "E_TARGET_REBOUND" ELSE "E_TARGET_NOT_FOUND"
    <3>1. PICK victims \in Room(Fresh(records)) :
            records' = Recorded(Fresh(records), victims, m.by, m, to, "failed", code)
      BY <2>7 DEF SendExactFailed
    <3>2. a = Ack(<<m.by, m.id>>, code)
      BY <1>1, <2>7 DEF SendExactFailed, Acked
    <3> HIDE DEF code
    <3>3. QED
      BY <2>4, <3>1, <3>2 DEF DeliveryStates
  <2>8. ASSUME NEW s \in Sockets, NEW m \in Messages, NEW to, NEW ep,
               SendDelivered(s, m, to, ep) \/ SendRelogged(s, m, to, ep)
        PROVE  True(k, a)
    <3>1. a = Ack(<<m.by, m.id>>, "socket_delivered")
      BY <1>1, <2>8 DEF SendDelivered, SendRelogged
    <3>2. PICK recs, victims, id :
            records' = Recorded(recs, victims, m.by, m, id, "socket_delivered", None)
      BY <2>8 DEF SendDelivered, SendRelogged
    <3>3. QED
      BY <2>4, <3>1, <3>2 DEF DeliveryStates
  <2>9. ASSUME NEW s \in Sockets, NEW m \in Messages, NEW to, NEW ep, SendQueued(s, m, to, ep)
        PROVE  True(k, a)
    <3>1. a = Ack(<<m.by, m.id>>, "queued")
      BY <1>1, <2>9 DEF SendQueued, Acked
    <3>2. PICK recs, victims, id : records' = Recorded(recs, victims, m.by, m, id, "queued", None)
      BY <2>9 DEF SendQueued
    <3>3. QED
      BY <2>4, <3>1, <3>2 DEF DeliveryStates
  <2>10. ASSUME NEW s \in Sockets, NEW i \in MsgIds, CancelQueued(s, i) \/ CancelSent(s, i)
         PROVE  True(k, a)
    <3>1. /\ a.about = <<conn[s].key, i>>
          /\ a.says = "delivered"
             \/ a.says = "delivery_failed"
      BY <1>1, <2>10 DEF CancelQueued, CancelSent, Acked, Ack
    <3>2. CASE a.says = "delivery_failed"
      <4>1. Stands(a.says) = Sent!Fates
        BY <3>2 DEF Stands
      <4>2. QED
        BY <2>2, <4>1
    <3>3. CASE a.says = "delivered"
      <4>1. conn[s].key \in Keys
        BY <1>1, <2>10 DEF CancelQueued, CancelSent, BrokerInv, TypeOK, ConnType
      <4>2. out' # [acks |-> {Ack(<<conn[s].key, i>>, "delivery_failed")}, sent |-> {}]
        BY <1>1, <3>3 DEF Ack
      <4>3. Says(k, "E_DELIVERY_CANCELLED")
        BY <1>1, <2>10, <3>1, <4>1, <4>2, CancelledSays
      <4>4. Stands("E_DELIVERY_CANCELLED") = Stands(a.says)
        BY <3>3 DEF Stands
      <4>5. QED
        BY <2>3, <4>3, <4>4
    <3>4. QED
      BY <3>1, <3>2, <3>3
  <2>11. QED
    BY <1>1, <2>5, <2>6, <2>7, <2>8, <2>9, <2>10, AnsweringSteps
<1>2. BrokerInv /\ RetryInv /\ BrokerInv' /\ FateInv' /\ [Next]_vars
      => [\A k \in RecKeys : \A a \in out'.acks : a.about = k =>
            FateOf(k)' \in Stands(a.says) \cup {Sent!Forgotten}]_vars
  BY <1>1
<1>3. QED
  BY <1>2, BrokerInvariant, RetryInvariant, FateInvariant, PTL DEF Spec, AnswersAreTrue

=============================================================================
