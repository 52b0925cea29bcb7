--------------------------- MODULE IntercomSession ---------------------------
(***************************************************************************)
(* One session's side of the intercom (pi-custom/src/intercom/runtime.ts   *)
(* with broker/client.ts): the connection to the broker across reconnects, *)
(* session replacements and shutdown, and the blocking asks that share one *)
(* waiter slot.                                                            *)
(*                                                                         *)
(* The session is one event loop.  A frame, a close event or a timer is a  *)
(* step, with the promise continuations it releases; those of asks that    *)
(* await a connection are steps of their own, Continue..., which come     *)
(* before the next event and interleave among themselves.                  *)
(***************************************************************************)
EXTENDS Naturals

CONSTANTS
  Asks,                   \* calls of Intercom.ask
  Links,                  \* IntercomClient objects, used again once forgotten
  Letters,                \* mail that waits for this session at the broker
  MaxGeneration,          \* bound on session starts and shutdowns
  None

ASSUME SessionAssumption ==
  /\ MaxGeneration \in Nat
  /\ None \notin Asks \cup Links

VARIABLES
  generation, active,     \* Intercom: generation, ctx # null
  booting,                \* the setTimeout(0) of start has not run
  phase, born,            \* per link: what became of it; the generation it was made for
  kept,                   \* links whose failure schedules a reconnect
  client, connecting,     \* Intercom: client, the link of connecting
  retry,                  \* reconnectTimer is set
  stage, via,             \* per ask: what it awaits; the link it awaits it from
  promise,                \* per ask: its waiter's promise: none, open, resolved, rejected
  waiter,                 \* the slot
  rebound,                \* asks whose exact send was refused as rebound once
  wire, delivered,        \* questions written to a socket; those the broker has delivered
  answer,                 \* history: asks whose reply has come
  mail                    \* per letter: waiting at the broker, received, or dropped

lifeVars == <<generation, active, booting>>
attemptVars == <<phase, born, kept, connecting>>
linkVars == <<attemptVars, client, retry>>
askVars == <<stage, via, promise, waiter, rebound>>
peerVars == <<wire, delivered, answer, mail>>
sessionVars == <<lifeVars, linkVars, askVars, peerVars>>

Phases == {"spawning", "joining", "up", "dead", "broken", "leaving", "closed"}
Stages == {"idle", "roster", "listing", "peers", "joining", "resolving", "sending", "waiting",
           "answered", "failed"}

SessionInit ==
  /\ generation = 0 /\ active = FALSE /\ booting = FALSE
  /\ phase = [k \in Links |-> "closed"] /\ born = [k \in Links |-> 0] /\ kept = {}
  /\ client = None /\ connecting = None /\ retry = FALSE
  /\ stage = [a \in Asks |-> "idle"] /\ via = [a \in Asks |-> None]
  /\ promise = [a \in Asks |-> "none"] /\ waiter = None
  /\ rebound = {} /\ wire = {} /\ delivered = {} /\ answer = {}
  /\ mail = [m \in Letters |-> "waiting"]

Ended(a) == stage[a] \in {"answered", "failed"}

\* isConnected: the socket of a dead link still looks writable
Connected == client # None /\ phase[client] \in {"up", "dead"}

\* an ask whose awaited connection has settled goes on before anything else happens
SettledOnSuccess(k) == phase[k] \in {"up", "dead"}                     \* mutant: no rejection
Settled(k) == phase[k] \notin {"spawning", "joining", "leaving"}
Ready(a) == stage[a] \in {"roster", "joining"} /\ Settled(via[a])
Event == \A a \in Asks : ~Ready(a)

-----------------------------------------------------------------------------
(* Asks that fail, and the waiter slot.                                    *)

\* cleanup of waitFor: the slot is emptied only by the waiter that is in it
FreesSlot(S) == waiter' = IF waiter \in S THEN None ELSE waiter

\* the waiters of W are rejected and the asks of F fail; with its waiter fails an ask that
\* awaits nothing else
FailAsks(W, F) ==
  LET gone == F \cup {a \in W : stage[a] = "waiting"} IN
  /\ promise' = [a \in Asks |-> IF a \in W THEN "rejected" ELSE promise[a]]
  /\ FreesSlot(W)
  /\ stage' = [a \in Asks |-> IF a \in gone THEN "failed" ELSE stage[a]]
  /\ via' = [a \in Asks |-> IF a \in gone THEN None ELSE via[a]]
  /\ UNCHANGED rebound

InSlot == IF waiter = None THEN {} ELSE {waiter}

\* failPending: the requests in flight on link k are rejected
InFlight(k) == {a \in Asks : via[a] = k /\ stage[a] \in {"listing", "resolving", "sending"}}

-----------------------------------------------------------------------------
(* Connections.                                                            *)

Fresh(k) == phase[k] = "closed" /\ k # client /\ \A a \in Asks : via[a] # k

\* connect(): the client, else the attempt in progress, else a new attempt on link k.  auto:
\* the caller schedules a reconnect when it fails.
Connect(k, auto) ==
  IF Connected
  THEN k = client /\ UNCHANGED attemptVars
  ELSE IF connecting # None
  THEN /\ k = connecting
       /\ kept' = IF auto THEN kept \cup {k} ELSE kept
       /\ UNCHANGED <<phase, born, connecting>>
  ELSE /\ active /\ Fresh(k)
       /\ phase' = [phase EXCEPT ![k] = "spawning"]
       /\ born' = [born EXCEPT ![k] = generation]
       /\ kept' = IF auto THEN kept \cup {k} ELSE kept \ {k}
       /\ connecting' = k

CanConnect == Connected \/ connecting # None \/ active

\* the attempt on link k ends without a connection
AttemptEnds(k) ==
  /\ phase' = [phase EXCEPT ![k] = "closed"]
  /\ connecting' = IF connecting = k THEN None ELSE connecting
  /\ retry' = (retry \/ (k \in kept /\ active))
  /\ kept' = kept \ {k}
  /\ born' = [born EXCEPT ![k] = 0]
  /\ UNCHANGED client

\* spawnBrokerIfNeeded has returned; registration() throws without a context
Spawned(k) ==
  /\ Event /\ phase[k] = "spawning"
  /\ IF active
     THEN /\ phase' = [phase EXCEPT ![k] = "joining"]
          /\ UNCHANGED <<born, kept, client, connecting, retry>>
     ELSE AttemptEnds(k)
  /\ UNCHANGED <<lifeVars, askVars, peerVars>>

\* no broker, no connection, or a refused registration
AttemptFails(k) ==
  /\ Event /\ phase[k] \in {"spawning", "joining"}
  /\ AttemptEnds(k)
  /\ UNCHANGED <<lifeVars, askVars, peerVars>>

\* the registered frame; the mail that comes in the same chunk is emitted before the
\* continuation that installs the client, and so to nobody
InstallsAny(k) == TRUE                                                \* mutant
Installs(k) == born[k] = generation

Registered(k) ==
  /\ Event /\ phase[k] = "joining"
  /\ IF Installs(k)
     THEN /\ phase' = [phase EXCEPT ![k] = "up"]
          /\ client' = k
          /\ connecting' = IF connecting = k THEN None ELSE connecting
          /\ kept' = kept \ {k}
     ELSE /\ phase' = [phase EXCEPT ![k] = "leaving"]
          /\ UNCHANGED <<client, connecting, kept>>
  /\ \E S \in SUBSET {m \in Letters : mail[m] = "waiting"} :
       mail' = [m \in Letters |-> IF m \in S THEN "dropped" ELSE mail[m]]
  /\ UNCHANGED <<lifeVars, born, retry, askVars, wire, delivered, answer>>

\* the broker is killed and the socket does not say so, until a heartbeat fails
Dies(k) ==
  /\ Event /\ phase[k] = "up"
  /\ phase' = [phase EXCEPT ![k] = "dead"]
  /\ UNCHANGED <<lifeVars, born, kept, client, connecting, retry, askVars, peerVars>>

\* the socket is destroyed, by a failed heartbeat, a socket error or the broker
Breaks(k) ==
  /\ Event /\ phase[k] \in {"up", "dead"}
  /\ phase' = [phase EXCEPT ![k] = "broken"]
  /\ UNCHANGED <<lifeVars, born, kept, client, connecting, retry, askVars, peerVars>>

NeverReconnects(k) == retry                                           \* mutant
Reconnects(k) == retry \/ (client = k /\ active)

\* the close event of a broken link, "disconnected"
Lost(k) ==
  /\ Event /\ phase[k] = "broken"
  /\ phase' = [phase EXCEPT ![k] = "closed"] /\ born' = [born EXCEPT ![k] = 0]
  /\ client' = IF client = k THEN None ELSE client
  /\ retry' = Reconnects(k)
  /\ FailAsks(IF client = k THEN InSlot ELSE {}, InFlight(k))
  /\ wire' = {w \in wire : w[2] # k}
  /\ UNCHANGED <<lifeVars, kept, connecting, delivered, answer, mail>>

\* the close event of a link that disconnect() ends, for a stale attempt its end
Left(k) ==
  /\ Event /\ phase[k] = "leaving"
  /\ AttemptEnds(k)
  /\ wire' = {w \in wire : w[2] # k}
  /\ UNCHANGED <<lifeVars, askVars, delivered, answer, mail>>

\* the timers: the one of start, and the reconnect timer
Boot(k) ==
  /\ Event /\ booting /\ booting' = FALSE
  /\ Connect(k, TRUE)
  /\ UNCHANGED <<generation, active, client, retry, askVars, peerVars>>

Retry(k) ==
  /\ Event /\ retry /\ retry' = FALSE
  /\ Connect(k, TRUE)
  /\ UNCHANGED <<lifeVars, client, askVars, peerVars>>

-----------------------------------------------------------------------------
(* The life of the session.                                                *)

\* teardownSession: attempts in progress go on by themselves
Teardown ==
  /\ generation < MaxGeneration /\ generation' = generation + 1
  /\ retry' = FALSE
  /\ FailAsks(InSlot, IF client = None THEN {} ELSE InFlight(client))
  /\ phase' = [k \in Links |-> IF k = client /\ phase[k] \in {"up", "dead"}
                               THEN "leaving" ELSE phase[k]]
  /\ client' = None /\ connecting' = None
  /\ UNCHANGED <<born, kept, peerVars>>

\* session_start, or a turn of another session; a new start follows no shutdown
Start ==
  /\ Event /\ (active \/ generation = 0)
  /\ Teardown
  /\ active' = TRUE /\ booting' = TRUE

Shutdown ==
  /\ Event /\ active
  /\ Teardown
  /\ active' = FALSE /\ booting' = FALSE

-----------------------------------------------------------------------------
(* Asks.                                                                   *)

Moves(a, s, k) == stage' = [stage EXCEPT ![a] = s] /\ via' = [via EXCEPT ![a] = k]

\* the call awaits a connection, at stage s; it fails when there is no context
AwaitConnection(a, s) ==
  \/ \E k \in Links :
       /\ Connect(k, FALSE) /\ Moves(a, s, k)
       /\ UNCHANGED <<client, retry, promise, waiter, rebound>>
  \/ ~CanConnect /\ FailAsks({}, {a}) /\ UNCHANGED linkVars

Call(a) ==
  /\ Event /\ stage[a] = "idle" /\ active
  /\ IF waiter # None
     THEN FailAsks({}, {a}) /\ UNCHANGED linkVars
     ELSE AwaitConnection(a, "roster")
  /\ UNCHANGED <<lifeVars, peerVars>>

\* requireActiveSocket
Usable(k) == phase[k] \in {"up", "dead"}

\* roster: list the sessions
ContinueList(a) ==
  /\ Ready(a) /\ stage[a] = "roster"
  /\ IF Usable(via[a])
     THEN Moves(a, "listing", via[a]) /\ UNCHANGED <<promise, waiter, rebound>>
     ELSE FailAsks({}, {a})
  /\ UNCHANGED <<lifeVars, linkVars, peerVars>>

\* the broker's list has come; the list of Claude sessions is read from their registry
Listed(a) ==
  /\ Event /\ stage[a] = "listing" /\ phase[via[a]] = "up"
  /\ Moves(a, "peers", None)
  /\ UNCHANGED <<lifeVars, linkVars, promise, waiter, rebound, peerVars>>

\* the peer is in the lists and the slot is free, or the ask fails
Targeted(a) ==
  /\ Event /\ stage[a] = "peers"
  /\ \/ waiter = None /\ AwaitConnection(a, "joining")
     \/ FailAsks({}, {a}) /\ UNCHANGED linkVars
  /\ UNCHANGED <<lifeVars, peerVars>>

\* waitFor, then send: the slot is not looked at again
ContinueSend(a) ==
  /\ Ready(a) /\ stage[a] = "joining"
  /\ IF phase[via[a]] = "closed"
     THEN FailAsks({}, {a})
     ELSE /\ promise' = [promise EXCEPT ![a] = "open"]
          /\ waiter' = a
          /\ IF Usable(via[a]) THEN Moves(a, "resolving", via[a]) ELSE Moves(a, "failed", None)
          /\ UNCHANGED rebound
  /\ UNCHANGED <<lifeVars, linkVars, peerVars>>

\* client.send: the target has been looked up in a fresh list, the question is written
Resolved(a) ==
  /\ Event /\ stage[a] = "resolving" /\ phase[via[a]] = "up"
  /\ wire' = wire \cup {<<a, via[a]>>}
  /\ Moves(a, "sending", via[a])
  /\ UNCHANGED <<lifeVars, linkVars, promise, waiter, rebound, delivered, answer, mail>>

\* the broker delivers the question; its answer to the sender is another frame
Delivers(a, k) ==
  /\ Event /\ <<a, k>> \in wire /\ phase[k] \in {"up", "leaving", "broken"}
  /\ wire' = wire \ {<<a, k>>}
  /\ delivered' = delivered \cup {a}
  /\ UNCHANGED <<lifeVars, linkVars, askVars, answer, mail>>

\* the delivered frame: the call awaits its waiter, which may have been rejected meanwhile
Sent(a) ==
  /\ Event /\ stage[a] = "sending" /\ a \in delivered /\ phase[via[a]] = "up"
  /\ IF promise[a] = "open" THEN Moves(a, "waiting", None) ELSE Moves(a, "failed", None)
  /\ UNCHANGED <<lifeVars, linkVars, promise, waiter, rebound, peerVars>>

\* delivery_failed: the target has registered again, once; or another refusal
Refused(a) ==
  /\ Event /\ stage[a] = "sending" /\ <<a, via[a]>> \in wire /\ phase[via[a]] = "up"
  /\ wire' = wire \ {<<a, via[a]>>}
  /\ \/ /\ a \notin rebound /\ rebound' = rebound \cup {a}
        /\ Moves(a, "resolving", via[a]) /\ UNCHANGED <<promise, waiter>>
     \/ FailAsks({a}, {a})
  /\ UNCHANGED <<lifeVars, linkVars, delivered, answer, mail>>

\* a request is not answered in time: the call fails, its waiter stays
RequestTimesOut(a) ==
  /\ Event /\ stage[a] \in {"listing", "resolving", "sending"}
  /\ FailAsks({}, {a})
  /\ UNCHANGED <<lifeVars, linkVars, peerVars>>

\* the time-out of waitFor, or the abort signal: both reject the waiter.  A signal that was
\* aborted before waitFor listened is not noticed.
GivesUp(a) ==
  /\ Event /\ promise[a] = "open"
  /\ FailAsks({a}, {})
  /\ UNCHANGED <<lifeVars, linkVars, peerVars>>

AnswersAny(a) == waiter # None                                        \* mutant
Answers(a) == waiter = a

\* the peer's reply: to the waiter when it is in the slot, else to the inbox as a message
ReplyComes(a) ==
  /\ Event /\ a \in delivered \ answer /\ stage[a] # "sending"
  /\ client # None /\ phase[client] = "up"
  /\ answer' = answer \cup {a}
  /\ IF Answers(a)
     THEN /\ promise' = [promise EXCEPT ![waiter] = "resolved"]
          /\ waiter' = None
          /\ IF stage[waiter] = "waiting"
             THEN Moves(waiter, "answered", None) ELSE UNCHANGED <<stage, via>>
          /\ UNCHANGED rebound
     ELSE UNCHANGED askVars
  /\ UNCHANGED <<lifeVars, linkVars, wire, delivered, mail>>

\* mail that comes on the installed client
LetterComes(m) ==
  /\ Event /\ mail[m] = "waiting" /\ client # None /\ phase[client] = "up"
  /\ mail' = [mail EXCEPT ![m] = "received"]
  /\ UNCHANGED <<lifeVars, linkVars, askVars, wire, delivered, answer>>

-----------------------------------------------------------------------------
LinkStep(k) ==
  \/ Spawned(k) \/ AttemptFails(k) \/ Registered(k)
  \/ Dies(k) \/ Breaks(k) \/ Lost(k) \/ Left(k) \/ Boot(k) \/ Retry(k)

AskStep(a) ==
  \/ Call(a) \/ ContinueList(a) \/ Listed(a) \/ Targeted(a) \/ ContinueSend(a) \/ Resolved(a)
  \/ \E k \in Links : Delivers(a, k)
  \/ Sent(a) \/ Refused(a) \/ RequestTimesOut(a) \/ GivesUp(a) \/ ReplyComes(a)

SessionNext ==
  \/ Start \/ Shutdown
  \/ \E k \in Links : LinkStep(k)
  \/ \E a \in Asks : AskStep(a)
  \/ \E m \in Letters : LetterComes(m)

SessionSpec == SessionInit /\ [][SessionNext]_sessionVars

\* what becomes of a link, and of a call, without anybody's doing
Proceeds(k) ==
  \/ Spawned(k) \/ AttemptFails(k) \/ Registered(k)
  \/ phase[k] = "dead" /\ Breaks(k)
  \/ Lost(k) \/ Left(k)
GoesOn(a) ==
  ContinueList(a) \/ Targeted(a) \/ ContinueSend(a) \/ Sent(a) \/ RequestTimesOut(a)

\* The host and the broker answer or time out, timers fire, closed sockets say so, and a
\* connection whose broker is dead is found out.  Nobody needs to deliver or to reply.
SessionFairness ==
  /\ \A k \in Links : WF_sessionVars(Proceeds(k))
  /\ WF_sessionVars(\E k \in Links : Boot(k) \/ Retry(k))
  /\ \A a \in Asks : WF_sessionVars(GoesOn(a)) /\ WF_sessionVars(GivesUp(a))

FairSession == SessionSpec /\ SessionFairness

-----------------------------------------------------------------------------
SessionTypeOK ==
  /\ generation \in 0..MaxGeneration /\ active \in BOOLEAN /\ booting \in BOOLEAN
  /\ phase \in [Links -> Phases] /\ born \in [Links -> 0..MaxGeneration]
  /\ kept \subseteq Links /\ retry \in BOOLEAN
  /\ client \in Links \cup {None} /\ connecting \in Links \cup {None}
  /\ stage \in [Asks -> Stages] /\ via \in [Asks -> Links \cup {None}]
  /\ promise \in [Asks -> {"none", "open", "resolved", "rejected"}]
  /\ waiter \in Asks \cup {None} /\ rebound \subseteq Asks
  /\ wire \subseteq Asks \X Links /\ delivered \subseteq Asks /\ answer \subseteq Asks
  /\ mail \in [Letters -> {"waiting", "received", "dropped"}]

\* A connection that is up is the client of the running session: attempts that finish
\* after a shutdown or a replacement are given up, and no two are ever kept.
OneConnection ==
  \A k \in Links : phase[k] \in {"up", "dead"} => client = k /\ born[k] = generation /\ active

\* A running session without a connection has something under way that will make one: its
\* start, an attempt, the reconnect timer, or the close event of the connection it had.
NeverStranded ==
  active => \/ Connected \/ booting \/ retry
            \/ client # None /\ phase[client] = "broken"
            \/ connecting # None /\ (connecting \in kept \/ client # None)

\* The rest of what the theorems rest on: the links of the running session.  The client was
\* installed and has not said that it is closed; the attempt in progress is of this generation,
\* no other one is, and it was begun without a connection.  A call awaits an answer of its
\* link, and nothing is written before it.
ClientWasInstalled == client # None => phase[client] \in {"up", "dead", "broken"}
NoneIsBornLater == \A k \in Links : born[k] <= generation
AttemptIsCurrent ==
  /\ connecting # None => /\ active /\ ~Connected /\ born[connecting] = generation
                          /\ phase[connecting] \in {"spawning", "joining"}
  /\ \A k \in Links : phase[k] \in {"spawning", "joining"} /\ born[k] = generation => k = connecting
CallsAwaitLinks ==
  \A a \in Asks :
    stage[a] \in {"roster", "listing", "joining", "resolving", "sending"} => via[a] \in Links
AskersWrite == \A w \in wire : stage[w[1]] # "idle"
SessionInv ==
  /\ SessionTypeOK /\ OneConnection /\ NeverStranded
  /\ ClientWasInstalled /\ NoneIsBornLater /\ AttemptIsCurrent /\ CallsAwaitLinks /\ AskersWrite

\* Every ask ends, whatever happens to the connection, the session and the slot.
EveryPeerAskEnds == \A a \in Asks : stage[a] # "idle" ~> Ended(a)

\* The calls of ask keep the promises of PeerAsk.
Outcome(a) ==
  IF stage[a] \in {"idle", "answered", "failed"} THEN stage[a] ELSE "open"
Abstract == INSTANCE PeerAsk WITH outcome <- [a \in Asks |-> Outcome(a)]
ImplementsPeerAsk == Abstract!Spec

\* What README.md says of queued mail, that it stays until delivery or expiry: mail that
\* leaves the broker reaches the session.
MailReachesTheSession == \A m \in Letters : mail[m] # "dropped"
=============================================================================
