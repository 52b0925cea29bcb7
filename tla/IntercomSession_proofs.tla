----------------------- MODULE IntercomSession_proofs -----------------------
(***************************************************************************)
(* Proofs about the intercom on the side of a session: the links of the    *)
(* extension and the asks that travel over them (IntercomSession, with the *)
(* refinement of PeerAsk), the messages it receives (IntercomInbox), and   *)
(* the start of the broker that its links need (BrokerSpawn).              *)
(***************************************************************************)
EXTENDS IntercomSession, IntercomInbox, BrokerSpawn, MapLemmas, SequenceTheorems

-----------------------------------------------------------------------------
(* The connection of a session.                                            *)

\* The initial state has the inductive invariant.
LEMMA SessionInvInit == SessionInit => SessionInv
<1> SUFFICES ASSUME SessionInit PROVE SessionInv
  OBVIOUS
<1>1. SessionTypeOK
  <2>1. 0 \in 0..MaxGeneration
    BY SessionAssumption
  <2>2. /\ generation \in 0..MaxGeneration /\ active \in BOOLEAN /\ booting \in BOOLEAN
        /\ phase \in [Links -> Phases] /\ born \in [Links -> 0..MaxGeneration]
    BY <2>1 DEF SessionInit, Phases
  <2>3. QED
    BY <2>2 DEF SessionInit, SessionTypeOK, Stages
<1>2. OneConnection /\ NeverStranded /\ ClientWasInstalled /\ CallsAwaitLinks /\ AskersWrite
  BY SessionAssumption DEF SessionInit, OneConnection, NeverStranded, ClientWasInstalled,
                           CallsAwaitLinks, AskersWrite
<1>3. NoneIsBornLater /\ AttemptIsCurrent
  BY SessionAssumption DEF SessionInit, NoneIsBornLater, AttemptIsCurrent
<1>4. QED
  BY <1>1, <1>2, <1>3 DEF SessionInv

\* What the invariant says of links and the session's life, and what it says of asks.
LinkTypes ==
  /\ generation \in 0..MaxGeneration /\ active \in BOOLEAN /\ booting \in BOOLEAN
  /\ phase \in [Links -> Phases] /\ born \in [Links -> 0..MaxGeneration]
  /\ kept \subseteq Links /\ retry \in BOOLEAN
  /\ client \in Links \cup {None} /\ connecting \in Links \cup {None}
LinkInv ==
  /\ LinkTypes /\ OneConnection /\ NeverStranded
  /\ ClientWasInstalled /\ NoneIsBornLater /\ AttemptIsCurrent
AskTypes ==
  /\ stage \in [Asks -> Stages] /\ via \in [Asks -> Links \cup {None}]
  /\ promise \in [Asks -> {"none", "open", "resolved", "rejected"}]
  /\ waiter \in Asks \cup {None} /\ rebound \subseteq Asks
  /\ wire \subseteq Asks \X Links /\ delivered \subseteq Asks /\ answer \subseteq Asks
  /\ mail \in [Letters -> {"waiting", "received", "dropped"}]
AskInvs == AskTypes /\ CallsAwaitLinks /\ AskersWrite

\* The invariant has a half about the links and one about the asks.
LEMMA InvHalves == SessionInv <=> LinkInv /\ AskInvs
BY DEF SessionInv, SessionTypeOK, LinkInv, LinkTypes, AskInvs, AskTypes

\* The two halves make up the invariant of the next state.
LEMMA InvHalvesAfter == LinkInv' /\ AskInvs' => SessionInv'
BY DEF SessionInv, SessionTypeOK, LinkInv, LinkTypes, AskInvs, AskTypes

\* A step that leaves the life and the links of the session alone keeps the first half.
LEMMA LinksRest ==
  ASSUME LinkInv, UNCHANGED <<lifeVars, linkVars>> PROVE LinkInv'
BY DEF LinkInv, LinkTypes, lifeVars, linkVars, attemptVars, OneConnection, NeverStranded, Connected,
       ClientWasInstalled, NoneIsBornLater, AttemptIsCurrent

\* connect() leaves the connection alone; a new attempt is the one of this generation.
LEMMA ConnectKeeps ==
  ASSUME LinkInv, NEW k \in Links, NEW auto \in BOOLEAN, Connect(k, auto),
         UNCHANGED <<generation, active, client>>,
         booting' \in BOOLEAN, retry' \in BOOLEAN,
         auto \/ (booting' = booting /\ retry' = retry)
  PROVE  LinkInv'
<1> USE DEF LinkInv
<1>1. k \in Links /\ None \notin Links
  BY SessionAssumption
<1>2. CASE Connected
  <2>1. UNCHANGED attemptVars
    BY <1>2 DEF Connect
  <2>2. QED
    BY <1>2, <2>1 DEF LinkTypes, attemptVars, OneConnection, NeverStranded, Connected,
                      ClientWasInstalled, NoneIsBornLater, AttemptIsCurrent
<1>3. CASE ~Connected /\ connecting # None
  <2>1. /\ k = connecting /\ UNCHANGED <<phase, born, connecting>>
        /\ kept' = IF auto THEN kept \cup {k} ELSE kept
    BY <1>3 DEF Connect
  <2>2. NeverStranded'
    BY <1>3, <2>1 DEF NeverStranded, Connected
  <2>3. QED
    BY <1>1, <2>1, <2>2 DEF LinkTypes, OneConnection, Connected, ClientWasInstalled,
                            NoneIsBornLater, AttemptIsCurrent
<1>4. CASE ~Connected /\ connecting = None
  <2>1. /\ active /\ Fresh(k)
        /\ phase' = [phase EXCEPT ![k] = "spawning"] /\ born' = [born EXCEPT ![k] = generation]
        /\ kept' = IF auto THEN kept \cup {k} ELSE kept \ {k}
        /\ connecting' = k
    BY <1>4 DEF Connect
  <2>2. /\ \A l \in Links : phase'[l] = IF l = k THEN "spawning" ELSE phase[l]
        /\ \A l \in Links : born'[l] = IF l = k THEN generation ELSE born[l]
    BY <2>1 DEF LinkTypes
  <2>3. phase[k] = "closed" /\ k # client /\ client' = client
    BY <2>1 DEF Fresh
  <2>4. LinkTypes'
    BY <2>1, <1>1 DEF LinkTypes, Phases
  <2>5. Connected' = Connected
    BY <2>2, <2>3 DEF Connected, LinkTypes
  <2>6. OneConnection' /\ ClientWasInstalled'
    BY <2>2, <2>3 DEF OneConnection, ClientWasInstalled, LinkTypes
  <2>7. NeverStranded'
    <3>1. auto => k \in kept'
      BY <2>1
    <3>2. client # None /\ phase[client] = "broken" => client' # None /\ phase'[client'] = "broken"
      BY <2>2, <2>3 DEF LinkTypes
    <3>3. QED
      BY <1>1, <1>4, <2>1, <3>1, <3>2 DEF NeverStranded
  <2>8. NoneIsBornLater'
    BY <2>2 DEF NoneIsBornLater, LinkTypes
  <2>9. AttemptIsCurrent'
    BY <1>1, <1>4, <2>1, <2>2, <2>5 DEF AttemptIsCurrent, LinkTypes
  <2>10. QED
    BY <2>4, <2>6, <2>7, <2>8, <2>9
<1>5. QED
  BY <1>2, <1>3, <1>4

\* An attempt that ends leaves the reconnect timer behind when somebody counts on it.
LEMMA AttemptEndsKeeps ==
  ASSUME LinkInv, NEW k \in Links, phase[k] \in {"spawning", "joining", "leaving"}, AttemptEnds(k),
         UNCHANGED lifeVars
  PROVE  LinkInv'
<1> USE DEF LinkInv, lifeVars
<1>1. None \notin Links /\ 0 \in 0..MaxGeneration /\ generation \in Nat
  BY SessionAssumption DEF LinkTypes
<1>2. /\ \A l \in Links : phase'[l] = IF l = k THEN "closed" ELSE phase[l]
      /\ \A l \in Links : born'[l] = IF l = k THEN 0 ELSE born[l]
      /\ connecting' = (IF connecting = k THEN None ELSE connecting)
      /\ retry' = (retry \/ (k \in kept /\ active)) /\ kept' = kept \ {k} /\ client' = client
  BY DEF AttemptEnds, LinkTypes
<1>3. client # k
  BY <1>1 DEF ClientWasInstalled
<1>4. Connected' = Connected
  BY <1>1, <1>2, <1>3 DEF Connected, LinkTypes
<1>5. LinkTypes'
  BY <1>1, <1>2 DEF AttemptEnds, LinkTypes, Phases
<1>6. OneConnection' /\ ClientWasInstalled' /\ NoneIsBornLater'
  BY <1>1, <1>2, <1>3 DEF OneConnection, ClientWasInstalled, NoneIsBornLater, LinkTypes
<1>7. AttemptIsCurrent'
  BY <1>1, <1>2, <1>4 DEF AttemptIsCurrent, LinkTypes
<1>8. NeverStranded'
  <2>1. client # None /\ phase[client] = "broken" => client' # None /\ phase'[client'] = "broken"
    BY <1>2, <1>3 DEF LinkTypes
  <2>2. ASSUME connecting # None, connecting \in kept \/ client # None, active
        PROVE  \/ Connected \/ retry' \/ (client # None /\ phase[client] = "broken")
               \/ connecting' # None /\ (connecting' \in kept' \/ client' # None)
    <3>1. client # None => Connected \/ phase[client] = "broken"
      BY DEF ClientWasInstalled, Connected
    <3>2. CASE connecting = k
      BY <1>2, <2>2, <3>1, <3>2
    <3>3. CASE connecting # k
      BY <1>2, <2>2, <3>3
    <3>4. QED
      BY <3>2, <3>3
  <2>3. QED
    BY <1>2, <1>4, <2>1, <2>2 DEF NeverStranded
<1>9. QED
  BY <1>5, <1>6, <1>7, <1>8

\* The events of one link.
LEMMA LinkStepKeepsLinks ==
  ASSUME LinkInv, NEW k \in Links, LinkStep(k) PROVE LinkInv'
<1> USE DEF LinkInv
<1>1. None \notin Links /\ 0 \in 0..MaxGeneration /\ generation \in Nat
  BY SessionAssumption DEF LinkTypes
<1>2. CASE Spawned(k)
  <2>1. CASE active
    <3>1. /\ phase[k] = "spawning" /\ phase' = [phase EXCEPT ![k] = "joining"]
          /\ UNCHANGED <<lifeVars, born, kept, client, connecting, retry>>
      BY <1>2, <2>1 DEF Spawned
    <3>2. \A l \in Links : phase'[l] = IF l = k THEN "joining" ELSE phase[l]
      BY <3>1 DEF LinkTypes
    <3>3. client # k
      BY <1>1, <3>1 DEF ClientWasInstalled
    <3>4. Connected' = Connected
      BY <3>1, <3>2, <3>3 DEF Connected, LinkTypes
    <3>5. LinkTypes' /\ NoneIsBornLater'
      BY <3>1 DEF LinkTypes, Phases, NoneIsBornLater, lifeVars
    <3>6. OneConnection' /\ ClientWasInstalled'
      BY <3>1, <3>2, <3>3 DEF OneConnection, ClientWasInstalled, LinkTypes, lifeVars
    <3>7. AttemptIsCurrent'
      BY <3>1, <3>2, <3>4 DEF AttemptIsCurrent, LinkTypes, lifeVars
    <3>8. NeverStranded'
      BY <3>1, <3>2, <3>3, <3>4 DEF NeverStranded, LinkTypes, lifeVars
    <3>9. QED
      BY <3>5, <3>6, <3>7, <3>8
  <2>2. CASE ~active
    BY <1>2, <2>2, AttemptEndsKeeps DEF Spawned
  <2>3. QED
    BY <2>1, <2>2
<1>3. CASE AttemptFails(k) \/ Left(k)
  BY <1>3, AttemptEndsKeeps DEF AttemptFails, Left
<1>4. CASE Registered(k)
  <2>1. phase[k] = "joining" /\ UNCHANGED <<lifeVars, born, retry>>
    BY <1>4 DEF Registered
  <2>2. client # k
    BY <1>1, <2>1 DEF ClientWasInstalled
  <2>3. CASE Installs(k)
    <3>1. /\ phase' = [phase EXCEPT ![k] = "up"] /\ client' = k
          /\ connecting' = (IF connecting = k THEN None ELSE connecting)
          /\ kept' = kept \ {k}
      BY <1>4, <2>3 DEF Registered
    <3>2. \A l \in Links : phase'[l] = IF l = k THEN "up" ELSE phase[l]
      BY <3>1 DEF LinkTypes
    <3>3. connecting = k /\ active /\ ~Connected /\ born[k] = generation
      BY <1>1, <2>1, <2>3 DEF AttemptIsCurrent, Installs
    <3>4. \A l \in Links : phase[l] \notin {"up", "dead"}
      BY <1>1, <3>3 DEF OneConnection, Connected
    <3>5. LinkTypes'
      BY <2>1, <3>1 DEF LinkTypes, Phases, lifeVars
    <3>6. OneConnection' /\ ClientWasInstalled' /\ NoneIsBornLater' /\ NeverStranded'
      BY <1>1, <2>1, <3>1, <3>2, <3>3, <3>4
      DEF OneConnection, ClientWasInstalled, NoneIsBornLater, NeverStranded, Connected, lifeVars
    <3>7. AttemptIsCurrent'
      BY <2>1, <3>1, <3>2, <3>3 DEF AttemptIsCurrent, lifeVars
    <3>8. QED
      BY <3>5, <3>6, <3>7
  <2>4. CASE ~Installs(k)
    <3>1. phase' = [phase EXCEPT ![k] = "leaving"] /\ UNCHANGED <<client, connecting, kept>>
      BY <1>4, <2>4 DEF Registered
    <3>2. \A l \in Links : phase'[l] = IF l = k THEN "leaving" ELSE phase[l]
      BY <3>1 DEF LinkTypes
    <3>3. connecting # k
      BY <1>1, <2>4 DEF AttemptIsCurrent, Installs
    <3>4. Connected' = Connected
      BY <2>2, <3>1, <3>2 DEF Connected, LinkTypes
    <3>5. LinkTypes'
      BY <2>1, <3>1 DEF LinkTypes, Phases, lifeVars
    <3>6. OneConnection' /\ ClientWasInstalled' /\ NoneIsBornLater'
      BY <2>1, <2>2, <3>1, <3>2
      DEF OneConnection, ClientWasInstalled, NoneIsBornLater, LinkTypes, lifeVars
    <3>7. AttemptIsCurrent'
      BY <1>1, <2>1, <3>1, <3>2, <3>3, <3>4 DEF AttemptIsCurrent, LinkTypes, lifeVars
    <3>8. NeverStranded'
      BY <2>1, <2>2, <3>1, <3>2, <3>4 DEF NeverStranded, LinkTypes, lifeVars
    <3>9. QED
      BY <3>5, <3>6, <3>7, <3>8
  <2>5. QED
    BY <2>3, <2>4
<1>5. CASE Dies(k) \/ Breaks(k)
  <2>1. /\ phase[k] \in {"up", "dead"}
        /\ UNCHANGED <<lifeVars, born, kept, client, connecting, retry>>
    BY <1>5 DEF Dies, Breaks
  <2>2. PICK p \in {"dead", "broken"} : phase' = [phase EXCEPT ![k] = p]
    BY <1>5 DEF Dies, Breaks
  <2>3. \A l \in Links : phase'[l] = IF l = k THEN p ELSE phase[l]
    BY <2>2 DEF LinkTypes
  <2>4. client = k /\ active /\ connecting = None
    <3>1. client = k /\ active
      BY <2>1 DEF OneConnection
    <3>2. Connected
      BY <1>1, <2>1, <3>1 DEF Connected
    <3>3. QED
      BY <3>1, <3>2 DEF AttemptIsCurrent
  <2>5. LinkTypes' /\ NoneIsBornLater'
    BY <2>1, <2>2 DEF LinkTypes, Phases, NoneIsBornLater, lifeVars
  <2>6. OneConnection' /\ ClientWasInstalled'
    BY <1>1, <2>1, <2>3, <2>4 DEF OneConnection, ClientWasInstalled, lifeVars
  <2>7. NeverStranded' /\ AttemptIsCurrent'
    BY <1>1, <2>1, <2>3, <2>4 DEF NeverStranded, AttemptIsCurrent, Connected, lifeVars
  <2>8. QED
    BY <2>5, <2>6, <2>7
<1>6. CASE Lost(k)
  <2>1. /\ phase[k] = "broken" /\ UNCHANGED <<lifeVars, kept, connecting>>
        /\ phase' = [phase EXCEPT ![k] = "closed"] /\ born' = [born EXCEPT ![k] = 0]
        /\ client' = (IF client = k THEN None ELSE client)
        /\ retry' = (retry \/ (client = k /\ active))
    BY <1>6 DEF Lost, Reconnects
  <2>2. /\ \A l \in Links : phase'[l] = IF l = k THEN "closed" ELSE phase[l]
        /\ \A l \in Links : born'[l] = IF l = k THEN 0 ELSE born[l]
    BY <2>1 DEF LinkTypes
  <2>3. Connected' = Connected
    BY <2>1, <2>2 DEF Connected, LinkTypes
  <2>4. LinkTypes'
    BY <1>1, <2>1 DEF LinkTypes, Phases, lifeVars
  <2>5. OneConnection' /\ ClientWasInstalled' /\ NoneIsBornLater'
    BY <1>1, <2>1, <2>2
    DEF OneConnection, ClientWasInstalled, NoneIsBornLater, LinkTypes, lifeVars
  <2>6. AttemptIsCurrent'
    BY <1>1, <2>1, <2>2, <2>3 DEF AttemptIsCurrent, LinkTypes, lifeVars
  <2>7. NeverStranded'
    BY <2>1, <2>2, <2>3 DEF NeverStranded, LinkTypes, lifeVars
  <2>8. QED
    BY <2>4, <2>5, <2>6, <2>7
<1>7. CASE Boot(k) \/ Retry(k)
  <2>1. /\ Connect(k, TRUE) /\ UNCHANGED <<generation, active, client>>
        /\ booting' \in BOOLEAN /\ retry' \in BOOLEAN
    BY <1>7 DEF Boot, Retry, lifeVars, LinkTypes
  <2>2. QED
    BY <2>1, ConnectKeeps
<1>8. QED
  BY <1>2, <1>3, <1>4, <1>5, <1>6, <1>7 DEF LinkStep

\* A start or a shutdown ends the connection and disowns the attempt.
LEMMA LifeStepKeepsLinks ==
  ASSUME LinkInv, Start \/ Shutdown PROVE LinkInv'
<1> USE DEF LinkInv
<1>1. None \notin Links /\ generation \in Nat
  BY SessionAssumption DEF LinkTypes
<1>2. /\ generation < MaxGeneration /\ generation' = generation + 1
      /\ phase' = [k \in Links |-> IF k = client /\ phase[k] \in {"up", "dead"}
                                   THEN "leaving" ELSE phase[k]]
      /\ client' = None /\ connecting' = None /\ retry' = FALSE /\ UNCHANGED <<born, kept>>
  BY DEF Start, Shutdown, Teardown
<1>3. active' \in BOOLEAN /\ booting' \in BOOLEAN /\ (active' => booting')
  BY DEF Start, Shutdown
<1>4. \A k \in Links : /\ phase'[k] \notin {"up", "dead"}
                      /\ phase'[k] # "leaving" => phase'[k] = phase[k]
  BY <1>2 DEF OneConnection, LinkTypes
<1>5. LinkTypes'
  <2>1. generation' \in 0..MaxGeneration
    BY <1>1, <1>2, SessionAssumption
  <2>2. phase' \in [Links -> Phases]
    BY <1>2 DEF LinkTypes, Phases
  <2>3. QED
    BY <1>2, <1>3, <2>1, <2>2 DEF LinkTypes
<1>6. \A k \in Links : born'[k] < generation'
  BY <1>1, <1>2 DEF NoneIsBornLater, LinkTypes
<1>7. OneConnection' /\ NeverStranded' /\ ClientWasInstalled'
  BY <1>2, <1>3, <1>4 DEF OneConnection, NeverStranded, ClientWasInstalled
<1>8. NoneIsBornLater' /\ AttemptIsCurrent'
  BY <1>1, <1>2, <1>4, <1>5, <1>6 DEF NoneIsBornLater, AttemptIsCurrent, LinkTypes
<1>9. QED
  BY <1>5, <1>7, <1>8

\* A step of an ask keeps the links: the most it does is to start an attempt.
LEMMA AskStepKeepsLinks ==
  ASSUME LinkInv, NEW a \in Asks, AskStep(a) PROVE LinkInv'
<1>1. CASE \/ ContinueList(a) \/ Listed(a) \/ ContinueSend(a) \/ Resolved(a)
           \/ \E k \in Links : Delivers(a, k)
           \/ Sent(a) \/ Refused(a) \/ RequestTimesOut(a) \/ GivesUp(a) \/ ReplyComes(a)
  BY <1>1, LinksRest DEF ContinueList, Listed, ContinueSend, Resolved, Delivers, Sent, Refused,
                         RequestTimesOut, GivesUp, ReplyComes
<1>2. ASSUME NEW s, AwaitConnection(a, s), UNCHANGED lifeVars PROVE LinkInv'
  <2>1. CASE UNCHANGED linkVars
    BY <1>2, <2>1, LinksRest
  <2>2. CASE \E k \in Links : Connect(k, FALSE) /\ UNCHANGED <<client, retry>>
    BY <1>2, <2>2, ConnectKeeps DEF lifeVars, LinkInv, LinkTypes
  <2>3. QED
    BY <1>2, <2>1, <2>2 DEF AwaitConnection
<1>3. CASE Call(a) \/ Targeted(a)
  <2>1. UNCHANGED lifeVars /\ (UNCHANGED linkVars \/ \E s : AwaitConnection(a, s))
    BY <1>3 DEF Call, Targeted
  <2>2. QED
    BY <1>2, <2>1, LinksRest
<1>4. QED
  BY <1>1, <1>3 DEF AskStep

-----------------------------------------------------------------------------
(* The asks of a session, and the promises of PeerAsk.                     *)

Outcomes == [a \in Asks |-> Outcome(a)]
abstractVars == <<Outcomes, delivered, answer>>
KeepsPromises == Abstract!Next \/ UNCHANGED abstractVars

\* A step that ends no ask.
LEMMA NothingEnds ==
  ASSUME \A b \in Asks : Outcome(b)' = Outcome(b), UNCHANGED <<delivered, answer>>
  PROVE  KeepsPromises
<1>1. Outcomes' = Outcomes
  BY DEF Outcomes
<1>2. QED
  BY <1>1 DEF KeepsPromises, abstractVars

\* A step that ends some open asks without a reply.
LEMMA SomeFail ==
  ASSUME NEW S \in SUBSET Asks, \A b \in S : Outcome(b) = "open",
         \A b \in Asks : Outcome(b)' = IF b \in S THEN "failed" ELSE Outcome(b),
         UNCHANGED <<delivered, answer>>
  PROVE  KeepsPromises
<1>1. Outcomes' = [b \in Asks |-> IF b \in S THEN "failed" ELSE Outcomes[b]]
  BY DEF Outcomes
<1>2. S \subseteq {b \in Asks : Outcomes[b] = "open"}
  BY DEF Outcomes
<1>3. Abstract!Fail(S)
  BY <1>1, <1>2 DEF Abstract!Fail, Abstract!End, Abstract!Open, Outcomes
<1>4. QED
  BY <1>3 DEF KeepsPromises, Abstract!Next

OpenStages == Stages \ {"idle", "answered", "failed"}

\* Only the stage of an ask decides its outcome.
LEMMA OutcomeOfStage ==
  ASSUME AskTypes, NEW b \in Asks
  PROVE  /\ Outcome(b) = "open" <=> stage[b] \in OpenStages
         /\ stage[b] \notin OpenStages => Outcome(b) = stage[b]
BY DEF AskTypes, Outcome, OpenStages, Stages

\* What a step may do to the questions on the wire.
LEMMA AsksKept ==
  ASSUME AskInvs, AskTypes', CallsAwaitLinks',
         \A b \in Asks : stage[b] # "idle" => stage'[b] # "idle",
         \A w \in wire' : w \in wire \/ stage[w[1]] # "idle"
  PROVE  AskInvs'
BY DEF AskInvs, AskTypes, CallsAwaitLinks, AskersWrite

\* A move changes the stage and the link of one ask.
LEMMA MovesStage ==
  ASSUME AskInvs, NEW a \in Asks, NEW s \in Stages, NEW k \in Links \cup {None}, Moves(a, s, k)
  PROVE  /\ stage' \in [Asks -> Stages] /\ via' \in [Asks -> Links \cup {None}]
         /\ \A b \in Asks : /\ stage'[b] = IF b = a THEN s ELSE stage[b]
                            /\ via'[b] = IF b = a THEN k ELSE via[b]
BY DEF AskInvs, AskTypes, Moves

\* An open ask moves on, or fails.
LEMMA OpenAskMoves ==
  ASSUME AskInvs, NEW a \in Asks, stage[a] \in OpenStages,
         NEW s \in OpenStages \cup {"failed"}, NEW k \in Links \cup {None}, Moves(a, s, k),
         s \notin {"peers", "waiting", "failed"} => k \in Links,
         promise' \in [Asks -> {"none", "open", "resolved", "rejected"}],
         waiter' \in Asks \cup {None}, rebound' \subseteq Asks,
         \A w \in wire' : w \in wire \/ (w = <<a, via[a]>> /\ via[a] \in Links),
         UNCHANGED <<delivered, answer, mail>>
  PROVE  AskInvs' /\ KeepsPromises
<1>1. /\ stage' \in [Asks -> Stages] /\ via' \in [Asks -> Links \cup {None}]
      /\ \A b \in Asks : /\ stage'[b] = IF b = a THEN s ELSE stage[b]
                         /\ via'[b] = IF b = a THEN k ELSE via[b]
  BY MovesStage DEF OpenStages, Stages
<1>2. AskTypes'
  BY <1>1 DEF AskInvs, AskTypes
<1>3. AskInvs'
  <2>1. \A w \in wire' : w \in wire \/ stage[w[1]] # "idle"
    BY DEF OpenStages
  <2>2. CallsAwaitLinks'
    BY <1>1 DEF AskInvs, CallsAwaitLinks, OpenStages, Stages
  <2>3. QED
    BY <1>1, <1>2, <2>1, <2>2, AsksKept DEF OpenStages
<1>4. CASE s = "failed"
  <2>1. \A b \in Asks : Outcome(b)' = IF b \in {a} THEN "failed" ELSE Outcome(b)
    BY <1>1, <1>4 DEF Outcome
  <2>2. Outcome(a) = "open"
    BY OutcomeOfStage DEF AskInvs
  <2>3. QED
    BY <1>3, <2>1, <2>2, SomeFail
<1>5. CASE s # "failed"
  <2>1. \A b \in Asks : Outcome(b)' = Outcome(b)
    BY <1>1, <1>5 DEF Outcome, OpenStages, Stages
  <2>2. QED
    BY <1>3, <2>1, NothingEnds
<1>6. QED
  BY <1>4, <1>5

\* Asks that fail, with those whose waiter is rejected under them.
LEMMA FailedStages ==
  ASSUME AskInvs, NEW W \in SUBSET Asks, NEW F \in SUBSET Asks, FailAsks(W, F)
  PROVE  /\ stage' \in [Asks -> Stages] /\ via' \in [Asks -> Links \cup {None}]
         /\ promise' \in [Asks -> {"none", "open", "resolved", "rejected"}]
         /\ waiter' \in Asks \cup {None} /\ rebound' = rebound
         /\ \A b \in Asks : IF b \in F \/ (b \in W /\ stage[b] = "waiting")
                            THEN stage'[b] = "failed"
                            ELSE stage'[b] = stage[b] /\ via'[b] = via[b]
BY DEF AskInvs, AskTypes, FailAsks, FreesSlot, Stages

\* Calls that fail together fail in PeerAsk.
LEMMA OpenAsksFail ==
  ASSUME AskInvs, NEW W \in SUBSET Asks, NEW F \in SUBSET Asks,
         \A b \in F : stage[b] \in OpenStages, FailAsks(W, F),
         wire' \subseteq wire, UNCHANGED <<delivered, answer, mail>>
  PROVE  AskInvs' /\ KeepsPromises
<1> DEFINE S == F \cup {b \in W : stage[b] = "waiting"}
<1>1. /\ stage' \in [Asks -> Stages] /\ via' \in [Asks -> Links \cup {None}]
      /\ promise' \in [Asks -> {"none", "open", "resolved", "rejected"}]
      /\ waiter' \in Asks \cup {None} /\ rebound' = rebound
      /\ \A b \in Asks : IF b \in S THEN stage'[b] = "failed"
                         ELSE stage'[b] = stage[b] /\ via'[b] = via[b]
  BY FailedStages
<1>2. AskTypes'
  BY <1>1 DEF AskInvs, AskTypes
<1>3. \A b \in S : stage[b] \in OpenStages
  BY DEF OpenStages, Stages
<1>4. \A b \in S : Outcome(b) = "open"
  BY <1>3, OutcomeOfStage DEF AskInvs
<1>5. \A b \in Asks : Outcome(b)' = IF b \in S THEN "failed" ELSE Outcome(b)
  BY <1>1 DEF Outcome
<1>6. S \in SUBSET Asks
  OBVIOUS
<1> HIDE DEF S
<1>7. KeepsPromises
  BY <1>4, <1>5, <1>6, SomeFail
<1>8. AskInvs'
  <2>1. CallsAwaitLinks'
    BY <1>1 DEF AskInvs, CallsAwaitLinks
  <2>2. QED
    BY <1>1, <1>2, <2>1, AsksKept
<1>9. QED
  BY <1>7, <1>8

\* Steps that look at no ask.
LEMMA AsksRest ==
  ASSUME AskInvs, UNCHANGED <<askVars, delivered, answer>>, wire' \subseteq wire,
         mail' \in [Letters -> {"waiting", "received", "dropped"}]
  PROVE  AskInvs' /\ KeepsPromises
<1>1. AskInvs'
  BY DEF AskInvs, AskTypes, CallsAwaitLinks, AskersWrite, askVars
<1>2. \A b \in Asks : Outcome(b)' = Outcome(b)
  BY DEF Outcome, askVars
<1>3. QED
  BY <1>1, <1>2, NothingEnds

\* A step of a link keeps the asks: those that wait on a link that closes fail with it.
LEMMA LinkStepKeepsAsks ==
  ASSUME AskInvs, NEW k \in Links, LinkStep(k) PROVE AskInvs' /\ KeepsPromises
<1>1. CASE Spawned(k) \/ AttemptFails(k) \/ Dies(k) \/ Breaks(k) \/ Boot(k) \/ Retry(k)
  BY <1>1, AsksRest
  DEF Spawned, AttemptFails, Dies, Breaks, Boot, Retry, peerVars, AskInvs, AskTypes
<1>2. CASE Registered(k)
  BY <1>2, AsksRest DEF Registered, AskInvs, AskTypes
<1>3. CASE Left(k)
  BY <1>3, AsksRest DEF Left, AskInvs, AskTypes
<1>4. CASE Lost(k)
  <2> DEFINE W == IF client = k THEN InSlot ELSE {}
  <2>1. FailAsks(W, InFlight(k)) /\ wire' \subseteq wire /\ UNCHANGED <<delivered, answer, mail>>
    BY <1>4 DEF Lost
  <2>2. W \in SUBSET Asks /\ InFlight(k) \in SUBSET Asks
    BY DEF InSlot, InFlight, AskInvs, AskTypes
  <2>3. \A b \in InFlight(k) : stage[b] \in OpenStages
    BY DEF InFlight, OpenStages, Stages
  <2> HIDE DEF W
  <2>4. QED
    BY <2>1, <2>2, <2>3, OpenAsksFail
<1>5. QED
  BY <1>1, <1>2, <1>3, <1>4 DEF LinkStep

\* A start or a shutdown of the session keeps the asks.
LEMMA LifeStepKeepsAsks ==
  ASSUME AskInvs, Start \/ Shutdown PROVE AskInvs' /\ KeepsPromises
<1> DEFINE F == IF client = None THEN {} ELSE InFlight(client)
<1>1. FailAsks(InSlot, F) /\ UNCHANGED <<wire, delivered, answer, mail>>
  BY DEF Start, Shutdown, Teardown, peerVars
<1>2. InSlot \in SUBSET Asks /\ F \in SUBSET Asks
  BY DEF InSlot, InFlight, AskInvs, AskTypes
<1>3. \A b \in F : stage[b] \in OpenStages
  BY DEF InFlight, OpenStages, Stages
<1> HIDE DEF F
<1>4. QED
  BY <1>1, <1>2, <1>3, OpenAsksFail

\* A call opens an ask, or fails at once.
LEMMA CallKeeps ==
  ASSUME AskInvs, NEW a \in Asks, Call(a) PROVE AskInvs' /\ KeepsPromises
<1>1. stage[a] = "idle" /\ UNCHANGED peerVars
  BY DEF Call
<1>2. PICK s \in {"roster", "failed"} :
        /\ stage' \in [Asks -> Stages] /\ via' \in [Asks -> Links \cup {None}]
        /\ promise' \in [Asks -> {"none", "open", "resolved", "rejected"}]
        /\ waiter' \in Asks \cup {None} /\ rebound' \subseteq Asks
        /\ \A b \in Asks : stage'[b] = IF b = a THEN s ELSE stage[b]
        /\ CallsAwaitLinks'
  <2>1. CASE FailAsks({}, {a})
    <3>1. {} \in SUBSET Asks /\ {a} \in SUBSET Asks
      OBVIOUS
    <3>2. /\ stage' \in [Asks -> Stages] /\ via' \in [Asks -> Links \cup {None}]
          /\ promise' \in [Asks -> {"none", "open", "resolved", "rejected"}]
          /\ waiter' \in Asks \cup {None} /\ rebound' = rebound
          /\ \A b \in Asks : IF b \in {a} \/ (b \in {} /\ stage[b] = "waiting")
                             THEN stage'[b] = "failed"
                             ELSE stage'[b] = stage[b] /\ via'[b] = via[b]
      BY <2>1, <3>1, FailedStages
    <3>3. CallsAwaitLinks'
      BY <3>2 DEF AskInvs, CallsAwaitLinks
    <3>4. QED
      BY <3>2, <3>3 DEF AskInvs, AskTypes
  <2>2. ASSUME NEW k \in Links, Moves(a, "roster", k), UNCHANGED <<promise, waiter, rebound>>
        PROVE  /\ stage' \in [Asks -> Stages] /\ via' \in [Asks -> Links \cup {None}]
               /\ promise' \in [Asks -> {"none", "open", "resolved", "rejected"}]
               /\ waiter' \in Asks \cup {None} /\ rebound' \subseteq Asks
               /\ \A b \in Asks : stage'[b] = IF b = a THEN "roster" ELSE stage[b]
               /\ CallsAwaitLinks'
    <3>1. "roster" \in Stages
      BY DEF Stages
    <3>2. QED
      BY <2>2, <3>1, MovesStage DEF AskInvs, AskTypes, CallsAwaitLinks
  <2>3. FailAsks({}, {a})
        \/ \E k \in Links : Moves(a, "roster", k) /\ UNCHANGED <<promise, waiter, rebound>>
    BY DEF Call, AwaitConnection
  <2>4. QED
    BY <2>1, <2>2, <2>3
<1>3. AskInvs'
  <2>1. AskTypes'
    BY <1>1, <1>2 DEF AskInvs, AskTypes, peerVars
  <2>2. QED
    BY <1>1, <1>2, <2>1, AsksKept DEF AskInvs, AskersWrite, peerVars
<1>4. Abstract!Call(a)
  <2> DEFINE how == IF s = "failed" THEN "failed" ELSE "open"
  <2>1. Outcome(a) = "idle"
    BY <1>1 DEF Outcome
  <2>2. \A b \in Asks : Outcome(b)' = IF b = a THEN how ELSE Outcome(b)
    BY <1>2 DEF Outcome
  <2>3. Outcomes' = [b \in Asks |-> IF b \in {a} THEN how ELSE Outcomes[b]]
    BY <2>2 DEF Outcomes
  <2>4. Outcomes[a] = "idle" /\ how \in {"open", "failed"} /\ UNCHANGED <<delivered, answer>>
    BY <1>1, <2>1 DEF Outcomes, peerVars
  <2> HIDE DEF how
  <2>5. QED
    BY <2>3, <2>4 DEF Abstract!Call, Abstract!End, Outcomes
<1>5. QED
  BY <1>3, <1>4 DEF KeepsPromises, Abstract!Next

\* The call on its way to the peer.
LEMMA WayKeeps ==
  ASSUME AskInvs, NEW a \in Asks,
         \/ ContinueList(a) \/ Listed(a) \/ Targeted(a) \/ ContinueSend(a) \/ Resolved(a)
         \/ Sent(a) \/ Refused(a) \/ RequestTimesOut(a) \/ GivesUp(a)
  PROVE  AskInvs' /\ KeepsPromises
<1> USE DEF peerVars
<1>1. {} \in SUBSET Asks /\ {a} \in SUBSET Asks
  OBVIOUS
<1>2. ASSUME FailAsks({}, {a}) \/ FailAsks({a}, {a}), stage[a] \in OpenStages,
             wire' \subseteq wire, UNCHANGED <<delivered, answer, mail>>
      PROVE  AskInvs' /\ KeepsPromises
  BY <1>1, <1>2, OpenAsksFail
<1>3. /\ promise \in [Asks -> {"none", "open", "resolved", "rejected"}]
      /\ waiter \in Asks \cup {None} /\ rebound \subseteq Asks
      /\ via \in [Asks -> Links \cup {None}]
      /\ wire \subseteq Asks \X Links
      /\ stage[a] \in {"roster", "listing", "joining", "resolving", "sending"} => via[a] \in Links
  BY DEF AskInvs, AskTypes, CallsAwaitLinks
<1>4. CASE ContinueList(a)
  <2>1. /\ stage[a] \in OpenStages /\ via[a] \in Links /\ UNCHANGED peerVars
        /\ \/ Moves(a, "listing", via[a]) /\ UNCHANGED <<promise, waiter, rebound>>
           \/ FailAsks({}, {a})
    BY <1>3, <1>4 DEF ContinueList, OpenStages, Stages
  <2>2. "listing" \in OpenStages
    BY DEF OpenStages, Stages
  <2>3. QED
    BY <1>2, <1>3, <2>1, <2>2, OpenAskMoves
<1>5. CASE Listed(a)
  <2>1. /\ stage[a] \in OpenStages /\ "peers" \in OpenStages /\ UNCHANGED peerVars
        /\ Moves(a, "peers", None) /\ UNCHANGED <<promise, waiter, rebound>>
    BY <1>5 DEF Listed, OpenStages, Stages
  <2>2. QED
    BY <1>3, <2>1, OpenAskMoves
<1>6. CASE Targeted(a)
  <2>1. /\ stage[a] \in OpenStages /\ "joining" \in OpenStages /\ UNCHANGED peerVars
        /\ \/ \E k \in Links : Moves(a, "joining", k) /\ UNCHANGED <<promise, waiter, rebound>>
           \/ FailAsks({}, {a})
    BY <1>6 DEF Targeted, AwaitConnection, OpenStages, Stages
  <2>2. QED
    BY <1>2, <1>3, <2>1, OpenAskMoves
<1>7. CASE ContinueSend(a)
  <2>1. /\ stage[a] \in OpenStages /\ via[a] \in Links /\ "resolving" \in OpenStages
        /\ UNCHANGED peerVars
    BY <1>3, <1>7 DEF ContinueSend, OpenStages, Stages
  <2>2. CASE FailAsks({}, {a})
    BY <1>2, <2>1, <2>2
  <2>3. CASE ~FailAsks({}, {a})
    <3>1. /\ promise' = [promise EXCEPT ![a] = "open"] /\ waiter' = a /\ rebound' = rebound
          /\ Moves(a, "resolving", via[a]) \/ Moves(a, "failed", None)
      BY <1>7, <2>3 DEF ContinueSend
    <3>2. promise' \in [Asks -> {"none", "open", "resolved", "rejected"}]
      BY <1>3, <3>1
    <3>3. QED
      BY <1>3, <2>1, <3>1, <3>2, OpenAskMoves
  <2>4. QED
    BY <2>2, <2>3
<1>8. CASE Resolved(a)
  <2>1. /\ stage[a] \in OpenStages /\ "sending" \in OpenStages
        /\ wire' = wire \cup {<<a, via[a]>>} /\ via[a] \in Links
        /\ Moves(a, "sending", via[a])
        /\ UNCHANGED <<promise, waiter, rebound, delivered, answer, mail>>
    BY <1>3, <1>8 DEF Resolved, OpenStages, Stages
  <2>2. QED
    BY <1>3, <2>1, OpenAskMoves
<1>9. CASE Sent(a)
  <2>1. /\ stage[a] \in OpenStages /\ "waiting" \in OpenStages /\ UNCHANGED peerVars
        /\ Moves(a, "waiting", None) \/ Moves(a, "failed", None)
        /\ UNCHANGED <<promise, waiter, rebound>>
    BY <1>9 DEF Sent, OpenStages, Stages
  <2>2. QED
    BY <1>3, <2>1, OpenAskMoves
<1>10. CASE Refused(a)
  <2>1. /\ stage[a] \in OpenStages /\ via[a] \in Links /\ "resolving" \in OpenStages
        /\ wire' \subseteq wire /\ UNCHANGED <<delivered, answer, mail>>
        /\ \/ /\ rebound' = rebound \cup {a} /\ Moves(a, "resolving", via[a])
              /\ UNCHANGED <<promise, waiter>>
           \/ FailAsks({a}, {a})
    BY <1>3, <1>10 DEF Refused, OpenStages, Stages
  <2>2. QED
    BY <1>2, <1>3, <2>1, OpenAskMoves
<1>11. CASE RequestTimesOut(a)
  <2>1. stage[a] \in OpenStages /\ UNCHANGED peerVars /\ FailAsks({}, {a})
    BY <1>11 DEF RequestTimesOut, OpenStages, Stages
  <2>2. QED
    BY <1>2, <2>1
<1>12. CASE GivesUp(a)
  <2>1. UNCHANGED peerVars /\ FailAsks({a}, {})
    BY <1>12 DEF GivesUp
  <2>2. QED
    BY <1>1, <2>1, OpenAsksFail
<1>13. QED
  BY <1>4, <1>5, <1>6, <1>7, <1>8, <1>9, <1>10, <1>11, <1>12

\* The question reaches the peer; an earlier copy may have.
LEMMA DeliversKeeps ==
  ASSUME AskInvs, NEW a \in Asks, NEW k \in Links, Delivers(a, k) PROVE AskInvs' /\ KeepsPromises
<1>1. /\ <<a, k>> \in wire /\ wire' \subseteq wire /\ delivered' = delivered \cup {a}
      /\ UNCHANGED <<askVars, answer, mail>>
  BY DEF Delivers
<1>2. stage[a] # "idle"
  BY <1>1 DEF AskInvs, AskersWrite
<1>3. AskInvs'
  BY <1>1 DEF AskInvs, AskTypes, CallsAwaitLinks, AskersWrite, askVars
<1>4. Outcomes' = Outcomes /\ Outcomes[a] # "idle"
  BY <1>1, <1>2 DEF Outcomes, Outcome, askVars
<1>5. CASE a \in delivered
  <2>1. delivered' = delivered
    BY <1>1, <1>5
  <2>2. QED
    BY <1>1, <1>3, <1>4, <2>1 DEF KeepsPromises, abstractVars
<1>6. CASE a \notin delivered
  <2>1. Abstract!Deliver(a)
    BY <1>1, <1>4, <1>6 DEF Abstract!Deliver, Outcomes
  <2>2. QED
    BY <1>3, <2>1 DEF KeepsPromises, Abstract!Next
<1>7. QED
  BY <1>5, <1>6

\* The reply ends the call only while it waits in the slot.
LEMMA ReplyKeeps ==
  ASSUME AskInvs, NEW a \in Asks, ReplyComes(a) PROVE AskInvs' /\ KeepsPromises
<1>1. /\ a \in delivered \ answer /\ answer' = answer \cup {a}
      /\ UNCHANGED <<wire, delivered, mail>>
  BY DEF ReplyComes
<1>2. CASE waiter = a /\ stage[a] = "waiting"
  <2>1. /\ promise' = [promise EXCEPT ![a] = "resolved"] /\ waiter' = None /\ rebound' = rebound
        /\ Moves(a, "answered", None)
    BY <1>2 DEF ReplyComes, Answers
  <2>2. "answered" \in Stages
    BY DEF Stages
  <2>3. /\ stage' \in [Asks -> Stages] /\ via' \in [Asks -> Links \cup {None}]
        /\ \A b \in Asks : /\ stage'[b] = IF b = a THEN "answered" ELSE stage[b]
                           /\ via'[b] = IF b = a THEN None ELSE via[b]
    BY <2>1, <2>2, MovesStage
  <2>4. AskTypes'
    BY <1>1, <2>1, <2>3 DEF AskInvs, AskTypes
  <2>5. AskInvs'
    <3>1. CallsAwaitLinks'
      BY <2>3 DEF AskInvs, CallsAwaitLinks
    <3>2. QED
      BY <1>1, <2>3, <2>4, <3>1, AsksKept DEF AskInvs, AskersWrite
  <2>6. \A b \in Asks : Outcome(b)' = IF b = a THEN "answered" ELSE Outcome(b)
    BY <2>3 DEF Outcome
  <2>7. Outcomes' = [b \in Asks |-> IF b \in {a} THEN "answered" ELSE Outcomes[b]]
    BY <2>6 DEF Outcomes
  <2>8. {a} \cap {b \in Asks : Outcomes[b] = "open"} = {a}
    BY <1>2 DEF Outcomes, Outcome
  <2>9. Abstract!Reply(a)
    BY <1>1, <2>7, <2>8 DEF Abstract!Reply, Abstract!End, Abstract!Open, Outcomes
  <2>10. QED
    BY <2>5, <2>9 DEF KeepsPromises, Abstract!Next
<1>3. CASE ~(waiter = a /\ stage[a] = "waiting")
  <2>1. /\ UNCHANGED <<stage, via, rebound>>
        /\ promise' = promise \/ promise' = [promise EXCEPT ![waiter] = "resolved"]
        /\ waiter' \in {None, waiter}
    BY <1>3 DEF ReplyComes, Answers, askVars
  <2>2. AskInvs'
    BY <1>1, <2>1 DEF AskInvs, AskTypes, CallsAwaitLinks, AskersWrite
  <2>3. Outcomes' = Outcomes
    BY <2>1 DEF Outcomes, Outcome
  <2>4. Abstract!Reply(a)
    BY <1>1, <2>3 DEF Abstract!Reply, Outcomes
  <2>5. QED
    BY <2>2, <2>4 DEF KeepsPromises, Abstract!Next
<1>4. QED
  BY <1>2, <1>3

\* Every step of an ask keeps the asks and the promises of PeerAsk.
LEMMA AskStepKeepsAsks ==
  ASSUME AskInvs, NEW a \in Asks, AskStep(a) PROVE AskInvs' /\ KeepsPromises
BY CallKeeps, WayKeeps, DeliversKeeps, ReplyKeeps DEF AskStep

\* A letter that comes changes no link and no ask.
LEMMA LetterKeeps ==
  ASSUME SessionInv, NEW m \in Letters, LetterComes(m) PROVE SessionInv' /\ KeepsPromises
<1>1. UNCHANGED <<lifeVars, linkVars, askVars, wire, delivered, answer>>
  BY DEF LetterComes
<1>2. mail' \in [Letters -> {"waiting", "received", "dropped"}]
  BY DEF LetterComes, SessionInv, SessionTypeOK
<1>3. QED
  BY <1>1, <1>2, InvHalves, InvHalvesAfter, LinksRest, AsksRest

\* Every step of a session keeps its links, its asks and their promises.
LEMMA SessionStep == SessionInv /\ [SessionNext]_sessionVars => SessionInv' /\ KeepsPromises
<1> SUFFICES ASSUME SessionInv, [SessionNext]_sessionVars PROVE SessionInv' /\ KeepsPromises
  OBVIOUS
<1>1. LinkInv /\ AskInvs
  BY InvHalves
<1>2. CASE UNCHANGED sessionVars
  <2>1. UNCHANGED <<lifeVars, linkVars, askVars, peerVars>>
    BY <1>2 DEF sessionVars
  <2>2. mail' \in [Letters -> {"waiting", "received", "dropped"}]
    BY <1>1, <2>1 DEF peerVars, AskInvs, AskTypes
  <2>3. QED
    BY <1>1, <2>1, <2>2, InvHalves, InvHalvesAfter, LinksRest, AsksRest DEF peerVars
<1>3. CASE Start \/ Shutdown
  BY <1>1, <1>3, InvHalves, InvHalvesAfter, LifeStepKeepsLinks, LifeStepKeepsAsks
<1>4. ASSUME NEW k \in Links, LinkStep(k) PROVE SessionInv' /\ KeepsPromises
  BY <1>1, <1>4, InvHalves, InvHalvesAfter, LinkStepKeepsLinks, LinkStepKeepsAsks
<1>5. ASSUME NEW a \in Asks, AskStep(a) PROVE SessionInv' /\ KeepsPromises
  BY <1>1, <1>5, InvHalvesAfter, AskStepKeepsLinks, AskStepKeepsAsks
<1>6. ASSUME NEW m \in Letters, LetterComes(m) PROVE SessionInv' /\ KeepsPromises
  BY <1>6, LetterKeeps
<1>7. CASE SessionNext
  BY <1>3, <1>4, <1>5, <1>6, <1>7 DEF SessionNext
<1>8. QED
  BY <1>2, <1>7

\* The connection of a session and its asks are in step, through spawns, reconnects, restarts
\* of the session and time-outs: the inductive invariant.
THEOREM SessionInvariant == SessionSpec => []SessionInv
BY SessionInvInit, SessionStep, PTL DEF SessionSpec

\* connect and its generations: no link but the client of the running session is ever
\* connected, also when sessions overlap the attempts of earlier ones.
THEOREM OneLinkIsUp == SessionSpec => []OneConnection
<1>1. SessionInv => OneConnection
  BY DEF SessionInv
<1>2. QED
  BY <1>1, SessionInvariant, PTL

\* scheduleReconnect: a running session without a connection has an attempt or a timer under way.
THEOREM SessionsReconnect == SessionSpec => []NeverStranded
<1>1. SessionInv => NeverStranded
  BY DEF SessionInv
<1>2. QED
  BY <1>1, SessionInvariant, PTL

\* The calls of ask keep the promises of PeerAsk, step by step: one outcome for each, and an
\* answer only after the peer gave it.
THEOREM PeerAskRefinement == SessionSpec => ImplementsPeerAsk
<1>1. SessionInit => Abstract!Init
  BY DEF SessionInit, Abstract!Init, Outcome
<1>2. SessionInv /\ [SessionNext]_sessionVars => [Abstract!Next]_abstractVars
  BY SessionStep DEF KeepsPromises
<1>3. QED
  BY <1>1, <1>2, SessionInvariant, PTL
  DEF SessionSpec, ImplementsPeerAsk, Abstract!Spec, abstractVars, Outcomes

-----------------------------------------------------------------------------
(* The inbox.                                                              *)

\* The types of InboxInv, by who touches the variables: the tool, the host, the tracker of
\* replies, the messages before the model and those that come.
CallsTyped == call \in [Outgoing -> [state : {"idle", "replying", "sending"},
                                     about : Messages \cup {NoMessage}]]
HostTyped ==
  /\ setting \in Settings /\ context \in BOOLEAN /\ inTurn \in BOOLEAN
  /\ host \in {"idle", "busy", "run"} /\ agentRunning \in BOOLEAN /\ wake \in BOOLEAN
TrackerTyped ==
  /\ owed \subseteq Asking /\ turns \in Seq(Messages) /\ current \in Messages \cup {NoMessage}
  /\ overdue \subseteq Messages /\ closed \subseteq Messages
ShownTyped ==
  /\ held \in Seq(Messages) /\ heldTimer \in BOOLEAN /\ shown \in Seq(Messages)
PlacesTyped == number \in [Messages -> Nat] /\ seen \subseteq Messages

\* What is shown and held keeps its order, and has come.
ShownInv == ShownTyped /\ OnlyTheSeen /\ HeldCameLater

\* The invariant, part by part.
LEMMA InboxParts ==
  InboxInv <=> /\ HostTyped /\ CallsTyped /\ RepliesAreAbout
               /\ TrackerTyped /\ AsksStayOwed
               /\ PlacesTyped /\ PlacesGrow /\ ShownInv
BY DEF InboxInv, InboxTypeOK, HostTyped, CallsTyped, TrackerTyped, ShownTyped, PlacesTyped, ShownInv

\* The same in the next state.
LEMMA InboxPartsAfter ==
  InboxInv' <=> /\ HostTyped' /\ CallsTyped' /\ RepliesAreAbout'
                /\ TrackerTyped' /\ AsksStayOwed'
                /\ PlacesTyped' /\ PlacesGrow' /\ ShownInv'
BY DEF InboxInv, InboxTypeOK, HostTyped, CallsTyped, TrackerTyped, ShownTyped, PlacesTyped, ShownInv

\* Drop keeps what is left in its order.
LEMMA DropThins ==
  ASSUME NEW s \in Seq(Messages), NEW S
  PROVE  /\ Drop(s, S) \in Seq(Messages)
         /\ Elements(Drop(s, S)) \subseteq Elements(s)
         /\ Thins(Drop(s, S), s)
<1> DEFINE I == {i \in DOMAIN s : s[i] \notin S}
<1>1. I \in SUBSET DOMAIN s
  OBVIOUS
<1> HIDE DEF I
<1>2. Filtered(s, I) \in Seq(Messages) /\ Thins(Filtered(s, I), s)
  BY <1>1, FilteredSeq, FilteredThins
<1>3. \A n \in DOMAIN Filtered(s, I) : \E i \in I : Filtered(s, I)[n] = s[i]
  BY <1>1, FilteredSeq
<1>4. Elements(Filtered(s, I)) \subseteq Elements(s)
  BY <1>1, <1>3 DEF Elements
<1>5. QED
  BY <1>2, <1>4 DEF Drop, I

\* A thinned array is in order when the array was.
LEMMA ThinsOrdered ==
  ASSUME NEW s \in Seq(Messages), NEW r \in Seq(Messages), Thins(r, s), Ordered(s),
         number \in [Messages -> Nat]
  PROVE  Ordered(r)
BY DEF Thins, Ordered

\* No place is given out: the places do not change.
LEMMA PlacesStay ==
  ASSUME UNCHANGED number
  PROVE  (PlacesTyped /\ UNCHANGED seen => PlacesTyped') /\ (PlacesGrow => PlacesGrow')
<1>1. Places' = Places
  BY DEF Places
<1>2. QED
  BY <1>1 DEF PlacesTyped, PlacesGrow, NextPlace

\* Messages that leave the held ones for the model, from the head on.
Advances(n) ==
  /\ shown' = shown \o SubSeq(held, 1, n)
  /\ held' = SubSeq(held, n + 1, Len(held))

\* The messages shown are followed by the first n held, the others stay held.
LEMMA AdvancedSeqs ==
  ASSUME ShownTyped, NEW n \in 0..Len(held), Advances(n)
  PROVE  /\ held' \in Seq(Messages) /\ DOMAIN held' = 1..(Len(held) - n)
         /\ \A i \in 1..(Len(held) - n) : held'[i] = held[n + i] /\ n + i \in 1..Len(held)
         /\ shown' \in Seq(Messages) /\ DOMAIN shown' = 1..(Len(shown) + n)
         /\ \A i \in 1..Len(shown) : shown'[i] = shown[i]
         /\ \A i \in 1..n : shown'[Len(shown) + i] = held[i]
<1>1. held \in Seq(Messages) /\ shown \in Seq(Messages)
  BY DEF ShownTyped
<1> DEFINE l == Len(shown)
           h == Len(held)
<1>2. l \in Nat /\ h \in Nat /\ n \in Nat /\ n <= h
  BY <1>1
<1>3. /\ held' \in Seq(Messages) /\ DOMAIN held' = 1..(h - n)
      /\ \A i \in 1..(h - n) : held'[i] = held[n + i] /\ n + i \in 1..h
  <2> DEFINE rest == SubSeq(held, n + 1, h)
  <2>1. \A i \in (n + 1)..h : held[i] \in Messages
    BY <1>1, <1>2
  <2>2. n + 1 \in Int /\ h \in Int
    BY <1>2
  <2>3. /\ rest \in Seq(Messages) /\ Len(rest) = (IF n + 1 <= h THEN h - (n + 1) + 1 ELSE 0)
        /\ \A i \in 1..(h - (n + 1) + 1) : rest[i] = held[(n + 1) + i - 1]
    BY <2>1, <2>2, SubSeqProperties
  <2>4. rest = held'
    BY DEF Advances
  <2> HIDE DEF rest, h
  <2>5. Len(rest) = h - n /\ h - (n + 1) + 1 = h - n
    BY <1>2, <2>3
  <2>6. \A i \in 1..(h - n) : (n + 1) + i - 1 = n + i /\ n + i \in 1..h
    BY <1>2
  <2>7. DOMAIN rest = 1..(h - n)
    BY <2>3, <2>5
  <2>8. QED
    BY <2>3, <2>4, <2>5, <2>6, <2>7
<1>4. /\ shown' \in Seq(Messages) /\ DOMAIN shown' = 1..(l + n)
      /\ \A i \in 1..l : shown'[i] = shown[i]
      /\ \A i \in 1..n : shown'[l + i] = held[i]
  <2> DEFINE s == SubSeq(held, 1, n)
  <2>1. \A i \in 1..n : held[i] \in Messages
    BY <1>1, <1>2
  <2>2. 1 \in Int /\ n \in Int
    BY <1>2
  <2>3. /\ s \in Seq(Messages) /\ Len(s) = (IF 1 <= n THEN n - 1 + 1 ELSE 0)
        /\ \A i \in 1..(n - 1 + 1) : s[i] = held[1 + i - 1]
    BY <2>1, <2>2, SubSeqProperties
  <2>4. shown' = shown \o s
    BY DEF Advances
  <2> HIDE DEF s
  <2>5. Len(s) = n /\ n - 1 + 1 = n
    BY <1>2, <2>3
  <2>6. \A i \in 1..n : s[i] = held[i]
    BY <1>2, <2>3, <2>5
  <2>7. /\ shown \o s \in Seq(Messages) /\ Len(shown \o s) = l + n
        /\ \A i \in 1..(l + n) : (shown \o s)[i] = IF i <= l THEN shown[i] ELSE s[i - l]
    BY <1>1, <2>3, <2>5, ConcatProperties
  <2> HIDE DEF l
  <2>8. \A i \in 1..l : i \in 1..(l + n) /\ i <= l
    BY <1>2
  <2>9. \A i \in 1..n : l + i \in 1..(l + n) /\ ~(l + i <= l) /\ (l + i) - l = i
    BY <1>2
  <2>10. DOMAIN shown' = 1..(l + n)
    BY <2>4, <2>7
  <2>11. QED
    BY <2>4, <2>6, <2>7, <2>8, <2>9, <2>10
<1>5. QED
  BY <1>3, <1>4

\* Held messages may be shown from the head on, in any number.
LEMMA AdvanceKeeps ==
  ASSUME ShownInv, PlacesTyped, NEW n \in 0..Len(held), Advances(n), heldTimer' \in BOOLEAN,
         UNCHANGED <<number, seen>>
  PROVE  ShownInv'
<1>1. held \in Seq(Messages) /\ shown \in Seq(Messages) /\ number \in [Messages -> Nat]
  BY DEF ShownInv, ShownTyped, PlacesTyped
<1> DEFINE l == Len(shown)
           h == Len(held)
<1>2. l \in Nat /\ h \in Nat /\ n \in Nat /\ n <= h
  BY <1>1
<1>3. /\ held' \in Seq(Messages) /\ DOMAIN held' = 1..(h - n)
      /\ \A i \in 1..(h - n) : held'[i] = held[n + i] /\ n + i \in 1..h
  BY AdvancedSeqs DEF ShownInv
<1>4. /\ shown' \in Seq(Messages) /\ DOMAIN shown' = 1..(l + n)
      /\ \A i \in 1..l : shown'[i] = shown[i]
      /\ \A i \in 1..n : shown'[l + i] = held[i]
  BY AdvancedSeqs DEF ShownInv
<1>5. \A i \in 1..(l + n) : \/ i \in 1..l /\ shown'[i] = shown[i]
                            \/ i - l \in 1..n /\ i - l \in 1..h /\ shown'[i] = held[i - l]
  <2> TAKE i \in 1..(l + n)
  <2>1. CASE i <= l
    BY <1>2, <1>4, <2>1
  <2>2. CASE i > l
    <3>1. i - l \in 1..n /\ l + (i - l) = i
      BY <1>2, <2>2
    <3>2. QED
      BY <1>2, <1>4, <3>1
  <2>3. QED
    BY <1>2, <2>1, <2>2
<1>6. DOMAIN shown = 1..l /\ DOMAIN held = 1..h
  BY <1>1
<1> HIDE DEF l, h
<1>7. OnlyTheSeen'
  BY <1>3, <1>4, <1>5, <1>6 DEF ShownInv, OnlyTheSeen, Elements
<1>8. Ordered(held)'
  <2> SUFFICES ASSUME NEW i \in 1..(h - n), NEW j \in 1..(h - n), i < j
               PROVE  number[held'[i]] < number[held'[j]]
    BY <1>3 DEF Ordered
  <2>1. n + i < n + j
    BY <1>2
  <2>2. QED
    BY <1>3, <1>6, <2>1 DEF ShownInv, HeldCameLater, Ordered
<1>9. Ordered(shown)'
  <2> SUFFICES ASSUME NEW i \in 1..(l + n), NEW j \in 1..(l + n), i < j
               PROVE  number[shown'[i]] < number[shown'[j]]
    BY <1>4 DEF Ordered
  <2>1. CASE j \in 1..l
    <3>1. i \in 1..l
      BY <1>2, <2>1
    <3>2. QED
      BY <1>4, <1>6, <2>1, <3>1 DEF ShownInv, HeldCameLater, Ordered
  <2>2. CASE i \in 1..l /\ j - l \in 1..h /\ shown'[j] = held[j - l]
    BY <1>4, <1>6, <2>2 DEF ShownInv, HeldCameLater
  <2>3. CASE i - l \in 1..h /\ shown'[i] = held[i - l] /\ j - l \in 1..h /\ shown'[j] = held[j - l]
    <3>1. i - l < j - l
      BY <1>2
    <3>2. QED
      BY <1>6, <2>3, <3>1 DEF ShownInv, HeldCameLater, Ordered
  <2>4. QED
    BY <1>5, <2>1, <2>2, <2>3
<1>10. \A i \in DOMAIN shown', j \in DOMAIN held' : number[shown'[i]] < number[held'[j]]
  <2> SUFFICES ASSUME NEW i \in 1..(l + n), NEW j \in 1..(h - n)
               PROVE  number[shown'[i]] < number[held'[j]]
    BY <1>3, <1>4
  <2>1. CASE i \in 1..l /\ shown'[i] = shown[i]
    BY <1>3, <1>6, <2>1 DEF ShownInv, HeldCameLater
  <2>2. CASE i - l \in 1..n /\ i - l \in 1..h /\ shown'[i] = held[i - l]
    <3>1. i - l < n + j
      BY <1>2, <2>2
    <3>2. QED
      BY <1>3, <1>6, <2>2, <3>1 DEF ShownInv, HeldCameLater, Ordered
  <2>3. QED
    BY <1>5, <2>1, <2>2
<1>11. QED
  BY <1>3, <1>4, <1>7, <1>8, <1>9, <1>10 DEF ShownInv, ShownTyped, HeldCameLater

\* Nothing is shown, held or received.
LEMMA ShownRests ==
  ASSUME ShownInv, UNCHANGED <<shown, held, number, seen>>, heldTimer' \in BOOLEAN
  PROVE  ShownInv'
BY DEF ShownInv, ShownTyped, OnlyTheSeen, HeldCameLater, Ordered, Elements

\* What is taken from the held ones: all, the head or none of them.
LEMMA HeadsAdvance ==
  ASSUME held \in Seq(Messages), NEW s,
         s = <<>> \/ s = held \/ (held # <<>> /\ s = <<Head(held)>>),
         shown' = shown \o s, held' = SubSeq(held, Len(s) + 1, Len(held))
  PROVE  /\ s \in Seq(Messages) /\ \E n \in 0..Len(held) : Advances(n)
<1>1. CASE s = <<>>
  <2>1. s = SubSeq(held, 1, 0) /\ Len(s) = 0
    BY <1>1
  <2>2. Advances(0) /\ 0 \in 0..Len(held)
    BY <2>1 DEF Advances
  <2>3. QED
    BY <1>1, <2>2
<1>2. CASE s = held
  <2>1. s = SubSeq(held, 1, Len(held)) /\ Len(held) \in Nat
    BY <1>2, SubSeqFull
  <2>2. Advances(Len(held)) /\ Len(held) \in 0..Len(held)
    BY <1>2, <2>1 DEF Advances
  <2>3. QED
    BY <1>2, <2>2
<1>3. CASE held # <<>> /\ s = <<Head(held)>>
  <2>1. s = SubSeq(held, 1, 1) /\ Len(s) = 1 /\ 1 \in 0..Len(held) /\ s \in Seq(Messages)
    BY <1>3
  <2>2. Advances(1)
    BY <2>1 DEF Advances
  <2>3. QED
    BY <2>1, <2>2
<1>4. QED
  BY <1>1, <1>2, <1>3

\* What is known of a message is kept, so an ask that was owed and is not is accounted for.
LEMMA OwedStays ==
  ASSUME AsksStayOwed, UNCHANGED number, overdue \subseteq overdue', closed \subseteq closed',
         owed \subseteq owed' \cup closed' \cup overdue'
  PROVE  AsksStayOwed'
BY DEF AsksStayOwed

\* Asks are dismissed: the tracker keeps its type.
LEMMA DismissTyped ==
  ASSUME TrackerTyped, NEW S, DismissAsks(S), closed' \subseteq Messages, UNCHANGED overdue
  PROVE  TrackerTyped' /\ owed \subseteq owed' \cup S
<1>1. Drop(turns, S) \in Seq(Messages)
  BY DropThins DEF TrackerTyped
<1>2. QED
  BY <1>1 DEF TrackerTyped, DismissAsks

\* No call of the tool changes.
LEMMA CallRests ==
  ASSUME CallsTyped, RepliesAreAbout, UNCHANGED call
  PROVE  CallsTyped' /\ RepliesAreAbout'
BY DEF CallsTyped, RepliesAreAbout

\* The initial state has the inductive invariant.
LEMMA InboxInvInit == InboxInit => InboxInv
<1> SUFFICES ASSUME InboxInit PROVE InboxInv
  OBVIOUS
<1>1. HostTyped /\ CallsTyped /\ RepliesAreAbout
  BY InboxAssumption DEF InboxInit, HostTyped, CallsTyped, RepliesAreAbout
<1>2. TrackerTyped /\ AsksStayOwed /\ PlacesTyped
  <2>1. \A m \in Messages : number[m] = 0
    BY DEF InboxInit
  <2>2. Asking \subseteq Messages
    BY InboxAssumption
  <2>3. AsksStayOwed
    BY <2>1, <2>2 DEF AsksStayOwed
  <2>4. <<>> \in Seq(Messages) /\ TrackerTyped
    BY DEF InboxInit, TrackerTyped
  <2>5. PlacesTyped
    BY DEF InboxInit, PlacesTyped
  <2>6. QED
    BY <2>3, <2>4, <2>5
<1>3. PlacesGrow
  <2>1. Places \subseteq {0}
    BY DEF InboxInit, Places
  <2>2. IsFiniteSet({0}) /\ IsFiniteSet({})
    BY FS_Singleton, FS_EmptySet
  <2>3. IsFiniteSet(Places)
    BY <2>1, <2>2, FS_Subset
  <2>4. Places \ {0} = {}
    BY <2>1
  <2>5. NextPlace = 1
    BY <2>4, FS_EmptySet DEF NextPlace
  <2>6. QED
    BY <2>3, <2>5 DEF PlacesGrow, InboxInit
<1>4. ShownInv
  <2>1. held = <<>> /\ shown = <<>> /\ seen = {} /\ heldTimer = FALSE
    BY DEF InboxInit
  <2>2. DOMAIN held = {} /\ DOMAIN shown = {} /\ held \in Seq(Messages) /\ shown \in Seq(Messages)
    BY <2>1
  <2>3. \A m \in Messages : number[m] = 0
    BY DEF InboxInit
  <2>4. ShownTyped /\ OnlyTheSeen
    <3>1. ShownTyped
      BY <2>1, <2>2 DEF ShownTyped
    <3>2. Elements(shown) = {} /\ Elements(held) = {}
      BY <2>2 DEF Elements
    <3>3. \A m \in Messages : ~(number[m] > 0) /\ m \notin seen
      BY <2>1, <2>3
    <3>4. OnlyTheSeen
      BY <3>2, <3>3 DEF OnlyTheSeen
    <3>5. QED
      BY <3>1, <3>4
  <2>5. HeldCameLater
    BY <2>2 DEF HeldCameLater, Ordered
  <2>6. QED
    BY <2>4, <2>5 DEF ShownInv
<1>5. QED
  BY <1>1, <1>2, <1>3, <1>4, InboxParts

\* A message that comes takes the next place.
LEMMA PlaceGiven ==
  ASSUME PlacesTyped, PlacesGrow, OnlyTheSeen, NEW m \in Messages, m \notin seen,
         number' = [number EXCEPT ![m] = IF @ = 0 THEN NextPlace ELSE @], seen' = seen \cup {m}
  PROVE  /\ PlacesTyped' /\ PlacesGrow' /\ NextPlace \in Nat \ {0} /\ number'[m] = NextPlace
         /\ \A h \in Messages \ {m} : number'[h] = number[h]
<1>1. number[m] = 0
  BY DEF PlacesTyped, OnlyTheSeen
<1>2. NextPlace \in Nat \ {0}
  <2>1. IsFiniteSet(Places \ {0})
    BY FS_RemoveElement DEF PlacesGrow
  <2>2. Cardinality(Places \ {0}) \in Nat
    BY <2>1, FS_CardinalityType
  <2>3. QED
    BY <2>2 DEF NextPlace
<1>3. /\ number' \in [Messages -> Nat] /\ number'[m] = NextPlace
      /\ \A h \in Messages \ {m} : number'[h] = number[h]
  BY <1>1, <1>2 DEF PlacesTyped
<1>4. NextPlace \notin Places
  BY <1>2 DEF PlacesGrow, Places, PlacesTyped
<1> DEFINE full == Places \ {0}
<1>5. Places' \ {0} = full \cup {NextPlace}
  <2>1. Places' = {number'[h] : h \in Messages}
    BY DEF Places
  <2>2. Places = {number[h] : h \in Messages}
    BY DEF Places
  <2>3. ASSUME NEW x \in Places' \ {0} PROVE x \in full \cup {NextPlace}
    BY <1>3, <2>1, <2>2, <2>3
  <2>4. ASSUME NEW x \in full PROVE x \in Places' \ {0}
    <3>1. PICK h \in Messages : x = number[h] /\ x # 0
      BY <2>2, <2>4
    <3>2. h # m
      BY <1>1, <3>1
    <3>3. QED
      BY <1>3, <2>1, <3>1, <3>2
  <2>5. NextPlace \in Places' \ {0}
    BY <1>2, <1>3, <2>1
  <2> HIDE DEF full
  <2>6. QED
    BY <2>3, <2>4, <2>5
<1>6. IsFiniteSet(full)
  BY FS_RemoveElement DEF PlacesGrow
<1>7. NextPlace \notin full
  BY <1>4
<1>8. NextPlace = 1 + Cardinality(full)
  BY DEF NextPlace
<1>9. NextPlace' = 1 + Cardinality(Places' \ {0})
  BY DEF NextPlace
<1> HIDE DEF full
<1>10. /\ Cardinality(full \cup {NextPlace}) = Cardinality(full) + 1
       /\ IsFiniteSet(full \cup {NextPlace})
  BY <1>6, <1>7, FS_AddElement
<1>11. Cardinality(full) \in Nat
  BY <1>6, FS_CardinalityType
<1>12. NextPlace' = NextPlace + 1
  <2>1. NextPlace' = 1 + (Cardinality(full) + 1)
    BY <1>5, <1>9, <1>10
  <2>2. QED
    BY <1>8, <1>11, <2>1
<1>13. IsFiniteSet(Places')
  <2>1. IsFiniteSet((full \cup {NextPlace}) \cup {0})
    BY <1>10, FS_AddElement
  <2>2. Places' \in SUBSET ((full \cup {NextPlace}) \cup {0})
    BY <1>5
  <2>3. QED
    BY <2>1, <2>2, FS_Subset
<1>14. \A h \in Messages : number'[h] < NextPlace'
  <2>1. \A h \in Messages : number[h] < NextPlace /\ number[h] \in Nat
    BY DEF PlacesGrow, PlacesTyped
  <2>2. QED
    BY <1>2, <1>3, <1>12, <2>1
<1>15. PlacesTyped' /\ PlacesGrow'
  BY <1>3, <1>13, <1>14 DEF PlacesTyped, PlacesGrow
<1>16. QED
  BY <1>2, <1>3, <1>15

\* A message that comes is held behind the others, or shown when none is held.
LEMMA ArrivalKeeps ==
  ASSUME InboxInv, NEW m \in Messages, Arrives(m) PROVE InboxInv'
<1>1. /\ m \notin seen /\ seen' = seen \cup {m}
      /\ number' = [number EXCEPT ![m] = IF @ = 0 THEN NextPlace ELSE @]
      /\ owed' = (IF m \in Asking THEN owed \cup {m} ELSE owed)
      /\ UNCHANGED <<hostVars, agentRunning, current, overdue, call, closed>>
  BY DEF Arrives, Duplicate
<1>2. \/ /\ held' = Append(held, m) /\ heldTimer' = TRUE /\ UNCHANGED <<turns, shown, wake>>
      \/ /\ held = <<>> /\ turns' = turns \o <<m>> /\ shown' = shown \o <<m>>
         /\ wake' \in BOOLEAN /\ UNCHANGED <<held, heldTimer>>
  <2>1. wake \in BOOLEAN
    BY DEF InboxInv, InboxTypeOK
  <2>2. CASE Holds(m)
    BY <2>2 DEF Arrives
  <2>3. CASE ~Holds(m)
    <3>1. /\ held = <<>> /\ UNCHANGED <<held, heldTimer>>
          /\ \E d \in {"trigger", "steer"} : Inject(<<m>>, d)
      BY <2>3 DEF Arrives, Holds
    <3>2. QED
      BY <2>1, <3>1 DEF Inject
  <2>4. QED
    BY <2>2, <2>3
<1>3. /\ HostTyped /\ CallsTyped /\ RepliesAreAbout /\ TrackerTyped /\ AsksStayOwed
      /\ PlacesTyped /\ PlacesGrow /\ ShownInv
  BY InboxParts
<1>4. /\ PlacesTyped' /\ PlacesGrow' /\ NextPlace \in Nat \ {0} /\ number'[m] = NextPlace
      /\ \A h \in Messages \ {m} : number'[h] = number[h]
  BY <1>1, <1>3, PlaceGiven DEF ShownInv
<1>5. HostTyped' /\ CallsTyped' /\ RepliesAreAbout'
  <2>1. wake' \in BOOLEAN
    BY <1>2, <1>3 DEF HostTyped
  <2>2. QED
    BY <1>1, <1>3, <2>1, CallRests DEF HostTyped, hostVars
<1>6. TrackerTyped' /\ AsksStayOwed'
  <2>1. turns' \in Seq(Messages)
    <3>1. turns \in Seq(Messages) /\ <<m>> \in Seq(Messages)
      BY <1>3 DEF TrackerTyped
    <3>2. turns' = turns \/ turns' = turns \o <<m>>
      BY <1>2
    <3>3. turns \o <<m>> \in Seq(Messages)
      BY <3>1
    <3>4. QED
      BY <3>1, <3>2, <3>3
  <2>2. TrackerTyped'
    BY <1>1, <1>3, <2>1 DEF TrackerTyped
  <2>3. AsksStayOwed'
    BY <1>1, <1>3, <1>4, InboxAssumption DEF AsksStayOwed
  <2>4. QED
    BY <2>2, <2>3
<1> DEFINE l == Len(shown)
           h == Len(held)
<1>7. /\ held \in Seq(Messages) /\ shown \in Seq(Messages) /\ number \in [Messages -> Nat]
      /\ l \in Nat /\ h \in Nat /\ DOMAIN shown = 1..l /\ DOMAIN held = 1..h
  BY <1>3 DEF ShownInv, ShownTyped, PlacesTyped
<1>8. \A i \in 1..l : /\ shown[i] \in Messages \ {m} /\ number'[shown[i]] = number[shown[i]]
                      /\ number[shown[i]] < NextPlace
  <2>1. \A i \in 1..l : shown[i] \in Messages /\ shown[i] \in Elements(shown)
    BY <1>7 DEF Elements
  <2>2. \A x \in Elements(shown) : x \in seen
    BY <1>3 DEF ShownInv, OnlyTheSeen
  <2>3. \A x \in Messages : number[x] < NextPlace
    BY <1>3 DEF PlacesGrow
  <2> HIDE DEF l, h
  <2>4. QED
    BY <1>1, <1>4, <2>1, <2>2, <2>3
<1>9. \A i \in 1..h : /\ held[i] \in Messages \ {m} /\ number'[held[i]] = number[held[i]]
                      /\ number[held[i]] < NextPlace
  <2>1. \A i \in 1..h : held[i] \in Messages /\ held[i] \in Elements(held)
    BY <1>7 DEF Elements
  <2>2. \A x \in Elements(held) : x \in seen
    BY <1>3 DEF ShownInv, OnlyTheSeen
  <2>3. \A x \in Messages : number[x] < NextPlace
    BY <1>3 DEF PlacesGrow
  <2> HIDE DEF l, h
  <2>4. QED
    BY <1>1, <1>4, <2>1, <2>2, <2>3
<1>10. ShownInv'
  <2>1. \A x \in Messages : number'[x] > 0 <=> x \in seen'
    BY <1>1, <1>3, <1>4 DEF ShownInv, OnlyTheSeen
  <2>2. CASE held' = Append(held, m) /\ heldTimer' = TRUE /\ UNCHANGED <<turns, shown, wake>>
    <3>1. /\ held' \in Seq(Messages) /\ DOMAIN held' = 1..(h + 1)
          /\ \A i \in 1..h : held'[i] = held[i]
          /\ held'[h + 1] = m
      BY <1>7, <2>2
    <3>2. \A i \in 1..(h + 1) : i \in 1..h \/ i = h + 1
      BY <1>7
    <3> HIDE DEF l, h
    <3>3. OnlyTheSeen'
      <4>1. Elements(held') \subseteq Elements(held) \cup {m}
        BY <1>7, <3>1, <3>2 DEF Elements
      <4>2. QED
        BY <1>1, <1>3, <2>1, <2>2, <4>1 DEF ShownInv, OnlyTheSeen
    <3>4. Ordered(shown)'
      BY <1>3, <1>7, <1>8, <2>2 DEF ShownInv, HeldCameLater, Ordered
    <3>5. Ordered(held)'
      <4> SUFFICES ASSUME NEW i \in 1..(h + 1), NEW j \in 1..(h + 1), i < j
                   PROVE  number'[held'[i]] < number'[held'[j]]
        BY <3>1 DEF Ordered
      <4>1. i \in 1..h
        BY <1>7
      <4>2. CASE j \in 1..h
        BY <1>3, <1>7, <1>9, <3>1, <4>1, <4>2 DEF ShownInv, HeldCameLater, Ordered
      <4>3. CASE j = h + 1
        BY <1>4, <1>9, <3>1, <4>1, <4>3
      <4>4. QED
        BY <3>2, <4>2, <4>3
    <3>6. \A i \in DOMAIN shown', j \in DOMAIN held' : number'[shown'[i]] < number'[held'[j]]
      <4> SUFFICES ASSUME NEW i \in 1..l, NEW j \in 1..(h + 1)
                   PROVE  number'[shown[i]] < number'[held'[j]]
        BY <1>7, <2>2, <3>1
      <4>1. CASE j \in 1..h
        BY <1>3, <1>7, <1>8, <1>9, <3>1, <4>1 DEF ShownInv, HeldCameLater
      <4>2. CASE j = h + 1
        BY <1>4, <1>8, <3>1, <4>2
      <4>3. QED
        BY <3>2, <4>1, <4>2
    <3>7. ShownTyped'
      BY <1>3, <2>2, <3>1 DEF ShownInv, ShownTyped
    <3>8. QED
      BY <3>3, <3>4, <3>5, <3>6, <3>7 DEF ShownInv, HeldCameLater
  <2>3. CASE held = <<>> /\ shown' = shown \o <<m>> /\ UNCHANGED <<held, heldTimer>>
    <3>1. /\ shown' \in Seq(Messages) /\ DOMAIN shown' = 1..(l + 1)
          /\ \A i \in 1..l : shown'[i] = shown[i]
          /\ shown'[l + 1] = m
      BY <1>7, <2>3
    <3>2. (\A i \in 1..(l + 1) : i \in 1..l \/ i = l + 1) /\ DOMAIN held' = {}
      BY <1>7, <2>3
    <3> HIDE DEF l, h
    <3>3. OnlyTheSeen'
      <4>1. Elements(shown') \subseteq Elements(shown) \cup {m}
        BY <1>7, <3>1, <3>2 DEF Elements
      <4>2. QED
        BY <1>1, <1>3, <2>1, <2>3, <4>1 DEF ShownInv, OnlyTheSeen
    <3>4. Ordered(shown)'
      <4> SUFFICES ASSUME NEW i \in 1..(l + 1), NEW j \in 1..(l + 1), i < j
                   PROVE  number'[shown'[i]] < number'[shown'[j]]
        BY <3>1 DEF Ordered
      <4>1. i \in 1..l
        BY <1>7
      <4>2. CASE j \in 1..l
        BY <1>3, <1>7, <1>8, <3>1, <4>1, <4>2 DEF ShownInv, HeldCameLater, Ordered
      <4>3. CASE j = l + 1
        BY <1>4, <1>8, <3>1, <4>1, <4>3
      <4>4. QED
        BY <3>2, <4>2, <4>3
    <3>5. ShownTyped'
      BY <1>3, <2>3, <3>1 DEF ShownInv, ShownTyped
    <3>6. QED
      BY <3>2, <3>3, <3>4, <3>5 DEF ShownInv, HeldCameLater, Ordered
  <2>4. QED
    BY <1>2, <2>2, <2>3
<1>11. QED
  BY <1>4, <1>5, <1>6, <1>10, InboxPartsAfter

\* The sender takes a message back: what is still held keeps its order.
LEMMA ControlKeeps ==
  ASSUME InboxInv, NEW m \in Messages, Control(m) PROVE InboxInv'
<1>1. /\ DismissAsks({m}) /\ closed' = closed \cup {m} /\ held' = Drop(held, {m})
      /\ UNCHANGED <<hostVars, agentRunning, wake, heldTimer, seen, overdue, call, number, shown>>
  BY DEF Control
<1>2. /\ HostTyped /\ CallsTyped /\ RepliesAreAbout /\ TrackerTyped /\ AsksStayOwed
      /\ PlacesTyped /\ PlacesGrow /\ ShownInv
  BY InboxParts
<1>3. HostTyped' /\ CallsTyped' /\ RepliesAreAbout'
  BY <1>1, <1>2, CallRests DEF HostTyped, hostVars
<1>4. closed' \subseteq Messages
  BY <1>1, <1>2 DEF TrackerTyped
<1>5. TrackerTyped' /\ owed \subseteq owed' \cup {m}
  BY <1>1, <1>2, <1>4, DismissTyped
<1>6. AsksStayOwed'
  BY <1>1, <1>2, <1>5, OwedStays
<1>7. PlacesTyped' /\ PlacesGrow'
  BY <1>1, <1>2, PlacesStay
<1>8. /\ held' \in Seq(Messages) /\ Elements(held') \subseteq Elements(held)
      /\ Thins(held', held)
  BY <1>1, <1>2, DropThins DEF ShownInv, ShownTyped
<1>9. ShownInv'
  <2>1. PICK at \in [DOMAIN held' -> DOMAIN held] :
          /\ \A n \in DOMAIN held' : held'[n] = held[at[n]]
          /\ \A n, p \in DOMAIN held' : n < p => at[n] < at[p]
    BY <1>8 DEF Thins
  <2>2. Ordered(held)'
    <3>1. Ordered(held) /\ UNCHANGED number
      BY <1>1, <1>2 DEF ShownInv, HeldCameLater
    <3>2. \A n, p \in DOMAIN held' :
            n < p => number[held[at[n]]] < number[held[at[p]]]
      BY <2>1, <3>1 DEF Ordered
    <3>3. QED
      BY <2>1, <3>1, <3>2 DEF Ordered
  <2>3. Ordered(shown)'
    BY <1>1, <1>2 DEF ShownInv, HeldCameLater, Ordered
  <2>4. \A i \in DOMAIN shown', j \in DOMAIN held' : number'[shown'[i]] < number'[held'[j]]
    BY <1>1, <1>2, <2>1 DEF ShownInv, HeldCameLater
  <2>5. OnlyTheSeen'
    BY <1>1, <1>2, <1>8 DEF ShownInv, OnlyTheSeen
  <2>6. QED
    BY <1>1, <1>2, <1>8, <2>2, <2>3, <2>4, <2>5 DEF ShownInv, ShownTyped, HeldCameLater
<1>10. QED
  BY <1>2, <1>3, <1>5, <1>6, <1>7, <1>9, InboxPartsAfter

\* The timer, a run that starts and a turn that ends put all held messages before the model,
\* the first or none.
LEMMA HeldMoves ==
  ASSUME ShownTyped, HeldTick \/ AgentStart \/ \E finished \in BOOLEAN : TurnEnd(finished)
  PROVE  \/ UNCHANGED <<turns, shown, held, heldTimer>>
         \/ \E s \in Seq(Messages) :
              /\ s = <<>> \/ s = held \/ (held # <<>> /\ s = <<Head(held)>>)
              /\ turns' = turns \o s /\ shown' = shown \o s
              /\ held' = SubSeq(held, Len(s) + 1, Len(held)) /\ heldTimer' \in BOOLEAN
<1>0. held \in Seq(Messages) /\ shown \in Seq(Messages) /\ heldTimer \in BOOLEAN
  BY DEF ShownTyped
<1>1. CASE HeldTick
  <2> DEFINE s == Flushable(agentRunning)
  <2>1. s = <<>> \/ s = held \/ (held # <<>> /\ s = <<Head(held)>>)
    BY DEF Flushable
  <2>2. s \in Seq(Messages)
    <3> HIDE DEF s
    <3>1. <<>> \in Seq(Messages) /\ (held # <<>> => Head(held) \in Messages)
      BY <1>0
    <3>2. held # <<>> => <<Head(held)>> \in Seq(Messages)
      BY <3>1
    <3>3. QED
      BY <1>0, <2>1, <3>1, <3>2
  <2>3. /\ turns' = turns \o s /\ shown' = shown \o s
        /\ held' = SubSeq(held, Len(s) + 1, Len(held)) /\ heldTimer' \in BOOLEAN
    BY <1>0, <1>1 DEF HeldTick, Flush, Inject, KeepsTimer
  <2> HIDE DEF s
  <2>4. QED
    BY <2>1, <2>2, <2>3
<1>2. CASE AgentStart
  <2> DEFINE s == IF HumanFirst THEN <<>> ELSE IF setting.ui THEN held ELSE <<>>
  <2>1. s = <<>> \/ s = held
    OBVIOUS
  <2>2. s \in Seq(Messages)
    BY <1>0, <2>1
  <2>3. /\ turns' = turns \o s /\ shown' = shown \o s
        /\ held' = SubSeq(held, Len(s) + 1, Len(held)) /\ heldTimer' \in BOOLEAN
    BY <1>0, <1>2 DEF AgentStart, KeepsTimer
  <2> HIDE DEF s
  <2>4. QED
    BY <2>1, <2>2, <2>3
<1>3. ASSUME NEW finished \in BOOLEAN, TurnEnd(finished),
             HumanFirst /\ finished /\ held # <<>> /\ agentRunning
      PROVE  \E s \in Seq(Messages) :
               /\ held # <<>> /\ s = <<Head(held)>>
               /\ turns' = turns \o s /\ shown' = shown \o s
               /\ held' = SubSeq(held, Len(s) + 1, Len(held)) /\ heldTimer' \in BOOLEAN
  <2> DEFINE s == <<Head(held)>>
  <2>1. s \in Seq(Messages) /\ Len(s) = 1
    BY <1>0, <1>3
  <2>2. Tail(held) = SubSeq(held, 2, Len(held))
    BY <1>0, <1>3, TailIsSubSeq
  <2>3. /\ turns' = turns \o s /\ shown' = shown \o s
        /\ held' = Tail(held) /\ heldTimer' \in BOOLEAN
    BY <1>0, <1>3 DEF TurnEnd, Inject, KeepsTimer
  <2>4. held' = SubSeq(held, Len(s) + 1, Len(held))
    BY <2>1, <2>2, <2>3
  <2>5. held # <<>> /\ s = <<Head(held)>>
    BY <1>3
  <2> HIDE DEF s
  <2>6. QED
    BY <2>1, <2>3, <2>4, <2>5
<1>4. ASSUME NEW finished \in BOOLEAN, TurnEnd(finished),
             ~(HumanFirst /\ finished /\ held # <<>> /\ agentRunning)
      PROVE  UNCHANGED <<turns, shown, held, heldTimer>>
  BY <1>4 DEF TurnEnd
<1>5. QED
  BY <1>1, <1>2, <1>3, <1>4

\* The same, as messages that move from the held ones.
LEMMA HeldAdvances ==
  ASSUME ShownTyped, HeldTick \/ AgentStart \/ \E finished \in BOOLEAN : TurnEnd(finished)
  PROVE  UNCHANGED <<shown, held>> \/ \E n \in 0..Len(held) : Advances(n)
BY HeldMoves, HeadsAdvance DEF ShownTyped

\* The timer and the end of a turn move held messages, the first first.
LEMMA HeldStepKeeps ==
  ASSUME InboxInv, HeldTick \/ AgentStart \/ \E finished \in BOOLEAN : TurnEnd(finished)
  PROVE  InboxInv'
<1>1. /\ HostTyped /\ CallsTyped /\ RepliesAreAbout /\ TrackerTyped /\ AsksStayOwed
      /\ PlacesTyped /\ PlacesGrow /\ ShownInv
  BY InboxParts
<1>2. held \in Seq(Messages) /\ shown \in Seq(Messages) /\ heldTimer \in BOOLEAN
  BY <1>1 DEF ShownInv, ShownTyped
<1>3. UNCHANGED <<seen, number, owed, overdue, closed, call>>
  BY DEF HeldTick, AgentStart, TurnEnd
<1>4. HostTyped'
  BY <1>1 DEF HeldTick, AgentStart, TurnEnd, Flush, Inject, HostTyped, hostVars
<1>5. current' \in {current, NoMessage}
  BY DEF HeldTick, AgentStart, TurnEnd
<1>6. \/ UNCHANGED <<turns, shown, held, heldTimer>>
      \/ \E s \in Seq(Messages) :
           /\ s = <<>> \/ s = held \/ (held # <<>> /\ s = <<Head(held)>>)
           /\ turns' = turns \o s /\ shown' = shown \o s
           /\ held' = SubSeq(held, Len(s) + 1, Len(held)) /\ heldTimer' \in BOOLEAN
  BY <1>1, HeldMoves DEF ShownInv
<1>7. ShownInv' /\ turns' \in Seq(Messages)
  <2>1. turns \in Seq(Messages)
    BY <1>1 DEF TrackerTyped
  <2>2. CASE UNCHANGED <<turns, shown, held, heldTimer>>
    BY <1>1, <1>2, <1>3, <2>1, <2>2, ShownRests
  <2>3. CASE ~UNCHANGED <<turns, shown, held, heldTimer>>
    <3>1. PICK s \in Seq(Messages) :
            /\ s = <<>> \/ s = held \/ (held # <<>> /\ s = <<Head(held)>>)
            /\ turns' = turns \o s /\ shown' = shown \o s
            /\ held' = SubSeq(held, Len(s) + 1, Len(held)) /\ heldTimer' \in BOOLEAN
      BY <1>6, <2>3
    <3>2. PICK n \in 0..Len(held) : Advances(n)
      BY <1>2, <3>1, HeadsAdvance
    <3>3. QED
      BY <1>1, <1>3, <2>1, <3>1, <3>2, AdvanceKeeps
  <2>4. QED
    BY <2>2, <2>3
<1>8. TrackerTyped' /\ AsksStayOwed'
  BY <1>1, <1>3, <1>5, <1>7, OwedStays DEF TrackerTyped
<1>9. QED
  BY <1>1, <1>3, <1>4, <1>7, <1>8, CallRests, PlacesStay, InboxPartsAfter

\* The session ends, and tells what it held and owed to have expired.
LEMMA SessionEndKeeps ==
  ASSUME InboxInv, StartSession \/ EndSession PROVE InboxInv'
<1>1. /\ HostTyped /\ CallsTyped /\ RepliesAreAbout /\ TrackerTyped /\ AsksStayOwed
      /\ PlacesTyped /\ PlacesGrow /\ ShownInv
  BY InboxParts
<1>2. TellExpired /\ context' \in BOOLEAN /\ agentRunning' \in BOOLEAN
  BY <1>1 DEF StartSession, EndSession, HostTyped
<1>3. /\ closed' = closed \cup owed \cup Elements(held)
      /\ owed' = {} /\ turns' = <<>> /\ current' = NoMessage
      /\ held' = <<>> /\ heldTimer' = FALSE /\ wake' = FALSE
      /\ UNCHANGED <<setting, host, inTurn, seen, overdue, call, number, shown>>
  BY <1>2 DEF TellExpired
<1>4. Elements(held) \subseteq Messages
  BY <1>1 DEF ShownInv, ShownTyped, Elements
<1>5. HostTyped' /\ CallsTyped' /\ RepliesAreAbout'
  BY <1>1, <1>2, <1>3, CallRests DEF HostTyped
<1>6. TrackerTyped'
  <2>1. owed \subseteq Messages /\ closed \subseteq Messages
    BY <1>1, InboxAssumption DEF TrackerTyped
  <2>2. <<>> \in Seq(Messages)
    OBVIOUS
  <2>3. QED
    BY <1>1, <1>3, <1>4, <2>1, <2>2 DEF TrackerTyped
<1>7. AsksStayOwed'
  BY <1>1, <1>3, OwedStays
<1>8. PlacesTyped' /\ PlacesGrow'
  BY <1>1, <1>3, PlacesStay
<1>9. ShownInv'
  <2>1. DOMAIN held' = {} /\ held' \in Seq(Messages)
    BY <1>3
  <2>2. Elements(held') = {}
    BY <2>1 DEF Elements
  <2>3. OnlyTheSeen'
    BY <1>1, <1>3, <2>2 DEF ShownInv, OnlyTheSeen
  <2>4. HeldCameLater'
    BY <1>1, <1>3, <2>1 DEF ShownInv, HeldCameLater, Ordered
  <2>5. QED
    BY <1>1, <1>3, <2>1, <2>3, <2>4 DEF ShownInv, ShownTyped
<1>10. QED
  BY <1>5, <1>6, <1>7, <1>8, <1>9, InboxPartsAfter

\* The host becomes busy, runs or rests; a reservation lapses; a message is overdue.
LEMMA HostStepKeeps ==
  ASSUME InboxInv,
         \/ Begins \/ Settles \/ AgentEnd \/ WakeLapses
         \/ \E m \in Messages : Lapses(m)
  PROVE  InboxInv'
<1>1. /\ HostTyped /\ CallsTyped /\ RepliesAreAbout /\ TrackerTyped /\ AsksStayOwed
      /\ PlacesTyped /\ PlacesGrow /\ ShownInv
  BY InboxParts
<1>2. UNCHANGED <<held, heldTimer, seen, trackerVars, call, number, shown, closed>>
  BY DEF Begins, Settles, AgentEnd, WakeLapses, Lapses, hostOnly
<1>3. HostTyped'
  BY <1>1 DEF Begins, Settles, AgentEnd, WakeLapses, Lapses, HostTyped, hostVars
<1>4. overdue \subseteq overdue' /\ overdue' \subseteq Messages
  BY <1>1 DEF Begins, Settles, AgentEnd, WakeLapses, Lapses, hostOnly, TrackerTyped
<1>5. TrackerTyped' /\ AsksStayOwed'
  BY <1>1, <1>2, <1>4, OwedStays DEF TrackerTyped, trackerVars
<1>6. ShownInv'
  BY <1>1, <1>2, ShownRests DEF ShownInv, ShownTyped
<1>7. QED
  BY <1>1, <1>2, <1>3, <1>5, <1>6, CallRests, PlacesStay, InboxPartsAfter

\* A turn begins with the oldest ask that is not overdue.
LEMMA TurnStartKeeps ==
  ASSUME InboxInv, TurnStart PROVE InboxInv'
<1>1. /\ HostTyped /\ CallsTyped /\ RepliesAreAbout /\ TrackerTyped /\ AsksStayOwed
      /\ PlacesTyped /\ PlacesGrow /\ ShownInv
  BY InboxParts
<1> DEFINE left == Drop(turns, Expired)
<1>2. /\ owed' = owed \ Expired
      /\ current' = IF left = <<>> THEN NoMessage ELSE Head(left)
      /\ turns' = IF left = <<>> THEN <<>> ELSE Tail(left)
      /\ UNCHANGED <<held, heldTimer, seen, overdue, call, number, shown, closed>>
  BY DEF TurnStart
<1>3. HostTyped'
  BY <1>1 DEF TurnStart, HostTyped
<1>4. left \in Seq(Messages)
  BY <1>1, DropThins DEF TrackerTyped
<1> HIDE DEF left
<1>5. turns' \in Seq(Messages) /\ current' \in Messages \cup {NoMessage}
  BY <1>2, <1>4
<1>6. TrackerTyped' /\ AsksStayOwed'
  BY <1>1, <1>2, <1>5, OwedStays DEF TrackerTyped, Expired
<1>7. ShownInv'
  BY <1>1, <1>2, ShownRests DEF ShownInv, ShownTyped
<1>8. QED
  BY <1>1, <1>2, <1>3, <1>6, <1>7, CallRests, PlacesStay, InboxPartsAfter

\* Overdue asks are dismissed before a reply or a send is tried.
LEMMA CallMade ==
  ASSUME InboxInv, NEW c \in Outgoing, NEW how \in {"replying", "sending"},
         NEW m \in Messages \cup {NoMessage}, how = "replying" => m \in Messages,
         call' = [call EXCEPT ![c] = [state |-> how, about |-> m]],
         DismissAsks(Expired), UNCHANGED <<callOnly, closed>>
  PROVE  InboxInv'
<1>1. /\ HostTyped /\ CallsTyped /\ RepliesAreAbout /\ TrackerTyped /\ AsksStayOwed
      /\ PlacesTyped /\ PlacesGrow /\ ShownInv
  BY InboxParts
<1>2. UNCHANGED <<hostVars, agentRunning, wake, held, heldTimer, seen, overdue, number, shown,
                  closed>>
  BY DEF callOnly
<1>3. CallsTyped' /\ RepliesAreAbout'
  BY <1>1 DEF CallsTyped, RepliesAreAbout
<1>4. TrackerTyped' /\ owed \subseteq owed' \cup Expired
  <2>1. closed' \subseteq Messages
    BY <1>1, <1>2 DEF TrackerTyped
  <2> DEFINE S == Expired
  <2>2. DismissAsks(S)
    OBVIOUS
  <2> HIDE DEF S
  <2>3. TrackerTyped' /\ owed \subseteq owed' \cup S
    BY <1>1, <1>2, <2>1, <2>2, DismissTyped
  <2>4. QED
    BY <2>3 DEF S
<1>5. AsksStayOwed'
  BY <1>1, <1>2, <1>4, OwedStays DEF Expired
<1>6. HostTyped' /\ ShownInv'
  BY <1>1, <1>2, ShownRests DEF HostTyped, hostVars, ShownInv, ShownTyped
<1>7. QED
  BY <1>1, <1>2, <1>3, <1>4, <1>5, <1>6, PlacesStay, InboxPartsAfter

\* A reply or a send starts, about an ask that is pending.
LEMMA CallStarts ==
  ASSUME InboxInv, NEW c \in Outgoing,
         \/ ReplyCall(c)
         \/ \E p \in Peers, handover \in BOOLEAN : SendCall(c, p, handover)
  PROVE  InboxInv'
<1>1. Pending \subseteq Messages /\ current \in Messages \cup {NoMessage}
  BY InboxAssumption DEF Pending, InboxInv, InboxTypeOK
<1>2. CASE ReplyCall(c)
  <2>1. BareTarget \cup (UNION {TargetFrom(p) : p \in Peers}) \cup Pending \subseteq Messages
    BY <1>1 DEF BareTarget, TargetFrom
  <2>2. PICK m \in Messages : call' = [call EXCEPT ![c] = [state |-> "replying", about |-> m]]
    BY <1>2, <2>1 DEF ReplyCall
  <2>3. QED
    BY <1>2, <2>2, CallMade DEF ReplyCall
<1>3. ASSUME NEW p \in Peers, NEW handover \in BOOLEAN, SendCall(c, p, handover)
      PROVE  InboxInv'
  <2> DEFINE m == IF handover \/ TargetFrom(p) = {} THEN NoMessage
                  ELSE CHOOSE n \in Pending : TargetFrom(p) = {n}
  <2>1. m \in Messages \cup {NoMessage}
    <3>1. CASE handover \/ TargetFrom(p) = {}
      BY <3>1
    <3>2. CASE ~(handover \/ TargetFrom(p) = {})
      <4>1. \E n \in Pending : TargetFrom(p) = {n}
        BY <3>2 DEF TargetFrom
      <4>2. m \in Pending
        BY <3>2, <4>1
      <4>3. QED
        BY <1>1, <4>2
    <3>3. QED
      BY <3>1, <3>2
  <2>2. /\ call' = [call EXCEPT ![c] = [state |-> "sending", about |-> m]]
        /\ DismissAsks(Expired) /\ UNCHANGED <<callOnly, closed>>
    BY <1>3 DEF SendCall
  <2> HIDE DEF m
  <2>3. QED
    BY <2>1, <2>2, CallMade
<1>4. QED
  BY <1>2, <1>3

\* A reply that was delivered settles its ask; one that failed, only when the sender is gone.
LEMMA CallEnds ==
  ASSUME InboxInv, NEW c \in Outgoing,
         Delivered(c) \/ \E gone \in BOOLEAN : CallFails(c, gone)
  PROVE  InboxInv'
<1>1. /\ HostTyped /\ CallsTyped /\ RepliesAreAbout /\ TrackerTyped /\ AsksStayOwed
      /\ PlacesTyped /\ PlacesGrow /\ ShownInv
  BY InboxParts
<1>2. /\ UNCHANGED <<hostVars, agentRunning, wake, held, heldTimer, seen, overdue, number, shown>>
      /\ call' = [call EXCEPT ![c] = [state |-> "idle", about |-> NoMessage]]
  BY DEF Delivered, CallFails, CallOver, callOnly
<1>3. CallsTyped' /\ RepliesAreAbout'
  BY <1>1, <1>2 DEF CallsTyped, RepliesAreAbout
<1>4. \/ UNCHANGED <<trackerVars, closed>>
      \/ /\ DismissAsks({call[c].about})
         /\ closed' = closed \cup ({call[c].about} \ {NoMessage})
  BY <1>1, InboxAssumption DEF Delivered, CallFails, GivesUpOn, RepliesAreAbout
<1>5. closed' \subseteq Messages /\ closed \subseteq closed'
  BY <1>1, <1>4 DEF CallsTyped, TrackerTyped
<1>6. TrackerTyped' /\ owed \subseteq owed' \cup closed'
  <2>1. CASE UNCHANGED <<trackerVars, closed>>
    BY <1>1, <1>2, <2>1 DEF TrackerTyped, trackerVars
  <2>2. CASE /\ DismissAsks({call[c].about})
             /\ closed' = closed \cup ({call[c].about} \ {NoMessage})
    <3> DEFINE S == {call[c].about}
    <3>1. DismissAsks(S) /\ closed' = closed \cup (S \ {NoMessage})
      BY <2>2
    <3> HIDE DEF S
    <3>2. TrackerTyped' /\ owed \subseteq owed' \cup S
      BY <1>1, <1>2, <1>5, <3>1, DismissTyped
    <3>3. NoMessage \notin owed
      BY <1>1, InboxAssumption DEF TrackerTyped
    <3>4. QED
      BY <3>1, <3>2, <3>3
  <2>3. QED
    BY <1>4, <2>1, <2>2
<1>7. AsksStayOwed'
  BY <1>1, <1>2, <1>5, <1>6, OwedStays
<1>8. HostTyped' /\ ShownInv'
  BY <1>1, <1>2, ShownRests DEF HostTyped, hostVars, ShownInv, ShownTyped
<1>9. QED
  BY <1>1, <1>2, <1>3, <1>6, <1>7, <1>8, PlacesStay, InboxPartsAfter

\* Every step keeps the inductive invariant.
LEMMA InboxStep == InboxInv /\ [InboxNext]_inboxVars => InboxInv'
<1> SUFFICES ASSUME InboxInv, [InboxNext]_inboxVars PROVE InboxInv'
  OBVIOUS
<1>1. CASE UNCHANGED inboxVars
  <2>1. /\ HostTyped /\ CallsTyped /\ RepliesAreAbout /\ TrackerTyped /\ AsksStayOwed
        /\ PlacesTyped /\ PlacesGrow /\ ShownInv
    BY InboxParts
  <2>2. HostTyped' /\ TrackerTyped' /\ ShownInv'
    BY <1>1, <2>1, ShownRests
    DEF inboxVars, hostVars, trackerVars, HostTyped, TrackerTyped, ShownInv, ShownTyped
  <2>3. CallsTyped' /\ RepliesAreAbout' /\ PlacesTyped' /\ PlacesGrow' /\ AsksStayOwed'
    BY <1>1, <2>1, CallRests, PlacesStay, OwedStays DEF inboxVars, trackerVars
  <2>4. QED
    BY <2>2, <2>3, InboxPartsAfter
<1>2. ASSUME NEW m \in Messages, Arrives(m) \/ Control(m) \/ Lapses(m) PROVE InboxInv'
  BY <1>2, ArrivalKeeps, ControlKeeps, HostStepKeeps
<1>3. CASE HeldTick \/ AgentStart \/ \E finished \in BOOLEAN : TurnEnd(finished)
  BY <1>3, HeldStepKeeps
<1>4. CASE StartSession \/ EndSession
  BY <1>4, SessionEndKeeps
<1>5. CASE Begins \/ Settles \/ AgentEnd \/ WakeLapses
  BY <1>5, HostStepKeeps
<1>6. CASE TurnStart
  BY <1>6, TurnStartKeeps
<1>7. ASSUME NEW c \in Outgoing,
             \/ ReplyCall(c) \/ Delivered(c)
             \/ \E p \in Peers, handover \in BOOLEAN : SendCall(c, p, handover)
             \/ \E gone \in BOOLEAN : CallFails(c, gone)
      PROVE  InboxInv'
  BY <1>7, CallStarts, CallEnds
<1>8. QED
  BY <1>1, <1>2, <1>3, <1>4, <1>5, <1>6, <1>7 DEF InboxNext

\* The messages held and shown by a session keep the order of arrival, and the asks that came
\* are owed an answer, whatever the host and the tool do: the inductive invariant.
THEOREM InboxInvariant == InboxSpec => []InboxInv
BY InboxInvInit, InboxStep, PTL DEF InboxSpec

\* Messages that leave the held ones for the model are shown.
LEMMA AdvanceLosesNothing ==
  ASSUME ShownTyped, NEW n \in 0..Len(held), Advances(n)
  PROVE  Elements(shown) \cup Elements(held) \subseteq Elements(shown') \cup Elements(held')
<1> DEFINE l == Len(shown)
           h == Len(held)
<1>1. /\ l \in Nat /\ h \in Nat /\ n \in Nat /\ n <= h
      /\ DOMAIN shown = 1..l /\ DOMAIN held = 1..h
  BY DEF ShownTyped
<1>2. /\ DOMAIN shown' = 1..(l + n) /\ \A i \in 1..l : shown'[i] = shown[i]
      /\ \A i \in 1..n : shown'[l + i] = held[i]
      /\ DOMAIN held' = 1..(h - n) /\ \A i \in 1..(h - n) : held'[i] = held[n + i]
  BY AdvancedSeqs
<1> HIDE DEF l, h
<1>3. ASSUME NEW i \in 1..l PROVE shown[i] \in Elements(shown')
  <2>1. i \in 1..(l + n) /\ shown'[i] = shown[i]
    BY <1>1, <1>2
  <2>2. QED
    BY <1>2, <2>1 DEF Elements
<1>4. ASSUME NEW i \in 1..h PROVE held[i] \in Elements(shown') \cup Elements(held')
  <2>1. CASE i <= n
    <3>1. l + i \in 1..(l + n) /\ shown'[l + i] = held[i]
      BY <1>1, <1>2, <2>1
    <3>2. held[i] \in Elements(shown')
      BY <1>2, <3>1 DEF Elements
    <3>3. QED
      BY <3>2
  <2>2. CASE ~(i <= n)
    <3>1. i - n \in 1..(h - n) /\ n + (i - n) = i
      BY <1>1, <2>2
    <3>2. held'[i - n] = held[i]
      BY <1>2, <3>1
    <3>3. held[i] \in Elements(held')
      BY <1>2, <3>1, <3>2 DEF Elements
    <3>4. QED
      BY <3>3
  <2>3. QED
    BY <2>1, <2>2
<1>5. QED
  BY <1>1, <1>3, <1>4 DEF Elements

\* Drop takes out the messages of S only.
LEMMA DropLeaves ==
  ASSUME NEW s \in Seq(Messages), NEW S
  PROVE  Elements(s) \ S \subseteq Elements(Drop(s, S))
<1> DEFINE I == {i \in DOMAIN s : s[i] \notin S}
<1>1. I \in SUBSET DOMAIN s
  OBVIOUS
<1>2. ASSUME NEW i \in I PROVE s[i] \in Elements(Drop(s, S))
  <2> DEFINE r == Filtered(s, I)
  <2> HIDE DEF I
  <2>1. Selects(r, s, I)
    BY <1>1, FilteredSelects
  <2>2. \E n \in DOMAIN r : r[n] = s[i]
    BY <1>2, <2>1 DEF Selects
  <2>3. r = Drop(s, S)
    BY DEF Drop, I
  <2>4. QED
    BY <2>2, <2>3 DEF Elements
<1>3. QED
  BY <1>2 DEF Elements

\* A step that neither receives nor loses anything that was shown or held.
LEMMA NothingGoes ==
  ASSUME NothingIsLost, UNCHANGED seen,
         Elements(shown) \cup Elements(held) \cup closed
         \subseteq Elements(shown') \cup Elements(held') \cup closed'
  PROVE  NothingIsLost'
BY DEF NothingIsLost

\* Every step of the session keeps what came.
LEMMA LossStep == InboxInv /\ NothingIsLost /\ [InboxNext]_inboxVars => NothingIsLost'
<1> SUFFICES ASSUME InboxInv, NothingIsLost, [InboxNext]_inboxVars PROVE NothingIsLost'
  OBVIOUS
<1>1. ShownTyped /\ held \in Seq(Messages) /\ shown \in Seq(Messages)
  BY InboxParts DEF ShownInv, ShownTyped
<1>2. ASSUME UNCHANGED <<seen, shown, held>>, closed \subseteq closed' PROVE NothingIsLost'
  BY <1>2, NothingGoes
<1>3. ASSUME UNCHANGED inboxVars PROVE NothingIsLost'
  BY <1>2, <1>3 DEF inboxVars
<1>4. ASSUME NEW m \in Messages, Arrives(m) PROVE NothingIsLost'
  <2>1. seen' = seen \cup {m} /\ closed' = closed
    BY <1>4 DEF Arrives
  <2>2. \/ held' = Append(held, m) /\ shown' = shown
        \/ held' = held /\ shown' = shown \o <<m>>
    BY <1>4 DEF Arrives, Inject
  <2>3. ASSUME NEW s \in Seq(Messages), NEW t, t = Append(s, m) \/ t = s \o <<m>>
        PROVE  Elements(s) \cup {m} \subseteq Elements(t)
    <3> DEFINE l == Len(s)
    <3>1. l \in Nat /\ DOMAIN s = 1..l
      OBVIOUS
    <3>2. DOMAIN t = 1..(l + 1) /\ t[l + 1] = m /\ \A i \in 1..l : t[i] = s[i]
      BY <2>3
    <3> HIDE DEF l
    <3>3. l + 1 \in 1..(l + 1) /\ 1..l \subseteq 1..(l + 1)
      BY <3>1
    <3>4. QED
      BY <3>1, <3>2, <3>3 DEF Elements
  <2>4. \/ Elements(held) \cup {m} \subseteq Elements(held') /\ shown' = shown
        \/ held' = held /\ Elements(shown) \cup {m} \subseteq Elements(shown')
    BY <1>1, <2>2, <2>3
  <2>5. QED
    BY <2>1, <2>4 DEF NothingIsLost
<1>5. ASSUME NEW m \in Messages, Control(m) PROVE NothingIsLost'
  <2>1. closed' = closed \cup {m} /\ held' = Drop(held, {m}) /\ UNCHANGED <<seen, shown>>
    BY <1>5 DEF Control
  <2>2. Elements(held) \ {m} \subseteq Elements(held')
    BY <1>1, <2>1, DropLeaves
  <2>3. QED
    BY <2>1, <2>2, NothingGoes
<1>6. CASE HeldTick \/ AgentStart \/ \E finished \in BOOLEAN : TurnEnd(finished)
  <2>1. UNCHANGED <<seen, closed>>
    BY <1>6 DEF HeldTick, AgentStart, TurnEnd
  <2>2. UNCHANGED <<shown, held>> \/ \E n \in 0..Len(held) : Advances(n)
    BY <1>1, <1>6, HeldAdvances
  <2>3. Elements(shown) \cup Elements(held) \subseteq Elements(shown') \cup Elements(held')
    BY <1>1, <2>2, AdvanceLosesNothing
  <2>4. QED
    BY <2>1, <2>3, NothingGoes
<1>7. CASE StartSession \/ EndSession
  <2>1. /\ closed \cup Elements(held) \subseteq closed'
        /\ UNCHANGED <<seen, shown>>
    BY <1>7 DEF StartSession, EndSession, TellExpired
  <2>2. QED
    BY <2>1, NothingGoes
<1>8. CASE Begins \/ Settles \/ AgentEnd \/ WakeLapses \/ TurnStart \/ \E m \in Messages : Lapses(m)
  <2>1. UNCHANGED <<seen, shown, held, closed>>
    BY <1>8 DEF Begins, Settles, AgentEnd, WakeLapses, TurnStart, Lapses, hostOnly
  <2>2. QED
    BY <1>2, <2>1
<1>9. ASSUME NEW c \in Outgoing,
             \/ ReplyCall(c) \/ Delivered(c)
             \/ \E p \in Peers, handover \in BOOLEAN : SendCall(c, p, handover)
             \/ \E gone \in BOOLEAN : CallFails(c, gone)
      PROVE  NothingIsLost'
  <2>1. UNCHANGED <<seen, shown, held>> /\ closed \subseteq closed'
    BY <1>9 DEF ReplyCall, Delivered, SendCall, CallFails, callOnly
  <2>2. QED
    BY <1>2, <2>1
<1>10. QED
  BY <1>3, <1>4, <1>5, <1>6, <1>7, <1>8, <1>9 DEF InboxNext

\* What a peer sent and the session took is before the model or held, unless it was
\* withdrawn, answered, given up with its sender, or told to have expired.
THEOREM NothingGetsLost == InboxSpec => []NothingIsLost
<1>1. InboxInit => NothingIsLost
  BY DEF InboxInit, NothingIsLost
<1>2. QED
  BY <1>1, LossStep, InboxInvariant, PTL DEF InboxSpec

\* flushHeld, route and the end of a turn put messages before the model once each and in the
\* order they arrived in, however often the broker delivers them, and leave none out.
THEOREM OrderIsKept == InboxSpec => []OnceAndInOrder
<1>1. InboxInv /\ NothingIsLost => OnceAndInOrder
  <2> SUFFICES ASSUME InboxInv, NothingIsLost PROVE OnceAndInOrder
    OBVIOUS
  <2>1. held \in Seq(Messages) /\ shown \in Seq(Messages) /\ HeldCameLater
    BY DEF InboxInv, InboxTypeOK
  <2> DEFINE l == Len(shown)
             h == Len(held)
             all == shown \o held
  <2>2. /\ l \in Nat /\ h \in Nat
        /\ DOMAIN shown = 1..l /\ DOMAIN held = 1..h /\ DOMAIN all = 1..(l + h)
    BY <2>1
  <2>3. \A i \in 1..(l + h) : all[i] = IF i <= l THEN shown[i] ELSE held[i - l]
    BY <2>1
  <2> HIDE DEF l, h, all
  <2>4. ASSUME NEW i \in 1..(l + h), NEW j \in 1..(l + h), i < j
        PROVE  number[all[i]] < number[all[j]]
    <3>1. CASE j <= l
      <4>1. i \in 1..l /\ j \in 1..l /\ all[i] = shown[i] /\ all[j] = shown[j]
        BY <2>2, <2>3, <2>4, <3>1
      <4>2. QED
        BY <2>1, <2>2, <2>4, <4>1 DEF HeldCameLater, Ordered
    <3>2. CASE i <= l /\ ~(j <= l)
      <4>1. i \in 1..l /\ j - l \in 1..h /\ all[i] = shown[i] /\ all[j] = held[j - l]
        BY <2>2, <2>3, <3>2
      <4>2. QED
        BY <2>1, <2>2, <4>1 DEF HeldCameLater
    <3>3. CASE ~(i <= l)
      <4>1. /\ i - l \in 1..h /\ j - l \in 1..h /\ i - l < j - l
            /\ all[i] = held[i - l] /\ all[j] = held[j - l]
        BY <2>2, <2>3, <2>4, <3>3
      <4>2. QED
        BY <2>1, <2>2, <4>1 DEF HeldCameLater, Ordered
    <3>4. QED
      BY <2>2, <2>4, <3>1, <3>2, <3>3
  <2>5. QED
    BY <2>2, <2>4 DEF OnceAndInOrder, all
<1>2. QED
  BY <1>1, InboxInvariant, NothingGetsLost, PTL

\* ReplyTracker owes an ask that came an answer until one was delivered, the ask was withdrawn
\* or its sender is gone, the session ended, or the time-out passed.
THEOREM AsksAreOwed == InboxSpec => []AsksStayOwed
<1>1. InboxInv => AsksStayOwed
  BY DEF InboxInv
<1>2. QED
  BY <1>1, InboxInvariant, PTL

-----------------------------------------------------------------------------
(* The start of the broker.                                                *)

\* The initial state has its type.
LEMMA SpawnTypesInit == SpawnInit => SpawnTypeOK
BY DEF SpawnInit, SpawnTypeOK, Steps, ProcessStages

\* Every step keeps the types; what was upset stays so.
LEMMA SpawnTypesNext ==
  ASSUME SpawnTypeOK, SpawnNext PROVE SpawnTypeOK' /\ (upset => upset')
<1> USE DEF SpawnTypeOK, Steps, ProcessStages, Goes, Becomes, files, Late, InTime, NoAnswer
<1>1. ASSUME NEW s \in Spawners,
             \/ Seeks(s) \/ Finds(s) \/ FindsNone(s) \/ Locks(s) \/ Judges(s) \/ Steals(s)
             \/ Awaited(s) \/ Waited(s) \/ Releases(s) \/ Disconnects(s) \/ Crashes(s) \/ Revives(s)
      PROVE  SpawnTypeOK' /\ (upset => upset')
  BY <1>1 DEF Seeks, Finds, FindsNone, Locks, Judges, Steals, Awaited, Waited, Releases,
              Disconnects, Crashes, Revives
<1>2. ASSUME NEW s \in Spawners, NEW b \in Brokers, Spawns(s, b)
      PROVE  SpawnTypeOK' /\ (upset => upset')
  BY <1>2 DEF Spawns
<1>3. ASSUME NEW b \in Brokers,
             \/ Asserts(b) \/ Replaces(b) \/ Binds(b) \/ Listens(b) \/ Leaves(b)
             \/ BrokerLeaves(b) \/ Killed(b)
      PROVE  SpawnTypeOK' /\ (upset => upset')
  BY <1>3 DEF Asserts, Replaces, Binds, Listens, Leaves, BrokerLeaves, Removes, Killed
<1>4. CASE LockAges
  BY <1>4 DEF LockAges
<1>5. QED
  BY <1>1, <1>2, <1>3, <1>4 DEF SpawnNext

\* What a session waits for gives at most one broker a chance to start.
LEMMA HolderIsOne ==
  ASSUME SpawnTypeOK, Timely, NEW s \in Spawners, NEW t \in Spawners,
         child[s] # Nobody, child[t] # Nobody
  PROVE  s = t /\ lock = s
BY DEF Timely, HolderIsInside

\* A step of a session that spawns nobody and lets no child go leaves the processes alone.
LEMMA SessionStepIsTimely ==
  ASSUME SpawnTypeOK, Timely, NEW s \in Spawners, ~upset',
         \/ Seeks(s) \/ Finds(s) \/ FindsNone(s) \/ Locks(s) \/ Judges(s) \/ Steals(s)
         \/ Waited(s) \/ Releases(s) \/ Disconnects(s) \/ Crashes(s) \/ Revives(s)
  PROVE  Timely'
<1> USE DEF Goes, files, Timely, HolderIsInside
<1>1. UNCHANGED <<child, process, bound, pidfile>>
  BY DEF Seeks, Finds, FindsNone, Locks, Judges, Steals, Waited, Releases, Disconnects, Crashes,
         Revives
<1>2. StartingIsAwaited' /\ ServingIsKnown' /\ OnePast'
  BY <1>1 DEF StartingIsAwaited, ServingIsKnown, OnePast, Past, Awaits
<1>3. lock \in Spawners \cup {Nobody} /\ Nobody \notin Spawners /\ step \in [Spawners -> Steps]
  BY SpawnAssumption DEF SpawnTypeOK
<1>4. HolderIsInside'
  <2>1. CASE Seeks(s) \/ FindsNone(s) \/ Waited(s) \/ Disconnects(s)
    <3>1. PICK next \in {"probing", "locking", "connected", "idle"} :
            step' = [step EXCEPT ![s] = next]
      BY <2>1 DEF Seeks, FindsNone, Waited, Disconnects
    <3>2. step[s] \in {"idle", "probing", "waiting", "connected"} /\ lock' = lock /\ aged' = aged
      BY <2>1 DEF Seeks, FindsNone, Waited, Disconnects
    <3>3. \A t \in Spawners : step'[t] = IF t = s THEN next ELSE step[t]
      BY <1>3, <3>1
    <3>4. QED
      BY <1>1, <3>2, <3>3
  <2>6. CASE Finds(s)
    BY <1>3, <2>6 DEF Finds
  <2>2. CASE Locks(s)
    BY <1>3, <2>2 DEF Locks, Creates
  <2>3. CASE Judges(s)
    BY <1>3, <2>3 DEF Judges
  <2>4. CASE Releases(s)
    BY <1>3, <2>4 DEF Releases
  <2>5. CASE Steals(s) \/ Revives(s) \/ Crashes(s)
    BY <1>3, <2>5 DEF Steals, Revives, Crashes
  <2>7. QED
    BY <2>1, <2>2, <2>3, <2>4, <2>5, <2>6
<1>5. QED
  BY <1>2, <1>4

\* The holder of the lock spawns a process when nobody serves.
LEMMA SpawnsIsTimely ==
  ASSUME SpawnTypeOK, Timely, NEW s \in Spawners, NEW b \in Brokers, ~upset', Spawns(s, b)
  PROVE  Timely'
<1>1. /\ step[s] = "probing again" /\ process[b] = "gone" /\ ~BrokerAnswers
      /\ process' = [process EXCEPT ![b] = "started"] /\ child' = [child EXCEPT ![s] = b]
      /\ step' = [step EXCEPT ![s] = "awaiting"]
      /\ UNCHANGED <<lock, aged, bound, pidfile>>
  BY DEF Spawns, NoAnswer, Late, Goes, Becomes, files
<1>2. \A c \in Brokers : process[c] # "serving"
  BY <1>1, SpawnAssumption DEF BrokerAnswers, Timely, ServingIsKnown
<1>3. HolderIsInside'
  BY <1>1, SpawnAssumption DEF Timely, HolderIsInside, SpawnTypeOK
<1>4. \A c \in Brokers : c # b => process'[c] = process[c]
  BY <1>1 DEF SpawnTypeOK
<1>5. process'[b] = "started"
  BY <1>1 DEF SpawnTypeOK
<1>6. child[s] = Nobody /\ child'[s] = b /\ \A t \in Spawners : t # s => child'[t] = child[t]
  BY <1>1 DEF Timely, HolderIsInside, SpawnTypeOK
<1>7. \A c \in Brokers : Awaits(c) => Awaits(c)'
  BY <1>6, SpawnAssumption DEF Awaits
<1>8. StartingIsAwaited'
  BY <1>2, <1>4, <1>5, <1>6, <1>7 DEF Timely, StartingIsAwaited, Awaits
<1>9. ServingIsKnown'
  BY <1>1, <1>4, <1>5, <1>7 DEF Timely, ServingIsKnown
<1>10. OnePast'
  BY <1>4, <1>5 DEF Timely, OnePast, Past
<1>11. QED
  BY <1>3, <1>8, <1>9, <1>10 DEF Timely

\* A child is let go when it serves or is gone.
LEMMA AwaitedIsTimely ==
  ASSUME SpawnTypeOK, Timely, NEW s \in Spawners, ~upset', Awaited(s)
  PROVE  Timely'
<1>1. /\ step[s] = "awaiting" /\ (BrokerAnswers \/ ~Alive(child[s]))
      /\ child' = [child EXCEPT ![s] = Nobody] /\ step' = [step EXCEPT ![s] = "releasing"]
      /\ UNCHANGED <<process, lock, aged, bound, pidfile>>
  BY DEF Awaited, Late, Goes, files
<1>2. HolderIsInside'
  BY <1>1, SpawnAssumption DEF Timely, HolderIsInside, SpawnTypeOK
<1>3. child[s] # Nobody
  BY <1>1 DEF Timely, HolderIsInside
<1>4. child[s] \in Brokers
  BY <1>3 DEF SpawnTypeOK
<1>5. \A c \in Brokers : c # child[s] => (Awaits(c) => Awaits(c)')
  BY <1>1 DEF Awaits, SpawnTypeOK
<1>6. process[child[s]] \in {"gone", "serving"}
  <2>1. CASE ~Alive(child[s])
    BY <1>3, <2>1 DEF Alive
  <2>2. CASE BrokerAnswers
    <3>1. bound \in Brokers /\ process[bound] = "serving"
      BY <2>2 DEF BrokerAnswers, SpawnTypeOK
    <3>2. process[child[s]] # "started"
      BY <1>4, <3>1 DEF Timely, StartingIsAwaited
    <3>3. process[child[s]] # "gone" => child[s] = bound
      BY <1>4, <3>1, <3>2 DEF Timely, OnePast, Past
    <3>4. QED
      BY <3>1, <3>3
  <2>3. QED
    BY <1>1, <2>1, <2>2
<1>7. StartingIsAwaited' /\ ServingIsKnown'
  <2>1. \A c \in Brokers : process[c] \notin {"gone", "serving"} => (Awaits(c) => Awaits(c)')
    BY <1>5, <1>6
  <2>2. QED
    BY <1>1, <2>1 DEF Timely, StartingIsAwaited, ServingIsKnown
<1>8. OnePast'
  BY <1>1 DEF Timely, OnePast, Past
<1>9. QED
  BY <1>2, <1>7, <1>8 DEF Timely

\* assertNoLiveBroker lets one process at most pass: the others are in the pid file, or awaited
\* by the holder of the lock, who awaits one.
LEMMA AssertsIsTimely ==
  ASSUME SpawnTypeOK, Timely, NEW b \in Brokers, Asserts(b) PROVE Timely'
<1>1. /\ process[b] = "started"
      /\ process' = [process EXCEPT ![b] = IF Alive(pidfile) THEN "gone" ELSE "replacing"]
      /\ UNCHANGED <<step, child, lock, aged, bound, pidfile>>
  BY DEF Asserts, Refuses, Becomes, files
<1>2. \A c \in Brokers : c # b => process'[c] = process[c]
  BY <1>1 DEF SpawnTypeOK
<1>3. process'[b] = IF Alive(pidfile) THEN "gone" ELSE "replacing"
  BY <1>1 DEF SpawnTypeOK
<1>4. ASSUME NEW c \in Brokers, c # b, Past(c) PROVE Alive(pidfile)
  <2>1. PICK s \in Spawners : child[s] = b
    BY <1>1 DEF Timely, StartingIsAwaited, Awaits
  <2>2. ~Awaits(c)
    <3> SUFFICES ASSUME NEW t \in Spawners, child[t] = c PROVE FALSE
      BY DEF Awaits
    <3>1. child[s] # Nobody /\ child[t] # Nobody
      BY <2>1, SpawnAssumption
    <3>2. QED
      BY <1>4, <2>1, <3>1, HolderIsOne
  <2>3. process[c] \in {"serving", "leaving", "unlinked"}
    BY <1>4, <2>2 DEF Past, Timely, StartingIsAwaited, SpawnTypeOK, ProcessStages
  <2>4. pidfile = c
    BY <2>2, <2>3 DEF Timely, ServingIsKnown
  <2>5. QED
    BY <2>3, <2>4, SpawnAssumption DEF Alive
<1>5. HolderIsInside'
  BY <1>1 DEF Timely, HolderIsInside
<1>6. StartingIsAwaited' /\ ServingIsKnown'
  BY <1>1, <1>2, <1>3 DEF Timely, StartingIsAwaited, ServingIsKnown, Awaits
<1>7. OnePast'
  BY <1>2, <1>3, <1>4 DEF Timely, OnePast, Past
<1>8. QED
  BY <1>5, <1>6, <1>7 DEF Timely

\* What a process does after that.
LEMMA ProcessStepIsTimely ==
  ASSUME SpawnTypeOK, Timely, NEW b \in Brokers,
         Replaces(b) \/ Binds(b) \/ Listens(b) \/ Leaves(b) \/ BrokerLeaves(b) \/ Killed(b)
  PROVE  Timely'
<1> USE DEF Becomes, files
<1>1. UNCHANGED <<step, child, lock, aged>>
  BY DEF Replaces, Binds, Listens, Leaves, BrokerLeaves, Killed
<1>2. \A c \in Brokers : c # b => process'[c] = process[c]
  BY DEF Replaces, Binds, Listens, Leaves, BrokerLeaves, Removes, Killed, SpawnTypeOK
<1>3. process[b] # "gone" /\ process'[b] # "started" /\ (Past(b)' => Past(b))
  BY DEF Replaces, Binds, Listens, Leaves, BrokerLeaves, Removes, Killed, SpawnTypeOK, Past
<1>4. \A c \in Brokers : c # b /\ Past(b) => process[c] \in {"gone", "started"}
  BY DEF Timely, OnePast, Past
<1>5. HolderIsInside'
  BY <1>1 DEF Timely, HolderIsInside
<1>6. OnePast'
  BY <1>2, <1>3 DEF Timely, OnePast, Past
<1>7. \A c \in Brokers : Awaits(c)' <=> Awaits(c)
  BY <1>1 DEF Awaits
<1>8. \A c \in Brokers : c # b =>
        /\ process'[c] \in {"started", "replacing", "binding", "bound"} => Awaits(c)'
  BY <1>2, <1>7 DEF Timely, StartingIsAwaited
<1>9. process'[b] \in {"started", "replacing", "binding", "bound"} => Awaits(b)'
  BY <1>7 DEF Replaces, Binds, Listens, Leaves, BrokerLeaves, Removes, Killed, SpawnTypeOK,
              Timely, StartingIsAwaited
<1>10. StartingIsAwaited'
  <2>1. ASSUME NEW c \in Brokers, process'[c] = "started",
               NEW d \in Brokers, process'[d] = "serving"
        PROVE  FALSE
    <3>1. c # b /\ process[c] = "started"
      BY <1>2, <1>3, <2>1
    <3>2. d = b /\ process[b] # "serving"
      BY <1>2, <2>1, <3>1 DEF Timely, StartingIsAwaited
    <3>3. process[b] = "bound"
      BY <2>1, <3>2 DEF Replaces, Binds, Listens, Leaves, BrokerLeaves, Removes, Killed, SpawnTypeOK
    <3>4. PICK s \in Spawners, t \in Spawners : child[s] = c /\ child[t] = b
      BY <3>1, <3>3 DEF Timely, StartingIsAwaited, Awaits
    <3>5. child[s] # Nobody /\ child[t] # Nobody
      BY <3>4, SpawnAssumption
    <3>6. QED
      BY <3>1, <3>4, <3>5, HolderIsOne
  <2>2. QED
    BY <1>8, <1>9, <2>1 DEF StartingIsAwaited
<1>11. ServingIsKnown'
  <2>1. CASE ~Past(b)
    <3>1. Killed(b) /\ process'[b] = "gone" /\ UNCHANGED <<bound, pidfile>>
      BY <2>1 DEF Past, Replaces, Binds, Listens, Leaves, BrokerLeaves, Removes, Killed, SpawnTypeOK
    <3>2. QED
      BY <1>2, <1>7, <3>1 DEF Timely, ServingIsKnown
  <2>2. CASE Past(b)
    <3>1. \A c \in Brokers : c # b => process'[c] \in {"gone", "started"}
      BY <1>2, <1>4, <2>2
    <3>2. /\ process'[b] \in {"bound", "serving"} => bound' = b
          /\ process'[b] = "serving" => pidfile' = b
          /\ process'[b] \in {"leaving", "unlinked"} => Awaits(b)' \/ pidfile' = b
      <4> USE DEF SpawnTypeOK, Timely, ServingIsKnown
      <4>1. CASE Replaces(b) \/ Binds(b) \/ Listens(b) \/ Killed(b)
        BY <4>1 DEF Replaces, Binds, Listens, Killed
      <4>2. CASE Leaves(b)
        BY <1>7, <4>2 DEF Leaves, StartingIsAwaited
      <4>3. CASE BrokerLeaves(b)
        BY <1>7, <4>3 DEF BrokerLeaves, Removes
      <4>4. QED
        BY <4>1, <4>2, <4>3
    <3>3. QED
      BY <3>1, <3>2 DEF ServingIsKnown
  <2>3. QED
    BY <2>1, <2>2
<1>12. QED
  BY <1>5, <1>6, <1>10, <1>11 DEF Timely

\* Every step keeps the inductive invariant.
LEMMA SpawnInvNext == SpawnInv /\ [SpawnNext]_spawnVars => SpawnInv'
<1> SUFFICES ASSUME SpawnInv, [SpawnNext]_spawnVars PROVE SpawnInv'
  OBVIOUS
<1>1. CASE UNCHANGED spawnVars
  BY <1>1 DEF spawnVars, files, SpawnInv, SpawnTypeOK, Timely, HolderIsInside, StartingIsAwaited,
              ServingIsKnown, OnePast, Past, Awaits
<1>2. CASE SpawnNext
  <2>1. SpawnTypeOK' /\ (upset => upset')
    BY <1>2, SpawnTypesNext DEF SpawnInv
  <2>2. ASSUME ~upset' PROVE Timely'
    <3>1. SpawnTypeOK /\ Timely
      BY <2>1, <2>2 DEF SpawnInv
    <3>2. ASSUME NEW s \in Spawners,
                 \/ Seeks(s) \/ Finds(s) \/ FindsNone(s) \/ Locks(s) \/ Judges(s) \/ Steals(s)
                 \/ \E b \in Brokers : Spawns(s, b)
                 \/ Awaited(s) \/ Waited(s) \/ Releases(s) \/ Disconnects(s)
                 \/ Crashes(s) \/ Revives(s)
          PROVE  Timely'
      BY <2>2, <3>1, <3>2, SessionStepIsTimely, SpawnsIsTimely, AwaitedIsTimely
    <3>3. ASSUME NEW b \in Brokers,
                 \/ Asserts(b) \/ Replaces(b) \/ Binds(b) \/ Listens(b) \/ Leaves(b)
                 \/ BrokerLeaves(b) \/ Killed(b)
          PROVE  Timely'
      BY <3>1, <3>3, AssertsIsTimely, ProcessStepIsTimely
    <3>4. CASE LockAges
      BY <2>2, <3>4 DEF LockAges, Late
    <3>5. QED
      BY <1>2, <3>2, <3>3, <3>4 DEF SpawnNext
  <2>3. QED
    BY <2>1, <2>2 DEF SpawnInv
<1>3. QED
  BY <1>1, <1>2

\* The types of the files and processes, and who holds the lock, is awaited and serves.
THEOREM SpawnInvariant == SpawnSpec => []SpawnInv
<1>1. SpawnInit => SpawnInv
  <2> SUFFICES ASSUME SpawnInit PROVE Timely
    BY SpawnTypesInit DEF SpawnInv
  <2>1. QED
    BY SpawnAssumption DEF SpawnInit, Timely, HolderIsInside, StartingIsAwaited, ServingIsKnown,
                           OnePast, Past
<1>2. QED
  BY <1>1, SpawnInvNext, PTL DEF SpawnSpec

\* spawnBrokerIfNeeded and its lock: sessions look for a broker at the same time, brokers leave
\* when they are idle; unless a process was too slow or ended half-way, at most one broker serves.
THEOREM OneBrokerServes == SpawnSpec => []OneBrokerInTime
<1>1. SpawnInv => OneBrokerInTime
  BY DEF SpawnInv, Timely, OnePast, Past, OneBrokerInTime, OneBroker
<1>2. QED
  BY <1>1, SpawnInvariant, PTL

=============================================================================
