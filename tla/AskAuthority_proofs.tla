-------------------------- MODULE AskAuthority_proofs --------------------------
(***************************************************************************)
(* Theorems about AskAuthority for any number of asks, links and sessions: *)
(* the line of dialogs, and the implementation of AskRulings.              *)
(***************************************************************************)
EXTENDS AskAuthority, TLAPS

-----------------------------------------------------------------------------
(* The line.                                                               *)

\* An ask at the end of a line is at one index, and the line before it is as it was.
LEMMA AppendLine ==
  ASSUME NEW S, NEW q \in Seq(S), NEW a \in S
  PROVE  /\ Append(q, a) \in Seq(S)
         /\ Append(q, a) # <<>>
         /\ DOMAIN Append(q, a) = DOMAIN q \cup {Len(q) + 1}
         /\ Append(q, a)[Len(q) + 1] = a
         /\ \A i \in DOMAIN q : Append(q, a)[i] = q[i] /\ i # Len(q) + 1
         /\ q # <<>> => Head(Append(q, a)) = Head(q)
<1>1. /\ Append(q, a) \in Seq(S) /\ Len(Append(q, a)) = Len(q) + 1
      /\ Append(q, a)[Len(q) + 1] = a
      /\ \A i \in 1..Len(q) : Append(q, a)[i] = q[i]
  OBVIOUS
<1>2. Len(q) \in Nat /\ DOMAIN q = 1..Len(q) /\ DOMAIN Append(q, a) = 1..Len(q) + 1
  BY <1>1
<1>3. q # <<>> => Head(Append(q, a)) = Head(q)
  BY <1>1
<1>4. QED
  BY <1>1, <1>2, <1>3

\* Without its first ask a line holds what was behind it.
LEMMA TailLine ==
  ASSUME NEW S, NEW q \in Seq(S), q # <<>>
  PROVE  /\ Tail(q) \in Seq(S)
         /\ 1 \in DOMAIN q /\ Head(q) = q[1]
         /\ \A i \in DOMAIN Tail(q) : i + 1 \in DOMAIN q /\ Tail(q)[i] = q[i + 1] /\ i + 1 # 1
         /\ \A i \in DOMAIN q \ {1} : i - 1 \in DOMAIN Tail(q) /\ Tail(q)[i - 1] = q[i]
         /\ DOMAIN q \subseteq Nat /\ DOMAIN Tail(q) \subseteq Nat
OBVIOUS

-----------------------------------------------------------------------------
(* The inductive invariant.                                                *)

LEMMA InitInv == Init => AskInv
BY AskAssumption DEF Init, AskInv, TypeOK, Decisions, Ruling, LineIsSound, NewHaveNoChain,
   FirstIsShown, OpenInSession, Open, DialogsAreLive, NobodyIsStranded

\* What a decision is.
LEMMA RulingTypes ==
  ASSUME NEW a \in Asks
  PROVE  /\ HumanRulings(a) \subseteq Decisions /\ ParentRulings \subseteq Decisions
         /\ Ruling("open", "nobody") \in Decisions
         /\ \A r \in HumanRulings(a) \cup ParentRulings \cup {Unavailable, Broken} \cup
                 {Ruling("approved", b) : b \in {"receipt", "yolo", "grant", "link"}} \cup
                 {Ruling("denied", "link")} :
              r \in Decisions /\ r.state \notin {"new", "open"}
BY DEF HumanRulings, HumanStates, ParentRulings, Unavailable, Broken, Decisions, Ruling

\* Raising an ask preserves the invariant.
LEMMA RaiseSteps ==
  ASSUME AskInv, NEW a \in Asks, RaiseAsk(a)
  PROVE  AskInv'
<1> USE DEF AskInv, TypeOK, selection
<1>1. CASE Preclude(a) \/ Refuse(a)
  <2>1. decision'[a].state \notin {"new", "open"} /\ decision' \in [Asks -> Decisions]
    <3>1. PICK r \in {Unavailable, Broken, Ruling("approved", "yolo"), Ruling("approved", "grant")} :
            decision' = [decision EXCEPT ![a] = r]
      BY <1>1 DEF Preclude, Refuse
    <3>2. QED
      BY <3>1, RulingTypes
  <2>2. \A b \in Asks \ {a} : decision'[b] = decision[b]
    BY <1>1 DEF Preclude, Refuse
  <2>3. /\ UNCHANGED <<session, position, authority, queue, dialogs, terminal, yolo, grants>>
        /\ decision[a].state = "new"
    BY <1>1 DEF Preclude, Refuse, MayRaise
  <2>4. Open' = Open
    BY <2>1, <2>2, <2>3 DEF Open
  <2>5. TypeOK' /\ NewHaveNoChain'
    BY <2>1, <2>2, <2>3 DEF NewHaveNoChain
  <2>6. LineIsSound' /\ FirstIsShown' /\ OpenInSession' /\ DialogsAreLive' /\ NobodyIsStranded'
    BY <2>3, <2>4
       DEF LineIsSound, AtTerminal, FirstIsShown, OpenInSession, DialogsAreLive, NobodyIsStranded, Queued
  <2>7. QED
    BY <2>5, <2>6
<1>2. CASE Escalate(a)
  <2>1. /\ decision' = [decision EXCEPT ![a] = Ruling("open", "nobody")]
        /\ authority' = [authority EXCEPT ![a] = terminal]
        /\ position' = [position EXCEPT ![a] = FirstLink]
        /\ queue' = IF FirstLink = Links + 1 /\ terminal = "local" THEN Append(queue, a) ELSE queue
        /\ UNCHANGED <<session, terminal, yolo, grants, dialogs>>
        /\ decision[a].state = "new" /\ session # NoSession
    BY <1>2 DEF Escalate, Arrive, MayRaise
  <2>2. FirstLink \in 1..Links + 1 /\ Links + 1 # 0
    BY AskAssumption DEF FirstLink
  <2>3. Open' = Open \cup {a} /\ a \notin Open
    BY <2>1 DEF Open, Ruling
  <2>4. \A i \in DOMAIN queue : queue[i] \in Asks \ {a}
    BY <2>1, <2>2 DEF LineIsSound, NewHaveNoChain, AtTerminal
  <2>5. TypeOK'
    BY <2>1, <2>2, RulingTypes, AppendLine
  <2>6. NewHaveNoChain' /\ OpenInSession' /\ DialogsAreLive'
    BY <2>1, <2>3 DEF NewHaveNoChain, Ruling, OpenInSession, DialogsAreLive
  <2>7. CASE FirstLink = Links + 1 /\ terminal = "local"
    <3>1. queue' = Append(queue, a)
      BY <2>1, <2>7
    <3>2. LineIsSound'
      <4>1. \A i \in DOMAIN queue' : position'[queue'[i]] = Links + 1 /\ authority'[queue'[i]] = "local"
        <5> SUFFICES ASSUME NEW i \in DOMAIN queue'
                     PROVE  position'[queue'[i]] = Links + 1 /\ authority'[queue'[i]] = "local"
          OBVIOUS
        <5>1. CASE i \in DOMAIN queue
          BY <2>1, <2>4, <3>1, <5>1, AppendLine DEF LineIsSound, AtTerminal
        <5>2. CASE i = Len(queue) + 1
          BY <2>1, <2>7, <3>1, <5>2, AppendLine
        <5>3. QED
          BY <3>1, <5>1, <5>2, AppendLine
      <4>2. \A i, j \in DOMAIN queue' : queue'[i] = queue'[j] => i = j
        BY <2>4, <3>1, AppendLine DEF LineIsSound
      <4>3. QED
        BY <4>1, <4>2 DEF LineIsSound, AtTerminal
    <3>3. FirstIsShown'
      BY <2>1, <3>1, AppendLine DEF FirstIsShown
    <3>4. NobodyIsStranded'
      BY <2>1, <2>3, <3>1, AppendLine DEF NobodyIsStranded, Queued, AtTerminal
    <3>5. QED
      BY <2>5, <2>6, <3>2, <3>3, <3>4
  <2>8. CASE ~(FirstLink = Links + 1 /\ terminal = "local")
    <3>1. queue' = queue
      BY <2>1, <2>8
    <3>2. LineIsSound'
      BY <2>1, <2>4, <3>1 DEF LineIsSound, AtTerminal
    <3>3. FirstIsShown'
      BY <2>1, <3>1 DEF FirstIsShown
    <3>4. NobodyIsStranded'
      BY <2>1, <2>3, <2>8, <3>1 DEF NobodyIsStranded, Queued, AtTerminal
    <3>5. QED
      BY <2>5, <2>6, <3>2, <3>3, <3>4
  <2>9. QED
    BY <2>7, <2>8
<1>3. QED
  BY <1>1, <1>2 DEF RaiseAsk

\* Settling closes what is open and leaves the rest as it is.
LEMMA Settled ==
  ASSUME decision \in [Asks -> Decisions], NEW S, NEW r \in Decisions,
         r.state \notin {"new", "open"}, decision' = Finish(S, r)
  PROVE  /\ decision' \in [Asks -> Decisions]
         /\ Open' = Open \ S
         /\ \A b \in Asks : decision'[b].state = "new" <=> decision[b].state = "new"
         /\ \A b \in Asks : b \notin S \cap Open => decision'[b] = decision[b]
BY DEF Finish, Open

\* A chain that ends closes its ask.
LEMMA Concluded ==
  ASSUME AskInv, NEW a \in Asks, NEW r \in Decisions, r.state \notin {"new", "open"}, Conclude(a, r)
  PROVE  /\ decision' \in [Asks -> Decisions] /\ Open' = Open \ {a}
         /\ grants' \subseteq Kinds
         /\ position' \in [Asks -> 0..Links + 1] /\ position'[a] = 0
         /\ \A b \in Asks \ {a} : position'[b] = position[b]
         /\ NewHaveNoChain'
<1> USE DEF AskInv, TypeOK, Conclude
<1>1. decision' \in [Asks -> Decisions] /\ Open' = Open \ {a}
      /\ \A b \in Asks : decision'[b].state = "new" <=> decision[b].state = "new"
  BY Settled
<1>2. grants' \subseteq Kinds
  BY AskAssumption DEF Granted
<1>3. position' \in [Asks -> 0..Links + 1] /\ position'[a] = 0
      /\ \A b \in Asks \ {a} : position'[b] = position[b]
  BY AskAssumption
<1>4. NewHaveNoChain'
  BY <1>1, <1>3 DEF NewHaveNoChain
<1>5. QED
  BY <1>1, <1>2, <1>3, <1>4

\* The end of a chain that is not in line preserves the invariant.
LEMMA OutOfLineSteps ==
  ASSUME AskInv, NEW a \in Asks, NEW r \in Decisions, r.state \notin {"new", "open"}, Conclude(a, r),
         ~AtTerminal(a) \/ authority[a] # "local", UNCHANGED <<selection, authority, queue, dialogs>>
  PROVE  AskInv'
<1> USE Concluded DEF AskInv, selection
<1>1. \A i \in DOMAIN queue : queue[i] \in Asks \ {a}
  BY DEF LineIsSound, TypeOK
<1>2. TypeOK'
  BY DEF TypeOK
<1>3. LineIsSound'
  BY <1>1 DEF LineIsSound, AtTerminal
<1>4. FirstIsShown' /\ OpenInSession'
  BY DEF FirstIsShown, OpenInSession
<1>5. DialogsAreLive'
  <2>1. a \notin dialogs
    BY <1>1 DEF FirstIsShown, TypeOK
  <2>2. QED
    BY <2>1 DEF DialogsAreLive
<1>6. NobodyIsStranded'
  BY DEF NobodyIsStranded, Queued, AtTerminal, Open
<1>7. QED
  BY <1>2, <1>3, <1>4, <1>5, <1>6

\* The end of the first in line preserves the invariant.
LEMMA FirstInLineSteps ==
  ASSUME AskInv, NEW a \in Asks, NEW r \in Decisions, r.state \notin {"new", "open"}, Conclude(a, r),
         queue # <<>>, Head(queue) = a, queue' = Tail(queue), dialogs' = dialogs \ {a},
         UNCHANGED <<selection, authority>>
  PROVE  AskInv'
<1> USE Concluded DEF AskInv, selection
<1>1. queue \in Seq(Asks)
  BY DEF TypeOK
<1>2. TypeOK'
  BY <1>1, TailLine DEF TypeOK
<1>3. dialogs' = {}
  BY DEF FirstIsShown
<1>4. LineIsSound'
  <2>1. \A i \in DOMAIN queue' : queue'[i] = queue[i + 1] /\ i + 1 \in DOMAIN queue
                                 /\ queue[i + 1] \in Asks \ {a}
    BY <1>1, TailLine DEF LineIsSound
  <2>2. \A i \in DOMAIN queue' : position'[queue'[i]] = Links + 1 /\ authority'[queue'[i]] = "local"
    BY <2>1 DEF LineIsSound, AtTerminal
  <2>3. \A i, j \in DOMAIN queue' : queue'[i] = queue'[j] => i = j
    <3> SUFFICES ASSUME NEW i \in DOMAIN queue', NEW j \in DOMAIN queue', queue'[i] = queue'[j]
                 PROVE  i = j
      OBVIOUS
    <3>1. i + 1 = j + 1
      BY <2>1 DEF LineIsSound
    <3>2. i \in Nat /\ j \in Nat
      BY <1>1, TailLine
    <3>3. QED
      BY <3>1, <3>2
  <2>4. QED
    BY <2>2, <2>3 DEF LineIsSound, AtTerminal
<1>5. FirstIsShown' /\ OpenInSession' /\ DialogsAreLive'
  BY <1>3 DEF FirstIsShown, OpenInSession, DialogsAreLive
<1>6. NobodyIsStranded'
  <2> SUFFICES ASSUME NEW b \in Open', position'[b] = Links + 1, authority'[b] = "local"
               PROVE  \E i \in DOMAIN queue' : queue'[i] = b
    BY DEF NobodyIsStranded, Queued, AtTerminal
  <2>1. b \in Open /\ b # a /\ b \in Asks
    BY DEF Open
  <2>2. PICK i \in DOMAIN queue : queue[i] = b
    BY <2>1 DEF NobodyIsStranded, Queued, AtTerminal
  <2>3. i # 1
    BY <1>1, <2>1, <2>2, TailLine
  <2>4. i - 1 \in DOMAIN queue' /\ queue'[i - 1] = b
    BY <1>1, <2>2, <2>3, TailLine
  <2>5. QED
    BY <2>4
<1>7. QED
  BY <1>2, <1>4, <1>5, <1>6

\* A verdict of a link preserves the invariant.
LEMMA LinkSteps ==
  ASSUME AskInv, NEW a \in Asks, LinkAnswers(a)
  PROVE  AskInv'
<1>1. CASE (\E v \in LinkVerdicts : LinkDecides(a, v)) \/ ReceiptDecides(a) \/ LinkFails(a)
  <2>1. PICK r \in {Unavailable, Broken, Ruling("approved", "receipt"), Ruling("approved", "link"),
                    Ruling("denied", "link")} : Conclude(a, r)
    <3>1. CASE \E v \in LinkVerdicts : LinkDecides(a, v)
      <4> PICK v \in LinkVerdicts : LinkDecides(a, v)
        BY <3>1
      <4>1. CASE Aborted(a)
        BY <4>1 DEF LinkDecides
      <4>2. CASE ~Aborted(a)
        <5>1. Enclosed(a, v) \in {"allow", "deny", "interrupted"}
          BY <4>2 DEF LinkDecides, Enclosed, LinkVerdicts
        <5>2. Conclude(a, FromVerdict(Enclosed(a, v)))
          BY <4>2 DEF LinkDecides
        <5>3. QED
          BY <5>1, <5>2 DEF FromVerdict
      <4>3. QED
        BY <4>1, <4>2
    <3>2. QED
      BY <1>1, <3>1 DEF ReceiptDecides, LinkFails
  <2>2. AwaitsLink(a) /\ UNCHANGED <<selection, authority, queue, dialogs>>
    BY <1>1 DEF LinkDecides, ReceiptDecides, LinkFails
  <2>3. ~AtTerminal(a)
    BY <2>2, AskAssumption DEF AwaitsLink, AtTerminal
  <2>4. r \in Decisions /\ r.state \notin {"new", "open"}
    BY <2>1, RulingTypes
  <2>5. QED
    BY <2>1, <2>2, <2>3, <2>4, OutOfLineSteps
<1>2. CASE \E v \in LinkVerdicts : LinkDefers(a, v)
  <2> USE DEF AskInv
  <2>1. /\ position' = [position EXCEPT ![a] = position[a] + 1]
        /\ queue' = IF position[a] + 1 = Links + 1 /\ authority[a] = "local" THEN Append(queue, a) ELSE queue
        /\ UNCHANGED <<session, terminal, yolo, grants, decision, authority, dialogs>>
        /\ position[a] \in 1..Links /\ a \in Open
    BY <1>2 DEF LinkDefers, Arrive, AwaitsLink, Aborted, selection
  <2>2. position[a] + 1 \in 0..Links + 1 /\ position[a] # Links + 1 /\ position[a] \in Nat
    BY <2>1, AskAssumption
  <2>3. queue \in Seq(Asks) /\ \A i \in DOMAIN queue : queue[i] \in Asks \ {a}
    BY <2>2 DEF LineIsSound, AtTerminal, TypeOK
  <2>4. TypeOK'
    BY <2>1, <2>2, AppendLine DEF TypeOK
  <2>5. NewHaveNoChain' /\ OpenInSession' /\ DialogsAreLive'
    BY <2>1 DEF NewHaveNoChain, OpenInSession, DialogsAreLive, Open, TypeOK
  <2>6. CASE position[a] + 1 = Links + 1 /\ authority[a] = "local"
    <3>1. queue' = Append(queue, a) /\ position'[a] = Links + 1
      BY <2>1, <2>6 DEF TypeOK
    <3>2. \A i \in DOMAIN queue' : position'[queue'[i]] = Links + 1 /\ authority'[queue'[i]] = "local"
      <4> SUFFICES ASSUME NEW i \in DOMAIN queue'
                   PROVE  position'[queue'[i]] = Links + 1 /\ authority'[queue'[i]] = "local"
        OBVIOUS
      <4>1. CASE i \in DOMAIN queue
        BY <2>1, <2>3, <3>1, <4>1, AppendLine DEF LineIsSound, AtTerminal, TypeOK
      <4>2. CASE i = Len(queue) + 1
        BY <2>1, <2>3, <2>6, <3>1, <4>2, AppendLine
      <4>3. QED
        BY <2>3, <3>1, <4>1, <4>2, AppendLine
    <3>3. \A i, j \in DOMAIN queue' : queue'[i] = queue'[j] => i = j
      BY <2>3, <3>1, AppendLine DEF LineIsSound
    <3>4. LineIsSound'
      BY <3>2, <3>3 DEF LineIsSound, AtTerminal
    <3>5. FirstIsShown'
      BY <2>1, <2>3, <3>1, AppendLine DEF FirstIsShown
    <3>6. NobodyIsStranded'
      BY <2>1, <2>3, <3>1, AppendLine DEF NobodyIsStranded, Queued, AtTerminal, Open, TypeOK
    <3>7. QED
      BY <2>4, <2>5, <3>4, <3>5, <3>6
  <2>7. CASE ~(position[a] + 1 = Links + 1 /\ authority[a] = "local")
    <3>1. queue' = queue
      BY <2>1, <2>7
    <3>2. LineIsSound'
      BY <2>1, <2>3, <3>1 DEF LineIsSound, AtTerminal, TypeOK
    <3>3. FirstIsShown'
      BY <2>1, <3>1 DEF FirstIsShown
    <3>4. NobodyIsStranded'
      BY <2>1, <2>2, <2>7, <3>1 DEF NobodyIsStranded, Queued, AtTerminal, Open, TypeOK
    <3>5. QED
      BY <2>4, <2>5, <3>2, <3>3, <3>4
  <2>8. QED
    BY <2>6, <2>7
<1>3. QED
  BY <1>1, <1>2 DEF LinkAnswers

\* An answer of the parent, or of nobody, preserves the invariant.
LEMMA TerminalSteps ==
  ASSUME AskInv, NEW a \in Asks, TerminalAnswers(a)
  PROVE  AskInv'
<1>1. PICK r \in ParentRulings \cup {Unavailable} :
        /\ Conclude(a, r)
        /\ authority[a] # "local" /\ UNCHANGED <<selection, authority, queue, dialogs>>
  BY DEF TerminalAnswers, NobodyAnswers, ParentAnswers
<1>2. QED
  BY <1>1, RulingTypes, OutOfLineSteps

\* A step of the line preserves the invariant.
LEMMA LineSteps ==
  ASSUME AskInv, NEW a \in Asks, Present(a) \/ Skip(a) \/ PersonAnswers(a)
  PROVE  AskInv'
<1>1. CASE Present(a)
  BY <1>1 DEF Present, NextInLine, Aborted, selection, AskInv, TypeOK, LineIsSound, AtTerminal,
     NewHaveNoChain, FirstIsShown, OpenInSession, DialogsAreLive, NobodyIsStranded, Queued, Open
<1>2. CASE Skip(a)
  BY <1>2, RulingTypes, FirstInLineSteps DEF Skip, NextInLine
<1>3. CASE PersonAnswers(a)
  <2>1. PICK r \in HumanRulings(a) \cup {Broken} : Answer(a, r)
    BY <1>3 DEF PersonAnswers
  <2>2. queue # <<>> /\ Head(queue) = a
    BY <2>1 DEF Answer, AskInv, FirstIsShown
  <2>3. QED
    BY <2>1, <2>2, RulingTypes, FirstInLineSteps DEF Answer
<1>4. QED
  BY <1>1, <1>2, <1>3

\* Settling asks from outside their chains, with their dialogs closed, preserves what the
\* invariant says of them.
LEMMA Cancelled ==
  ASSUME AskInv, NEW S \in SUBSET Asks, NEW r \in Decisions, r.state \notin {"new", "open"}, Abort(S, r)
  PROVE  /\ decision' \in [Asks -> Decisions] /\ Open' = Open \ S
         /\ dialogs' = dialogs \ S
         /\ \A b \in Asks : decision'[b].state = "new" <=> decision[b].state = "new"
BY Settled DEF Abort, AskInv, TypeOK

\* A step of the session preserves the invariant.
LEMMA SessionSteps ==
  ASSUME AskInv,
         \/ \E s \in Sessions, t \in Terminals : Activate(s, t)
         \/ \E S \in SUBSET Asks : Interrupt(S)
         \/ \E on \in BOOLEAN : SetYolo(on)
         \/ Shutdown
  PROVE  AskInv'
<1> USE DEF AskInv
<1>0. /\ Unavailable \in Decisions /\ Unavailable.state \notin {"new", "open"}
      /\ Ruling("approved", "yolo") \in Decisions /\ Ruling("approved", "yolo").state \notin {"new", "open"}
  BY DEF Unavailable, Ruling, Decisions
<1>1. ASSUME NEW S \in SUBSET Asks, decision' \in [Asks -> Decisions], Open' = Open \ S,
             dialogs' = dialogs \ S,
             \A b \in Asks : decision'[b].state = "new" <=> decision[b].state = "new",
             session' \in Sessions, terminal' \in Terminals \cup {terminal}, yolo' \in BOOLEAN,
             UNCHANGED <<grants, position, authority, queue>>
      PROVE  AskInv'
  BY <1>1, AskAssumption
     DEF TypeOK, LineIsSound, AtTerminal, NewHaveNoChain, FirstIsShown, OpenInSession,
         DialogsAreLive, NobodyIsStranded, Queued
<1>2. ASSUME NEW s \in Sessions, NEW t \in Terminals, Activate(s, t) PROVE AskInv'
  <2>1. CASE s = session
    <3>1. Open' = Open \ {} /\ dialogs' = dialogs \ {} /\ decision' = decision
      BY <1>2, <2>1 DEF Activate, Open
    <3>2. /\ {} \in SUBSET Asks /\ decision' \in [Asks -> Decisions]
          /\ \A b \in Asks : decision'[b].state = "new" <=> decision[b].state = "new"
      BY <3>1 DEF TypeOK
    <3>3. /\ session' \in Sessions /\ terminal' \in Terminals \cup {terminal} /\ yolo' \in BOOLEAN
          /\ UNCHANGED <<grants, position, authority, queue>>
      BY <1>2 DEF Activate, TypeOK
    <3>4. QED
      BY <1>1, <3>1, <3>2, <3>3
  <2>2. CASE s # session
    BY <1>0, <1>1, <1>2, <2>2, Cancelled DEF Activate, TypeOK
  <2>3. QED
    BY <2>1, <2>2
<1>3. ASSUME NEW S \in SUBSET Asks, Interrupt(S) PROVE AskInv'
  <2>1. session \in Sessions
    BY <1>3 DEF Interrupt, OpenInSession, TypeOK
  <2>2. QED
    BY <1>0, <1>1, <1>3, <2>1, Cancelled DEF Interrupt, selection, TypeOK
<1>4. ASSUME NEW on \in BOOLEAN, SetYolo(on) PROVE AskInv'
  <2>1. \E S \in SUBSET Asks :
          /\ decision' \in [Asks -> Decisions] /\ Open' = Open \ S /\ dialogs' = dialogs \ S
          /\ \A b \in Asks : decision'[b].state = "new" <=> decision[b].state = "new"
    <3>1. CASE on
      <4> DEFINE S == {a \in Asks : Local(a)}
      <4>1. S \in SUBSET Asks /\ Abort(S, Ruling("approved", "yolo"))
        BY <1>4, <3>1 DEF SetYolo
      <4> HIDE DEF S
      <4>2. QED
        BY <1>0, <4>1, Cancelled
    <3>2. CASE ~on
      <4>1. Open' = Open \ {} /\ dialogs' = dialogs \ {} /\ decision' = decision
        BY <1>4, <3>2 DEF SetYolo, Open
      <4>2. /\ {} \in SUBSET Asks /\ decision' \in [Asks -> Decisions]
            /\ \A b \in Asks : decision'[b].state = "new" <=> decision[b].state = "new"
        BY <4>1 DEF TypeOK
      <4>3. QED
        BY <4>1, <4>2
    <3>3. QED
      BY <3>1, <3>2
  <2>2. yolo' \in BOOLEAN /\ UNCHANGED <<session, terminal, grants, position, authority, queue>>
    BY <1>4 DEF SetYolo
  <2>3. QED
    BY <2>1, <2>2, AskAssumption
       DEF TypeOK, LineIsSound, AtTerminal, NewHaveNoChain, FirstIsShown, OpenInSession,
           DialogsAreLive, NobodyIsStranded, Queued
<1>5. CASE Shutdown
  <2>1. /\ decision' \in [Asks -> Decisions] /\ Open' = {} /\ dialogs' = {}
        /\ \A b \in Asks : decision'[b].state = "new" <=> decision[b].state = "new"
    BY <1>0, <1>5, Cancelled DEF Shutdown, Open, TypeOK
  <2>2. /\ session' = NoSession /\ terminal' = "deny" /\ queue' = <<>> /\ grants' = {}
        /\ position' \in [Asks -> 0..Links + 1] /\ UNCHANGED <<yolo, authority>>
        /\ \A b \in Asks : position[b] = 0 => position'[b] = 0
    BY <1>5, AskAssumption DEF Shutdown, TypeOK
  <2>3. QED
    BY <2>1, <2>2
       DEF TypeOK, LineIsSound, AtTerminal, NewHaveNoChain, FirstIsShown, OpenInSession,
           DialogsAreLive, NobodyIsStranded
<1>6. QED
  BY <1>2, <1>3, <1>4, <1>5

\* Every step preserves the invariant.
LEMMA NextInv == ASSUME AskInv, [Next]_vars PROVE AskInv'
<1>1. CASE UNCHANGED vars
  BY <1>1 DEF vars, AskInv, TypeOK, LineIsSound, AtTerminal, NewHaveNoChain, FirstIsShown,
     OpenInSession, DialogsAreLive, NobodyIsStranded, Queued, Open
<1>2. CASE Next
  BY <1>2, RaiseSteps, LinkSteps, TerminalSteps, LineSteps, SessionSteps DEF Next
<1>3. QED
  BY <1>1, <1>2

\* The inductive invariant holds in every state.
THEOREM AskInvariant == Spec => []AskInv
BY InitInv, NextInv, PTL DEF Spec

\* Decisions, chains, the line and the dialogs have their types, whatever the event.
THEOREM TypeCorrect == Spec => []TypeOK
<1>1. AskInv => TypeOK
  BY DEF AskInv
<1>2. QED
  BY <1>1, AskInvariant, PTL

\* However many asks wait, at most one dialog is up: only the first in line is shown.
THEOREM NoTwoDialogs == Spec => []OneDialog
<1>1. AskInv => OneDialog
  BY DEF AskInv, FirstIsShown, OneDialog
<1>2. QED
  BY <1>1, AskInvariant, PTL

\* A dialog is up only for an open ask of the running session.
THEOREM DialogsLive == Spec => []DialogsAreLive
<1>1. AskInv => DialogsAreLive
  BY DEF AskInv
<1>2. QED
  BY <1>1, AskInvariant, PTL

\* An open ask that waits for the person of this session is in line.
THEOREM NobodyStranded == Spec => []NobodyIsStranded
<1>1. AskInv => NobodyIsStranded
  BY DEF AskInv
<1>2. QED
  BY <1>1, AskInvariant, PTL

-----------------------------------------------------------------------------
(* AskAuthority implements AskRulings.                                     *)

promised == <<session, yolo, grants, decision>>

\* The end of a chain is a ruling on its ask, or nothing when the ask was decided before.
LEMMA ConcludeRules ==
  ASSUME AskInv, NEW a \in Asks,
         NEW r \in [state : {"approved", "session", "serving", "denied"},
                    by : {"user", "relay", "link", "receipt", "unavailable", "error"}],
         Conclude(a, r), UNCHANGED selection, a \in Open => Abstract!Entitled(a, r)
  PROVE  [Abstract!Next]_promised
<1> USE DEF AskInv, TypeOK, Conclude, selection
<1>1. CASE a \in Open
  <2>1. a \in Abstract!Open /\ session # NoSession /\ Abstract!Entitled(a, r)
    BY <1>1 DEF Open, Abstract!Open, OpenInSession
  <2>2. Abstract!RuleOn({a}, r)
    BY <1>1 DEF Finish, Abstract!RuleOn
  <2>3. grants' = grants \cup Abstract!Granted(a, r) /\ UNCHANGED <<session, yolo>>
    BY <1>1 DEF Granted, Abstract!Granted
  <2>4. Abstract!Rule(a, r)
    BY <2>1, <2>2, <2>3 DEF Abstract!Rule
  <2>5. QED
    BY <2>4 DEF Abstract!Next
<1>2. CASE a \notin Open
  <2>1. decision' = decision
    BY <1>2 DEF Finish
  <2>2. grants' = grants
    BY <1>2 DEF Granted
  <2>3. QED
    BY <2>1, <2>2 DEF promised
<1>3. QED
  BY <1>1, <1>2

\* What is settled from outside its chain is withdrawn.
LEMMA AbortWithdraws ==
  ASSUME AskInv, NEW S \in SUBSET Asks, NEW r, Abort(S, r)
  PROVE  Abstract!RuleOn(S \cap Abstract!Open, r)
BY DEF AskInv, TypeOK, Abort, Finish, Open, Abstract!RuleOn, Abstract!Open

\* Raising is raising, or precluding.
LEMMA RaiseRefines ==
  ASSUME AskInv, NEW a \in Asks, RaiseAsk(a)
  PROVE  Abstract!Next
<1> USE DEF AskInv, TypeOK, selection
<1>1. CASE Preclude(a)
  <2>1. Abstract!Preclude(a)
    BY <1>1 DEF Preclude, MayRaise, Precluded, Ruling, Abstract!Preclude, Abstract!RuleOn
  <2>2. QED
    BY <2>1 DEF Abstract!Next
<1>2. CASE Refuse(a)
  <2>1. Abstract!Preclude(a)
    BY <1>2 DEF Refuse, MayRaise, Ruling, Unavailable, Broken, Abstract!Preclude, Abstract!RuleOn,
       Abstract!Withdraw
  <2>2. QED
    BY <2>1 DEF Abstract!Next
<1>3. CASE Escalate(a)
  <2>1. Abstract!Raise(a)
    BY <1>3 DEF Escalate, MayRaise, Ruling, Abstract!Raise, Abstract!RuleOn
  <2>2. QED
    BY <2>1 DEF Abstract!Next
<1>4. QED
  BY <1>1, <1>2, <1>3 DEF RaiseAsk

\* A link rules within the envelope, and a link that defers rules nothing.
LEMMA LinkRefines ==
  ASSUME AskInv, NEW a \in Asks, LinkAnswers(a)
  PROVE  [Abstract!Next]_promised
<1>1. CASE ReceiptDecides(a)
  BY <1>1, ConcludeRules DEF ReceiptDecides, Ruling, Abstract!Entitled
<1>2. CASE LinkFails(a)
  BY <1>2, ConcludeRules DEF LinkFails, Broken, Ruling, Abstract!Entitled
<1>3. ASSUME NEW v \in LinkVerdicts, LinkDecides(a, v) PROVE [Abstract!Next]_promised
  <2>1. UNCHANGED selection
    BY <1>3 DEF LinkDecides
  <2>2. CASE Aborted(a)
    BY <1>3, <2>1, <2>2, ConcludeRules DEF LinkDecides, Unavailable, Ruling, Abstract!Entitled
  <2>3. CASE ~Aborted(a)
    <3>1. Conclude(a, FromVerdict(Enclosed(a, v)))
      BY <1>3, <2>3 DEF LinkDecides
    <3>2. \/ Enclosed(a, v) = "allow" /\ Kind[a] \notin Excluded
          \/ Enclosed(a, v) \in {"deny", "interrupted"}
      BY <1>3, <2>3 DEF LinkDecides, Enclosed, LinkVerdicts
    <3>3. CASE Enclosed(a, v) = "allow" /\ Kind[a] \notin Excluded
      BY <2>1, <3>1, <3>3, ConcludeRules DEF FromVerdict, Ruling, Abstract!Entitled
    <3>4. CASE Enclosed(a, v) \in {"deny", "interrupted"}
      BY <2>1, <3>1, <3>4, ConcludeRules DEF FromVerdict, Ruling, Abstract!Entitled
    <3>5. QED
      BY <3>2, <3>3, <3>4
  <2>4. QED
    BY <2>2, <2>3
<1>4. ASSUME NEW v \in LinkVerdicts, LinkDefers(a, v) PROVE [Abstract!Next]_promised
  BY <1>4 DEF LinkDefers, selection, promised
<1>5. QED
  BY <1>1, <1>2, <1>3, <1>4 DEF LinkAnswers

\* The parent, nobody, the line and the person rule, or answer too late.
LEMMA TerminalRefines ==
  ASSUME AskInv, NEW a \in Asks,
         TerminalAnswers(a) \/ Present(a) \/ Skip(a) \/ PersonAnswers(a)
  PROVE  [Abstract!Next]_promised
<1>1. CASE Present(a)
  BY <1>1 DEF Present, selection, promised
<1>2. CASE NobodyAnswers(a) \/ Skip(a)
  BY <1>2, ConcludeRules DEF NobodyAnswers, Skip, Unavailable, Ruling, Abstract!Entitled
<1>3. ASSUME NEW r \in ParentRulings, ParentAnswers(a, r) PROVE [Abstract!Next]_promised
  BY <1>3, ConcludeRules DEF ParentAnswers, ParentRulings, Unavailable, Ruling, Abstract!Entitled
<1>4. ASSUME NEW r \in HumanRulings(a) \cup {Broken}, Answer(a, r) PROVE [Abstract!Next]_promised
  BY <1>4, ConcludeRules DEF Answer, HumanRulings, HumanStates, Broken, Ruling, Abstract!Entitled
<1>5. QED
  BY <1>1, <1>2, <1>3, <1>4 DEF TerminalAnswers, PersonAnswers

\* A new session, an interrupt, a mode change and the end of the session withdraw or approve
\* what they may.
LEMMA SessionRefines ==
  ASSUME AskInv,
         \/ \E s \in Sessions, t \in Terminals : Activate(s, t)
         \/ \E S \in SUBSET Asks : Interrupt(S)
         \/ \E on \in BOOLEAN : SetYolo(on)
         \/ Shutdown
  PROVE  Abstract!Next
<1>0. Asks \cap Abstract!Open = Abstract!Open
  BY DEF Abstract!Open
<1>1. ASSUME NEW s \in Sessions, NEW t \in Terminals, Activate(s, t) PROVE Abstract!Next
  <2>1. CASE s = session
    BY <1>1, <2>1 DEF Activate, Abstract!Start, Abstract!Next
  <2>2. CASE s # session
    <3>1. Abort(Asks, Unavailable) /\ session' = s /\ UNCHANGED <<yolo, grants>>
      BY <1>1, <2>2 DEF Activate
    <3>2. Abstract!RuleOn(Abstract!Open, Unavailable)
      BY <1>0, <3>1, AbortWithdraws
    <3>3. Abstract!Start(s)
      BY <2>2, <3>1, <3>2 DEF Abstract!Start, Abstract!Withdraw, Unavailable, Ruling
    <3>4. QED
      BY <3>3 DEF Abstract!Next
  <2>3. QED
    BY <2>1, <2>2
<1>2. ASSUME NEW S \in SUBSET Asks, Interrupt(S) PROVE Abstract!Next
  <2>1. Abort(S, Unavailable) /\ UNCHANGED <<session, yolo, grants>>
    BY <1>2 DEF Interrupt, selection
  <2>2. Abstract!Withdraw(S \cap Abstract!Open) /\ S \cap Abstract!Open \in SUBSET Abstract!Open
    BY <2>1, AbortWithdraws DEF Abstract!Withdraw, Unavailable, Ruling
  <2>3. QED
    BY <2>1, <2>2 DEF Abstract!Cancel, Abstract!Next
<1>3. ASSUME NEW on \in BOOLEAN, SetYolo(on) PROVE Abstract!Next
  <2>1. yolo' = on /\ UNCHANGED <<session, grants>>
    BY <1>3 DEF SetYolo
  <2>2. \E S \in SUBSET (Abstract!Open \ Forwarded) :
          (on \/ S = {}) /\ Abstract!RuleOn(S, Ruling("approved", "yolo"))
    <3>1. CASE on
      <4> DEFINE S == {a \in Asks : Local(a)}
      <4>1. Abort(S, Ruling("approved", "yolo")) /\ S \in SUBSET Asks
        BY <1>3, <3>1 DEF SetYolo
      <4>2. S \cap Abstract!Open \in SUBSET (Abstract!Open \ Forwarded)
        BY DEF Local
      <4> HIDE DEF S
      <4>3. Abstract!RuleOn(S \cap Abstract!Open, Ruling("approved", "yolo"))
        BY <4>1, AbortWithdraws
      <4>4. QED
        BY <3>1, <4>2, <4>3
    <3>2. CASE ~on
      <4>1. decision' = decision
        BY <1>3, <3>2 DEF SetYolo
      <4>2. Abstract!RuleOn({}, Ruling("approved", "yolo"))
        BY <4>1 DEF Abstract!RuleOn, AskInv, TypeOK
      <4>3. {} \in SUBSET (Abstract!Open \ Forwarded)
        OBVIOUS
      <4>4. QED
        BY <4>2, <4>3
    <3>3. QED
      BY <3>1, <3>2
  <2>3. Abstract!SetYolo(on)
    BY <2>1, <2>2 DEF Abstract!SetYolo, Ruling
  <2>4. QED
    BY <2>3 DEF Abstract!Next
<1>4. CASE Shutdown
  <2>1. Abort(Asks, Unavailable) /\ session' = NoSession /\ grants' = {} /\ yolo' = yolo
    BY <1>4 DEF Shutdown
  <2>2. Abstract!RuleOn(Abstract!Open, Unavailable)
    BY <1>0, <2>1, AbortWithdraws
  <2>3. Abstract!End
    BY <2>1, <2>2 DEF Abstract!End, Abstract!Withdraw, Unavailable, Ruling
  <2>4. QED
    BY <2>3 DEF Abstract!Next
<1>5. QED
  BY <1>1, <1>2, <1>3, <1>4

\* Each ask is ruled on once and by somebody entitled to, approvals fall in the session, and
\* the grants are what people chose, whatever the order of links, dialogs and cancellations.
THEOREM Refinement == Spec => ImplementsAskRulings
<1>1. Init => Abstract!Init
  BY DEF Init, Abstract!Init, Ruling
<1>2. ASSUME AskInv, [Next]_vars PROVE [Abstract!Next]_promised
  <2>1. CASE UNCHANGED vars
    BY <2>1 DEF vars, promised
  <2>2. CASE Next
    BY <1>2, <2>2, RaiseRefines, LinkRefines, TerminalRefines, SessionRefines DEF Next
  <2>3. QED
    BY <1>2, <2>1, <2>2
<1>3. QED
  BY <1>1, <1>2, AskInvariant, PTL DEF Spec, ImplementsAskRulings, Abstract!Spec, promised
=============================================================================
