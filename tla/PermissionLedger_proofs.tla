----------------------- MODULE PermissionLedger_proofs -----------------------
(***************************************************************************)
(* Theorems about PermissionLedger for any actions, reviews and subagents, *)
(* any limit of the record and any number of denials and restores.         *)
(***************************************************************************)
EXTENDS PermissionLedger, SequenceTheorems, TLAPS

-----------------------------------------------------------------------------
(* Records.                                                                *)

LEMMA DenialsAreAFunction ==
  ASSUME LedgerTypeOK
  PROVE  /\ Len(denials) \in Nat /\ DOMAIN denials = 1..Len(denials)
         /\ \A i \in DOMAIN denials : denials[i] \in Denials
         /\ \A d \in Records : d \in Denials
<1>1. denials \in Seq(Denials)
  BY DEF LedgerTypeOK
<1>2. Len(denials) \in Nat /\ DOMAIN denials = 1..Len(denials) /\ denials \in [1..Len(denials) -> Denials]
  BY <1>1, LenProperties
<1>3. QED
  BY <1>2 DEF Records

\* The newest denials after a new one: the new one and those before it, the oldest dropped.
LEMMA NewestOf ==
  ASSUME LedgerTypeOK, NEW x \in Denials
  PROVE  LET s == Newest(<<x>> \o denials) IN
         /\ s \in Seq(Denials) /\ Len(s) <= DenialLimit /\ Len(s) \in Nat
         /\ DOMAIN s = 1..Len(s)
         /\ \A i \in DOMAIN s : s[i] = IF i = 1 THEN x ELSE denials[i - 1]
         /\ \A i \in DOMAIN s : i # 1 => i - 1 \in DOMAIN denials
<1> DEFINE one == <<x>>
           all == one \o denials
           s == Newest(all)
<1>1. denials \in Seq(Denials) /\ Len(denials) \in Nat /\ DOMAIN denials = 1..Len(denials)
  BY DenialsAreAFunction DEF LedgerTypeOK
<1>2. one \in Seq(Denials) /\ Len(one) = 1 /\ one[1] = x
  OBVIOUS
<1> HIDE DEF one
<1>3. /\ all \in Seq(Denials) /\ Len(all) = 1 + Len(denials)
      /\ \A i \in 1..Len(all) : all[i] = IF i <= 1 THEN one[i] ELSE denials[i - 1]
  BY <1>1, <1>2, ConcatProperties
<1>4. \A i \in 1..Len(all) : all[i] \in Denials
  BY <1>3, ElementOfSeq
<1> HIDE DEF all
<1>5. DenialLimit \in Nat \ {0}
  BY LedgerAssumption
<1>6. CASE Len(all) > DenialLimit
  <2>1. s = SubSeq(all, 1, DenialLimit)
    BY <1>6 DEF Newest
  <2>2. \A i \in 1..DenialLimit : all[i] \in Denials
    BY <1>1, <1>3, <1>4, <1>5, <1>6
  <2>3. /\ s \in Seq(Denials) /\ Len(s) = DenialLimit
        /\ \A i \in 1..DenialLimit : s[i] = all[i]
    <3>1. 1 \in Int /\ DenialLimit \in Int /\ 1 <= DenialLimit
      BY <1>5
    <3>2. /\ SubSeq(all, 1, DenialLimit) \in Seq(Denials)
          /\ Len(SubSeq(all, 1, DenialLimit))
               = IF 1 <= DenialLimit THEN DenialLimit - 1 + 1 ELSE 0
          /\ \A i \in 1..DenialLimit - 1 + 1 : SubSeq(all, 1, DenialLimit)[i] = all[1 + i - 1]
      BY <2>2, <3>1, SubSeqProperties
    <3>3. QED
      BY <1>5, <2>1, <3>2
  <2>4. DOMAIN s = 1..Len(s)
    BY <2>3, LenProperties
  <2>5. \A i \in DOMAIN s : s[i] = IF i = 1 THEN x ELSE denials[i - 1]
    BY <1>2, <1>3, <1>5, <1>6, <1>1, <2>3, <2>4
  <2>6. \A i \in DOMAIN s : i # 1 => i - 1 \in DOMAIN denials
    BY <1>1, <1>3, <1>5, <1>6, <2>3, <2>4
  <2>7. QED
    BY <1>5, <2>3, <2>4, <2>5, <2>6 DEF all, one
<1>7. CASE ~(Len(all) > DenialLimit)
  <2>1. s = all
    BY <1>7 DEF Newest
  <2>2. DOMAIN s = 1..Len(s) /\ Len(s) \in Nat /\ Len(s) <= DenialLimit
    BY <1>1, <1>3, <1>5, <1>7, <2>1, LenProperties
  <2>3. \A i \in DOMAIN s : s[i] = IF i = 1 THEN x ELSE denials[i - 1]
    BY <1>1, <1>2, <1>3, <2>1, <2>2
  <2>4. \A i \in DOMAIN s : i # 1 => i - 1 \in DOMAIN denials
    BY <1>1, <1>3, <2>1, <2>2
  <2>5. QED
    BY <1>3, <2>1, <2>2, <2>3, <2>4 DEF all, one
<1>8. QED
  BY <1>6, <1>7 DEF all, one

\* What a change of some records does not touch: their ids, actions and order.  None is given
\* back to the reviews.
Remarked(t) ==
  /\ DOMAIN t = DOMAIN denials /\ t = [i \in DOMAIN denials |-> t[i]]
  /\ \A i \in DOMAIN denials :
       /\ t[i] \in Denials /\ t[i].id = denials[i].id /\ t[i].action = denials[i].action
       /\ denials[i].requested => t[i].requested
       /\ t[i].state = "open" /\ Eligible(t[i]) =>
            denials[i].state = "open" /\ Eligible(denials[i])

LEMMA MarkedTypes ==
  ASSUME LedgerTypeOK, NEW t, Remarked(t)
  PROVE  t \in Seq(Denials) /\ Len(t) = Len(denials)
<1>1. Len(denials) \in Nat /\ DOMAIN denials = 1..Len(denials)
  BY DenialsAreAFunction
<1>2. t \in [1..Len(denials) -> Denials]
  BY <1>1 DEF Remarked
<1>3. t \in Seq(Denials)
  BY <1>1, <1>2, SeqDef
<1>4. QED
  BY <1>1, <1>2, <1>3, LenProperties

\* No two records have the same id.
LEMMA IdsAreUnique ==
  ASSUME LedgerTypeOK, RecordsAreOrdered,
         NEW i \in DOMAIN denials, NEW j \in DOMAIN denials, denials[i].id = denials[j].id
  PROVE  i = j
<1>1. i \in Nat /\ j \in Nat /\ denials[i].id \in Nat /\ denials[j].id \in Nat
  BY DenialsAreAFunction, LedgerAssumption DEF Denials
<1>2. QED
  BY <1>1 DEF RecordsAreOrdered, Ordered

\* A review that is shown is about a denial that was in the ledger.
LEMMA ShownReviews ==
  ASSUME LedgerTypeOK, NEW r \in Reviews, review[r].state = "shown"
  PROVE  review[r].epoch \in Nat /\ review[r].denial \in Denials /\ review[r].denial.id \in Nat
<1>1. review[r] \in {NoReview} \cup [state : {"shown"}, epoch : Nat, denial : Denials]
  BY DEF LedgerTypeOK
<1>2. review[r] # NoReview
  BY DEF NoReview
<1>3. review[r] \in [state : {"shown"}, epoch : Nat, denial : Denials]
  BY <1>1, <1>2
<1>4. review[r].epoch \in Nat /\ review[r].denial \in Denials
  BY <1>3
<1>5. \A d \in Denials : d.id \in Nat
  BY LedgerAssumption DEF Denials
<1>6. QED
  BY <1>4, <1>5

\* Changing some records, and settling those that may not be put to the user again, keeps the
\* order, the claims of the reviews that go on, and what is settled.
LEMMA RemarkKeeps ==
  ASSUME LedgerInv, NEW S \in SUBSET Records, Remarked(denials'), Closes(S),
         \A i \in DOMAIN denials :
           denials[i] \in S => ~(denials'[i].state = "open" /\ Eligible(denials'[i])),
         UNCHANGED <<nextId, epoch, earlier>>
  PROVE  /\ denials' \in Seq(Denials) /\ Len(denials') <= DenialLimit
         /\ settled' \subseteq Nat \X Nat
         /\ RecordsAreOrdered' /\ SettledIsClosed'
         /\ (\A q \in Reviews : review'[q] \in {review[q], NoReview})
              => ReviewsAreClaims' /\ OneReviewPerDenial'
<1> USE DEF LedgerInv
<1>1. denials' \in Seq(Denials) /\ Len(denials') = Len(denials)
  BY MarkedTypes
<1>2. Len(denials') <= DenialLimit
  BY <1>1 DEF LedgerTypeOK
<1>3. \A d \in Records : d.id \in Nat /\ d.id < nextId
  BY DenialsAreAFunction, LedgerAssumption DEF Records, Denials, RecordsAreOrdered
<1>4. epoch \in Nat
  BY DEF LedgerTypeOK
<1>5. settled' \subseteq Nat \X Nat
  BY <1>3, <1>4 DEF Closes, LedgerTypeOK
<1>6. RecordsAreOrdered'
  BY DEF RecordsAreOrdered, Ordered, Remarked
<1>7. \A d \in Records' : \E i \in DOMAIN denials : d = denials'[i]
  BY DEF Records, Remarked
<1>8. SettledIsClosed'
  <2>1. ASSUME NEW u \in settled' PROVE u[1] <= epoch' /\ (u[1] = epoch' => u[2] < nextId')
    BY <1>3, <1>4, <2>1 DEF Closes, SettledIsClosed
  <2>2. ASSUME NEW d \in OpenDenials', <<epoch', d.id>> \in settled', Eligible(d) PROVE FALSE
    <3>1. PICK i \in DOMAIN denials : d = denials'[i]
      BY <1>7, <2>2 DEF OpenDenials
    <3>2. d.state = "open" /\ d.id = denials[i].id /\ denials[i] \in OpenDenials
          /\ Eligible(denials[i]) /\ denials[i] \notin S
      BY <2>2, <3>1 DEF OpenDenials, Remarked, Records
    <3>3. <<epoch, d.id>> \notin settled
      BY <3>2 DEF SettledIsClosed
    <3>4. PICK e \in S : <<epoch, d.id>> = <<epoch, e.id>>
      BY <2>2, <3>3 DEF Closes
    <3>5. PICK j \in DOMAIN denials : e = denials[j]
      BY <3>4 DEF Records
    <3>6. i = j
      BY <3>2, <3>4, <3>5, IdsAreUnique
    <3>7. QED
      BY <3>2, <3>4, <3>5, <3>6
  <2>3. QED
    BY <2>1, <2>2 DEF SettledIsClosed
<1>9. ASSUME \A q \in Reviews : review'[q] \in {review[q], NoReview}
      PROVE  ReviewsAreClaims' /\ OneReviewPerDenial'
  <2>1. \A q \in Reviews : review'[q].state = "shown" => review'[q] = review[q]
    BY <1>9 DEF NoReview
  <2>2. OneReviewPerDenial'
    BY <2>1 DEF OneReviewPerDenial
  <2>3. ReviewsAreClaims'
    BY <1>7, <2>1 DEF ReviewsAreClaims, Records, Remarked
  <2>4. QED
    BY <2>2, <2>3
<1>10. QED
  BY <1>1, <1>2, <1>5, <1>6, <1>8, <1>9

-----------------------------------------------------------------------------
(* The inductive invariant.                                                *)

LEMMA InitInv == LedgerInit => LedgerInv
<1> SUFFICES ASSUME LedgerInit PROVE LedgerInv
  OBVIOUS
<1>1. <<>> \in Seq(Denials) /\ Len(<<>>) = 0 /\ DOMAIN <<>> = {}
  BY EmptySeq
<1>2. LedgerTypeOK
  BY <1>1, LedgerAssumption DEF LedgerInit, LedgerTypeOK, Empty
<1>3. RecordsAreOrdered /\ SettledIsClosed
  BY <1>1 DEF LedgerInit, RecordsAreOrdered, Ordered, Empty, SettledIsClosed, OpenDenials, Records
<1>4. ReviewsAreClaims /\ OneReviewPerDenial
  BY DEF LedgerInit, ReviewsAreClaims, OneReviewPerDenial, NoReview
<1>5. QED
  BY <1>2, <1>3, <1>4 DEF LedgerInv

\* A new denial keeps the invariant: it has a fresh id, and what it pushes out was the oldest.
LEMMA RecordKeeps ==
  ASSUME LedgerInv, NEW a \in Actions, NEW o \in Owners, NEW eligible \in BOOLEAN,
         NEW response \in {"unasked", "denied", "timeout"}, NEW barred \in BOOLEAN,
         Record(a, o, eligible, response, barred),
         UNCHANGED <<exact, scoped, earlier, epoch, review, settled>>,
         gate' \in [state : {"idle"}] \cup [state : {"judged", "asked"}, action : Actions]
  PROVE  LedgerInv'
<1> USE DEF LedgerInv
<1> DEFINE x == [id |-> nextId, action |-> a, owner |-> o, state |-> "open",
                 eligible |-> eligible, response |-> response,
                 requested |-> FALSE, barred |-> barred]
<1>1. x \in Denials /\ nextId \in Nat /\ nextId' = nextId + 1 /\ nextId <= MaxDenials
  BY LedgerAssumption DEF Record, LedgerTypeOK, Denials
<1>2. denials' = Newest(<<x>> \o denials)
  BY DEF Record
<1> HIDE DEF x
<1>3. /\ denials' \in Seq(Denials) /\ Len(denials') <= DenialLimit /\ Len(denials') \in Nat
      /\ DOMAIN denials' = 1..Len(denials')
      /\ \A i \in DOMAIN denials' : denials'[i] = IF i = 1 THEN x ELSE denials[i - 1]
      /\ \A i \in DOMAIN denials' : i # 1 => i - 1 \in DOMAIN denials
  BY <1>1, <1>2, NewestOf
<1>4. x.id = nextId
  BY DEF x
<1>5. \A i \in DOMAIN denials : denials[i].id \in Nat /\ denials[i].id < nextId
  BY DenialsAreAFunction, LedgerAssumption DEF Denials, RecordsAreOrdered
<1>6. LedgerTypeOK'
  BY <1>1, <1>3, LedgerAssumption DEF LedgerTypeOK, Record
<1>7. RecordsAreOrdered'
  <2>1. \A i \in DOMAIN denials' : denials'[i].id \in Nat /\ denials'[i].id < nextId'
    BY <1>1, <1>3, <1>4, <1>5
  <2>2. Ordered(denials')
    <3> SUFFICES ASSUME NEW i \in DOMAIN denials', NEW j \in DOMAIN denials', i < j
                 PROVE  denials'[i].id > denials'[j].id
      BY DEF Ordered
    <3>1. i \in Nat /\ j \in Nat /\ j # 1 /\ 1 <= i
      BY <1>3
    <3>2. denials'[j] = denials[j - 1] /\ j - 1 \in DOMAIN denials
      BY <1>3, <3>1
    <3>3. CASE i = 1
      BY <1>1, <1>3, <1>4, <1>5, <3>2, <3>3
    <3>4. CASE i # 1
      <4>1. denials'[i] = denials[i - 1] /\ i - 1 \in DOMAIN denials /\ i - 1 < j - 1
        BY <1>3, <3>1, <3>4
      <4>2. QED
        BY <3>2, <4>1 DEF RecordsAreOrdered, Ordered
    <3>5. QED
      BY <3>3, <3>4
  <2>3. QED
    BY <2>1, <2>2 DEF RecordsAreOrdered
<1>8. \A d \in Records' : d = x \/ d \in Records
  BY <1>3 DEF Records
<1>9. ReviewsAreClaims'
  <2> SUFFICES ASSUME NEW r \in Reviews, review[r].state = "shown"
               PROVE  /\ review[r].epoch <= epoch
                      /\ review[r].epoch = epoch =>
                           /\ review[r].denial.id < nextId'
                           /\ \A d \in Records' : d.id = review[r].denial.id =>
                                d.requested /\ d.action = review[r].denial.action
    BY DEF ReviewsAreClaims
  <2>1. review[r].denial.id \in Nat
    BY ShownReviews
  <2>2. QED
    BY <1>1, <1>4, <1>8, <2>1 DEF ReviewsAreClaims
<1>10. SettledIsClosed'
  <2>1. \A u \in settled : u[1] <= epoch /\ (u[1] = epoch => u[2] < nextId) /\ u[2] \in Nat
    BY DEF SettledIsClosed, LedgerTypeOK
  <2>2. \A d \in OpenDenials' : d = x \/ d \in OpenDenials
    BY <1>8 DEF OpenDenials
  <2>3. <<epoch, nextId>> \notin settled
    BY <1>1, <2>1
  <2>4. QED
    BY <1>1, <1>4, <2>1, <2>2, <2>3 DEF SettledIsClosed, Eligible
<1>11. OneReviewPerDenial'
  BY DEF OneReviewPerDenial
<1>12. QED
  BY <1>6, <1>7, <1>9, <1>10, <1>11

\* A change of records that keeps the types of everything else keeps the invariant, when only
\* reviews end with it.
LEMMA ChangeKeeps ==
  ASSUME LedgerInv, NEW S \in SUBSET Records, Remarked(denials'), Closes(S),
         \A i \in DOMAIN denials :
           denials[i] \in S => ~(denials'[i].state = "open" /\ Eligible(denials'[i])),
         UNCHANGED <<nextId, epoch, earlier, gate>>,
         \A q \in Reviews : review'[q] \in {review[q], NoReview},
         review' = [q \in Reviews |-> review'[q]],
         exact' \subseteq Actions \X Owners, scoped' \subseteq Actions \X Owners,
         rejected' \subseteq Actions
  PROVE  LedgerInv'
<1>1. /\ denials' \in Seq(Denials) /\ Len(denials') <= DenialLimit
      /\ settled' \subseteq Nat \X Nat
      /\ RecordsAreOrdered' /\ SettledIsClosed'
      /\ ReviewsAreClaims' /\ OneReviewPerDenial'
  BY RemarkKeeps
<1>2. review' \in [Reviews -> {NoReview} \cup [state : {"shown"}, epoch : Nat, denial : Denials]]
  BY DEF LedgerInv, LedgerTypeOK
<1>3. LedgerTypeOK'
  BY <1>1, <1>2 DEF LedgerInv, LedgerTypeOK
<1>4. QED
  BY <1>1, <1>3 DEF LedgerInv

\* Nothing in the ledger changes but grants and what was declined.
LEMMA GrantsKeep ==
  ASSUME LedgerInv,
         UNCHANGED <<denials, nextId, epoch, earlier, review, settled>>,
         gate' \in [state : {"idle"}] \cup [state : {"judged", "asked"}, action : Actions],
         exact' \subseteq Actions \X Owners, scoped' \subseteq Actions \X Owners,
         rejected' \subseteq Actions
  PROVE  LedgerInv'
BY DEF LedgerInv, LedgerTypeOK, RecordsAreOrdered, ReviewsAreClaims, Records, SettledIsClosed,
       OpenDenials, OneReviewPerDenial

\* The gate and the asks of subagents.
LEMMA GateKeeps ==
  ASSUME LedgerInv,
         \/ \E a \in Actions : AtGate(a) \/ \E o \in Children : ChildDenied(a, o)
         \/ Judged \/ Blocked \/ Permitted
  PROVE  LedgerInv'
<1> USE DEF gateFrame
<1>1. ASSUME NEW a \in Actions, AtGate(a) PROVE LedgerInv'
  BY <1>1, GrantsKeep DEF AtGate, LedgerInv, LedgerTypeOK
<1>2. ASSUME NEW a \in Actions, NEW o \in Children, ChildDenied(a, o) PROVE LedgerInv'
  <2>1. PICK barred \in BOOLEAN : Record(a, o, FALSE, "unasked", barred)
    BY <1>2 DEF ChildDenied
  <2>2. o \in Owners
    BY DEF Owners
  <2>3. gate' \in [state : {"idle"}] \cup [state : {"judged", "asked"}, action : Actions]
    BY <1>2 DEF ChildDenied, LedgerInv, LedgerTypeOK
  <2>4. QED
    BY <1>2, <2>1, <2>2, <2>3, RecordKeeps DEF ChildDenied
<1>3. CASE Judged
  <2>1. gate' \in [state : {"idle"}] \cup [state : {"judged", "asked"}, action : Actions]
    BY <1>3 DEF Judged, LedgerInv, LedgerTypeOK
  <2>2. QED
    BY <1>3, <2>1, GrantsKeep DEF Judged, LedgerInv, LedgerTypeOK
<1>4. CASE Blocked
  <2>1. gate.action \in Actions
    BY <1>4 DEF Blocked, LedgerInv, LedgerTypeOK
  <2>2. PICK eligible \in BOOLEAN, response \in {"unasked", "denied", "timeout"} :
          Record(gate.action, Self, eligible, response, FALSE)
    BY <1>4 DEF Blocked
  <2>3. Self \in Owners /\ gate' \in [state : {"idle"}]
    BY <1>4 DEF Blocked, Owners
  <2>4. QED
    BY <1>4, <2>1, <2>2, <2>3, RecordKeeps DEF Blocked
<1>5. CASE Permitted
  <2>1. gate.action \in Actions /\ Self \in Owners
    BY <1>5 DEF Permitted, LedgerInv, LedgerTypeOK, Owners
  <2>2. scoped' \subseteq Actions \X Owners
    BY <1>5, <2>1 DEF Permitted, LedgerInv, LedgerTypeOK
  <2>3. QED
    BY <1>5, <2>2, GrantsKeep DEF Permitted, LedgerInv, LedgerTypeOK
<1>6. QED
  BY <1>1, <1>2, <1>3, <1>4, <1>5

\* A review is shown only for a denial nobody has claimed, which it claims.
LEMMA AsksReviewKeeps ==
  ASSUME LedgerInv, NEW r \in Reviews, AsksReview(r)
  PROVE  LedgerInv'
<1> USE DEF LedgerInv, reviewFrame
<1>1. PICK d \in OpenDenials :
        /\ Eligible(d) /\ ~d.requested
        /\ denials' = Marked({d}, Claimed)
        /\ review' = [review EXCEPT ![r] = [state |-> "shown", epoch |-> epoch, denial |-> d]]
  BY DEF AsksReview
<1>2. /\ UNCHANGED <<nextId, exact, earlier, epoch, gate, scoped, rejected, settled>>
      /\ review[r].state = "idle"
  BY DEF AsksReview
<1>3. PICK k \in DOMAIN denials : d = denials[k]
  BY <1>1 DEF OpenDenials, Records
<1>4. d \in Denials /\ d.id \in Nat /\ d.id < nextId /\ epoch \in Nat
  BY <1>3, DenialsAreAFunction, LedgerAssumption DEF Denials, RecordsAreOrdered, LedgerTypeOK
<1>5. \A i \in DOMAIN denials :
        denials'[i] = IF denials[i] = d THEN Claimed(d) ELSE denials[i]
  BY <1>1 DEF Marked
<1>6. /\ Claimed(d) \in Denials /\ Claimed(d).id = d.id /\ Claimed(d).action = d.action
      /\ Claimed(d).requested /\ Claimed(d).state = d.state
      /\ Eligible(Claimed(d)) = Eligible(d)
  BY <1>4 DEF Claimed, Denials, Eligible
<1>7. Remarked(denials')
  BY <1>1, <1>5, <1>6, DenialsAreAFunction DEF Remarked, Marked
<1>8. Closes({})
  BY <1>2 DEF Closes
<1>9. /\ denials' \in Seq(Denials) /\ Len(denials') <= DenialLimit
      /\ RecordsAreOrdered' /\ SettledIsClosed'
  BY <1>2, <1>7, <1>8, RemarkKeeps
<1>10. \A i \in DOMAIN denials : denials[i].id = d.id => denials[i] = d
  BY <1>3, IdsAreUnique
<1>11. /\ review'[r] = [state |-> "shown", epoch |-> epoch, denial |-> d]
       /\ \A q \in Reviews : q # r => review'[q] = review[q]
  BY <1>1 DEF LedgerTypeOK
<1>12. \A e \in Records' : \E i \in DOMAIN denials : e = denials'[i] /\ denials'[i].id = denials[i].id
  BY <1>7 DEF Records, Remarked
<1>13. ReviewsAreClaims'
  <2>1. \A e \in Records' : e.id = d.id => e.requested /\ e.action = d.action
    BY <1>5, <1>6, <1>10, <1>12
  <2>2. ASSUME NEW q \in Reviews, q # r, review'[q].state = "shown"
        PROVE  /\ review'[q].epoch <= epoch'
               /\ review'[q].epoch = epoch' =>
                    /\ review'[q].denial.id < nextId'
                    /\ \A e \in Records' : e.id = review'[q].denial.id =>
                         e.requested /\ e.action = review'[q].denial.action
    <3>1. review'[q] = review[q] /\ review[q].state = "shown"
      BY <1>11, <2>2
    <3>2. ASSUME review[q].epoch = epoch, NEW e \in Records', e.id = review[q].denial.id
          PROVE  e.requested /\ e.action = review[q].denial.action
      <4>1. PICK i \in DOMAIN denials : e = denials'[i] /\ denials'[i].id = denials[i].id
        BY <1>12
      <4>2. denials[i].requested /\ denials[i].action = review[q].denial.action
        BY <3>1, <3>2, <4>1 DEF ReviewsAreClaims, Records
      <4>3. QED
        BY <1>7, <4>1, <4>2 DEF Remarked
    <3>3. QED
      BY <1>2, <3>1, <3>2 DEF ReviewsAreClaims
  <2>3. QED
    BY <1>2, <1>4, <1>11, <2>1, <2>2 DEF ReviewsAreClaims
<1>14. OneReviewPerDenial'
  <2>1. ASSUME NEW q \in Reviews, q # r, review'[q].state = "shown"
        PROVE  <<review'[q].epoch, review'[q].denial.id>> # <<epoch, d.id>>
    BY <1>1, <1>3, <1>11, <2>1 DEF ReviewsAreClaims, Records
  <2>2. QED
    BY <1>11, <2>1 DEF OneReviewPerDenial
<1>15. LedgerTypeOK'
  <2>1. [state |-> "shown", epoch |-> epoch, denial |-> d]
          \in [state : {"shown"}, epoch : Nat, denial : Denials]
    BY <1>4
  <2>2. review' \in [Reviews -> {NoReview} \cup [state : {"shown"}, epoch : Nat, denial : Denials]]
    BY <1>1, <2>1 DEF LedgerTypeOK
  <2>3. QED
    BY <1>2, <1>9, <2>2 DEF LedgerTypeOK
<1>16. QED
  BY <1>9, <1>13, <1>14, <1>15

\* An answer closes what it is about.
LEMMA ReviewAnswerKeeps ==
  ASSUME LedgerInv, NEW r \in Reviews, ReviewAnswer(r)
  PROVE  LedgerInv'
<1> USE DEF LedgerInv, reviewFrame
<1>1. /\ UNCHANGED <<nextId, exact, earlier, epoch, gate>>
      /\ review' = [review EXCEPT ![r] = NoReview]
  BY DEF ReviewAnswer
<1>2. /\ \A q \in Reviews : review'[q] \in {review[q], NoReview}
      /\ review' = [q \in Reviews |-> review'[q]]
      /\ exact' \subseteq Actions \X Owners
  BY <1>1 DEF LedgerTypeOK
<1>3. CASE UNCHANGED <<recordVars, settled>>
  <2>1. Remarked(denials')
    <3>1. denials' = denials
      BY <1>3 DEF recordVars
    <3>2. denials = [i \in DOMAIN denials |-> denials[i]]
      BY LenProperties DEF LedgerTypeOK
    <3>3. QED
      BY <3>1, <3>2, DenialsAreAFunction DEF Remarked
  <2>2. Closes({})
    BY <1>3 DEF Closes
  <2>3. QED
    BY <1>1, <1>2, <1>3, <2>1, <2>2, ChangeKeeps DEF recordVars, LedgerTypeOK
<1>4. ASSUME NEW d \in StillShown(r), scoped' = ClearSimilar,
             denials' = Marked({d}, LAMBDA e : [e EXCEPT !.response = "denied", !.eligible = FALSE]),
             rejected' = rejected \cup {d.action}, Closes({d})
      PROVE  LedgerInv'
  <2>1. d \in Records /\ d \in Denials
    BY DenialsAreAFunction DEF StillShown, OpenDenials
  <2>2. \A i \in DOMAIN denials :
          denials'[i] = IF denials[i] = d
                        THEN [d EXCEPT !.response = "denied", !.eligible = FALSE] ELSE denials[i]
    BY <1>4 DEF Marked
  <2>3. Remarked(denials')
    <3> DEFINE e == [d EXCEPT !.response = "denied", !.eligible = FALSE]
    <3>1. /\ e \in Denials /\ e.id = d.id /\ e.action = d.action /\ e.requested = d.requested
          /\ ~Eligible(e)
      BY <2>1 DEF Denials, Eligible
    <3>2. denials' = [i \in DOMAIN denials |-> denials'[i]] /\ DOMAIN denials' = DOMAIN denials
      BY <1>4 DEF Marked
    <3>3. \A i \in DOMAIN denials : denials'[i] = IF denials[i] = d THEN e ELSE denials[i]
      BY <2>2
    <3> HIDE DEF e
    <3>4. QED
      BY <3>1, <3>2, <3>3, DenialsAreAFunction DEF Remarked
  <2>4. \A i \in DOMAIN denials : denials[i] \in {d} => ~Eligible(denials'[i])
    BY <2>1, <2>2 DEF Denials, Eligible
  <2>5. d.action \in Actions
    BY <2>1 DEF Denials
  <2>6. scoped' \subseteq Actions \X Owners /\ rejected' \subseteq Actions
    BY <1>4, <2>5 DEF ClearSimilar, LedgerTypeOK
  <2>7. QED
    BY <1>1, <1>2, <1>4, <2>1, <2>3, <2>4, <2>6, ChangeKeeps
<1>5. ASSUME NEW d \in StillShown(r), scoped' = ClearSimilar \cup {<<d.action, Self>>},
             denials' = Marked({d}, LAMBDA e : [e EXCEPT !.state = "approved"]),
             Closes({d}), UNCHANGED rejected
      PROVE  LedgerInv'
  <2>1. d \in Records /\ d \in Denials
    BY DenialsAreAFunction DEF StillShown, OpenDenials
  <2>2. \A i \in DOMAIN denials :
          denials'[i] = IF denials[i] = d THEN [d EXCEPT !.state = "approved"] ELSE denials[i]
    BY <1>5 DEF Marked
  <2>3. Remarked(denials')
    BY <1>5, <2>1, <2>2, DenialsAreAFunction DEF Remarked, Marked, Denials, Eligible
  <2>4. \A i \in DOMAIN denials : denials[i] \in {d} => denials'[i].state # "open"
    BY <2>1, <2>2 DEF Denials
  <2>5. d.action \in Actions /\ Self \in Owners
    BY <2>1 DEF Denials, Owners
  <2>6. scoped' \subseteq Actions \X Owners /\ rejected' \subseteq Actions
    BY <1>5, <2>5 DEF ClearSimilar, LedgerTypeOK
  <2>7. QED
    BY <1>1, <1>2, <1>5, <2>1, <2>3, <2>4, <2>6, ChangeKeeps
<1>6. QED
  BY <1>3, <1>4, <1>5 DEF ReviewAnswer

\* The menu.
LEMMA MenuKeeps ==
  ASSUME LedgerInv, NEW d \in OpenDenials,
         MenuDismisses(d) \/ \E onlyExact \in BOOLEAN : MenuApproves(d, onlyExact)
  PROVE  LedgerInv'
<1> USE DEF LedgerInv
<1>1. d \in Records /\ d \in Denials /\ d.action \in Actions /\ d.owner \in Owners
  BY DenialsAreAFunction DEF OpenDenials, Denials
<1>2. CASE MenuDismisses(d)
  <2>1. \A i \in DOMAIN denials :
          denials'[i] = IF denials[i] = d THEN [d EXCEPT !.state = "dismissed"] ELSE denials[i]
    BY <1>2 DEF MenuDismisses, Marked
  <2>2. Remarked(denials')
    BY <1>1, <1>2, <2>1, DenialsAreAFunction
       DEF MenuDismisses, Remarked, Marked, Denials, Eligible
  <2>3. \A i \in DOMAIN denials : denials[i] \in {d} => denials'[i].state # "open"
    BY <1>1, <2>1 DEF Denials
  <2>4. /\ \A q \in Reviews : review'[q] \in {review[q], NoReview}
        /\ review' = [q \in Reviews |-> review'[q]]
    BY <1>2 DEF MenuDismisses, LedgerTypeOK
  <2>5. QED
    BY <1>1, <1>2, <2>2, <2>3, <2>4, ChangeKeeps DEF MenuDismisses, LedgerTypeOK
<1>3. ASSUME NEW onlyExact \in BOOLEAN, MenuApproves(d, onlyExact) PROVE LedgerInv'
  <2> DEFINE same == {e \in OpenDenials : e.action = d.action /\ e.owner = d.owner}
  <2>1. same \subseteq Records
    BY DEF OpenDenials
  <2>2. denials' = Marked(same, LAMBDA e : [e EXCEPT !.state = "approved"]) /\ Closes(same)
    BY <1>3 DEF MenuApproves
  <2> HIDE DEF same
  <2>3. \A i \in DOMAIN denials :
          denials'[i] = IF denials[i] \in same
                        THEN [denials[i] EXCEPT !.state = "approved"] ELSE denials[i]
    BY <2>2 DEF Marked
  <2>4. Remarked(denials')
    BY <2>2, <2>3, DenialsAreAFunction DEF Remarked, Marked, Denials, Eligible
  <2>5. \A i \in DOMAIN denials : denials[i] \in same => denials'[i].state # "open"
    BY <2>3, DenialsAreAFunction DEF Denials
  <2>6. /\ UNCHANGED <<nextId, epoch, earlier, gate>>
        /\ \A q \in Reviews : review'[q] \in {review[q], NoReview}
        /\ review' = [q \in Reviews |-> review'[q]]
    BY <1>3 DEF MenuApproves, LedgerTypeOK
  <2>7. /\ exact' \subseteq Actions \X Owners /\ scoped' \subseteq Actions \X Owners
        /\ rejected' \subseteq Actions
    BY <1>1, <1>3 DEF MenuApproves, LedgerTypeOK
  <2>8. QED
    BY <2>1, <2>2, <2>4, <2>5, <2>6, <2>7, ChangeKeeps
<1>4. QED
  BY <1>2, <1>3

\* A restored record has its own ids; reviews and settlements of the old one are of the past.
LEMMA TreeKeeps ==
  ASSUME LedgerInv, Branches \/ Restores
  PROVE  LedgerInv'
<1> USE DEF LedgerInv
<1>1. CASE Branches
  <2>1. UNCHANGED <<denials, nextId, exact, scoped, rejected, epoch, gate, review, settled>>
    BY <1>1 DEF Branches, recordVars
  <2>2. LedgerTypeOK' /\ RecordsAreOrdered'
    BY <1>1, <2>1 DEF Branches, LedgerTypeOK, RecordsAreOrdered
  <2>3. ReviewsAreClaims' /\ SettledIsClosed' /\ OneReviewPerDenial'
    BY <2>1 DEF ReviewsAreClaims, Records, SettledIsClosed, OpenDenials, OneReviewPerDenial
  <2>4. QED
    BY <2>2, <2>3
<1>2. CASE Restores
  <2>1. PICK record \in {earlier, Empty} :
          /\ denials' = record.denials /\ exact' = record.exact /\ scoped' = record.scoped
          /\ rejected' = record.rejected
          /\ nextId' = IF record.denials = <<>> THEN 1 ELSE Head(record.denials).id + 1
    BY <1>2 DEF Restores
  <2>2. epoch' = epoch + 1 /\ epoch \in Nat /\ UNCHANGED <<earlier, gate, review, settled>>
    BY <1>2 DEF Restores, LedgerTypeOK
  <2>3. <<>> \in Seq(Denials) /\ Len(<<>>) = 0 /\ DOMAIN <<>> = {}
    BY EmptySeq
  <2>4. /\ denials' \in Seq(Denials) /\ Len(denials') <= DenialLimit /\ Ordered(denials')
        /\ exact' \subseteq Actions \X Owners /\ scoped' \subseteq Actions \X Owners
        /\ rejected' \subseteq Actions
    <3>1. CASE record = Empty
      BY <2>1, <2>3, <3>1, LedgerAssumption DEF Empty, Ordered
    <3>2. CASE record = earlier
      <4>1. /\ denials' = earlier.denials /\ exact' = earlier.exact
            /\ scoped' = earlier.scoped /\ rejected' = earlier.rejected
        BY <2>1, <3>2
      <4>2. /\ earlier.denials \in Seq(Denials) /\ Len(earlier.denials) <= DenialLimit
            /\ earlier.exact \subseteq Actions \X Owners
            /\ earlier.scoped \subseteq Actions \X Owners /\ earlier.rejected \subseteq Actions
            /\ Ordered(earlier.denials)
        BY DEF LedgerTypeOK, RecordsAreOrdered
      <4>3. QED
        BY <4>1, <4>2
    <3>3. QED
      BY <3>1, <3>2
  <2>5. /\ Len(denials') \in Nat /\ DOMAIN denials' = 1..Len(denials')
        /\ \A i \in DOMAIN denials' : denials'[i] \in Denials
    <3>1. /\ Len(denials') \in Nat /\ DOMAIN denials' = 1..Len(denials')
          /\ denials' \in [1..Len(denials') -> Denials]
      BY <2>4, LenProperties
    <3>2. QED
      BY <3>1
  <2>6. nextId' \in 1..MaxDenials + 1 /\ \A i \in DOMAIN denials' : denials'[i].id < nextId'
    <3>1. CASE denials' = <<>>
      BY <2>1, <2>3, <3>1, LedgerAssumption
    <3>2. CASE denials' # <<>>
      <4>1. Len(denials') # 0 /\ Head(denials') = denials'[1]
        BY <2>4, <3>2, EmptySeq, HeadTailProperties
      <4>2. 1 \in DOMAIN denials' /\ nextId' = denials'[1].id + 1
        BY <2>1, <2>5, <3>2, <4>1
      <4>3. \A i \in DOMAIN denials' : denials'[i].id \in 1..MaxDenials
        BY <2>5 DEF Denials
      <4>4. ASSUME NEW i \in DOMAIN denials' PROVE denials'[i].id <= denials'[1].id
        <5>1. i = 1 \/ 1 < i
          BY <2>5
        <5>2. QED
          BY <2>4, <4>2, <4>3, <5>1 DEF Ordered
      <4>5. QED
        BY <4>2, <4>3, <4>4, LedgerAssumption
    <3>3. QED
      BY <3>1, <3>2
  <2>7. LedgerTypeOK'
    BY <2>2, <2>4, <2>6 DEF LedgerTypeOK
  <2>8. RecordsAreOrdered'
    BY <2>2, <2>4, <2>6 DEF RecordsAreOrdered
  <2>9. ReviewsAreClaims'
    <3>1. ASSUME NEW r \in Reviews, review[r].state = "shown"
          PROVE  review[r].epoch \in Nat /\ review[r].epoch <= epoch
      BY <3>1, ShownReviews DEF ReviewsAreClaims
    <3>2. QED
      BY <2>2, <3>1 DEF ReviewsAreClaims
  <2>10. SettledIsClosed'
    <3>1. \A t \in settled : t[1] \in Nat /\ t[1] <= epoch
      BY DEF SettledIsClosed, LedgerTypeOK
    <3>2. \A t \in settled : t[1] # epoch'
      BY <2>2, <3>1
    <3>3. \A d \in OpenDenials' : <<epoch', d.id>> \notin settled'
      BY <2>2, <3>2
    <3>4. QED
      BY <2>2, <3>1, <3>2, <3>3 DEF SettledIsClosed
  <2>11. OneReviewPerDenial'
    BY <2>2 DEF OneReviewPerDenial
  <2>12. QED
    BY <2>7, <2>8, <2>9, <2>10, <2>11
<1>3. QED
  BY <1>1, <1>2

LEMMA StepInv == LedgerInv /\ [LedgerNext]_ledgerVars => LedgerInv'
<1> SUFFICES ASSUME LedgerInv, [LedgerNext]_ledgerVars PROVE LedgerInv'
  OBVIOUS
<1>1. CASE MenuRevokes
  <2>1. exact' \subseteq Actions \X Owners /\ scoped' \subseteq Actions \X Owners
    BY <1>1 DEF MenuRevokes, LedgerInv, LedgerTypeOK
  <2>2. QED
    BY <1>1, <2>1, GrantsKeep DEF MenuRevokes, LedgerInv, LedgerTypeOK
<1>2. CASE Instructs
  BY <1>2, GrantsKeep DEF Instructs, ClearSimilar, LedgerInv, LedgerTypeOK
<1>3. CASE UNCHANGED ledgerVars
  BY <1>3, GrantsKeep DEF ledgerVars, recordVars, LedgerInv, LedgerTypeOK
<1>4. CASE LedgerNext
  BY <1>1, <1>2, <1>4, GateKeeps, AsksReviewKeeps, ReviewAnswerKeeps, MenuKeeps, TreeKeeps
     DEF LedgerNext
<1>5. QED
  BY <1>3, <1>4

LEMMA LedgerInvariant == LedgerSpec => []LedgerInv
  BY InitInv, StepInv, PTL DEF LedgerSpec

-----------------------------------------------------------------------------
(* Theorems.                                                               *)

\* The record stays a bounded list of denials, and grants are of known actions and owners.
THEOREM LedgerTypes == LedgerSpec => []LedgerTypeOK
<1>1. LedgerInv => LedgerTypeOK
  BY DEF LedgerInv
<1>2. QED
  BY <1>1, LedgerInvariant, PTL

\* One denial is never put to the user twice at a time, however many reviews run and whatever
\* record is restored under them.
THEOREM OneReview == LedgerSpec => []OneReviewPerDenial
<1>1. LedgerInv => OneReviewPerDenial
  BY DEF LedgerInv
<1>2. QED
  BY <1>1, LedgerInvariant, PTL

\* The answer to a review changes only the denial that was shown, in the record it was shown
\* from, and only when nothing has settled that denial since.
THEOREM ReviewsApprove == LedgerSpec => ReviewsApproveWhatTheyShow
<1> DEFINE Step == \A r \in Reviews :
       review[r].state = "shown" /\ review'[r].state = "idle" /\ denials' # denials =>
         /\ <<review[r].epoch, review[r].denial.id>> \notin settled
         /\ \E d \in Records : d.id = review[r].denial.id /\ d.action = review[r].denial.action
                              /\ review[r].epoch = epoch
<1>1. ASSUME LedgerInv, LedgerNext PROVE Step
  <2> SUFFICES ASSUME NEW r \in Reviews, review[r].state = "shown", review'[r].state = "idle",
                      denials' # denials
               PROVE  /\ <<review[r].epoch, review[r].denial.id>> \notin settled
                      /\ \E d \in Records : d.id = review[r].denial.id
                           /\ d.action = review[r].denial.action /\ review[r].epoch = epoch
    OBVIOUS
  <2>1. ReviewAnswer(r)
    <3>1. ASSUME UNCHANGED review PROVE FALSE
      BY <3>1
    <3>2. ASSUME NEW q \in Reviews, AsksReview(q) PROVE FALSE
      BY <3>2, <1>1 DEF AsksReview, LedgerInv, LedgerTypeOK
    <3>3. ASSUME NEW q \in Reviews, ReviewAnswer(q) PROVE q = r
      BY <3>3, <1>1 DEF ReviewAnswer, LedgerInv, LedgerTypeOK
    <3>4. QED
      BY <1>1, <3>1, <3>2, <3>3
         DEF LedgerNext, AtGate, ChildDenied, Judged, Blocked, Permitted, gateFrame, MenuDismisses,
             MenuApproves, MenuRevokes, Instructs, Branches, Restores
  <2>2. PICK d \in StillShown(r) : TRUE
    BY <2>1 DEF ReviewAnswer, recordVars
  <2>3. /\ d \in OpenDenials /\ d \in Records /\ review[r].epoch = epoch
        /\ d.id = review[r].denial.id /\ Eligible(d)
    BY DEF StillShown, OpenDenials
  <2>4. d.action = review[r].denial.action
    BY <1>1, <2>3 DEF LedgerInv, ReviewsAreClaims
  <2>5. <<epoch, d.id>> \notin settled
    BY <1>1, <2>3 DEF LedgerInv, SettledIsClosed
  <2>6. QED
    BY <2>3, <2>4, <2>5
<1>2. LedgerInv /\ [LedgerNext]_ledgerVars => [Step]_ledgerVars
  BY <1>1
<1> HIDE DEF Step
<1>3. LedgerSpec => [][Step]_ledgerVars
  BY <1>2, LedgerInvariant, PTL DEF LedgerSpec
<1>4. QED
  BY <1>3 DEF ReviewsApproveWhatTheyShow, Step
=============================================================================
