--------------------------- MODULE GoalMode_proofs ---------------------------
(***************************************************************************)
(* Theorems about GoalMode for any limits, goals and turns.  There is one  *)
(* lemma per action, and in it one step per part of the invariant.         *)
(***************************************************************************)
EXTENDS GoalMode, TLAPS

-----------------------------------------------------------------------------
(* Goals and contracts.                                                    *)

\* The fields of a goal, and what tells it from no goal.
LEMMA Fields ==
  ASSUME NEW g \in Goals \cup {NoGoal}
  PROVE  /\ g.id \in 0..MaxGoals /\ g.turns \in Nat /\ g.repeats \in Nat
         /\ Active(g) => g \in Goals
         /\ g # NoGoal => g \in Goals
         /\ g \in Goals => g # NoGoal
BY GoalAssumption DEF Goals, NoGoal, Active, Statuses

\* A contract is none, that of a goal, or the inactive one.
LEMMA ContractFacts ==
  /\ NoContract \in Contracts /\ Inactive \in Contracts
  /\ \A g \in Goals \cup {NoGoal} : g.id \in Contracts
BY GoalAssumption DEF Goals, NoGoal, Contracts, NoContract, Inactive

\* What the handlers make of a goal is a goal.
LEMMA Updates ==
  ASSUME NEW g \in Goals
  PROVE  /\ Awake(g) \in Goals /\ ResetSafety(g) \in Goals
         /\ \A s \in Statuses : [g EXCEPT !.status = s] \in Goals
         /\ \A w \in {"no", "event", "deadline"} : [g EXCEPT !.waiting = w] \in Goals
         /\ \A n \in Nat : [g EXCEPT !.turns = n] \in Goals /\ [g EXCEPT !.repeats = n] \in Goals
         /\ \A b \in BOOLEAN : [g EXCEPT !.spent = b] \in Goals
         /\ [g EXCEPT !.turns = @ + 1] \in Goals
         /\ \A s \in Statuses : [Awake(g) EXCEPT !.status = s] \in Goals
         /\ \A n \in 1..MaxGoals : ResetSafety([g EXCEPT !.id = n, !.status = "active"]) \in Goals
<1>1. Awake(g) \in Goals BY DEF Goals, Awake
<1>2. ResetSafety(g) \in Goals BY DEF Goals, ResetSafety
<1>3. \A s \in Statuses : [g EXCEPT !.status = s] \in Goals BY DEF Goals
<1>4. \A w \in {"no", "event", "deadline"} : [g EXCEPT !.waiting = w] \in Goals BY DEF Goals
<1>5. \A n \in Nat : [g EXCEPT !.turns = n] \in Goals /\ [g EXCEPT !.repeats = n] \in Goals
  BY DEF Goals
<1>6. \A b \in BOOLEAN : [g EXCEPT !.spent = b] \in Goals BY DEF Goals
<1>7. [g EXCEPT !.turns = @ + 1] \in Goals BY DEF Goals
<1>8. \A s \in Statuses : [Awake(g) EXCEPT !.status = s] \in Goals BY DEF Goals, Awake
<1>9. \A n \in 1..MaxGoals : ResetSafety([g EXCEPT !.id = n, !.status = "active"]) \in Goals
  BY DEF Goals, ResetSafety, Statuses
<1> QED BY <1>1, <1>2, <1>3, <1>4, <1>5, <1>6, <1>7, <1>8, <1>9

\* The end of a wait changes neither the id nor the status.
LEMMA AwakeKeeps ==
  ASSUME NEW g \in Goals \cup {NoGoal}
  PROVE  /\ Awake(g).id = g.id /\ (Active(Awake(g)) <=> Active(g))
         /\ Woken(g).id = g.id /\ (Active(Woken(g)) <=> Active(g))
BY DEF Awake, Woken, Active, Goals, NoGoal

\* A new id makes a goal of a new and of an edited objective.
LEMMA NewGoals ==
  ASSUME ids \in 0..MaxGoals, ids < MaxGoals
  PROVE  /\ ids + 1 \in 1..MaxGoals
         /\ \A b \in BOOLEAN : NewGoal(b) \in Goals
         /\ goal \in Goals => \A b \in BOOLEAN : Edited(b) \in Goals
<1>1. ids + 1 \in 1..MaxGoals BY GoalAssumption
<1>2. \A b \in BOOLEAN : NewGoal(b) \in Goals BY <1>1 DEF NewGoal, Goals, Statuses
<1>3. ASSUME goal \in Goals, NEW b \in BOOLEAN PROVE Edited(b) \in Goals
  <2> DEFINE g == [Awake(goal) EXCEPT !.id = ids + 1, !.budgeted = @ \/ b, !.spent = @ /\ ~b]
  <2>1. g \in Goals
    <3>0. Awake(goal) \in Goals BY <1>3, Updates
    <3>1. (Awake(goal).budgeted \/ b) \in BOOLEAN /\ (Awake(goal).spent /\ ~b) \in BOOLEAN OBVIOUS
    <3>2. QED BY <3>0, <3>1, <1>1 DEF Goals
  <2>2. ResetSafety([g EXCEPT !.status = "active"]) \in Goals
    <3>1. [g EXCEPT !.status = "active"] \in Goals BY <2>1, Updates DEF Statuses
    <3>2. QED BY <3>1, Updates
  <2>3. QED BY <2>1, <2>2 DEF Edited
<1>4. QED BY <1>1, <1>2, <1>3

\* What goes on at the end of an execution leaves of the goal all but its budget and status.
LEMMA ExecutionEffects ==
  ASSUME NEW g \in Goals \cup {NoGoal}, ExecutionEnds(g), saved \in Goals \cup {NoGoal}
  PROVE  /\ goal' \in Goals \cup {NoGoal} /\ saved' \in {saved, g, goal'}
         /\ saved' \in {g, goal'} \/ (g = goal /\ saved' = saved)
         /\ goal'.id = g.id /\ goal'.turns = g.turns /\ goal'.waiting = g.waiting
         /\ Active(goal') => Active(g)
         /\ ~Active(goal') => saved' = goal'
<1>1. CASE ~Active(g)
  BY <1>1 DEF ExecutionEnds
<1>2. CASE Active(g)
  <2>1. g \in Goals
    BY <1>2, Fields
  <2>2. PICK spent \in BOOLEAN :
          LET h == [g EXCEPT !.spent = @ \/ (spent /\ g.budgeted)] IN
          IF BudgetIsSpent(h)
          THEN /\ goal' = [h EXCEPT !.status = "budget_limited"] /\ Persist
               /\ wrapUpSent' = TRUE /\ wrapUpActive' = TRUE
          ELSE /\ goal' = h
               /\ saved' = IF g = goal THEN saved ELSE g
               /\ UNCHANGED wrapVars
    BY <1>2 DEF ExecutionEnds
  <2> DEFINE h == [g EXCEPT !.spent = @ \/ (spent /\ g.budgeted)]
  <2>3. h \in Goals /\ h.id = g.id /\ h.turns = g.turns /\ h.waiting = g.waiting
        /\ h.status = g.status
    <3>1. (g.spent \/ (spent /\ g.budgeted)) \in BOOLEAN OBVIOUS
    <3>2. QED BY <2>1, <3>1 DEF Goals
  <2> HIDE DEF h
  <2>4. CASE BudgetIsSpent(h)
    <3>1. goal' = [h EXCEPT !.status = "budget_limited"] /\ saved' = goal'
      BY <2>2, <2>4 DEF Persist, h
    <3>2. goal' \in Goals BY <3>1, <2>3, Updates DEF Statuses
    <3>3. /\ goal'.id = h.id /\ goal'.turns = h.turns /\ goal'.waiting = h.waiting
          /\ goal'.status = "budget_limited"
      BY <3>1, <2>3 DEF Goals
    <3>4. QED BY <3>1, <3>2, <3>3, <2>3 DEF Active
  <2>5. CASE ~BudgetIsSpent(h)
    <3>1. goal' = h /\ saved' = IF g = goal THEN saved ELSE g
      BY <2>2, <2>5 DEF h
    <3>2. QED BY <3>1, <2>3, <1>2 DEF Active
  <2>6. QED BY <2>4, <2>5
<1>3. QED BY <1>1, <1>2

\* An accepted goal_wait leaves the goal its id and the saved copy no more active than it.
LEMMA WaitsEffects ==
  ASSUME GoalInv, NEW for \in {"event", "deadline"}, Waits(for)
  PROVE  /\ goal \in Goals /\ On /\ On' /\ UNCHANGED <<ids, contractVars>>
         /\ goal'.id = goal.id /\ saved'.id = goal.id
         /\ Active(goal') => Active(goal)
         /\ Active(saved') => Active(goal')
<1>1. goal \in Goals /\ goal.waiting = "no" /\ On /\ On' /\ UNCHANGED <<ids, contractVars>>
  BY Fields DEF GoalInv, GoalTypeOK, EntriesType, Waits, Runs, Accepted, ToolFrame, On
<1> DEFINE g == [goal EXCEPT !.waiting = for]
<1>2. g \in Goals /\ g # goal /\ g.id = goal.id /\ (Active(g) <=> Active(goal))
  <2>1. g \in Goals
    BY <1>1, Updates
  <2>2. g.waiting = for /\ g.id = goal.id /\ g.status = goal.status
    BY <1>1 DEF Goals
  <2>3. QED
    BY <1>1, <2>1, <2>2 DEF Active
<1>3. ExecutionEnds(g) /\ saved \in Goals \cup {NoGoal}
  BY DEF Waits, GoalInv, GoalTypeOK, EntriesType
<1> HIDE DEF g
<1>4. QED
  BY <1>1, <1>2, <1>3, ExecutionEffects

-----------------------------------------------------------------------------
(* The user.                                                               *)

LEMMA StartsKeeps ==
  ASSUME GoalInv, NEW budgeted \in BOOLEAN, Starts(budgeted)
  PROVE  GoalInv'
<1>1. (goal \in Goals \cup {NoGoal})'
  BY NewGoals DEF GoalInv, GoalTypeOK, EntriesType, Starts, FreshId
<1>2. (saved \in Goals \cup {NoGoal})'
  BY <1>1 DEF Starts, Persist
<1>3. (ids \in 0..MaxGoals)'
  BY GoalAssumption DEF GoalInv, GoalTypeOK, EntriesType, Starts, FreshId
<1>4. (unattended \in Nat)'
  BY DEF Starts, UserActs
<1>5. ContractsType'
  BY ContractFacts DEF GoalInv, GoalTypeOK, ContractsType, Starts, SendGoalPrompt
<1>6. FlagsType'
  BY DEF GoalInv, GoalTypeOK, FlagsType, Starts, SendGoalPrompt
<1>7. LoopType'
  BY DEF GoalInv, GoalTypeOK, LoopType, Starts, SendGoalPrompt, runVars
<1>8. CountsHold'
  BY DEF CountsHold, Starts, NewGoal, UserActs, Persist
<1>9. SomeoneGoesOn'
  BY DEF SomeoneGoesOn, Starts, SendGoalPrompt
<1>10. DeadlinesAreArmed'
  BY DEF DeadlinesAreArmed, Starts, NewGoal
<1>11. SavedIsCurrent'
  BY DEF SavedIsCurrent, Starts, Persist
<1>12. ContractsAreTracked'
  BY GoalAssumption
  DEF GoalInv, ContractsAreTracked, Inactive, GoalTypeOK, EntriesType, Starts, NewGoal, FreshId,
      SendGoalPrompt, Persist
<1>13. QED
  BY <1>1, <1>2, <1>3, <1>4, <1>5, <1>6, <1>7, <1>8, <1>9, <1>10, <1>11, <1>12
  DEF GoalInv, GoalTypeOK, EntriesType

LEMMA ResumesWaitKeeps ==
  ASSUME GoalInv, ResumesWait
  PROVE  GoalInv'
<1>1. (goal \in Goals \cup {NoGoal})'
  BY Fields, Updates DEF GoalInv, GoalTypeOK, EntriesType, ResumesWait
<1>2. (saved \in Goals \cup {NoGoal})'
  BY <1>1 DEF ResumesWait, Persist
<1>3. (ids \in 0..MaxGoals)'
  BY DEF GoalInv, GoalTypeOK, EntriesType, ResumesWait
<1>4. (unattended \in Nat)'
  BY DEF ResumesWait, UserActs
<1>5. ContractsType'
  BY ContractFacts DEF GoalInv, GoalTypeOK, ContractsType, ResumesWait, SendGoalPrompt
<1>6. FlagsType'
  BY DEF GoalInv, GoalTypeOK, FlagsType, ResumesWait, SendGoalPrompt, wrapVars
<1>7. LoopType'
  BY DEF GoalInv, GoalTypeOK, LoopType, ResumesWait, SendGoalPrompt, runVars
<1>8. CountsHold'
  BY
  DEF GoalInv, CountsHold, NoGoal, Goals, GoalTypeOK, EntriesType, ResumesWait, UserActs,
      Persist, Awake
<1>9. SomeoneGoesOn'
  BY DEF SomeoneGoesOn, ResumesWait, SendGoalPrompt
<1>10. DeadlinesAreArmed'
  BY DEF DeadlinesAreArmed, ResumesWait, Awake
<1>11. SavedIsCurrent'
  BY DEF SavedIsCurrent, ResumesWait, Persist
<1>12. ContractsAreTracked'
  BY DEF GoalInv, ContractsAreTracked, ResumesWait, SendGoalPrompt, Persist, Awake
<1>13. QED
  BY <1>1, <1>2, <1>3, <1>4, <1>5, <1>6, <1>7, <1>8, <1>9, <1>10, <1>11, <1>12
  DEF GoalInv, GoalTypeOK, EntriesType

LEMMA ResumesKeeps ==
  ASSUME GoalInv, Resumes
  PROVE  GoalInv'
<1>1. (goal \in Goals \cup {NoGoal})'
  BY Updates, NewGoals DEF GoalInv, GoalTypeOK, EntriesType, Resumes, FreshId
<1>2. (saved \in Goals \cup {NoGoal})'
  BY <1>1 DEF Resumes, Persist
<1>3. (ids \in 0..MaxGoals)'
  BY GoalAssumption DEF GoalInv, GoalTypeOK, EntriesType, Resumes, FreshId
<1>4. (unattended \in Nat)'
  BY DEF Resumes, UserActs
<1>5. ContractsType'
  BY ContractFacts DEF GoalInv, GoalTypeOK, ContractsType, Resumes, SendGoalPrompt
<1>6. FlagsType'
  BY DEF GoalInv, GoalTypeOK, FlagsType, Resumes, SendGoalPrompt
<1>7. LoopType'
  BY DEF GoalInv, GoalTypeOK, LoopType, Resumes, SendGoalPrompt, runVars
<1>8. CountsHold'
  BY DEF CountsHold, Resumes, UserActs, Persist, ResetSafety
<1>9. SomeoneGoesOn'
  BY DEF SomeoneGoesOn, Resumes, SendGoalPrompt
<1>10. DeadlinesAreArmed'
  BY DEF DeadlinesAreArmed, Resumes, SendGoalPrompt
<1>11. SavedIsCurrent'
  BY DEF SavedIsCurrent, Resumes, Persist
<1>12. ContractsAreTracked'
  BY GoalAssumption
  DEF GoalInv, ContractsAreTracked, Inactive, GoalTypeOK, EntriesType, Resumes, FreshId,
      SendGoalPrompt, Persist, ResetSafety
<1>13. QED
  BY <1>1, <1>2, <1>3, <1>4, <1>5, <1>6, <1>7, <1>8, <1>9, <1>10, <1>11, <1>12
  DEF GoalInv, GoalTypeOK, EntriesType

LEMMA EditsKeeps ==
  ASSUME GoalInv, NEW more \in BOOLEAN, Edits(more)
  PROVE  GoalInv'
<1>1. (goal \in Goals \cup {NoGoal})'
  BY NewGoals DEF GoalInv, GoalTypeOK, EntriesType, Edits, FreshId
<1>2. (saved \in Goals \cup {NoGoal})'
  BY <1>1 DEF Edits, Persist
<1>3. (ids \in 0..MaxGoals)'
  BY GoalAssumption DEF GoalInv, GoalTypeOK, EntriesType, Edits, FreshId
<1>4. (unattended \in Nat)'
  BY DEF Edits, UserActs
<1>5. ContractsType'
  BY ContractFacts DEF GoalInv, GoalTypeOK, ContractsType, Edits, SendGoalPrompt, contractVars
<1>6. FlagsType'
  BY DEF GoalInv, GoalTypeOK, FlagsType, Edits, SendGoalPrompt, wrapVars, contractVars
<1>7. LoopType'
  BY DEF GoalInv, GoalTypeOK, LoopType, Edits, SendGoalPrompt, runVars
<1>8. CountsHold'
  BY DEF CountsHold, Active, Edits, Edited, UserActs, Persist, Awake, ResetSafety
<1>9. SomeoneGoesOn'
  BY DEF SomeoneGoesOn, Edits, SendGoalPrompt
<1>10. DeadlinesAreArmed'
  BY DEF DeadlinesAreArmed, Edits, Edited, Awake, ResetSafety
<1>11. SavedIsCurrent'
  BY DEF SavedIsCurrent, Edits, Persist
<1>12. ContractsAreTracked'
  BY GoalAssumption
  DEF GoalInv, ContractsAreTracked, Inactive, GoalTypeOK, EntriesType, Edits, Edited, FreshId,
      SendGoalPrompt, Persist, contractVars, ResetSafety
<1>13. QED
  BY <1>1, <1>2, <1>3, <1>4, <1>5, <1>6, <1>7, <1>8, <1>9, <1>10, <1>11, <1>12
  DEF GoalInv, GoalTypeOK, EntriesType

LEMMA PausesKeeps ==
  ASSUME GoalInv, Pauses
  PROVE  GoalInv'
<1>1. (goal \in Goals \cup {NoGoal})'
  BY Fields, Updates DEF GoalInv, GoalTypeOK, EntriesType, Pauses, Stop, Statuses
<1>2. (saved \in Goals \cup {NoGoal})'
  BY <1>1 DEF Pauses, Stop, Persist
<1>3. (ids \in 0..MaxGoals)'
  BY DEF GoalInv, GoalTypeOK, EntriesType, Pauses
<1>4. (unattended \in Nat)'
  BY DEF Pauses, UserActs
<1>5. ContractsType'
  BY ContractFacts DEF GoalInv, GoalTypeOK, ContractsType, Pauses, Stop, Deactivate
<1>6. FlagsType'
  BY DEF GoalInv, GoalTypeOK, FlagsType, Pauses, Stop, Deactivate, wrapVars
<1>7. LoopType'
  BY DEF GoalInv, GoalTypeOK, LoopType, Pauses, runVars
<1>8. CountsHold'
  BY DEF CountsHold, Active, Pauses, Stop, Persist
<1>9. SomeoneGoesOn'
  BY DEF SomeoneGoesOn, Active, Pauses, Stop
<1>10. DeadlinesAreArmed'
  BY DEF DeadlinesAreArmed, Active, Pauses, Stop
<1>11. SavedIsCurrent'
  BY DEF SavedIsCurrent, Pauses, Stop, Persist
<1>12. ContractsAreTracked'
  BY DEF GoalInv, ContractsAreTracked, Pauses, Stop, Deactivate, Persist, Awake
<1>13. QED
  BY <1>1, <1>2, <1>3, <1>4, <1>5, <1>6, <1>7, <1>8, <1>9, <1>10, <1>11, <1>12
  DEF GoalInv, GoalTypeOK, EntriesType

LEMMA ClearsKeeps ==
  ASSUME GoalInv, Clears
  PROVE  GoalInv'
<1>1. (goal \in Goals \cup {NoGoal})'
  BY DEF Clears
<1>2. (saved \in Goals \cup {NoGoal})'
  BY DEF Clears, Persist
<1>3. (ids \in 0..MaxGoals)'
  BY DEF GoalInv, GoalTypeOK, EntriesType, Clears
<1>4. (unattended \in Nat)'
  BY DEF Clears, UserActs
<1>5. ContractsType'
  BY ContractFacts DEF GoalInv, GoalTypeOK, ContractsType, Clears, Deactivate
<1>6. FlagsType'
  BY DEF GoalInv, GoalTypeOK, FlagsType, Clears, Deactivate
<1>7. LoopType'
  BY DEF GoalInv, GoalTypeOK, LoopType, Clears, runVars
<1>8. CountsHold'
  BY DEF CountsHold, Active, NoGoal, Clears, Persist
<1>9. SomeoneGoesOn'
  BY DEF SomeoneGoesOn, Active, NoGoal, Clears
<1>10. DeadlinesAreArmed'
  BY DEF DeadlinesAreArmed, NoGoal, Clears
<1>11. SavedIsCurrent'
  BY DEF SavedIsCurrent, Clears, Persist
<1>12. ContractsAreTracked'
  BY
  DEF GoalInv, ContractsAreTracked, Active, NoGoal, GoalTypeOK, EntriesType, Clears, Deactivate,
      Persist
<1>13. QED
  BY <1>1, <1>2, <1>3, <1>4, <1>5, <1>6, <1>7, <1>8, <1>9, <1>10, <1>11, <1>12
  DEF GoalInv, GoalTypeOK, EntriesType

LEMMA SpeaksKeeps ==
  ASSUME GoalInv, Speaks
  PROVE  GoalInv'
<1>1. (goal \in Goals \cup {NoGoal})'
  BY Fields, Updates DEF GoalInv, GoalTypeOK, EntriesType, Speaks
<1>2. (saved \in Goals \cup {NoGoal})'
  BY Fields, Updates DEF GoalInv, GoalTypeOK, EntriesType, Speaks
<1>3. (ids \in 0..MaxGoals)'
  BY DEF GoalInv, GoalTypeOK, EntriesType, Speaks
<1>4. (unattended \in Nat)'
  BY DEF Speaks, UserActs
<1>5. ContractsType'
  BY DEF GoalInv, GoalTypeOK, ContractsType, Speaks, contractVars
<1>6. FlagsType'
  BY DEF GoalInv, GoalTypeOK, FlagsType, Speaks, wrapVars, contractVars
<1>7. LoopType'
  BY DEF GoalInv, GoalTypeOK, LoopType, Speaks, runVars
<1>8. CountsHold'
  BY <1>1, <1>2, Fields DEF CountsHold, Speaks, UserActs
<1>9. SomeoneGoesOn'
  BY DEF SomeoneGoesOn, Speaks
<1>10. DeadlinesAreArmed'
  BY DEF DeadlinesAreArmed, Speaks
<1>11. SavedIsCurrent'
  BY GoalAssumption
  DEF GoalInv, SavedIsCurrent, On, Active, NoGoal, Goals, Statuses, GoalTypeOK, EntriesType,
      Speaks, UserActs, runVars, wrapVars, contractVars, Awake, ResetSafety
<1>12. ContractsAreTracked'
  BY
  DEF GoalInv, ContractsAreTracked, NoGoal, Goals, GoalTypeOK, EntriesType, Speaks, contractVars,
      Awake, ResetSafety
<1>13. QED
  BY <1>1, <1>2, <1>3, <1>4, <1>5, <1>6, <1>7, <1>8, <1>9, <1>10, <1>11, <1>12
  DEF GoalInv, GoalTypeOK, EntriesType

-----------------------------------------------------------------------------
(* A run of the agent.                                                     *)

LEMMA BeginsRunKeeps ==
  ASSUME GoalInv, NEW prompt \in {"prompt", "continuation", "wake"}, BeginsRun(prompt)
  PROVE  GoalInv'
<1>1. (goal \in Goals \cup {NoGoal})'
  BY Fields, Updates DEF GoalInv, GoalTypeOK, EntriesType, BeginsRun, Woken
<1>2. (saved \in Goals \cup {NoGoal})'
  BY <1>1 DEF GoalInv, GoalTypeOK, EntriesType, BeginsRun
<1>3. (ids \in 0..MaxGoals)'
  BY DEF GoalInv, GoalTypeOK, EntriesType, BeginsRun
<1>4. (unattended \in Nat)'
  BY DEF GoalInv, GoalTypeOK, EntriesType, BeginsRun
<1>5. ContractsType'
  BY ContractFacts
  DEF GoalInv, GoalTypeOK, EntriesType, ContractsType, BeginsRun, Announce, contractVars
<1>6. FlagsType'
  BY DEF GoalInv, GoalTypeOK, FlagsType, BeginsRun, Announce, wrapVars, contractVars
<1>7. LoopType'
  BY DEF GoalInv, GoalTypeOK, LoopType, BeginsRun
<1>8. CountsHold'
  BY DEF GoalInv, CountsHold, NoGoal, Goals, GoalTypeOK, EntriesType, BeginsRun, Woken, Awake
<1>9. SomeoneGoesOn'
  BY DEF SomeoneGoesOn, BeginsRun
<1>10. DeadlinesAreArmed'
  BY DEF DeadlinesAreArmed, BeginsRun, Woken, Awake
<1>11. SavedIsCurrent'
  BY
  DEF GoalInv, SavedIsCurrent, On, NoGoal, Goals, GoalTypeOK, EntriesType, BeginsRun, Woken,
      Awake
<1>12. ContractsAreTracked'
  <2>1. /\ On /\ UNCHANGED ids /\ goal' = Woken(goal) /\ saved' \in {saved, goal'}
        /\ (Announce(goal) /\ Active(goal)) \/ (~Active(goal) /\ UNCHANGED contractVars)
    BY DEF BeginsRun, On
  <2>2. goal'.id = goal.id /\ (Active(goal') <=> Active(goal)) /\ goal.id \in 0..ids
    <3>1. goal \in Goals \cup {NoGoal} /\ ids \in 0..MaxGoals /\ goal.id <= ids
      BY DEF GoalInv, GoalTypeOK, EntriesType, ContractsAreTracked
    <3>2. goal'.id = goal.id /\ (Active(goal') <=> Active(goal))
      BY <2>1, <3>1, AwakeKeeps DEF Active
    <3>3. goal.id \in 0..ids
      BY <3>1, Fields
    <3>4. QED
      BY <3>2, <3>3
  <2>3. CASE Announce(goal) /\ Active(goal)
    <3>1. Active(saved') => saved'.id = goal.id
      BY <2>1, <2>2, <2>3 DEF GoalInv, SavedIsCurrent
    <3>2. inContext'
      <4>1. goal.id # NoContract
        BY <2>3, Fields DEF GoalInv, GoalTypeOK, EntriesType, Goals, NoContract
      <4>2. QED
        BY <2>3, <4>1 DEF Announce, GoalInv, ContractsAreTracked
    <3>3. QED
      BY <2>1, <2>2, <2>3, <3>1, <3>2 DEF GoalInv, ContractsAreTracked, Announce
  <2>4. CASE ~Active(goal) /\ UNCHANGED contractVars
    <3>1. UNCHANGED <<ids, contractVars>> /\ ~Active(goal')
      BY <2>1, <2>2, <2>4
    <3>2. (goal.id <= ids /\ saved.id <= ids)'
      BY <2>1, <2>2, <3>1 DEF GoalInv, ContractsAreTracked
    <3>3. (Active(saved) /\ shown = saved.id => inContext)'
      BY <2>1, <3>1 DEF GoalInv, ContractsAreTracked, contractVars
    <3>4. QED
      BY <3>1, <3>2, <3>3 DEF GoalInv, ContractsAreTracked, contractVars
  <2>5. QED
    BY <2>1, <2>3, <2>4
<1>13. QED
  BY <1>1, <1>2, <1>3, <1>4, <1>5, <1>6, <1>7, <1>8, <1>9, <1>10, <1>11, <1>12
  DEF GoalInv, GoalTypeOK, EntriesType

LEMMA CallsToolKeeps ==
  ASSUME GoalInv, NEW tool \in Tools, CallsTool(tool)
  PROVE  GoalInv'
<1>1. (goal \in Goals \cup {NoGoal})'
  BY DEF GoalInv, GoalTypeOK, EntriesType, CallsTool
<1>2. (saved \in Goals \cup {NoGoal})'
  BY DEF GoalInv, GoalTypeOK, EntriesType, CallsTool
<1>3. (ids \in 0..MaxGoals)'
  BY DEF GoalInv, GoalTypeOK, EntriesType, CallsTool
<1>4. (unattended \in Nat)'
  BY DEF GoalInv, GoalTypeOK, EntriesType, CallsTool
<1>5. ContractsType'
  BY DEF GoalInv, GoalTypeOK, ContractsType, CallsTool, contractVars
<1>6. FlagsType'
  BY DEF GoalInv, GoalTypeOK, FlagsType, CallsTool, contractVars, wrapVars
<1>7. LoopType'
  BY DEF GoalInv, GoalTypeOK, LoopType, CallsTool
<1>8. CountsHold'
  BY DEF GoalInv, CountsHold, CallsTool
<1>9. SomeoneGoesOn'
  BY DEF SomeoneGoesOn, CallsTool
<1>10. DeadlinesAreArmed'
  BY DEF GoalInv, DeadlinesAreArmed, On, CallsTool
<1>11. SavedIsCurrent'
  BY DEF GoalInv, SavedIsCurrent, On, CallsTool
<1>12. ContractsAreTracked'
  BY DEF GoalInv, ContractsAreTracked, CallsTool, contractVars
<1>13. QED
  BY <1>1, <1>2, <1>3, <1>4, <1>5, <1>6, <1>7, <1>8, <1>9, <1>10, <1>11, <1>12
  DEF GoalInv, GoalTypeOK, EntriesType

LEMMA CompletesKeeps ==
  ASSUME GoalInv, Completes
  PROVE  GoalInv'
<1>1. (goal \in Goals \cup {NoGoal})'
  BY DEF Completes
<1>2. (saved \in Goals \cup {NoGoal})'
  BY DEF Completes, Persist
<1>3. (ids \in 0..MaxGoals)'
  BY DEF GoalInv, GoalTypeOK, EntriesType, Completes, ToolFrame
<1>4. (unattended \in Nat)'
  BY DEF GoalInv, GoalTypeOK, EntriesType, Completes, ToolFrame
<1>5. ContractsType'
  BY ContractFacts DEF GoalInv, GoalTypeOK, ContractsType, Completes, Deactivate
<1>6. FlagsType'
  BY DEF GoalInv, GoalTypeOK, FlagsType, Completes, Deactivate, ToolFrame
<1>7. LoopType'
  BY DEF GoalInv, GoalTypeOK, LoopType, Completes, Runs, ToolFrame
<1>8. CountsHold'
  BY DEF CountsHold, Active, NoGoal, Completes, Persist
<1>9. SomeoneGoesOn'
  BY DEF SomeoneGoesOn, Active, NoGoal, Completes
<1>10. DeadlinesAreArmed'
  BY DEF DeadlinesAreArmed, NoGoal, Completes
<1>11. SavedIsCurrent'
  BY DEF SavedIsCurrent, Completes, Persist
<1>12. ContractsAreTracked'
  BY
  DEF GoalInv, ContractsAreTracked, Active, NoGoal, GoalTypeOK, EntriesType, Completes,
      Deactivate, ToolFrame, Persist
<1>13. QED
  BY <1>1, <1>2, <1>3, <1>4, <1>5, <1>6, <1>7, <1>8, <1>9, <1>10, <1>11, <1>12
  DEF GoalInv, GoalTypeOK, EntriesType

LEMMA BlocksKeeps ==
  ASSUME GoalInv, Blocks
  PROVE  GoalInv'
<1>1. (goal \in Goals \cup {NoGoal})'
  BY Updates DEF GoalInv, GoalTypeOK, EntriesType, Blocks, Accepted, Stop, Statuses
<1>2. (saved \in Goals \cup {NoGoal})'
  BY <1>1 DEF Blocks, Stop, Persist
<1>3. (ids \in 0..MaxGoals)'
  BY DEF GoalInv, GoalTypeOK, EntriesType, Blocks, ToolFrame
<1>4. (unattended \in Nat)'
  BY DEF GoalInv, GoalTypeOK, EntriesType, Blocks, ToolFrame
<1>5. ContractsType'
  BY ContractFacts DEF GoalInv, GoalTypeOK, ContractsType, Blocks, Stop, Deactivate
<1>6. FlagsType'
  BY DEF GoalInv, GoalTypeOK, FlagsType, Blocks, Stop, Deactivate, ToolFrame, wrapVars
<1>7. LoopType'
  BY DEF GoalInv, GoalTypeOK, LoopType, Blocks, Runs, ToolFrame
<1>8. CountsHold'
  BY DEF CountsHold, Active, Blocks, Stop, Persist
<1>9. SomeoneGoesOn'
  BY DEF SomeoneGoesOn, Active, Blocks, Stop
<1>10. DeadlinesAreArmed'
  BY DEF DeadlinesAreArmed, Active, Blocks, Stop
<1>11. SavedIsCurrent'
  BY DEF SavedIsCurrent, Blocks, Stop, Persist
<1>12. ContractsAreTracked'
  BY
  DEF GoalInv, ContractsAreTracked, Active, Blocks, Stop, Awake, Deactivate, ToolFrame, Persist
<1>13. QED
  BY <1>1, <1>2, <1>3, <1>4, <1>5, <1>6, <1>7, <1>8, <1>9, <1>10, <1>11, <1>12
  DEF GoalInv, GoalTypeOK, EntriesType

LEMMA WaitsKeeps ==
  ASSUME GoalInv, NEW for \in {"event", "deadline"}, Waits(for)
  PROVE  GoalInv'
<1>1. (goal \in Goals \cup {NoGoal})'
  BY Updates, ExecutionEffects DEF GoalInv, GoalTypeOK, EntriesType, Waits, Accepted
<1>2. (saved \in Goals \cup {NoGoal})'
  BY <1>1, Fields, Updates
  DEF GoalInv, GoalTypeOK, EntriesType, Waits, Accepted, ExecutionEnds, Persist
<1>3. (ids \in 0..MaxGoals)'
  BY DEF GoalInv, GoalTypeOK, EntriesType, Waits, ToolFrame
<1>4. (unattended \in Nat)'
  BY DEF GoalInv, GoalTypeOK, EntriesType, Waits, ToolFrame
<1>5. ContractsType'
  BY DEF GoalInv, GoalTypeOK, ContractsType, Waits, contractVars
<1>6. FlagsType'
  BY DEF GoalInv, GoalTypeOK, FlagsType, Waits, ExecutionEnds, ToolFrame, wrapVars, contractVars
<1>7. LoopType'
  BY DEF GoalInv, GoalTypeOK, LoopType, Waits, Runs, ToolFrame
<1>8. CountsHold'
  BY
  DEF GoalInv, CountsHold, Active, Goals, GoalTypeOK, EntriesType, Waits, Accepted,
      ExecutionEnds, ToolFrame, Persist
<1>9. SomeoneGoesOn'
  BY DEF GoalInv, SomeoneGoesOn, Goals, GoalTypeOK, EntriesType, Waits, Accepted, ExecutionEnds
<1>10. DeadlinesAreArmed'
  BY
  DEF GoalInv, DeadlinesAreArmed, Goals, GoalTypeOK, EntriesType, Waits, Accepted, ExecutionEnds
<1>11. SavedIsCurrent'
  BY WaitsEffects DEF SavedIsCurrent
<1>12. ContractsAreTracked'
  <2>1. goal.id \in 0..ids
    BY WaitsEffects, Fields DEF GoalInv, ContractsAreTracked
  <2>2. QED
    BY <2>1, WaitsEffects DEF GoalInv, ContractsAreTracked, contractVars
<1>13. QED
  BY <1>1, <1>2, <1>3, <1>4, <1>5, <1>6, <1>7, <1>8, <1>9, <1>10, <1>11, <1>12
  DEF GoalInv, GoalTypeOK, EntriesType

LEMMA OtherRunsKeeps ==
  ASSUME GoalInv, NEW tool \in Tools, OtherRuns(tool)
  PROVE  GoalInv'
<1>1. (goal \in Goals \cup {NoGoal})'
  BY ExecutionEffects DEF GoalInv, GoalTypeOK, EntriesType, OtherRuns
<1>2. (saved \in Goals \cup {NoGoal})'
  BY <1>1 DEF GoalInv, GoalTypeOK, EntriesType, OtherRuns, ExecutionEnds, Persist
<1>3. (ids \in 0..MaxGoals)'
  BY DEF GoalInv, GoalTypeOK, EntriesType, OtherRuns, ToolFrame
<1>4. (unattended \in Nat)'
  BY DEF GoalInv, GoalTypeOK, EntriesType, OtherRuns, ToolFrame
<1>5. ContractsType'
  BY DEF GoalInv, GoalTypeOK, ContractsType, OtherRuns, contractVars
<1>6. FlagsType'
  BY
  DEF GoalInv, GoalTypeOK, FlagsType, OtherRuns, ExecutionEnds, ToolFrame, wrapVars, contractVars
<1>7. LoopType'
  BY DEF GoalInv, GoalTypeOK, LoopType, OtherRuns, Runs, ToolFrame
<1>8. CountsHold'
  BY
  DEF GoalInv, CountsHold, NoGoal, Goals, GoalTypeOK, EntriesType, OtherRuns, ExecutionEnds,
      BudgetIsSpent, ToolFrame, Persist
<1>9. SomeoneGoesOn'
  BY DEF SomeoneGoesOn, OtherRuns, Runs, ToolFrame
<1>10. DeadlinesAreArmed'
  BY
  DEF GoalInv, DeadlinesAreArmed, On, NoGoal, Goals, GoalTypeOK, EntriesType, OtherRuns,
      ExecutionEnds, ToolFrame
<1>11. SavedIsCurrent'
  BY ExecutionEffects DEF GoalInv, SavedIsCurrent, On, GoalTypeOK, EntriesType, OtherRuns, Runs
<1>12. ContractsAreTracked'
  BY ExecutionEffects
  DEF GoalInv, ContractsAreTracked, GoalTypeOK, EntriesType, OtherRuns, ToolFrame, contractVars
<1>13. QED
  BY <1>1, <1>2, <1>3, <1>4, <1>5, <1>6, <1>7, <1>8, <1>9, <1>10, <1>11, <1>12
  DEF GoalInv, GoalTypeOK, EntriesType

LEMMA TurnEndsKeeps ==
  ASSUME GoalInv, NEW aborted \in BOOLEAN, TurnEnds(aborted)
  PROVE  GoalInv'
<1>1. (goal \in Goals \cup {NoGoal})'
  BY Fields, Updates DEF GoalInv, GoalTypeOK, EntriesType, TurnEnds
<1>2. (saved \in Goals \cup {NoGoal})'
  BY <1>1 DEF GoalInv, GoalTypeOK, EntriesType, TurnEnds, Persist
<1>3. (ids \in 0..MaxGoals)'
  BY DEF GoalInv, GoalTypeOK, EntriesType, TurnEnds
<1>4. (unattended \in Nat)'
  BY DEF GoalInv, GoalTypeOK, EntriesType, TurnEnds
<1>5. ContractsType'
  BY DEF GoalInv, GoalTypeOK, ContractsType, TurnEnds, contractVars
<1>6. FlagsType'
  BY DEF GoalInv, GoalTypeOK, FlagsType, TurnEnds, wrapVars, contractVars
<1>7. LoopType'
  BY DEF GoalInv, GoalTypeOK, LoopType, TurnEnds
<1>8. CountsHold'
  BY DEF GoalInv, CountsHold, NoGoal, Goals, GoalTypeOK, EntriesType, TurnEnds, Persist
<1>9. SomeoneGoesOn'
  BY DEF SomeoneGoesOn, TurnEnds
<1>10. DeadlinesAreArmed'
  BY DEF GoalInv, DeadlinesAreArmed, On, NoGoal, Goals, GoalTypeOK, EntriesType, TurnEnds
<1>11. SavedIsCurrent'
  BY DEF GoalInv, SavedIsCurrent, On, TurnEnds, Persist
<1>12. ContractsAreTracked'
  BY
  DEF GoalInv, ContractsAreTracked, NoGoal, Goals, GoalTypeOK, EntriesType, TurnEnds, Persist,
      contractVars
<1>13. QED
  BY <1>1, <1>2, <1>3, <1>4, <1>5, <1>6, <1>7, <1>8, <1>9, <1>10, <1>11, <1>12
  DEF GoalInv, GoalTypeOK, EntriesType

LEMMA TakesAnotherTurnKeeps ==
  ASSUME GoalInv, TakesAnotherTurn
  PROVE  GoalInv'
<1>1. (goal \in Goals \cup {NoGoal})'
  BY Fields, Updates DEF GoalInv, GoalTypeOK, EntriesType, TakesAnotherTurn, Woken
<1>2. (saved \in Goals \cup {NoGoal})'
  BY <1>1 DEF GoalInv, GoalTypeOK, EntriesType, TakesAnotherTurn, Persist
<1>3. (ids \in 0..MaxGoals)'
  BY DEF GoalInv, GoalTypeOK, EntriesType, TakesAnotherTurn
<1>4. (unattended \in Nat)'
  BY DEF GoalInv, GoalTypeOK, EntriesType, TakesAnotherTurn
<1>5. ContractsType'
  BY DEF GoalInv, GoalTypeOK, ContractsType, TakesAnotherTurn, contractVars
<1>6. FlagsType'
  BY DEF GoalInv, GoalTypeOK, FlagsType, TakesAnotherTurn, wrapVars, contractVars
<1>7. LoopType'
  BY DEF GoalInv, GoalTypeOK, LoopType, TakesAnotherTurn
<1>8. CountsHold'
  BY
  DEF GoalInv, CountsHold, NoGoal, Goals, GoalTypeOK, EntriesType, TakesAnotherTurn, Woken,
      Awake, Persist
<1>9. SomeoneGoesOn'
  BY DEF SomeoneGoesOn, TakesAnotherTurn
<1>10. DeadlinesAreArmed'
  BY DEF DeadlinesAreArmed, TakesAnotherTurn, Woken, Awake
<1>11. SavedIsCurrent'
  BY DEF GoalInv, SavedIsCurrent, On, TakesAnotherTurn, Persist
<1>12. ContractsAreTracked'
  BY
  DEF GoalInv, ContractsAreTracked, NoGoal, Goals, GoalTypeOK, EntriesType, TakesAnotherTurn,
      Woken, Awake, Persist, contractVars
<1>13. QED
  BY <1>1, <1>2, <1>3, <1>4, <1>5, <1>6, <1>7, <1>8, <1>9, <1>10, <1>11, <1>12
  DEF GoalInv, GoalTypeOK, EntriesType

-----------------------------------------------------------------------------
(* The end of a run, and the session.                                      *)

LEMMA WrapUpEndsKeeps ==
  ASSUME GoalInv, WrapUpEnds
  PROVE  GoalInv'
<1>1. (goal \in Goals \cup {NoGoal})'
  BY DEF GoalInv, GoalTypeOK, EntriesType, WrapUpEnds
<1>2. (saved \in Goals \cup {NoGoal})'
  BY DEF GoalInv, GoalTypeOK, EntriesType, WrapUpEnds
<1>3. (ids \in 0..MaxGoals)'
  BY DEF GoalInv, GoalTypeOK, EntriesType, WrapUpEnds, EndFrame
<1>4. (unattended \in Nat)'
  BY DEF GoalInv, GoalTypeOK, EntriesType, WrapUpEnds, EndFrame
<1>5. ContractsType'
  BY ContractFacts DEF GoalInv, GoalTypeOK, ContractsType, WrapUpEnds, Deactivate, contractVars
<1>6. FlagsType'
  BY DEF GoalInv, GoalTypeOK, FlagsType, WrapUpEnds, EndFrame, Deactivate, contractVars
<1>7. LoopType'
  BY DEF GoalInv, GoalTypeOK, LoopType, WrapUpEnds, Ends, EndFrame
<1>8. CountsHold'
  BY DEF GoalInv, CountsHold, WrapUpEnds, EndFrame
<1>9. SomeoneGoesOn'
  BY DEF SomeoneGoesOn, WrapUpEnds
<1>10. DeadlinesAreArmed'
  BY DEF GoalInv, DeadlinesAreArmed, On, WrapUpEnds, Ends, EndFrame
<1>11. SavedIsCurrent'
  BY DEF GoalInv, SavedIsCurrent, On, WrapUpEnds, Ends
<1>12. ContractsAreTracked'
  BY DEF GoalInv, ContractsAreTracked, WrapUpEnds, EndFrame, Deactivate, contractVars
<1>13. QED
  BY <1>1, <1>2, <1>3, <1>4, <1>5, <1>6, <1>7, <1>8, <1>9, <1>10, <1>11, <1>12
  DEF GoalInv, GoalTypeOK, EntriesType

LEMMA OtherEndsKeeps ==
  ASSUME GoalInv, OtherEnds
  PROVE  GoalInv'
<1>1. (goal \in Goals \cup {NoGoal})'
  BY DEF GoalInv, GoalTypeOK, EntriesType, OtherEnds
<1>2. (saved \in Goals \cup {NoGoal})'
  BY DEF GoalInv, GoalTypeOK, EntriesType, OtherEnds
<1>3. (ids \in 0..MaxGoals)'
  BY DEF GoalInv, GoalTypeOK, EntriesType, OtherEnds, EndFrame
<1>4. (unattended \in Nat)'
  BY DEF GoalInv, GoalTypeOK, EntriesType, OtherEnds, EndFrame
<1>5. ContractsType'
  BY DEF GoalInv, GoalTypeOK, ContractsType, OtherEnds, contractVars
<1>6. FlagsType'
  BY DEF GoalInv, GoalTypeOK, FlagsType, OtherEnds, EndFrame, contractVars
<1>7. LoopType'
  BY DEF GoalInv, GoalTypeOK, LoopType, OtherEnds, Ends, EndFrame
<1>8. CountsHold'
  BY DEF GoalInv, CountsHold, OtherEnds, EndFrame
<1>9. SomeoneGoesOn'
  BY DEF SomeoneGoesOn, OtherEnds
<1>10. DeadlinesAreArmed'
  BY DEF GoalInv, DeadlinesAreArmed, On, OtherEnds, Ends, EndFrame
<1>11. SavedIsCurrent'
  BY DEF GoalInv, SavedIsCurrent, On, OtherEnds, Ends
<1>12. ContractsAreTracked'
  BY DEF GoalInv, ContractsAreTracked, OtherEnds, EndFrame, contractVars
<1>13. QED
  BY <1>1, <1>2, <1>3, <1>4, <1>5, <1>6, <1>7, <1>8, <1>9, <1>10, <1>11, <1>12
  DEF GoalInv, GoalTypeOK, EntriesType

LEMMA SteeredEndsKeeps ==
  ASSUME GoalInv, SteeredEnds
  PROVE  GoalInv'
<1>1. (goal \in Goals \cup {NoGoal})'
  BY DEF GoalInv, GoalTypeOK, EntriesType, SteeredEnds
<1>2. (saved \in Goals \cup {NoGoal})'
  BY <1>1 DEF SteeredEnds
<1>3. (ids \in 0..MaxGoals)'
  BY DEF GoalInv, GoalTypeOK, EntriesType, SteeredEnds, GoalRunEnds, EndFrame
<1>4. (unattended \in Nat)'
  BY DEF GoalInv, GoalTypeOK, EntriesType, SteeredEnds, GoalRunEnds, EndFrame
<1>5. ContractsType'
  BY DEF GoalInv, GoalTypeOK, ContractsType, SteeredEnds, contractVars
<1>6. FlagsType'
  BY DEF GoalInv, GoalTypeOK, FlagsType, SteeredEnds, GoalRunEnds, EndFrame, contractVars
<1>7. LoopType'
  BY DEF GoalInv, GoalTypeOK, LoopType, SteeredEnds, GoalRunEnds, Ends, EndFrame
<1>8. CountsHold'
  BY DEF GoalInv, CountsHold, SteeredEnds, GoalRunEnds, EndFrame
<1>9. SomeoneGoesOn'
  BY DEF SomeoneGoesOn, SteeredEnds
<1>10. DeadlinesAreArmed'
  BY DEF DeadlinesAreArmed, SteeredEnds, GoalRunEnds
<1>11. SavedIsCurrent'
  BY DEF SavedIsCurrent, SteeredEnds
<1>12. ContractsAreTracked'
  BY DEF GoalInv, ContractsAreTracked, SteeredEnds, GoalRunEnds, EndFrame, contractVars
<1>13. QED
  BY <1>1, <1>2, <1>3, <1>4, <1>5, <1>6, <1>7, <1>8, <1>9, <1>10, <1>11, <1>12
  DEF GoalInv, GoalTypeOK, EntriesType

LEMMA FailedEndsKeeps ==
  ASSUME GoalInv, FailedEnds
  PROVE  GoalInv'
<1>1. (goal \in Goals \cup {NoGoal})'
  BY Fields, Updates
  DEF GoalInv, GoalTypeOK, EntriesType, FailedEnds, GoalRunEnds, Stop, Statuses
<1>2. (saved \in Goals \cup {NoGoal})'
  BY <1>1 DEF FailedEnds, Stop, Persist
<1>3. (ids \in 0..MaxGoals)'
  BY DEF GoalInv, GoalTypeOK, EntriesType, FailedEnds, GoalRunEnds, EndFrame
<1>4. (unattended \in Nat)'
  BY DEF GoalInv, GoalTypeOK, EntriesType, FailedEnds, GoalRunEnds, EndFrame
<1>5. ContractsType'
  BY ContractFacts DEF GoalInv, GoalTypeOK, ContractsType, FailedEnds, Stop, Deactivate
<1>6. FlagsType'
  BY DEF GoalInv, GoalTypeOK, FlagsType, FailedEnds, GoalRunEnds, EndFrame, Stop, Deactivate
<1>7. LoopType'
  BY DEF GoalInv, GoalTypeOK, LoopType, FailedEnds, GoalRunEnds, Ends, EndFrame
<1>8. CountsHold'
  BY DEF CountsHold, Active, FailedEnds, Stop, Persist
<1>9. SomeoneGoesOn'
  BY DEF SomeoneGoesOn, Active, FailedEnds, Stop
<1>10. DeadlinesAreArmed'
  BY DEF DeadlinesAreArmed, Active, FailedEnds, Stop
<1>11. SavedIsCurrent'
  BY DEF SavedIsCurrent, FailedEnds, Stop, Persist
<1>12. ContractsAreTracked'
  BY
  DEF GoalInv, ContractsAreTracked, FailedEnds, GoalRunEnds, EndFrame, Stop, Awake, Deactivate,
      Persist
<1>13. QED
  BY <1>1, <1>2, <1>3, <1>4, <1>5, <1>6, <1>7, <1>8, <1>9, <1>10, <1>11, <1>12
  DEF GoalInv, GoalTypeOK, EntriesType

LEMMA RetryableEndsKeeps ==
  ASSUME GoalInv, RetryableEnds
  PROVE  GoalInv'
<1>1. (goal \in Goals \cup {NoGoal})'
  BY DEF GoalInv, GoalTypeOK, EntriesType, RetryableEnds
<1>2. (saved \in Goals \cup {NoGoal})'
  BY <1>1 DEF RetryableEnds
<1>3. (ids \in 0..MaxGoals)'
  BY DEF GoalInv, GoalTypeOK, EntriesType, RetryableEnds, GoalRunEnds, EndFrame
<1>4. (unattended \in Nat)'
  BY DEF GoalInv, GoalTypeOK, EntriesType, RetryableEnds, GoalRunEnds, EndFrame
<1>5. ContractsType'
  BY DEF GoalInv, GoalTypeOK, ContractsType, RetryableEnds, contractVars
<1>6. FlagsType'
  BY DEF GoalInv, GoalTypeOK, FlagsType, RetryableEnds, GoalRunEnds, EndFrame, contractVars
<1>7. LoopType'
  BY DEF GoalInv, GoalTypeOK, LoopType, RetryableEnds, GoalRunEnds, Ends, EndFrame
<1>8. CountsHold'
  BY DEF GoalInv, CountsHold, RetryableEnds, GoalRunEnds, EndFrame
<1>9. SomeoneGoesOn'
  BY DEF SomeoneGoesOn, RetryableEnds
<1>10. DeadlinesAreArmed'
  BY DEF DeadlinesAreArmed, RetryableEnds, GoalRunEnds
<1>11. SavedIsCurrent'
  BY DEF SavedIsCurrent, RetryableEnds
<1>12. ContractsAreTracked'
  BY DEF GoalInv, ContractsAreTracked, RetryableEnds, GoalRunEnds, EndFrame, contractVars
<1>13. QED
  BY <1>1, <1>2, <1>3, <1>4, <1>5, <1>6, <1>7, <1>8, <1>9, <1>10, <1>11, <1>12
  DEF GoalInv, GoalTypeOK, EntriesType

LEMMA ProperlyEndsKeeps ==
  ASSUME GoalInv, ProperlyEnds
  PROVE  GoalInv'
<1>1. (goal \in Goals \cup {NoGoal})'
  <2>1. PICK same \in BOOLEAN :
          LET g == [goal EXCEPT !.repeats = Repeats(same)] IN Stop(g, "paused") \/ goal' = g
    BY DEF ProperlyEnds
  <2> DEFINE g == [goal EXCEPT !.repeats = Repeats(same)]
  <2>2. goal \in Goals
    BY Fields DEF GoalInv, GoalTypeOK, EntriesType, ProperlyEnds, GoalRunEnds
  <2>3. g \in Goals
    <3>1. Repeats(same) \in Nat
      BY <2>2, Fields DEF Repeats
    <3>2. QED
      BY <2>2, <3>1, Updates
  <2>4. QED
    BY <2>1, <2>3, Updates DEF Stop, Statuses
<1>2. (saved \in Goals \cup {NoGoal})'
  BY <1>1 DEF ProperlyEnds, Stop, Persist
<1>3. (ids \in 0..MaxGoals)'
  BY DEF GoalInv, GoalTypeOK, EntriesType, ProperlyEnds, GoalRunEnds, EndFrame
<1>4. (unattended \in Nat)'
  BY DEF GoalInv, GoalTypeOK, EntriesType, ProperlyEnds, GoalRunEnds, EndFrame
<1>5. ContractsType'
  BY ContractFacts
  DEF GoalInv, GoalTypeOK, ContractsType, ProperlyEnds, Stop, Deactivate, contractVars
<1>6. FlagsType'
  BY
  DEF GoalInv, GoalTypeOK, FlagsType, ProperlyEnds, GoalRunEnds, EndFrame, Stop, Deactivate,
      contractVars
<1>7. LoopType'
  BY DEF GoalInv, GoalTypeOK, LoopType, ProperlyEnds, GoalRunEnds, Ends, EndFrame
<1>8. CountsHold'
  BY
  DEF GoalInv, CountsHold, NoGoal, Goals, GoalTypeOK, EntriesType, ProperlyEnds, GoalRunEnds,
      EndFrame, Stop, Awake, Persist
<1>9. SomeoneGoesOn'
  BY
  DEF GoalInv, SomeoneGoesOn, Active, NoGoal, Goals, GoalTypeOK, EntriesType, ProperlyEnds,
      GoalRunEnds, Ends, Stop, Awake
<1>10. DeadlinesAreArmed'
  BY
  DEF GoalInv, DeadlinesAreArmed, NoGoal, Goals, GoalTypeOK, EntriesType, ProperlyEnds,
      GoalRunEnds, Stop, Awake
<1>11. SavedIsCurrent'
  BY DEF SavedIsCurrent, ProperlyEnds, Stop, Persist
<1>12. ContractsAreTracked'
  <2>1. goal \in Goals /\ Active(goal) /\ On /\ UNCHANGED ids
    BY Fields DEF GoalInv, GoalTypeOK, EntriesType, ProperlyEnds, GoalRunEnds, Ends, EndFrame, On
  <2>2. /\ goal'.id = goal.id /\ saved' = goal'
        /\ (~Active(goal') /\ Deactivate) \/ (Active(goal') /\ UNCHANGED contractVars)
    <3>1. PICK same \in BOOLEAN :
            LET g == [goal EXCEPT !.repeats = Repeats(same)] IN
            \/ Stop(g, "paused")
            \/ goal' = g /\ Persist /\ UNCHANGED contractVars
      BY DEF ProperlyEnds
    <3>2. QED
      BY <2>1, <3>1 DEF Stop, Awake, Persist, Active, Goals
  <2>3. goal.id \in 0..ids
    BY <2>1, Fields DEF GoalInv, ContractsAreTracked
  <2>4. CASE ~Active(goal') /\ Deactivate
    BY <2>1, <2>2, <2>3, <2>4
    DEF GoalInv, ContractsAreTracked, Deactivate, Active, NoContract, Inactive
  <2>5. CASE Active(goal') /\ UNCHANGED contractVars
    BY <2>1, <2>2, <2>3, <2>5 DEF GoalInv, ContractsAreTracked, contractVars
  <2>6. QED
    BY <2>2, <2>4, <2>5
<1>13. QED
  BY <1>1, <1>2, <1>3, <1>4, <1>5, <1>6, <1>7, <1>8, <1>9, <1>10, <1>11, <1>12
  DEF GoalInv, GoalTypeOK, EntriesType

LEMMA SettlesKeeps ==
  ASSUME GoalInv, Settles
  PROVE  GoalInv'
<1>1. (goal \in Goals \cup {NoGoal})'
  BY Fields, Updates DEF GoalInv, GoalTypeOK, EntriesType, Settles, DispatchIfSettled, Statuses
<1>2. (saved \in Goals \cup {NoGoal})'
  BY <1>1 DEF GoalInv, GoalTypeOK, EntriesType, Settles
<1>3. (ids \in 0..MaxGoals)'
  BY DEF GoalInv, GoalTypeOK, EntriesType, Settles
<1>4. (unattended \in Nat)'
  BY DEF GoalInv, GoalTypeOK, EntriesType, Settles
<1>5. ContractsType'
  BY ContractFacts
  DEF GoalInv, GoalTypeOK, ContractsType, Settles, DispatchIfSettled, Deactivate, contractVars
<1>6. FlagsType'
  BY
  DEF GoalInv, GoalTypeOK, FlagsType, Settles, DispatchIfSettled, Deactivate, wrapVars,
      contractVars
<1>7. LoopType'
  BY DEF GoalInv, GoalTypeOK, LoopType, Settles, DispatchIfSettled
<1>8. CountsHold'
  BY DEF GoalInv, CountsHold, NoGoal, Goals, GoalTypeOK, EntriesType, Settles, DispatchIfSettled
<1>9. SomeoneGoesOn'
  BY
  DEF GoalInv, SomeoneGoesOn, Active, NoGoal, Goals, GoalTypeOK, EntriesType, Settles,
      DispatchIfSettled, LoopRests
<1>10. DeadlinesAreArmed'
  BY
  DEF GoalInv, DeadlinesAreArmed, On, NoGoal, Goals, GoalTypeOK, EntriesType, Settles,
      DispatchIfSettled
<1>11. SavedIsCurrent'
  BY DEF GoalInv, SavedIsCurrent, On, Settles
<1>12. ContractsAreTracked'
  BY
  DEF GoalInv, ContractsAreTracked, NoGoal, Goals, GoalTypeOK, EntriesType, Settles,
      DispatchIfSettled, Deactivate, contractVars
<1>13. QED
  BY <1>1, <1>2, <1>3, <1>4, <1>5, <1>6, <1>7, <1>8, <1>9, <1>10, <1>11, <1>12
  DEF GoalInv, GoalTypeOK, EntriesType

LEMMA DeadlinePassesKeeps ==
  ASSUME GoalInv, DeadlinePasses
  PROVE  GoalInv'
<1>1. (goal \in Goals \cup {NoGoal})'
  BY Fields, Updates
  DEF GoalInv, GoalTypeOK, EntriesType, DeadlinePasses, DispatchIfSettled, Statuses
<1>2. (saved \in Goals \cup {NoGoal})'
  BY <1>1 DEF GoalInv, GoalTypeOK, EntriesType, DeadlinePasses, Persist
<1>3. (ids \in 0..MaxGoals)'
  BY DEF GoalInv, GoalTypeOK, EntriesType, DeadlinePasses
<1>4. (unattended \in Nat)'
  BY DEF GoalInv, GoalTypeOK, EntriesType, DeadlinePasses
<1>5. ContractsType'
  BY ContractFacts
  DEF GoalInv, GoalTypeOK, ContractsType, DeadlinePasses, DispatchIfSettled, Deactivate,
      contractVars
<1>6. FlagsType'
  BY
  DEF GoalInv, GoalTypeOK, FlagsType, DeadlinePasses, DispatchIfSettled, Deactivate, wrapVars,
      contractVars
<1>7. LoopType'
  BY DEF GoalInv, GoalTypeOK, LoopType, DeadlinePasses, DispatchIfSettled
<1>8. CountsHold'
  BY
  DEF GoalInv, CountsHold, NoGoal, Goals, GoalTypeOK, EntriesType, DeadlinePasses,
      DispatchIfSettled, Awake, Persist
<1>9. SomeoneGoesOn'
  BY
  DEF GoalInv, SomeoneGoesOn, Active, NoGoal, Goals, GoalTypeOK, EntriesType, LoopType,
      DeadlinePasses, DispatchIfSettled, LoopRests, Awake
<1>10. DeadlinesAreArmed'
  BY
  DEF GoalInv, DeadlinesAreArmed, NoGoal, Goals, GoalTypeOK, EntriesType, DeadlinePasses,
      DispatchIfSettled, Awake
<1>11. SavedIsCurrent'
  BY DEF GoalInv, SavedIsCurrent, On, DeadlinePasses, Persist
<1>12. ContractsAreTracked'
  BY GoalAssumption
  DEF GoalInv, ContractsAreTracked, NoGoal, Goals, Statuses, GoalTypeOK, EntriesType, FlagsType,
      DeadlinePasses, DispatchIfSettled, LimitReached, Awake, Deactivate, Persist, contractVars
<1>13. QED
  BY <1>1, <1>2, <1>3, <1>4, <1>5, <1>6, <1>7, <1>8, <1>9, <1>10, <1>11, <1>12
  DEF GoalInv, GoalTypeOK, EntriesType

LEMMA CompactsKeeps ==
  ASSUME GoalInv, Compacts
  PROVE  GoalInv'
<1>1. (goal \in Goals \cup {NoGoal})'
  BY DEF GoalInv, GoalTypeOK, EntriesType, Compacts
<1>2. (saved \in Goals \cup {NoGoal})'
  BY DEF GoalInv, GoalTypeOK, EntriesType, Compacts
<1>3. (ids \in 0..MaxGoals)'
  BY DEF GoalInv, GoalTypeOK, EntriesType, Compacts
<1>4. (unattended \in Nat)'
  BY DEF GoalInv, GoalTypeOK, EntriesType, Compacts
<1>5. ContractsType'
  BY ContractFacts DEF GoalInv, GoalTypeOK, EntriesType, ContractsType, Compacts, Restate
<1>6. FlagsType'
  BY DEF GoalInv, GoalTypeOK, FlagsType, Compacts, Restate, wrapVars
<1>7. LoopType'
  BY DEF GoalInv, GoalTypeOK, LoopType, Compacts, runVars
<1>8. CountsHold'
  BY DEF GoalInv, CountsHold, Compacts
<1>9. SomeoneGoesOn'
  BY DEF GoalInv, SomeoneGoesOn, Compacts, runVars
<1>10. DeadlinesAreArmed'
  BY DEF GoalInv, DeadlinesAreArmed, Compacts
<1>11. SavedIsCurrent'
  BY DEF GoalInv, SavedIsCurrent, Compacts
<1>12. ContractsAreTracked'
  <2>1. goal.id \in 0..ids /\ ids' = ids
    BY Fields, AwakeKeeps DEF GoalInv, ContractsAreTracked, GoalTypeOK, EntriesType, Compacts
  <2>2. (lastContract \in {NoContract, shown})'
    BY <2>1, AwakeKeeps DEF GoalInv, ContractsAreTracked, Compacts, Restate
  <2>3. (shown \in 0..ids \cup {Inactive})'
    BY <2>1, AwakeKeeps DEF GoalInv, ContractsAreTracked, Compacts, Restate
  <2>4. (goal.id <= ids /\ saved.id <= ids)'
    BY <2>1, AwakeKeeps DEF GoalInv, ContractsAreTracked, Compacts
  <2>5. (Active(goal) /\ shown = goal.id => inContext)'
    BY <2>1, AwakeKeeps DEF Compacts, Restate
  <2>6. (Active(saved) /\ shown = saved.id => inContext)'
    BY <2>1, AwakeKeeps DEF GoalInv, Compacts, Restate, SavedIsCurrent
  <2>7. QED
    BY <2>2, <2>3, <2>4, <2>5, <2>6 DEF ContractsAreTracked
<1>13. QED
  BY <1>1, <1>2, <1>3, <1>4, <1>5, <1>6, <1>7, <1>8, <1>9, <1>10, <1>11, <1>12
  DEF GoalInv, GoalTypeOK, EntriesType

LEMMA ShutsDownKeeps ==
  ASSUME GoalInv, ShutsDown
  PROVE  GoalInv'
<1>1. (goal \in Goals \cup {NoGoal})'
  BY DEF GoalInv, GoalTypeOK, EntriesType, ShutsDown
<1>2. (saved \in Goals \cup {NoGoal})'
  BY DEF GoalInv, GoalTypeOK, EntriesType, ShutsDown
<1>3. (ids \in 0..MaxGoals)'
  BY DEF GoalInv, GoalTypeOK, EntriesType, ShutsDown
<1>4. (unattended \in Nat)'
  BY DEF GoalInv, GoalTypeOK, EntriesType, ShutsDown
<1>5. ContractsType'
  BY DEF GoalInv, GoalTypeOK, ContractsType, ShutsDown, contractVars
<1>6. FlagsType'
  BY DEF GoalInv, GoalTypeOK, FlagsType, ShutsDown, wrapVars, contractVars
<1>7. LoopType'
  BY DEF GoalInv, GoalTypeOK, LoopType, ShutsDown
<1>8. CountsHold'
  BY DEF GoalInv, CountsHold, ShutsDown
<1>9. SomeoneGoesOn'
  BY DEF SomeoneGoesOn, ShutsDown
<1>10. DeadlinesAreArmed'
  BY DEF DeadlinesAreArmed, On, ShutsDown
<1>11. SavedIsCurrent'
  BY DEF GoalInv, SavedIsCurrent, ShutsDown
<1>12. ContractsAreTracked'
  BY DEF GoalInv, ContractsAreTracked, ShutsDown, contractVars
<1>13. QED
  BY <1>1, <1>2, <1>3, <1>4, <1>5, <1>6, <1>7, <1>8, <1>9, <1>10, <1>11, <1>12
  DEF GoalInv, GoalTypeOK, EntriesType

LEMMA SessionStartsKeeps ==
  ASSUME GoalInv, SessionStarts
  PROVE  GoalInv'
<1>1. (goal \in Goals \cup {NoGoal})'
  BY DEF GoalInv, GoalTypeOK, EntriesType, SessionStarts
<1>2. (saved \in Goals \cup {NoGoal})'
  BY <1>1 DEF SessionStarts
<1>3. (ids \in 0..MaxGoals)'
  BY DEF GoalInv, GoalTypeOK, EntriesType, SessionStarts
<1>4. (unattended \in Nat)'
  BY DEF GoalInv, GoalTypeOK, EntriesType, SessionStarts
<1>5. ContractsType'
  BY DEF GoalInv, GoalTypeOK, ContractsType, SessionStarts
<1>6. FlagsType'
  BY DEF GoalInv, GoalTypeOK, FlagsType, SessionStarts, Schedules
<1>7. LoopType'
  BY DEF GoalInv, GoalTypeOK, LoopType, SessionStarts
<1>8. CountsHold'
  BY DEF GoalInv, CountsHold, SessionStarts
<1>9. SomeoneGoesOn'
  BY DEF SomeoneGoesOn, SessionStarts
<1>10. DeadlinesAreArmed'
  BY DEF DeadlinesAreArmed, SessionStarts, Schedules
<1>11. SavedIsCurrent'
  BY DEF SavedIsCurrent, SessionStarts
<1>12. ContractsAreTracked'
  BY DEF GoalInv, ContractsAreTracked, SessionStarts
<1>13. QED
  BY <1>1, <1>2, <1>3, <1>4, <1>5, <1>6, <1>7, <1>8, <1>9, <1>10, <1>11, <1>12
  DEF GoalInv, GoalTypeOK, EntriesType

-----------------------------------------------------------------------------
(* The theorems.                                                           *)

\* The extension starts without a goal.
LEMMA InitHolds == GoalInit => GoalInv
<1> SUFFICES ASSUME GoalInit PROVE GoalInv
  OBVIOUS
<1>1. GoalTypeOK
  <2>1. EntriesType
    BY GoalAssumption DEF GoalInit, EntriesType
  <2>2. ContractsType
    BY ContractFacts DEF GoalInit, ContractsType
  <2>3. FlagsType /\ LoopType
    BY DEF GoalInit, FlagsType, LoopType
  <2>4. QED
    BY <2>1, <2>2, <2>3 DEF GoalTypeOK
<1>2. CountsHold /\ SomeoneGoesOn /\ DeadlinesAreArmed /\ SavedIsCurrent
  BY DEF GoalInit, CountsHold, SomeoneGoesOn, DeadlinesAreArmed, SavedIsCurrent, Active, NoGoal
<1>3. ContractsAreTracked
  BY DEF GoalInit, ContractsAreTracked, Active, NoGoal, NoContract
<1>4. QED
  BY <1>1, <1>2, <1>3 DEF GoalInv

\* Every step keeps the invariant.
LEMMA StepHolds == GoalInv /\ [GoalNext]_goalVars => GoalInv'
<1> SUFFICES ASSUME GoalInv, [GoalNext]_goalVars PROVE GoalInv'
  OBVIOUS
<1>1. CASE GoalNext
  <2>1. CASE \E b \in BOOLEAN : Starts(b) \/ Edits(b) \/ TurnEnds(b)
    BY <2>1, StartsKeeps, EditsKeeps, TurnEndsKeeps
  <2>2. CASE ResumesWait \/ Resumes \/ Pauses \/ Clears \/ Speaks
    BY <2>2, ResumesWaitKeeps, ResumesKeeps, PausesKeeps, ClearsKeeps, SpeaksKeeps
  <2>3. CASE \E p \in {"prompt", "continuation", "wake"} : BeginsRun(p)
    BY <2>3, BeginsRunKeeps
  <2>4. CASE \E t \in Tools : CallsTool(t) \/ OtherRuns(t)
    BY <2>4, CallsToolKeeps, OtherRunsKeeps
  <2>5. CASE Completes \/ Blocks \/ TakesAnotherTurn
    BY <2>5, CompletesKeeps, BlocksKeeps, TakesAnotherTurnKeeps
  <2>6. CASE \E for \in {"event", "deadline"} : Waits(for)
    BY <2>6, WaitsKeeps
  <2>7. CASE WrapUpEnds \/ OtherEnds \/ SteeredEnds \/ FailedEnds \/ RetryableEnds \/ ProperlyEnds
    BY <2>7, WrapUpEndsKeeps, OtherEndsKeeps, SteeredEndsKeeps, FailedEndsKeeps,
       RetryableEndsKeeps, ProperlyEndsKeeps
  <2>8. CASE Settles \/ DeadlinePasses \/ Compacts \/ ShutsDown \/ SessionStarts
    BY <2>8, SettlesKeeps, DeadlinePassesKeeps, CompactsKeeps, ShutsDownKeeps, SessionStartsKeeps
  <2>9. QED
    BY <1>1, <2>1, <2>2, <2>3, <2>4, <2>5, <2>6, <2>7, <2>8 DEF GoalNext
<1>2. CASE UNCHANGED goalVars
  <2>1. GoalTypeOK'
    BY <1>2 DEF GoalInv, GoalTypeOK, EntriesType, ContractsType, FlagsType, LoopType, goalVars
  <2>2. CountsHold' /\ SomeoneGoesOn' /\ DeadlinesAreArmed'
    BY <1>2 DEF GoalInv, CountsHold, SomeoneGoesOn, DeadlinesAreArmed, On, Active, goalVars
  <2>3. SavedIsCurrent' /\ ContractsAreTracked'
    BY <1>2 DEF GoalInv, SavedIsCurrent, ContractsAreTracked, On, Active, goalVars
  <2>4. QED
    BY <2>1, <2>2, <2>3 DEF GoalInv
<1>3. QED
  BY <1>1, <1>2

\* Every state is well typed, the saved counts cover what was done unattended, an active goal has
\* somebody who goes on, a deadline its timer, and the transcript the contract that was announced.
THEOREM GoalInvariant == GoalSpec => []GoalInv
BY InitHolds, StepHolds, PTL DEF GoalSpec

\* The state of goal.ts has its type.
THEOREM GoalTypeCorrect == GoalSpec => []GoalTypeOK
<1>1. GoalInv => GoalTypeOK
  BY DEF GoalInv
<1>2. QED
  BY <1>1, GoalInvariant, PTL

\* An active goal of an idle session never lies there without a wait that will end.
THEOREM ActiveGoalsGoOn == GoalSpec => []GoalsGoOn
<1>1. GoalInv => GoalsGoOn
  <2> SUFFICES ASSUME GoalInv, loop = "idle", submitted = {}, Active(goal), ~adrift
               PROVE  goal.waiting = "event" \/ (goal.waiting = "deadline" /\ waitTimer)
    BY DEF GoalsGoOn
  <2>1. goal.waiting \in {"no", "event", "deadline"}
    <3>1. goal \in Goals
      BY Fields DEF GoalInv, GoalTypeOK, EntriesType
    <3>2. QED
      BY <3>1 DEF Goals
  <2>2. goal.waiting # "no"
    BY DEF GoalInv, SomeoneGoesOn
  <2>3. goal.waiting = "deadline" => waitTimer
    BY DEF GoalInv, DeadlinesAreArmed, On
  <2>4. QED
    BY <2>1, <2>2, <2>3
<1>2. QED
  BY <1>1, GoalInvariant, PTL

\* Only a loop that settles and a deadline ask for an automatic run.
LEMMA ContinuationsAreDispatched ==
  ASSUME GoalNext, submitted' \ submitted = {"continuation"}
  PROVE  Settles \/ DeadlinePasses
<1> USE DEF SendGoalPrompt
<1>1. ASSUME NEW b \in BOOLEAN, Starts(b) \/ Edits(b) \/ TurnEnds(b) PROVE FALSE
  BY <1>1 DEF Starts, Edits, TurnEnds
<1>2. ~(ResumesWait \/ Resumes \/ Pauses \/ Clears \/ Speaks)
  BY DEF ResumesWait, Resumes, Pauses, Clears, Speaks
<1>3. ASSUME NEW p \in {"prompt", "continuation", "wake"}, BeginsRun(p) PROVE FALSE
  BY <1>3 DEF BeginsRun
<1>4. ASSUME NEW t \in Tools, CallsTool(t) \/ OtherRuns(t) PROVE FALSE
  BY <1>4 DEF CallsTool, OtherRuns, ToolFrame
<1>5. ~(Completes \/ Blocks \/ TakesAnotherTurn)
  BY DEF Completes, Blocks, TakesAnotherTurn, ToolFrame
<1>6. ASSUME NEW for \in {"event", "deadline"}, Waits(for) PROVE FALSE
  BY <1>6 DEF Waits, ToolFrame
<1>7. ~(WrapUpEnds \/ OtherEnds \/ SteeredEnds \/ FailedEnds \/ RetryableEnds \/ ProperlyEnds)
  BY DEF WrapUpEnds, OtherEnds, SteeredEnds, FailedEnds, RetryableEnds, ProperlyEnds,
         GoalRunEnds, EndFrame
<1>8. ~(Compacts \/ ShutsDown \/ SessionStarts)
  BY DEF Compacts, ShutsDown, SessionStarts
<1>9. QED
  BY <1>1, <1>2, <1>3, <1>4, <1>5, <1>6, <1>7, <1>8 DEF GoalNext

\* Once the user has not acted for goalTurnLimit automatic turns no automatic run is asked for.
THEOREM UnattendedIsBounded == GoalSpec => UnattendedWorkIsBounded
<1> DEFINE Bounded ==
      submitted' \ submitted = {"continuation"} /\ TurnLimit > 0 => unattended < TurnLimit
<1>1. GoalInv /\ [GoalNext]_goalVars => [Bounded]_goalVars
  <2> SUFFICES ASSUME GoalInv, GoalNext, submitted' \ submitted = {"continuation"}, TurnLimit > 0
               PROVE  unattended < TurnLimit
    OBVIOUS
  <2>1. goal.turns \in Nat /\ unattended \in Nat /\ TurnLimit \in Nat
    BY GoalAssumption, Fields DEF GoalInv, GoalTypeOK, EntriesType
  <2>2. Active(goal) /\ goal.turns < TurnLimit
    <3>1. CASE Settles
      BY <2>1, <3>1 DEF Settles, DispatchIfSettled, LimitReached
    <3>2. CASE DeadlinePasses
      <4>1. Active(goal) /\ DispatchIfSettled(Awake(goal), TRUE)
        BY <3>2 DEF DeadlinePasses
      <4>2. Awake(goal).turns = goal.turns
        BY <4>1, Fields DEF Awake, Goals, GoalInv, GoalTypeOK, EntriesType
      <4>3. ~LimitReached(Awake(goal))
        BY <4>1 DEF DispatchIfSettled
      <4>4. QED
        BY <2>1, <4>1, <4>2, <4>3 DEF LimitReached
    <3>3. QED
      BY <3>1, <3>2, ContinuationsAreDispatched
  <2>3. QED
    BY <2>1, <2>2 DEF GoalInv, CountsHold
<1>2. QED
  BY <1>1, GoalInvariant, PTL DEF GoalSpec, UnattendedWorkIsBounded

\* A run that begins begins with the contract of the goal that is active.
THEOREM RunsSeeTheirContract == GoalSpec => ContractIsShown
<1> DEFINE Shown ==
      loop # "turn" /\ loop' = "turn" /\ loop \in {"idle", "ended"} /\ Active(goal') =>
        shown' = goal'.id /\ inContext'
<1>1. GoalInv /\ [GoalNext]_goalVars => [Shown]_goalVars
  <2> SUFFICES ASSUME GoalInv, GoalNext, loop' = "turn", loop \in {"idle", "ended"}, Active(goal')
               PROVE  shown' = goal'.id /\ inContext'
    OBVIOUS
  <2>1. PICK p \in {"prompt", "continuation", "wake"} : BeginsRun(p)
    <3>1. ASSUME NEW b \in BOOLEAN, Starts(b) \/ Edits(b) \/ TurnEnds(b) PROVE FALSE
      BY <3>1 DEF Starts, Edits, TurnEnds, runVars
    <3>2. ~(ResumesWait \/ Resumes \/ Pauses \/ Clears \/ Speaks)
      BY DEF ResumesWait, Resumes, Pauses, Clears, Speaks, runVars
    <3>3. ASSUME NEW t \in Tools, CallsTool(t) \/ OtherRuns(t) PROVE FALSE
      BY <3>3 DEF CallsTool, OtherRuns, Runs
    <3>4. ~(Completes \/ Blocks \/ TakesAnotherTurn)
      BY DEF Completes, Blocks, TakesAnotherTurn, Runs
    <3>5. ASSUME NEW for \in {"event", "deadline"}, Waits(for) PROVE FALSE
      BY <3>5 DEF Waits, Runs
    <3>6. ~(WrapUpEnds \/ OtherEnds \/ SteeredEnds \/ FailedEnds \/ RetryableEnds \/ ProperlyEnds)
      BY DEF WrapUpEnds, OtherEnds, SteeredEnds, FailedEnds, RetryableEnds, ProperlyEnds,
             GoalRunEnds, Ends
    <3>7. ~(Settles \/ DeadlinePasses \/ Compacts \/ ShutsDown \/ SessionStarts)
      BY DEF Settles, DeadlinePasses, Compacts, ShutsDown, SessionStarts, runVars
    <3>8. QED
      BY <3>1, <3>2, <3>3, <3>4, <3>5, <3>6, <3>7 DEF GoalNext
  <2>2. goal \in Goals \cup {NoGoal} /\ goal' = Woken(goal)
    BY <2>1 DEF BeginsRun, GoalInv, GoalTypeOK, EntriesType
  <2>3. Active(goal) /\ goal'.id = goal.id
    BY <2>2, AwakeKeeps DEF Active
  <2>4. Announce(goal)
    BY <2>1, <2>3 DEF BeginsRun
  <2>5. goal.id # NoContract
    BY <2>2, <2>3, Fields DEF Goals, NoContract
  <2>6. QED
    BY <2>3, <2>4, <2>5 DEF Announce, GoalInv, ContractsAreTracked
<1>2. QED
  BY <1>1, GoalInvariant, PTL DEF GoalSpec, ContractIsShown
=============================================================================
