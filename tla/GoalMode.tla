------------------------------- MODULE GoalMode -------------------------------
(***************************************************************************)
(* /goal (pi-custom/src/tools/goal.ts): one objective that is worked on    *)
(* across turns until a tool, a limit or the user ends it.                 *)
(*                                                                         *)
(* The extension reacts to the events of pi's agent loop, which is         *)
(* external: a run begins with a prompt or a wake of another extension,    *)
(* goes through turns with tool calls, ends, and the loop settles.  What   *)
(* is submitted meanwhile begins a run of its own or is taken up between   *)
(* two turns.  Each handler runs to its end.                               *)
(***************************************************************************)
EXTENDS Naturals, FiniteSets

CONSTANTS
  TurnLimit,              \* goalTurnLimit: zero is unlimited
  NoProgressLimit,        \* goalNoProgressTurns: zero is unlimited
  MaxGoals, MaxTurns      \* bounds: goal ids, turns that one run may add

ASSUME GoalAssumption ==
  TurnLimit \in Nat /\ NoProgressLimit \in Nat /\ MaxGoals \in Nat /\ MaxTurns \in Nat

VARIABLES
  goal, saved,            \* the goal; the last goal-state entry of the session
  ids,                    \* goal ids handed out
  lastContract,           \* lastContract: what was announced last; NoContract is undefined
  shown, inContext,       \* the last contract of the transcript; the model still sees it
  continuationWanted, wrapUpSent, wrapUpActive, waitTimer,
  runAutomatic, runToolAttempted,
  loop,                   \* the agent loop: off, idle, turn, between, ended
  submitted,              \* prompts that wait for the loop
  admitted,               \* tool calls let through that have not run
  unattended,             \* history: automatic turns since the user acted
  adrift                  \* history: somebody else has the next move, see GoalsGoOn

goalVars == <<goal, saved, ids, lastContract, shown, inContext, continuationWanted, wrapUpSent,
              wrapUpActive, waitTimer, runAutomatic, runToolAttempted, loop, submitted, admitted,
              unattended, adrift>>
contractVars == <<lastContract, shown, inContext>>
runVars == <<runAutomatic, runToolAttempted, loop, admitted>>
wrapVars == <<wrapUpSent, wrapUpActive>>

NoGoal == [id |-> 0, status |-> "none", waiting |-> "no", turns |-> 0, repeats |-> 0,
           budgeted |-> FALSE, spent |-> FALSE]
NoContract == 0
Inactive == MaxGoals + 1
Contracts == NoContract..Inactive
Statuses == {"active", "paused", "blocked", "budget_limited", "usage_limited"}
Goals == [id : 1..MaxGoals, status : Statuses, waiting : {"no", "event", "deadline"},
          turns : Nat, repeats : Nat, budgeted : BOOLEAN, spent : BOOLEAN]
Tools == {"goal_complete", "goal_blocked", "goal_wait", "other"}
On == loop # "off"

GoalInit ==
  /\ goal = NoGoal /\ saved = NoGoal /\ ids = 0
  /\ lastContract = NoContract /\ shown = NoContract /\ inContext = FALSE
  /\ continuationWanted = FALSE /\ wrapUpSent = FALSE /\ wrapUpActive = FALSE /\ waitTimer = FALSE
  /\ runAutomatic = FALSE /\ runToolAttempted = FALSE
  /\ loop = "idle" /\ submitted = {} /\ admitted = {}
  /\ unattended = 0 /\ adrift = FALSE

-----------------------------------------------------------------------------
(* Helpers of the extension.                                               *)

Active(g) == g.status = "active"
NewGoal(budgeted) ==
  [id |-> ids + 1, status |-> "active", waiting |-> "no", turns |-> 0, repeats |-> 0,
   budgeted |-> budgeted, spent |-> FALSE]
ResetSafety(g) == [g EXCEPT !.turns = 0, !.repeats = 0]
\* clearWait, on the goal
Awake(g) == [g EXCEPT !.waiting = "no"]
\* mutant: any activity that ends a wait counts as steering
WokenAndReset(g) == IF Active(g) /\ g.waiting # "no" THEN ResetSafety(Awake(g)) ELSE g
\* wakeFromWait: the work that begins consumes the wait
Woken(g) == IF Active(g) THEN Awake(g) ELSE g

Persist == saved' = goal'

\* sendContract for a goal
Announce(g) == /\ lastContract' = g.id /\ shown' = g.id
               /\ inContext' = (inContext \/ lastContract # g.id)
\* mutant: a contract that did not change is not sent again
RestateIfNew(g) == /\ lastContract' = g.id /\ shown' = g.id
                   /\ inContext' = (lastContract # g.id)
\* sendContract after what was announced is forgotten
Restate(g) == lastContract' = g.id /\ shown' = g.id /\ inContext' = TRUE
\* deactivateContract
Deactivate ==
  /\ lastContract' = IF lastContract = NoContract THEN NoContract ELSE Inactive
  /\ shown' = IF lastContract \in {NoContract, Inactive} THEN shown ELSE Inactive
  /\ inContext' = IF lastContract \in {NoContract, Inactive} THEN inContext ELSE TRUE

\* sendGoalPrompt
SendGoalPrompt ==
  /\ lastContract' = NoContract /\ UNCHANGED <<shown, inContext>>
  /\ submitted' = submitted \cup {"prompt"}

\* stop, of a goal that g has become meanwhile
Stop(g, status) ==
  /\ goal' = [Awake(g) EXCEPT !.status = status]
  /\ continuationWanted' = FALSE /\ waitTimer' = FALSE
  /\ Persist /\ Deactivate

\* dispatchIfSettled, for the goal g with a continuation that is wanted
LoopRests == loop' = "idle" /\ submitted = {}
LimitReached(g) == TurnLimit > 0 /\ g.turns >= TurnLimit
DispatchIfSettled(g, wanted) ==
  \/ /\ ~(Active(g) /\ g.waiting = "no" /\ wanted /\ LoopRests)
     /\ goal' = g /\ continuationWanted' = wanted
     /\ UNCHANGED <<contractVars, submitted>>
  \/ /\ Active(g) /\ g.waiting = "no" /\ wanted /\ LoopRests
     /\ LimitReached(g)
     /\ goal' = [g EXCEPT !.status = "paused"] /\ continuationWanted' = FALSE
     /\ Deactivate /\ UNCHANGED submitted
  \/ /\ Active(g) /\ g.waiting = "no" /\ wanted /\ LoopRests
     /\ ~LimitReached(g)
     /\ goal' = g /\ continuationWanted' = FALSE
     /\ submitted' = {"continuation"} /\ UNCHANGED contractVars

-----------------------------------------------------------------------------
(* The user.  What a command reads before it waits for a confirmation it   *)
(* reads again after it, so a command is the step that follows the answer. *)

UserActs == unattended' = 0
FreshId == ids < MaxGoals /\ ids' = ids + 1

\* start; the continuation that was wanted is left to the run of the kick-off prompt
Starts(budgeted) ==
  /\ On /\ FreshId
  /\ goal' = NewGoal(budgeted) /\ Persist
  /\ waitTimer' = FALSE /\ wrapUpSent' = FALSE /\ wrapUpActive' = FALSE
  /\ SendGoalPrompt
  /\ UserActs /\ adrift' = FALSE
  /\ UNCHANGED <<continuationWanted, runVars>>

\* resume, of a goal that waits
ResumesWait ==
  /\ On /\ Active(goal) /\ goal.waiting # "no"
  /\ goal' = Awake(goal) /\ Persist /\ waitTimer' = FALSE
  /\ SendGoalPrompt
  /\ UserActs /\ adrift' = FALSE
  /\ UNCHANGED <<ids, continuationWanted, wrapVars, runVars>>

\* resume, of a goal that was stopped
Resumes ==
  /\ On /\ goal # NoGoal /\ ~Active(goal) /\ FreshId
  /\ goal.status = "budget_limited" => ~goal.spent
  /\ goal' = ResetSafety([goal EXCEPT !.id = ids + 1, !.status = "active"]) /\ Persist
  /\ wrapUpActive' = FALSE
  /\ SendGoalPrompt
  /\ UserActs /\ adrift' = FALSE
  /\ UNCHANGED <<continuationWanted, wrapUpSent, waitTimer, runVars>>

\* edit; more is a token budget above what is used
Edited(more) ==
  LET g == [Awake(goal) EXCEPT !.id = ids + 1, !.budgeted = @ \/ more, !.spent = @ /\ ~more]
  IN IF goal.status \in {"paused", "blocked", "usage_limited"} THEN g
     ELSE ResetSafety([g EXCEPT !.status = "active"])

Edits(more) ==
  /\ On /\ goal # NoGoal /\ FreshId
  /\ goal.status = "budget_limited" => more
  /\ goal' = Edited(more) /\ Persist
  /\ continuationWanted' = FALSE /\ waitTimer' = FALSE
  /\ IF Active(goal') THEN SendGoalPrompt /\ adrift' = FALSE
     ELSE UNCHANGED <<contractVars, submitted, adrift>>
  /\ UserActs
  /\ UNCHANGED <<wrapVars, runVars>>

\* pause: the run, if there is one, is aborted and goes on to its end
Pauses ==
  /\ On /\ Active(goal)
  /\ Stop(goal, "paused")
  /\ UserActs
  /\ UNCHANGED <<ids, wrapVars, runVars, submitted, adrift>>

\* clear
Clears ==
  /\ On /\ goal # NoGoal
  /\ goal' = NoGoal /\ Persist
  /\ continuationWanted' = FALSE /\ waitTimer' = FALSE /\ wrapUpActive' = FALSE
  /\ Deactivate
  /\ UserActs
  /\ UNCHANGED <<ids, wrapUpSent, runVars, submitted, adrift>>

\* the input event of what the user types: it ends a wait and restarts the counts, the latter
\* without an entry in the session
Speaks ==
  /\ On
  /\ IF Active(goal)
     THEN /\ goal' = ResetSafety(Awake(goal))
          /\ saved' = IF goal.waiting # "no" THEN Awake(goal) ELSE saved
          /\ waitTimer' = (waitTimer /\ goal.waiting = "no")
     ELSE UNCHANGED <<goal, saved, waitTimer>>
  /\ submitted' = submitted \cup {"prompt"}
  /\ UserActs /\ adrift' = FALSE
  /\ UNCHANGED <<ids, contractVars, continuationWanted, wrapVars, runVars>>

-----------------------------------------------------------------------------
(* A run of the agent.                                                     *)

\* before_agent_start and the first turn_start; "wake" is a background completion
BeginsRun(prompt) ==
  /\ loop \in {"idle", "ended"} /\ prompt \in submitted \cup {"wake"}
  /\ loop' = "turn" /\ submitted' = submitted \ {prompt}
  /\ runAutomatic' = (prompt = "continuation") /\ runToolAttempted' = FALSE
  /\ goal' = Woken(goal)
  /\ IF Active(goal)
     THEN /\ saved' = IF goal.waiting # "no" THEN goal' ELSE saved
          /\ waitTimer' = (waitTimer /\ goal.waiting = "no")
          /\ continuationWanted' = (continuationWanted /\ runAutomatic')
          /\ Announce(goal)
     ELSE UNCHANGED <<saved, waitTimer, continuationWanted, contractVars>>
  /\ adrift' = FALSE
  /\ UNCHANGED <<ids, wrapVars, admitted, unattended>>

\* tool_call: while the goal wraps up only goal_complete passes
CallsTool(tool) ==
  /\ loop = "turn" /\ tool \notin admitted /\ Cardinality(admitted) < 2
  /\ runToolAttempted' = TRUE
  /\ admitted' = IF wrapUpActive /\ tool # "goal_complete" THEN admitted
                 ELSE admitted \cup {tool}
  /\ UNCHANGED <<goal, saved, ids, contractVars, continuationWanted, wrapVars, waitTimer,
                 runAutomatic, loop, submitted, unattended, adrift>>

Runs(tool) == loop = "turn" /\ tool \in admitted /\ admitted' = admitted \ {tool}
ToolFrame == UNCHANGED <<ids, runAutomatic, runToolAttempted, loop, submitted, unattended, adrift>>

\* checkId, with the id of the goal
Accepted == goal # NoGoal /\ (Active(goal) \/ wrapUpActive)

\* goal_complete, accepted
Completes ==
  /\ Runs("goal_complete") /\ Accepted
  /\ goal' = NoGoal /\ Persist
  /\ wrapUpActive' = FALSE /\ waitTimer' = FALSE
  /\ Deactivate /\ ToolFrame
  /\ UNCHANGED <<continuationWanted, wrapUpSent>>

\* goal_blocked, accepted
Blocks ==
  /\ Runs("goal_blocked") /\ Accepted
  /\ Stop(goal, "blocked")
  /\ ToolFrame /\ UNCHANGED wrapVars

\* tool_execution_end of a goal that the tool has left as g: usage is looked at
BudgetIsSpent(g) == g.spent /\ ~wrapUpSent
ExecutionEnds(g) ==
  \E spent \in BOOLEAN :
    LET h == [g EXCEPT !.spent = @ \/ (spent /\ g.budgeted)] IN
    IF ~Active(g) THEN goal' = g /\ saved' = g /\ UNCHANGED wrapVars
    ELSE IF BudgetIsSpent(h)
    THEN /\ goal' = [h EXCEPT !.status = "budget_limited"] /\ Persist
         /\ wrapUpSent' = TRUE /\ wrapUpActive' = TRUE
    ELSE /\ goal' = h
         /\ saved' = IF g = goal THEN saved ELSE g
         /\ UNCHANGED wrapVars

\* goal_wait, accepted; scheduleWait
Waits(for) ==
  /\ Runs("goal_wait") /\ Accepted /\ goal.waiting = "no"
  /\ ExecutionEnds([goal EXCEPT !.waiting = for])
  /\ continuationWanted' = FALSE /\ waitTimer' = (for = "deadline")
  /\ ToolFrame /\ UNCHANGED contractVars

\* any other tool, or a goal tool that is rejected
OtherRuns(tool) ==
  /\ Runs(tool)
  /\ IF Active(goal) THEN ExecutionEnds(goal) ELSE UNCHANGED <<goal, saved, wrapVars>>
  /\ ToolFrame /\ UNCHANGED <<contractVars, continuationWanted, waitTimer>>

\* turn_end: a turn of an automatic run counts, unless it was aborted
TurnEnds(aborted) ==
  /\ loop = "turn" /\ admitted = {} /\ loop' = "between"
  /\ IF Active(goal) /\ runAutomatic /\ ~aborted
     THEN /\ goal' = [goal EXCEPT !.turns = @ + 1] /\ Persist
          /\ unattended' = unattended + 1
     ELSE UNCHANGED <<goal, saved, unattended>>
  /\ UNCHANGED <<ids, contractVars, continuationWanted, wrapVars, waitTimer, runAutomatic,
                 runToolAttempted, admitted, submitted, adrift>>

\* turn_start of a further turn, which may take up what was submitted
TakesAnotherTurn ==
  /\ loop = "between" /\ loop' = "turn"
  /\ Active(goal) => goal.turns < TurnLimit + MaxTurns
  /\ \E taken \in SUBSET submitted : submitted' = submitted \ taken
  /\ goal' = Woken(goal)
  /\ IF Woken(goal) = goal THEN UNCHANGED <<saved, waitTimer>> ELSE Persist /\ waitTimer' = FALSE
  /\ UNCHANGED <<ids, contractVars, continuationWanted, wrapVars, runAutomatic, runToolAttempted,
                 admitted, unattended, adrift>>

-----------------------------------------------------------------------------
(* The end of a run, and the session.                                      *)

Ends == loop = "between" /\ loop' = "ended"
EndFrame ==
  UNCHANGED <<ids, wrapUpSent, runAutomatic, runToolAttempted, admitted, submitted, unattended>>

\* agent_end of the run in which the budget ran out
WrapUpEnds ==
  /\ Ends /\ wrapUpActive
  /\ wrapUpActive' = FALSE
  /\ IF goal # NoGoal THEN saved' = goal /\ Deactivate ELSE UNCHANGED <<saved, contractVars>>
  /\ adrift' = (adrift \/ Active(goal))
  /\ EndFrame /\ UNCHANGED <<goal, continuationWanted, waitTimer>>

\* agent_end without a goal that works
OtherEnds ==
  /\ Ends /\ ~wrapUpActive /\ (~Active(goal) \/ goal.waiting # "no")
  /\ EndFrame
  /\ UNCHANGED <<goal, saved, contractVars, continuationWanted, wrapUpActive, waitTimer, adrift>>

GoalRunEnds == Ends /\ ~wrapUpActive /\ Active(goal) /\ goal.waiting = "no" /\ EndFrame

\* Escape with queued guidance: the next run is the user's
SteeredEnds ==
  /\ GoalRunEnds
  /\ continuationWanted' = FALSE /\ saved' = goal /\ adrift' = TRUE
  /\ UNCHANGED <<goal, contractVars, wrapUpActive, waitTimer>>

\* aborted, a usage limit, or an error
FailedEnds ==
  /\ GoalRunEnds
  /\ \E status \in {"paused", "usage_limited", "blocked"} : Stop(goal, status)
  /\ UNCHANGED <<wrapUpActive, adrift>>

\* an error that pi itself retries
RetryableEnds ==
  /\ GoalRunEnds
  /\ saved' = goal /\ adrift' = TRUE
  /\ UNCHANGED <<goal, contractVars, continuationWanted, wrapUpActive, waitTimer>>

\* a tool-free automatic run counts as a repetition when its text has the last one's fingerprint
Repeats(same) ==
  IF ~runAutomatic THEN goal.repeats
  ELSE IF runToolAttempted THEN 0
  ELSE IF same /\ goal.repeats > 0 THEN goal.repeats + 1 ELSE 1

NoProgress(n) == runAutomatic /\ ~runToolAttempted /\ NoProgressLimit > 0 /\ n >= NoProgressLimit

ProperlyEnds ==
  /\ GoalRunEnds
  /\ \E same \in BOOLEAN :
       LET g == [goal EXCEPT !.repeats = Repeats(same)] IN
       \/ NoProgress(g.repeats) /\ Stop(g, "paused")
       \/ /\ ~NoProgress(g.repeats)
          /\ goal' = g /\ Persist /\ continuationWanted' = TRUE
          /\ UNCHANGED <<contractVars, waitTimer>>
  /\ UNCHANGED <<wrapUpActive, adrift>>

\* agent_settled
Settles ==
  /\ loop = "ended" /\ loop' = "idle"
  /\ DispatchIfSettled(goal, continuationWanted)
  /\ saved' = IF goal' = goal THEN saved ELSE goal'
  /\ UNCHANGED <<ids, waitTimer, wrapVars, runAutomatic, runToolAttempted, admitted,
                 unattended, adrift>>

\* the deadline of a wait
DeadlinePasses ==
  /\ waitTimer /\ waitTimer' = FALSE
  /\ loop' = loop
  /\ IF Active(goal) /\ goal.waiting # "no"
     THEN DispatchIfSettled(Awake(goal), TRUE) /\ Persist
     ELSE UNCHANGED <<goal, saved, contractVars, continuationWanted, submitted>>
  /\ UNCHANGED <<ids, wrapVars, runAutomatic, runToolAttempted, admitted, unattended, adrift>>

\* session_compact: the contract may be summarised away; of an active goal it is restated
Compacts ==
  /\ On
  /\ IF Active(goal) THEN Restate(goal)
     ELSE inContext' = FALSE /\ UNCHANGED <<lastContract, shown>>
  /\ UNCHANGED <<goal, saved, ids, continuationWanted, wrapVars, waitTimer, runVars, submitted,
                 unattended, adrift>>

\* session_shutdown, or the end of the process without it
ShutsDown ==
  /\ On /\ loop' = "off"
  /\ saved' \in {saved, IF Active(goal) THEN goal ELSE saved}
  /\ waitTimer' = FALSE /\ submitted' = {} /\ admitted' = {}
  /\ UNCHANGED <<goal, ids, contractVars, continuationWanted, wrapVars, runAutomatic,
                 runToolAttempted, unattended, adrift>>

\* mutant: only goal_wait arms the timer
SchedulesNothing(g) == FALSE
\* scheduleWait, of a goal that is restored
Schedules(g) == Active(g) /\ g.waiting = "deadline"

\* session_start: the goal and the contract are those of the session's entries
SessionStarts ==
  /\ loop = "off" /\ loop' = "idle"
  /\ goal' = saved /\ lastContract' = shown
  /\ continuationWanted' = FALSE /\ wrapUpActive' = FALSE /\ wrapUpSent' = FALSE
  /\ waitTimer' = Schedules(saved)
  /\ adrift' = (Active(saved) /\ saved.waiting = "no")
  /\ UNCHANGED <<saved, ids, shown, inContext, runAutomatic, runToolAttempted, submitted,
                 admitted, unattended>>

GoalNext ==
  \/ \E b \in BOOLEAN : Starts(b) \/ Edits(b) \/ TurnEnds(b)
  \/ ResumesWait \/ Resumes \/ Pauses \/ Clears \/ Speaks
  \/ \E p \in {"prompt", "continuation", "wake"} : BeginsRun(p)
  \/ \E t \in Tools : CallsTool(t) \/ OtherRuns(t)
  \/ Completes \/ Blocks \/ TakesAnotherTurn
  \/ \E for \in {"event", "deadline"} : Waits(for)
  \/ WrapUpEnds \/ OtherEnds \/ SteeredEnds \/ FailedEnds \/ RetryableEnds \/ ProperlyEnds
  \/ Settles \/ DeadlinePasses \/ Compacts \/ ShutsDown \/ SessionStarts

GoalSpec == GoalInit /\ [][GoalNext]_goalVars

-----------------------------------------------------------------------------
(* Properties.                                                             *)

EntriesType ==
  /\ goal \in Goals \cup {NoGoal} /\ saved \in Goals \cup {NoGoal} /\ ids \in 0..MaxGoals
  /\ unattended \in Nat
ContractsType == lastContract \in Contracts /\ shown \in Contracts
FlagsType ==
  /\ inContext \in BOOLEAN /\ continuationWanted \in BOOLEAN /\ waitTimer \in BOOLEAN
  /\ wrapUpSent \in BOOLEAN /\ wrapUpActive \in BOOLEAN /\ adrift \in BOOLEAN
LoopType ==
  /\ loop \in {"off", "idle", "turn", "between", "ended"}
  /\ runAutomatic \in BOOLEAN /\ runToolAttempted \in BOOLEAN
  /\ submitted \subseteq {"prompt", "continuation"} /\ admitted \subseteq Tools
GoalTypeOK == EntriesType /\ ContractsType /\ FlagsType /\ LoopType

\* A goal at which nobody works does not lie there for ever: while the loop is idle and nothing
\* is submitted, an active goal waits for an event, or for a deadline whose timer is armed.
\* Somebody else has the next move (adrift) after a restart, after Escape with queued guidance,
\* while pi retries, and when the goal was edited in the run that wrapped it up.
GoalsGoOn ==
  loop = "idle" /\ submitted = {} /\ Active(goal) /\ ~adrift =>
    goal.waiting = "event" \/ (goal.waiting = "deadline" /\ waitTimer)

\* However runs, waits, background wakes, compactions and restarts follow each other, no
\* automatic run is asked for once the user has not acted for TurnLimit automatic turns.
UnattendedWorkIsBounded ==
  [][submitted' \ submitted = {"continuation"} /\ TurnLimit > 0 => unattended < TurnLimit]_goalVars

\* A run that begins while a goal is active begins with this goal's contract as the last of the
\* transcript, in the part of it that the model sees.
ContractIsShown ==
  [][loop # "turn" /\ loop' = "turn" /\ loop \in {"idle", "ended"} /\ Active(goal') =>
       shown' = goal'.id /\ inContext']_goalVars

-----------------------------------------------------------------------------
(* The inductive invariant behind the theorems of GoalMode_proofs.         *)

\* the counts that are kept cover what was done unattended
CountsHold ==
  /\ Active(goal) => unattended <= goal.turns
  /\ Active(saved) => unattended <= saved.turns

\* while nothing is submitted and no run goes on, a continuation is wanted and settling is near
SomeoneGoesOn ==
  Active(goal) /\ goal.waiting = "no" /\ ~adrift =>
    \/ loop \in {"off", "turn", "between"} \/ submitted # {}
    \/ loop = "ended" /\ continuationWanted

\* a deadline has its timer, or the prompt that will end the wait
DeadlinesAreArmed ==
  On /\ Active(goal) /\ goal.waiting = "deadline" => waitTimer \/ "prompt" \in submitted

\* a goal that a restart would take up is the one that is active
SavedIsCurrent == On /\ Active(saved) => Active(goal) /\ saved.id = goal.id

\* what was announced last is what the transcript shows last; contracts are of ids in use, and
\* that of an active goal is not summarised away
ContractsAreTracked ==
  /\ lastContract \in {NoContract, shown}
  /\ shown \in 0..ids \cup {Inactive} /\ goal.id <= ids /\ saved.id <= ids
  /\ Active(goal) /\ shown = goal.id => inContext
  /\ Active(saved) /\ shown = saved.id => inContext

GoalInv ==
  /\ GoalTypeOK /\ CountsHold /\ SomeoneGoesOn /\ DeadlinesAreArmed
  /\ SavedIsCurrent /\ ContractsAreTracked
=============================================================================
