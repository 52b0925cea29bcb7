SPECIFICATION PartsSpec
CHECK_DEADLOCK FALSE
CONSTANTS
  Parts = {"session", "spawn", "auto", "ledger", "goal"}
  None = None
  Asks = {q1, q2}
  Links = {k1, k2}
  Letters = {l1}
  MaxGeneration = 2
  Spawners = {w1, w2}
  Brokers = {b1, b2}
  Faults = {"crash", "slow"}
  Nobody = Nobody
  ToolCalls = {t1}
  Profiles <- AllProfiles
  Surfaces = {"tui", "remote", "headless"}
  MaxStarts = 1
  MaxEdits = 1
  MaxAsks = 1
  MaxInputs = 1
  Actions = {a1}
  Shell = {a1}
  Children = {h1}
  Self = Self
  Reviews = {r1, r2}
  DenialLimit = 1
  MaxDenials = 2
  MaxRestores = 1
  TurnLimit = 2
  NoProgressLimit = 2
  MaxGoals = 2
  MaxTurns = 0
VIEW PartsView
SYMMETRY PartsSymmetry
INVARIANTS OneConnection NeverStranded   
  
PROPERTIES ImplementsPeerAsk NodsAreCurrent SteeringIsNoDenial ReviewsApproveWhatTheyShow
  UnattendedWorkIsBounded ContractIsShown
