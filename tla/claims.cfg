CONSTANTS
  t1 = t1  t2 = t2  a1 = a1  a2 = a2
  Tasks = {t1, t2}
  Agents = {a1}
  Runs <- MC2Runs
  NoTask = NoTask  NoAgent = NoAgent
  Statuses <- MCStatuses  Terminal <- MCTerminal
  Rules <- MCRules  BlockedBy <- MCUnblocked
  NeedsOutcome <- MCNeedsOutcome
  StartEvent <- MCStartEvent  MissingEvent <- MCMissingEvent
  StartupFailed <- MCNoEvent
  OutcomeRoutes <- MCOutcomeRoutes  FailureRoutes <- MCFailureRoutes
  Dispatchers = {w1, w2}
  Calls = {c1}
  Moves = {}
SPECIFICATION Spec
SYMMETRY MCTaskSymmetry
INVARIANTS TypeOK LiveRunOwnsItsTask AgentCapacity LaunchedOnce
PROPERTY ImplementsOwnership
CHECK_DEADLOCK FALSE
