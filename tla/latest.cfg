CONSTANTS
  t1 = t1  t2 = t2  a1 = a1  a2 = a2
  Tasks = {t1}
  Agents = {a1}
  Runs <- MC2Runs
  NoTask = NoTask  NoAgent = NoAgent
  Statuses <- MCShortStatuses  Terminal <- MCTerminal
  Rules <- MCShortRules  BlockedBy <- MCUnblocked
  NeedsOutcome <- MCShortNeeds
  StartEvent <- MCShortEvent  MissingEvent <- MCShortEvent
  StartupFailed <- MCShortEvent
  OutcomeRoutes <- MCShortRoutes  FailureRoutes <- MCShortRoutes
  Dispatchers = {w1}
  Calls = {c1}
  Moves = {"end"}
SPECIFICATION Spec
PROPERTY FailureAppliesToLatest
CHECK_DEADLOCK FALSE
