CONSTANTS
  t1 = t1  t2 = t2  a1 = a1  a2 = a2
  Tasks = {t1}
  Agents = {a1}
  Runs <- MC1Run
  NoTask = NoTask  NoAgent = NoAgent
  Statuses <- MCStatuses  Terminal <- MCTerminal
  Rules <- MCRules  BlockedBy <- MCUnblocked
  NeedsOutcome <- MCNeedsOutcome
  StartEvent <- MCStartEvent  MissingEvent <- MCMissingEvent
  StartupFailed <- MCNoEvent
  OutcomeRoutes <- MCOutcomeRoutes  FailureRoutes <- MCFailureRoutes
  Dispatchers = {w1}
  Calls = {c1}
  Moves = {"complete", "cancel"}
SPECIFICATION Spec
PROPERTY CancelledRunStaysFenced
CHECK_DEADLOCK FALSE
