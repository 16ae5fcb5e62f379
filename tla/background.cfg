CONSTANTS
  Instances = {i1}
  Launches = {u1, u2}
  Pids = {v1, v2}
  Nobody = Nobody
  MaxMishaps = 2
  Tardy = {}
  Series = {s1}
  Ticks = {y1, y2}
  Callers = {c1}
  Limit = 1
  MaxTime = 2
  MaxCalls = 1
  MaxRollbacks = 0
  Never = Never
  Contents = {0, 1}
  Initial = 0
  MaxEdits = 2
  MaxSetbacks = 1
  Sources = {x1}
  Projects = {y1, y2}
  Gone = Gone
  Queries = {u1, u2}
  Workers = {v1, v2}
  Clients = {c2}
  Freezers = {y1, y2}
  MaxSnapshots = 1
  MaxMoves = 1
  MaxFaults = 1
  Deliveries = {u1, u2}
  Senders = {v1, v2}
SPECIFICATION MCSpec
SYMMETRY MCSymmetry
INVARIANTS TypeOK TerminalTreeGone NoBystander OnePromptPerRun
  BackgroundTypeOK OneTaskPerOccurrence OneActiveTask NextIsAhead
  ReceiptIsTrue EditReachesGateway UncertaintyOnRecord
  ProofStands SnapshotLimit
PROPERTIES TerminalStands SuccessNotLost VerdictStands FinishedStays
CHECK_DEADLOCK FALSE
