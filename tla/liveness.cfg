CONSTANTS
  Procs = {p1, p2}
  Pids = {x1, x2, x3}
  NoPid = NoPid
  Inodes = {1, 2}
  MaxLeases = 2
  MaxCrashes = 1
  Instances = {i1}
  Launches = {l1}
  RunPids = {y1}
  Nobody = Nobody
  MaxMishaps = 2
  Tardy = {}
  Series = {s1, s2}
  Ticks = {t1}
  Callers = {}
  Limit = 1
  MaxTime = 1
  MaxCalls = 0
  MaxRollbacks = 1
  Never = Never
  Contents = {0, 1}
  Initial = 0
  MaxEdits = 1
  MaxSetbacks = 1
  Sources = {z1}
  Projects = {A, B}
  Gone = Gone
  Queries = {q1}
  Workers = {w1, w2}
  Clients = {c1}
  Freezers = {}
  MaxSnapshots = 1
  MaxMoves = 0
  MaxFaults = 2
  Deliveries = {d1, d2}
  Senders = {n1, n2}
SPECIFICATION MCSpec
INVARIANTS TypeOK OnlyReclaimBreaksExclusion
PROPERTIES StaleLockGoes ExecutionSettles DueIsDone IncidentEnds QueryEnds
  DeliveryEnds
CHECK_DEADLOCK FALSE
