CONSTANTS
  Sources = {s1}
  Projects = {A, B}
  Gone = Gone
  Nobody = Nobody
  Queries = {q1}
  Workers = {}
  Clients = {c1}
  Freezers = {}
  MaxSnapshots = 1
  MaxMoves = 1
  MaxFaults = 0
SPECIFICATION Spec
INVARIANT EveryProofStands
CHECK_DEADLOCK FALSE
