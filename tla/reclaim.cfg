CONSTANTS
  Procs = {p1, p2}
  Pids = {x1, x2, x3}
  NoPid = NoPid
  Inodes = {1, 2}
  MaxLeases = 2
  MaxCrashes = 0
SPECIFICATION Spec
SYMMETRY MCSymmetry
PROPERTY ReclaimSparesNewLocks
