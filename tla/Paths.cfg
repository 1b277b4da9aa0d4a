SPECIFICATION PathsSpec
CONSTANTS
  Replicas = {r1, r2}
  Tasks = {t1}
  Machines = {m1}
  MaxRevokes = 1
  MaxSeq = 2
  KeepN = 1
  None = None
  NoTask = NoTask
SYMMETRY Symm
INVARIANTS NeverAhead LogCovered
