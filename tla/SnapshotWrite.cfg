SPECIFICATION Spec
CONSTANTS
  Replicas = {r1, r2}
  Tasks = {t1, t2}
  MaxSeq = 4
  KeepN = 1
  None = None
  NoTask = NoTask
SYMMETRY Symm
INVARIANTS
  RowsExact
  LiveExact
  LatestRowCurrent
PROPERTY LedgerSpec
