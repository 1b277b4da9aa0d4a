SPECIFICATION MCSpec
CONSTANTS
  Ids = {a1}
  Voters = {v1, v2, v3}
  Founders = {v1, v2}
  Handlers = {h1, h2}
  FailOpen = FALSE
  NoOne = NoOne
SYMMETRY Symm
INVARIANTS OneVerdict CalmDecided CalmView
PROPERTY ApprovalGateSpec
