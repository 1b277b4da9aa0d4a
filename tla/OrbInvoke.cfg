SPECIFICATION OrbSpec
CONSTANTS
  Caps = {c1, c2}
  Handlers = {h1}
  Calls = {s1}
  MaxEpoch = 1
  MaxLapses = 1
  FailOpen = TRUE
  None = None
SYMMETRY Symm
CHECK_DEADLOCK FALSE
INVARIANTS ReleasedOnce RunsApproved
PROPERTIES ReleasedWhileUsable
