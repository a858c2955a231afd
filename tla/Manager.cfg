SPECIFICATION ManagerSpec
CONSTANTS
  p1 = p1  p2 = p2  m1 = m1  m2 = m2  c1 = c1  c2 = c2  s1 = s1
  Procs = {p1, p2}  Managers = {m1, m2}  Chains = {c1, c2}  Stops = {s1}
  Backoffs = 1  None = None
SYMMETRY Symmetry
INVARIANTS OneSidecar StoppedIsGone NeverSilentlyDown
CHECK_DEADLOCK FALSE
