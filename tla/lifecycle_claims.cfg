SPECIFICATION Spec
CONSTANTS
  Runs = {r1, r2}
  Runners = {w1, w2}
  Tasks = {build}
  Requests = {q1, q2}
  Reapers = {c1}
  None = None
  Calls = {"submit", "claim", "cancel", "revoke"}
  Faults = TRUE
  LookupFaults = FALSE
SYMMETRY Symmetry
INVARIANTS ClaimExclusive
CHECK_DEADLOCK FALSE
