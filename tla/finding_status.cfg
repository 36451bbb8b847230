SPECIFICATION Spec
CONSTANTS
  Runs = {r1}
  Runners = {w1}
  Tasks = {build}
  Requests = {q1, q2}
  Reapers = {c1}
  None = None
  Calls = {"schedule", "claim", "report", "cancel"}
  Faults = FALSE
  LookupFaults = FALSE
SYMMETRY Symmetry
PROPERTIES StatusFollowsTable
CHECK_DEADLOCK FALSE
