SPECIFICATION LiveSpec
CONSTANTS
  Runs = {r1}
  Runners = {w1, w2}
  Tasks = {build}
  Requests = {q1}
  Reapers = {c1}
  None = None
  Calls = {"schedule", "claim", "report", "heartbeat", "reap", "cancel", "taskReport"}
  Faults = FALSE
  LookupFaults = FALSE
PROPERTIES OnlyOrphansAreReaped OrphansReaped LabelHeals
CHECK_DEADLOCK FALSE
