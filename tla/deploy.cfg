SPECIFICATION Spec
CONSTANTS
  blue = blue
  green = green
  stable = stable
  canary = canary
  None = None
  Flaky = TRUE
  v1 = v1
  v2 = v2
  v3 = v3
  Ordinals = {0, 1, 2}
  Images = {v1, v2, v3}
  MaxDeployments = 4
  MaxStages = 2
  Strategies = {"blue_green", "canary", "rolling"}
  Counts = {2, 3}
  Batches = {1, 2}
  Switching = FALSE
  Faults = TRUE
SYMMETRY Symmetry
INVARIANTS SuccessIsServed FailureIsNotServed CapacityKept
PROPERTIES Uninterrupted
CHECK_DEADLOCK FALSE
