SPECIFICATION LiveSystem
CONSTANTS
  blue = blue
  green = green
  stable = stable
  canary = canary
  None = None
  Flaky = FALSE
  v1 = v1
  v2 = v2
  v3 = v3
  Ordinals = {0}
  Images = {v1, v2}
  MaxDeployments = 3
  MaxStages = 1
  Strategies = {"blue_green","rolling"}
  Counts = {1}
  Batches = {1}
  Switching = FALSE
  Faults = FALSE
  HEALTH_CHECK_WINDOW_SIZE = 2
  MAX_RESTART_ATTEMPTS = 1
PROPERTIES HealingKeepsTraffic RolledBackIsServed BrokenIsReplaced
CHECK_DEADLOCK FALSE
