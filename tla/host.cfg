SPECIFICATION Host
CONSTANTS
  v1 = v1
  v2 = v2
  v3 = v3
  NoFile = NoFile
  Files = {v1, v2, v3}
  Damaged = {v3}
  tick = tick
  deploy = deploy
  Syncs = {tick, deploy}
  MaxOverlaps = 1
  Kids = {k1, k2}
  k1 = k1
  k2 = k2
PROPERTIES SyncedIsManifest Converges StepEnds
CHECK_DEADLOCK FALSE
