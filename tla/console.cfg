SPECIFICATION Console
CONSTANTS
  h1 = h1
  h2 = h2
  u1 = u1
  u2 = u2
  u3 = u3
  i1 = i1
  i2 = i2
  Docs = {1, 2}
  MaxVersions = 1
  Handlers = {h1, h2}
  MaxRaces = 1
  Corrupt = TRUE
  NoDoc = NoDoc
  Users = {u1, u2, u3}
  Founder = u1
  Invites = {i1, i2}
  Actions = {h1, h2}
  Roles = {"developer", "admin"}
  Dispatches = {h1, h2}
  LastMinute = 4
  Periods = {1, 2}
  Evaluations = {h1, h2}
  MaxTime = 4
  Cooldowns = {2, 3}
  MaxBells = 2
  LOG_BATCH_MAX_LINES = 2
  MaxEntries = 2
  MaxLines = 5
  Tasks = {a, b, c}
  Strangers = {x}
  MaxDeps = 2
  Deploys = {h1, h2, u1}
  MaxUnits = 3
  MaxDoubts = 1
  Saves = {h1, h2, u1}
  NoSave = NoSave
  Repos = {u2, u3}
  NoRepo = NoRepo
  Queries = {"", "q"}
  MaxFetches = 1
  MaxProjects = 2
  Notes = {1, 2}
  NOTIFICATION_PAGE_SIZE = 1
  MaxVisits = 2
SYMMETRY Symmetry
INVARIANTS NothingLeaks RanksComeFromOwner SlotFiresOnce CooldownKept LogsInOrder GroupsRespectDependencies ProjectHasItsBranch BadgeCoversList OneImageServed SavedIsCurrent
PROPERTIES CurrentIsKept
CHECK_DEADLOCK FALSE
