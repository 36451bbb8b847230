SPECIFICATION LiveSpec
CONSTANTS
  Users = {u1, u2, u3}
  Required = 2
  Calls = {c1, c2, c3}
  Faults = TRUE
PROPERTIES KeepsPromise VotesEndTheWait
CHECK_DEADLOCK FALSE
