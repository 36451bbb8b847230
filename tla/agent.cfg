SPECIFICATION LiveSpec
CONSTANTS
  steady = steady
  other = other
  Agents = {steady, other}
  Polls = {1, 2}
  Runs = {1, 2}
  Pins <- TwoPins
  None = None
  Slow = {other}
  Lossy = {other}
  Brisk = {other}
INVARIANTS NotFailedWhileExecuting StatusIsHonest LeavesNothing
PROPERTIES QueueIsServed
CHECK_DEADLOCK FALSE
