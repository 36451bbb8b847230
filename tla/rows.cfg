SPECIFICATION Deploying
CONSTANTS
  h1 = h1
  h2 = h2
  Calls = {h1, h2}
  Kinds = {"deploy", "heal", "stop", "rollback"}
  MaxRows = 3
  MaxTunnels = 2
  MaxOverlaps = 1
  MaxFaults = 1
  host1 = host1
  host2 = host2
  Builds = {h1, h2}
  NoBuild = NoBuild
  Commits = {1, 2}
  Branches = {1}
  DockerHosts = {host1, host2}
  MaxVersion = 2
  MaxEvents = 2
SYMMETRY Symmetry
INVARIANTS OneActive ActiveIsServed UrlWorks DeployedIsCommit ViewIsFinal
CHECK_DEADLOCK FALSE
