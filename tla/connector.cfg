CONSTANTS
  c1 = c1
  c2 = c2
  a1 = a1
  a2 = a2
  Versions = {"v1", "v2"}
  OAuthVersions = {"v1"}
  Labels = {"l"}
  Authorities = {a1, a2}
  Runs = {"r"}
  Clients = {c1, c2}
  MaxCalls = 2
  MaxOpen = 2
  MaxAnswers = 2
  MaxHurdles = 1
SPECIFICATION ConSpec
CHECK_DEADLOCK FALSE
SYMMETRY Symmetry
INVARIANTS  NeverWidened
PROPERTY OpsHonest
