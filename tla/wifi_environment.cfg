SPECIFICATION FairSpec
CONSTANTS
  Hosts = {h1, h2}
  Tokens = {h1}
  Callers = {c1, c2}
  MissLimit = 3
  EventCap = 1
  MaxRuntimes = 2
INVARIANTS
  TypeOK
  OneRuntimePerHost
  NoConnectionLeaks
  LeftIsGone
  EveryChangeReported
PROPERTIES
  ExcludedLeaves
