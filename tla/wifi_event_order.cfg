SPECIFICATION Spec
CONSTANTS
  Hosts = {h1}
  Tokens = {h1}
  Callers = {c1}
  MissLimit = 3
  EventCap = 2
  MaxRuntimes = 2
PROPERTIES
  ArrivedThenLeft
