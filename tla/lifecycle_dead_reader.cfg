SPECIFICATION FairSpec
CONSTANTS
  Users = {u1}
  Backends = {"wifi"}
  MaxOperations = 2
  MaxConnections = 2
  MaxDispatchers = 4
\* Every user has a bounded number of calls to make.
CHECK_DEADLOCK FALSE
PROPERTIES
  ConnectEstablishes
