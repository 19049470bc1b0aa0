SPECIFICATION FairSpec
CONSTANTS
  Users = {u1, u2}
  Backends = {"wifi", "serial", "rusb"}
  MaxOperations = 2
  MaxConnections = 3
  MaxDispatchers = 4
\* Every user has a bounded number of calls to make.
CHECK_DEADLOCK FALSE
INVARIANTS
  TypeOK
  ServedUnlessOverlapped
  NoOrphanTask
PROPERTIES
  OperationsReturn
  UnconnectedTaskEnds
