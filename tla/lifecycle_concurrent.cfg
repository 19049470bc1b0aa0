SPECIFICATION FairSpec
CONSTANTS
  Users = {u1, u2}
  Backends = {"wifi"}
  MaxOperations = 2
  MaxConnections = 2
  MaxDispatchers = 4
\* Every user has a bounded number of calls to make.
CHECK_DEADLOCK FALSE
INVARIANTS
  ConnectedIsServed
