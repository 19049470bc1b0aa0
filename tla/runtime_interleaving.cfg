SPECIFICATION Spec
CONSTANTS
  Calls = {c1, c2}
  Contexts = {c1, c2}
  NoContext = NoContext
  NoMessage = NoMessage
  NoCall = NoCall
  ContextOf <- MCContextOf
  OneShot = {}
  DeviceKinds = {"terminal"}
  Buffer = 1
  UnmatchedCap = 1
  TransportCap = 1
  DropsWhenFull = TRUE
  MaxMessages = 2
SYMMETRY CallSymmetry
INVARIANTS
  TypeOK
  ResponsesReachTheirCall
  RegistryMatchesCalls
  NeverClosed
  AnsweredMeansExecuted
  OneFate
