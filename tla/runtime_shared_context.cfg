SPECIFICATION Spec
CONSTANTS
  Calls = {c1, c2}
  Contexts = {x}
  NoContext = NoContext
  NoMessage = NoMessage
  NoCall = NoCall
  ContextOf <- MCSharedContext
  OneShot = {c1, c2}
  DeviceKinds = {"terminal","error","log"}
  Buffer = 1
  UnmatchedCap = 1
  TransportCap = 1
  DropsWhenFull = FALSE
  MaxMessages = 1
SYMMETRY CallSymmetry
INVARIANTS
  NothingLeaks
PROPERTIES
  ImplementsExchange
