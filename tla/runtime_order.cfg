SPECIFICATION Spec
CONSTANTS
  Calls = {c1}
  Contexts = {c1}
  NoContext = NoContext
  NoMessage = NoMessage
  NoCall = NoCall
  ContextOf <- MCContextOf
  OneShot = {}
  DeviceKinds = {"terminal", "error", "log"}
  Buffer = 1
  UnmatchedCap = 2
  TransportCap = 2
  DropsWhenFull = FALSE
  MaxMessages = 3
INVARIANTS
  AnswerIsFirstConclusive
PROPERTIES
  DeliveredInOrder
