SPECIFICATION FairSpec
CONSTANTS
  Calls = {c1}
  Contexts = {c1}
  NoContext = NoContext
  NoMessage = NoMessage
  NoCall = NoCall
  ContextOf <- MCContextOf
  OneShot = {c1}
  DeviceKinds = {"terminal"}
  Buffer = 1
  UnmatchedCap = 1
  TransportCap = 1
  DropsWhenFull = TRUE
  MaxMessages = 1
PROPERTIES
  CallEnds
