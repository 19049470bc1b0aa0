SPECIFICATION EndlessSpec
CONSTANTS
  Calls = {c1}
  Contexts = {c1}
  NoContext = NoContext
  NoMessage = NoMessage
  NoCall = NoCall
  ContextOf <- MCContextOf
  OneShot = {}
  DeviceKinds = {"intermediate"}
  Buffer = 1
  UnmatchedCap = 1
  TransportCap = 1
  DropsWhenFull = FALSE
  MaxMessages = 0
PROPERTIES
  WaitEnds
  DispatcherMovesOn
