SPECIFICATION PartsSpec
CONSTANTS
  Capacity = 6
  MaxPayload = 2
  MaxFaults = 1
  MaxFrames = 3
  Sends = {s1, s2}
  Peers = {"h", "o"}
  Token <- MCToken
  KeysOf <- MCKeysOf
  MaxOpened = 2
  MaxWireFrames = 2
  Clients = {c1, c2}
  TokenHosts = {g1, g2}
  MaxKeys = 2
  MaxAttempts = 2
  Boards = {b1, b2}
  NoBoard = noBoard
  MaxPorts = 3
  MaxPayloads = 2
  MaxRounds = 1
  Root = "h"
  Parts <- MCPartsOf
  BatchSize = 2
  SampleCapacity = 3
  U32 = 8
  SampleCounts = {0, 3, 5, 7}
  MaxChanges = 1
  Calls = {t1, t2}
  Fixtures = {f1, f2}
  NoTransition = noTransition
  Instances = {"i1", "i2", "i3"}
  HostNames = {"n1", "n2"}
  HostNameOf <- MCHostNameOf
  TxtPort = {"i1"}
  Paired = {"i1", "i3"}
  Addresses = {a1, a2}
  Unknown = unknown
  Devices = {d1}
  Unreadable = {}
  DeviceCap = 2
  EventCap = 1
  MaxPlugs = 2
  MaxListed = 3
CHECK_DEADLOCK FALSE
INVARIANT ConcurrentSendsDecrypt
