CONSTANTS
  Space = 8
  Sizes = {1, 2, 4, 8}
  MaxListed = 3
  MaxRestarts = 1
SPECIFICATION SystemSpec
INVARIANTS
  ServerTypeOK
  ClientTypeOK
  CleanExit
  PoolListsHosts
PROPERTIES
  SignalStopsTunnel
  ProxyFailureStopsClient
  SignalStopsServer
  NoDeadServer
  ServerStopEndsClient
CHECK_DEADLOCK FALSE
