CONSTANTS
  Hosts = {client, remote}
  clientIP = client
  Packets <- MCPackets
  MaxPackets = 2
SPECIFICATION Spec
INVARIANTS
  SessionTypeOK
  LoopNeverMultiplies
  HeadersAreComplete
PROPERTIES
  CloseEndsHandler
  ClientProxyEnds
  TunProxyEnds
CHECK_DEADLOCK FALSE
