CONSTANTS
  Hosts = {client, remote}
  clientIP = client
  Packets <- MCPackets
  MaxPackets = 2
SPECIFICATION Spec
PROPERTIES
  TunPacketsReachClient
CHECK_DEADLOCK FALSE
