CONSTANTS
  Hosts = {client, remote}
  clientIP = client
  Packets <- MCPackets
  MaxPackets = 2
SPECIFICATION Spec
INVARIANTS
  EndsForCause
CHECK_DEADLOCK FALSE
