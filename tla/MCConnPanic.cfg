CONSTANTS
  Writers = {processPackets, proxyTunToClient}
  Recovering = {proxyTunToClient}
  Closers = {cleanup, disconnect}
  ChanCap = 1
  MaxPackets = 3
SPECIFICATION Spec
INVARIANTS
  NoPanic
CHECK_DEADLOCK FALSE
