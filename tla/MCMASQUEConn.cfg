CONSTANTS
  Writers = {processPackets, proxyTunToClient}
  Recovering = {proxyTunToClient}
  Closers = {cleanup, disconnect}
  ChanCap = 1
  MaxPackets = 3
SPECIFICATION Spec
INVARIANTS
  ConnTypeOK
  WritersKeepOrder
PROPERTIES
  TunnelSpec
  SlowReaderNeverBlocksWriters
  CloseWakesReader
  CloseEndsRelay
CHECK_DEADLOCK FALSE
