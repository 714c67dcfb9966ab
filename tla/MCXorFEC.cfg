CONSTANTS
  BlockSize = 2
  RedundancyPercent = 10
  MaxLen = 2
  MaxPackets = 4
  Nil = Nil
SPECIFICATION Spec
INVARIANTS
  FullBlocksRecover
CHECK_DEADLOCK FALSE
