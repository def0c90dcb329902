CONSTANTS
  SnModulus = 8
  WindowSize = 4
  SduBytes = 4
  TxBytes = {4, 10}
  MaxTxBufferSize = 8
  DiscardByDeadline = FALSE
  HarqLag = 2
  TimerLag = 4
  MaxLost = 1
  Channels = {"timely", "lossy"}
  MaxSdu = 5
SPECIFICATION Spec
INVARIANTS TypeOK DeliveredInOrder BufferIsInWindow NothingStaysBehind
CHECK_DEADLOCK FALSE
