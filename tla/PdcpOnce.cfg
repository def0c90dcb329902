CONSTANTS
  PduBytes = 100
  MaxTxBufferSize = 1000
  DiscardByDeadline = TRUE
  MaxPdcpSn = 8
  WrapClears = 5
  WindowLow = 2
  WindowHigh = 4
  NumDup = 1
  Lag = 3
  NumLc = 2
  TbSizes = {210}
  Faults = {}
  MaxSdu = 17
SPECIFICATION FairSpec
INVARIANTS TypeOK NoDuplicateDelivery NoFreshSduDiscarded TxBufferSizeIsExact OldestFirst BufferIsKnown
PROPERTIES PdusLeave
CHECK_DEADLOCK FALSE
