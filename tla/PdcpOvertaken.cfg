CONSTANTS
  PduBytes = 100
  MaxTxBufferSize = 1000
  DiscardByDeadline = FALSE
  MaxPdcpSn = 8
  WrapClears = 5
  WindowLow = 2
  WindowHigh = 4
  NumDup = 1
  Lag = 3
  NumLc = 2
  TbSizes = {210}
  Faults = {"overtaken"}
  MaxSdu = 4
SPECIFICATION Spec
INVARIANTS NoDuplicateDelivery
CHECK_DEADLOCK FALSE
