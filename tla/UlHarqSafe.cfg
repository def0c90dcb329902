CONSTANTS
  UEs = {u1, u2}
  UrllcUes = {}
  EnableHarqReTx = TRUE
  EnableUrllcHarqReTx = FALSE
  NumHarqProcess = 1
  SlotSyms = {2}
  MaxRtt = 2
  TbLoss = TRUE
  MaxTb = 2
  SingleTbUEs = {u2}
  u1 = u1
  u2 = u2
SPECIFICATION FairSpec
INVARIANTS TypeOK OneFeedbackOfItsTb UeBufferHoldsTb
PROPERTIES ImplementsService ProcessIsReleased
