CONSTANTS
  UEs = {u1}
  UrllcUes = {}
  EnableHarqReTx = TRUE
  EnableUrllcHarqReTx = FALSE
  NumHarqProcess = 2
  MaxRtt = 3
  TbLoss = TRUE
  MaxTb = 2
  CleanIds = {1}
  u1 = u1
  u2 = u2
SPECIFICATION FairSpec
INVARIANTS TypeOK FeedbackMatchesProcess RetxBufferHoldsTb NoRetxOfDecodedTb UsedSizeIsExact
  SoftCombiningOfOneTb OneDciPerUeAndSlot
PROPERTIES ImplementsService ProcessIsReleased
