CONSTANTS
  UEs = {u1}
  UrllcUes = {}
  EnableHarqReTx = TRUE
  EnableUrllcHarqReTx = FALSE
  NumHarqProcess = 2
  SlotSyms = {2}
  MaxRtt = 2
  TbLoss = FALSE
  MaxTb = 2
  SingleTbUEs = {}
  u1 = u1
  u2 = u2
SPECIFICATION Spec
INVARIANTS NackIsKept
