CONSTANTS
  Procs <- ThreeProcs
  Beams = {1}
  W = 2
  SlotSyms = {2}
  Schedulers = {"ofdma", "tdma"}
  MaxRv = 3
  MaxTb = 1
  ueA = ueA
  ueB = ueB
  id1 = id1
  id2 = id2
  b1 = b1
  b2 = b2
SPECIFICATION FairSpec
PROPERTIES NackIsResent
