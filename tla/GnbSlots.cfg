CONSTANTS
  Patterns <- SomePatterns
  N1Delay = 2
  N2Delay = 2
  UEs = {u1, u2}
  NoUe = NoUe
  StandardPeriodicity = {1, 3}
  StartingPeriodicity = 1
  SrsCounterRange = 3
  SymbolsPerSlot = 6
  DlCtrlSymbols = 1
  UlCtrlSymbols = 1
  SrsSymbols = 2
  NumHarqProcess = 6
  MaxPending = 2
SYMMETRY Sym
SPECIFICATION Spec
INVARIANTS TypeOK SymbolsDisjoint NumSymAllocIsExact UeKnowsItsSlot CtrlMsgsAreSent FeedbackBeatsTimer OffsetsPartition SrsEveryPeriod
