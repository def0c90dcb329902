CONSTANTS
  NumHarqProcess = 2
  NumStreams = 2
  MaxHarqReTx = 3
  MaxTb = 2
SPECIFICATION Spec
INVARIANTS TypeOK NoRetxOfDecodedStream NackedStreamIsBuffered
