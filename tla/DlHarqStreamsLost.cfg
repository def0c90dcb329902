CONSTANTS
  NumHarqProcess = 2
  NumStreams = 2
  MaxHarqReTx = 3
  MaxTb = 1
SPECIFICATION Spec
PROPERTIES FailedStreamIsRescheduled
