CONSTANTS
  MaxStream = 5
  Streams <- MCStreams
  RecvSize = 3
  FirstCap = 1
  MaxCap = 8
SPECIFICATION FairSpec
INVARIANT FirstLineAnswered
PROPERTY SessionEnds
