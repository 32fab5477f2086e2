SPECIFICATION FairSpec
CONSTANTS
  Lengths = {0, 2}
  Take = 1
  Pieces = 3
  OtherVectors = {32, 33}
CHECK_DEADLOCK FALSE
INVARIANTS
  AssertIdx
  FillsWhatItLocked
PROPERTIES
  FeedSpec
  StopCloses
  StallsOnlyByLoss
