SPECIFICATION FairSpec
CONSTANTS
  Runs = {a}
  LiveRuns = {a}
  MaxSeq = 1
  MaxVersion = 2
  SubBuffer = 1
  MaxUnpublished = 2
  MaxReplays = 1
  MaxVisits = 1
  RefreshRuns = {}
  PageVisible = FALSE
  RefreshSeqs = {}
PROPERTY LosslessView
CHECK_DEADLOCK FALSE
