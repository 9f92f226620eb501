SPECIFICATION Spec
CONSTANTS
  Runs = {a, b}
  LiveRuns = {a}
  MaxSeq = 2
  MaxVersion = 2
  SubBuffer = 1
  MaxUnpublished = 1
  MaxReplays = 2
  MaxVisits = 2
  RefreshRuns = {b}
  PageVisible = TRUE
  RefreshSeqs = {2}
INVARIANTS
  TypeOK
  RendersPrefix
  ReadyIsComplete
PROPERTIES
  StatusNeverRegresses
  ImplementsRunView
CHECK_DEADLOCK FALSE
