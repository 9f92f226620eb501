SPECIFICATION PathSpec
CONSTANTS
  BodyCapBinds = FALSE
  QuotaBinds = FALSE
  MaxSeq = 2
  MaxGen = 2
  EmitClasses = {"clean", "poison"}
  OutboxUsable = TRUE
  MaxTombstoneSeqs = 3
  MaxBisectPosts = 1
  RearmChunk = 1
  CloseMaxFailed = 1
INVARIANTS
  NoSeqVanishes
  FenceSound
  EvidenceSound
  TripReportTrue
PROPERTY ImplementsRunLog
CHECK_DEADLOCK FALSE
