SPECIFICATION OutageSpec
CONSTANTS
  BodyCapBinds = TRUE
  QuotaBinds = FALSE
  MaxSeq = 2
  MaxGen = 1
  EmitClasses = {"poison", "huge"}
  OutboxUsable = TRUE
  MaxTombstoneSeqs = 3
  MaxBisectPosts = 2
  RearmChunk = 2
  CloseMaxFailed = 1
PROPERTIES FlushTerminates  RearmsAfterOutage
CHECK_DEADLOCK FALSE
