SPECIFICATION Spec
CONSTANTS
  BodyCapBinds = FALSE
  QuotaBinds = FALSE
  MaxSeq = 4
  MaxGen = 1
  EmitClasses = {"clean"}
  OutboxUsable = TRUE
  MaxTombstoneSeqs = 4
  MaxBisectPosts = 1
  RearmChunk = 1
  CloseMaxFailed = 1
INVARIANT EveryRecordPending
CHECK_DEADLOCK FALSE
