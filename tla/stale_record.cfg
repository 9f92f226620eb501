SPECIFICATION DrainSpec
CONSTANTS
  BodyCapBinds = FALSE
  QuotaBinds = FALSE
  MaxSeq = 2
  MaxGen = 2
  EmitClasses = {"clean"}
  OutboxUsable = TRUE
  MaxTombstoneSeqs = 3
  MaxBisectPosts = 1
  RearmChunk = 1
  CloseMaxFailed = 1
PROPERTY StaleRecordsRetire
CHECK_DEADLOCK FALSE
