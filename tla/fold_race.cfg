SPECIFICATION Spec
CONSTANTS
  BodyCapBinds = FALSE
  QuotaBinds = FALSE
  MaxSeq = 3
  MaxGen = 1
  EmitClasses = {"clean"}
  OutboxUsable = TRUE
  MaxTombstoneSeqs = 3
  MaxBisectPosts = 1
  RearmChunk = 1
  CloseMaxFailed = 1
INVARIANT NoSeqVanishesAtAll
CHECK_DEADLOCK FALSE
