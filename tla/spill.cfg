SPECIFICATION Spec
CONSTANTS
  BodyCapBinds = FALSE
  QuotaBinds = TRUE
  MaxSeq = 4
  MaxGen = 1
  EmitClasses = {"clean"}
  OutboxUsable = TRUE
  MaxTombstoneSeqs = 4
  MaxBisectPosts = 1
  RearmChunk = 1
  CloseMaxFailed = 1
INVARIANTS
  NoSeqVanishes
  EvidenceSound
  NoLostWakeup
  MidFlushUnclean
  QuietAfterClose
  CloseHandsOff
PROPERTIES
  TurnsProgress
CHECK_DEADLOCK FALSE
