SPECIFICATION Spec
CONSTANTS
  BodyCapBinds = TRUE
  QuotaBinds = FALSE
  MaxSeq = 4
  MaxGen = 2
  EmitClasses = {"clean", "big", "cursed"}
  OutboxUsable = FALSE
  MaxTombstoneSeqs = 2
  MaxBisectPosts = 2
  RearmChunk = 1
  CloseMaxFailed = 2
INVARIANTS
  TypeOK
  OnlyRefusedTombstoned
  Ascending
  EvidenceSound
  TripReportTrue
  AttemptNeverGrows
PROPERTIES
  TurnsProgress
CHECK_DEADLOCK FALSE
