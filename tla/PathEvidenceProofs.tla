-------------------------- MODULE PathEvidenceProofs --------------------------
(***************************************************************************)
(* What a batcher says about its messages is true in every life of a        *)
(* worker, for every value of the constants: EInv of EvidenceProofs through *)
(* the steps of the outbox, the drainer and close(), and then, with the     *)
(* fence of FenceProofs, through the crash, which forgets, and the          *)
(* re-claim, which starts anew.                                             *)
(***************************************************************************)
EXTENDS EvidenceProofs, FenceProofs

-----------------------------------------------------------------------------
(* The spill flush                                                          *)

\* What a spill step does to the evidence: the journal's only grows.
JournalGrows == journalOnly \subseteq journalOnly' /\ (journalOnlyOverflow => journalOnlyOverflow')

\* A spill flush runs only while the breaker has not tripped.
LEMMA SpillGrows ==
  ASSUME EInv, pc # "idle", SpillFrame, JournalGrows
  PROVE  Grows /\ ~tripped
<1>1. UNCHANGED <<seq, base, generation, closed, rows, tombstoned, tombstoneOverflow, shadowed>>
  BY DEF SpillFrame, serverVars, idVars, closeVars, tombstoneVars
<1>2. ~tripped
  BY DEF EInv
<1> QED BY <1>1, <1>2 DEF Grows, Sound, Gone, Evidence, JournalGrows

\* What is left to show of a spill step that does not trip the breaker.
LEMMA SpillEvidenceFrame ==
  ASSUME EInv, pc # "idle", SpillFrame, JournalGrows, tripped' = tripped, pc' # "bisect",
         \A it \in Range(batch') \cup Range(buffer') :
           Justified(it, Sound, Evidence) \/ Justified(it, Sound', Evidence'),
         RecordsAccounted, Sound => RangeSeqs' \cup forgotten' \subseteq Evidence
  PROVE  EInv'
<1>1. Grows /\ ~tripped
  BY SpillGrows
<1>2. UNCHANGED <<rows, discarded>>
  BY DEF SpillFrame, serverVars
<1>3. WindowRefused' /\ TripReportTrue'
  BY <1>1 DEF WindowRefused, TripReportTrue
<1>4. Sound' => RangeSeqs' \cup forgotten' \subseteq Evidence'
  BY <1>1 DEF Grows
<1>5. ~tripped' /\ discarded' = {}
  BY <1>1, <1>2 DEF EInv
<1> QED BY <1>1, <1>2, <1>3, <1>4, <1>5, StepEvidence DEF RecordsAccounted

\* The segment loop's head takes a prefix of the buffer in hand, or nothing.
LEMMA NextSegmentItems ==
  ASSUME buffer \in Seq(Item), splitLimit \in Nat, NEW first, NextSegment(first)
  PROVE  Range(batch') \cup Range(buffer') \subseteq Range(buffer) /\ pc' # "bisect"
<1>1. CASE TakePrefix(buffer, splitLimit) /\ pc' = "segment"
  <2>1. batch' \in Seq(Item) /\ buffer' \in Seq(Item) /\ batch' \o buffer' = buffer
    BY <1>1, TakePrefixKeeps
  <2>2. Range(buffer) = Range(batch') \cup Range(buffer')
    BY <2>1, ConcatRange, Zenon
  <2> QED BY <1>1, <2>2
<1>2. CASE batch' = <<>> /\ buffer' = buffer /\ pc' \in {"clear", "idle"}
  <2>1. <<>> \in Seq(Item) /\ Len(<<>>) = 0 /\ 1 .. 0 = {}
    OBVIOUS
  <2>2. Range(batch') = {}
    BY <1>2, <2>1, SeqRange, Zenon
  <2> QED BY <1>2, <2>2
<1> QED BY <1>1, <1>2 DEF NextSegment

\* enterSpill cannot write: the breaker trips with the first seq that waits.
LEMMA EnterSpillTrips ==
  ASSUME IInv, DInv, EInv, pc = "enterSpill", SpillFrame, records' = records, forgotten' = forgotten,
         UNCHANGED journalVars, Trip(buffer[1].seq), StopFlush(buffer, splitLimit, TRUE)
  PROVE  EInv'
<1>1. /\ batch = <<>> /\ lo = 0 /\ buffer \in Seq(Item) /\ buffer # <<>> /\ seq \in Nat
      /\ UNCHANGED <<seq, base, generation, rows>>
  BY DEF IInv, DInv, HandEmpty, FlushOK, IdsOK, SpillFrame, idVars, serverVars
<1>2. Ordered(buffer, seq)
  <2>1. batch \in Seq(Item)
    BY DEF IInv, FlushOK
  <2> QED BY <1>1, <2>1, OrderedParts DEF DInv
<1> DEFINE t == buffer[1].seq
<1>3. t \in Nat /\ t <= seq
  BY <1>1, <1>2, ItemAt DEF Ordered
<1>4. tripSeq' = t /\ tripped'
  BY DEF Trip
<1>5. \A x \in BufferedSeqs : x \in Nat /\ t <= x
  <2>1. BufferedSeqs \subseteq Nat
    BY <1>1, SeqsType DEF BufferedSeqs
  <2>2. BufferedSeqs \subseteq t .. buffer[Len(buffer)].seq
    BY <1>1, <1>2, OrderedEnds DEF BufferedSeqs
  <2> QED BY <2>1, <2>2
<1> HIDE DEF t
<1>6. SeqsOf(Range(From(batch, lo))) = {}
  <2>1. From(batch, lo) = <<>>
    BY <1>1, FromZero, Zenon DEF IInv, FlushOK
  <2>2. <<>> \in Seq(Item) /\ Len(<<>>) = 0 /\ 1 .. 0 = {}
    OBVIOUS
  <2> QED BY <2>1, <2>2, SeqRange, Zenon DEF SeqsOf
<1>7. TurnItems(buffer) /\ pc' = "idle" /\ UNCHANGED <<rangeFirst, rangeLast>>
  BY StopFlushItems, Zenon
<1>8. Grows /\ ~tripped
  BY SpillGrows DEF JournalGrows, journalVars
<1>9. TripReportTrue'
  <2>1. \A x \in Nat : t <= x => ~(x < t)
    BY <1>3
  <2>2. \A x \in SeqsOf(Range(From(batch, lo))) \cup BufferedSeqs :
          x \in Nat /\ (x < tripSeq' => x \in StoredSeqs')
    BY <1>4, <1>5, <1>6, <2>1
  <2>3. StoredSeqs \subseteq StoredSeqs'
    BY <1>1 DEF StoredSeqs, SeqsOf
  <2> QED BY <1>1, <1>3, <1>4, <1>7, <1>8, <2>2, <2>3, TripTrue
<1>10. \A it \in Range(batch') \cup Range(buffer') :
         Justified(it, Sound, Evidence) \/ Justified(it, Sound', Evidence')
  BY <1>7, TurnJustified DEF EInv
<1>11. ~Sound' /\ WindowRefused'
  BY <1>4, <1>7 DEF Sound, WindowRefused
<1> QED BY <1>1, <1>4, <1>7, <1>8, <1>9, <1>10, <1>11, StepEvidence

\* What a spill flush writes is accounted for.
LEMMA SpillEvidence ==
  ASSUME IInv, DInv, EInv, Fenced, SpillStep
  PROVE  EInv'
<1>1. /\ splitLimit \in Nat /\ batch \in Seq(Item) /\ buffer \in Seq(Item) /\ batch \o buffer \in Seq(Item)
      /\ rangeFirst \in Nat /\ rangeLast \in Nat /\ writeLast \in Nat
  BY SMTT(30) DEF IInv, FlushOK, WriteOK
<1>2. pc \in {"enterSpill", "mark", "range", "segment", "clear"} /\ SpillFrame
  BY Zenon DEF SpillStep, EnterSpill, EnterSpillFails, SpillMark, SpillRange, SpillSegment, SpillWriteFails, SpillClear
<1>3. pc # "idle" /\ lo = 0
  BY <1>2 DEF IInv, FlushOK
<1>4. \A it \in Range(batch) \cup Range(buffer) : Justified(it, Sound, Evidence)
  BY DEF EInv
<1>5. Range(batch \o buffer) = Range(batch) \cup Range(buffer)
  BY <1>1, ConcatRange
<1>6. UNCHANGED records => RecordsAccounted
  BY DEF RecordsAccounted
<1>7. UNCHANGED journalVars => JournalGrows
  BY DEF JournalGrows, journalVars
<1>8. Sound => RangeSeqs \cup forgotten \subseteq Evidence
  BY DEF EInv
<1>9. ASSUME NEW buf, NEW tripping, StopFlush(buf, splitLimit, tripping), Range(buf) \subseteq Range(batch \o buffer),
             UNCHANGED <<tripped, forgotten>>, UNCHANGED journalVars, RecordsAccounted
      PROVE  EInv'
  <2>1. TurnItems(buf) /\ pc' = "idle" /\ UNCHANGED <<rangeFirst, rangeLast>>
    BY <1>9, StopFlushItems
  <2>2. RangeSeqs' = RangeSeqs
    BY <2>1 DEF RangeSeqs
  <2>3. \A it \in Range(batch') \cup Range(buffer') :
          Justified(it, Sound, Evidence) \/ Justified(it, Sound', Evidence')
    BY <1>4, <1>5, <1>9, <2>1, TurnJustified
  <2> QED BY <1>2, <1>3, <1>7, <1>8, <1>9, <2>1, <2>2, <2>3, SpillEvidenceFrame
<1>10. ASSUME NEW first, NextSegment(first), tripped' = tripped, JournalGrows, RecordsAccounted,
              Sound => RangeSeqs' \cup forgotten' \subseteq Evidence
       PROVE  EInv'
  <2>1. Range(batch') \cup Range(buffer') \subseteq Range(buffer) /\ pc' # "bisect"
    BY <1>1, <1>10, NextSegmentItems
  <2>2. \A it \in Range(batch') \cup Range(buffer') :
          Justified(it, Sound, Evidence) \/ Justified(it, Sound', Evidence')
    BY <1>4, <2>1
  <2> QED BY <1>2, <1>3, <1>10, <2>1, <2>2, SpillEvidenceFrame
<1>11. CASE EnterSpill \/ SpillClear
  <2>1. /\ StopFlush(buffer, splitLimit, FALSE) /\ UNCHANGED <<tripped, forgotten>> /\ UNCHANGED journalVars
        /\ records' = records
    BY <1>11, Zenon DEF EnterSpill, SpillClear, StopSpillFlush, MarkSpillUnclean, ClearSpillUnclean, manifestVars, breakerVars
  <2> QED BY <1>5, <1>6, <1>9, <2>1, Zenon
<1>12. CASE EnterSpillFails
  <2>1. /\ pc = "enterSpill" /\ UNCHANGED forgotten /\ UNCHANGED journalVars /\ records' = records
    BY <1>12 DEF EnterSpillFails, manifestVars
  <2>2. CASE StopFlush(buffer, splitLimit, FALSE) /\ UNCHANGED breakerVars
    <3>1. tripped' = tripped
      BY <2>2 DEF breakerVars
    <3> QED BY <1>5, <1>6, <1>9, <2>1, <2>2, <3>1, Zenon
  <2>3. CASE Trip(buffer[1].seq) /\ StopFlush(buffer, splitLimit, TRUE)
    BY <1>2, <2>1, <2>3, EnterSpillTrips
  <2> QED BY <1>12, <2>2, <2>3, Zenon DEF EnterSpillFails
<1>13. CASE SpillMark
  <2>1. /\ records' = records /\ UNCHANGED <<tripped, forgotten, rangeFirst, rangeLast>> /\ UNCHANGED journalVars
    BY <1>13 DEF SpillMark, MarkSpillUnclean, breakerVars, rangeVars
  <2>2. RangeSeqs' = RangeSeqs
    BY <2>1 DEF RangeSeqs
  <2>3. CASE NextSegment(0)
    BY <1>6, <1>7, <1>8, <1>10, <2>1, <2>2, <2>3
  <2>4. CASE pc' = "range" /\ UNCHANGED <<buffer, batch>>
    BY <1>2, <1>3, <1>4, <1>6, <1>7, <1>8, <2>1, <2>2, <2>4, SpillEvidenceFrame
  <2> QED BY <1>13, <2>3, <2>4 DEF SpillMark
<1>14. CASE SpillRange
  <2>1. /\ pc = "range" /\ AppendRangeRecord(rangeFirst, writeLast, generation) /\ rangeFirst' = 0
        /\ forgotten' = forgotten \cup (writeLast + 1 .. rangeLast) /\ NextSegment(0)
        /\ UNCHANGED tripped /\ UNCHANGED journalVars
    BY <1>14 DEF SpillRange, breakerVars
  <2>2. rangeFirst # 0 /\ rangeFirst <= writeLast /\ writeLast <= rangeLast
    BY <2>1 DEF IInv, WriteOK
  <2>3. rangeFirst .. writeLast \subseteq RangeSeqs /\ writeLast + 1 .. rangeLast \subseteq RangeSeqs
    BY <1>1, <2>2, SMTT(30) DEF RangeSeqs
  <2>4. RangeSeqs' = {}
    BY <2>1 DEF RangeSeqs
  <2>5. Grows
    BY <1>2, <1>3, <1>7, <2>1, SpillGrows
  <2>6. RecordsAccounted
    BY <2>1, <2>3, <2>5, RangeAccounted
  <2> QED BY <1>7, <1>8, <1>10, <2>1, <2>3, <2>4, <2>6
<1>15. CASE SpillSegment
  <2>1. /\ pc = "segment" /\ AppendSegment(Sent, batch[1].seq, batch[Len(batch)].seq, generation)
        /\ RecordJournalOnly(batch) /\ NextSegment(rangeFirst)
        /\ UNCHANGED <<tripped, forgotten, rangeFirst, rangeLast>>
    BY <1>15 DEF SpillSegment, breakerVars, rangeVars
  <2>2. batch # <<>> /\ RangeSeqs' = RangeSeqs
    BY <2>1 DEF RangeSeqs, IInv, FlushOK
  <2>3. JournalGrows
    BY <1>1, <2>1, JournalNamed DEF JournalGrows
  <2>4. Grows
    BY <1>2, <1>3, <2>3, SpillGrows
  <2>5. RecordsAccounted
    BY <1>1, <1>3, <2>1, <2>2, <2>4, SegmentAccounted DEF Sent
  <2> QED BY <1>8, <1>10, <2>1, <2>2, <2>3, <2>5
<1>16. CASE SpillWriteFails
  <2>1. UNCHANGED <<tripped, forgotten>> /\ UNCHANGED journalVars
    BY <1>16 DEF SpillWriteFails, breakerVars
  <2>2. CASE UNCHANGED manifestVars /\ StopFlush(buffer, splitLimit, FALSE)
    BY <1>5, <1>6, <1>9, <2>1, <2>2, Zenon DEF manifestVars
  <2>3. CASE AppendSegmentFails /\ StopFlush(batch \o buffer, splitLimit, FALSE)
    <3>1. PICK E \in Evictable : records' = EvictSegments(E)
      BY <2>3 DEF AppendSegmentFails
    <3>2. Grows
      BY <1>2, <1>3, <1>7, <2>1, SpillGrows
    <3>3. RecordsAccounted
      BY <3>1, <3>2, EvictAccounted DEF RecordsAccounted
    <3> QED BY <1>9, <2>1, <2>3, <3>3, Zenon
  <2> QED BY <1>16, <2>2, <2>3, Zenon DEF SpillWriteFails, StopSpillFlush
<1> QED BY <1>11, <1>12, <1>13, <1>14, <1>15, <1>16 DEF SpillStep

-----------------------------------------------------------------------------
(* The drainer                                                              *)

\* A marker the drainer would store under a free seq is justified: the segment
\* held it, the api refused the message alone, or the seq was dropped.
LEMMA ReplayJustified ==
  ASSUME IInv, DInv, EInv, NEW rec \in records, rec.gen = generation,
         NEW it \in ReplayItems(rec), it.seq \notin StoredSeqs
  PROVE  Justified(it, Sound, Evidence)
<1>1. rec \in Record /\ RecordSeqs(rec) \subseteq rec.firstSeq .. rec.lastSeq
  BY DEF IInv, DiskOK, DInv, SegmentsCover, RecordSeqs
<1>2. it.seq \in rec.firstSeq .. rec.lastSeq
  BY <1>1, ReplayOK DEF SeqsOf
<1>3. Accounted(rec, Sound /\ rec.gen = generation, Known)
  BY DEF EInv
<1>4. Sound => it.seq \in Evidence
  <2>1. Sound => it.seq \in Known
    BY <1>2, <1>3 DEF Accounted
  <2> QED BY <2>1 DEF Known, StoredSeqs, SeqsOf
<1>5. it.tombstoned => it.class # "clean"
  <2>1. CASE rec.kind = "segment"
    <3>1. PICK i \in rec.items : it = Replayed(i)
      BY <2>1 DEF ReplayItems
    <3>2. i \in Item
      BY <1>1 DEF Record
    <3>3. CASE TooLargeAlone(i) \/ Unstorable(i)
      <4>1. it.class = i.class
        BY <3>1, <3>2, <3>3 DEF Replayed, Item
      <4>2. i.class # "clean"
        BY <3>3 DEF TooLargeAlone, Unstorable
      <4> QED BY <4>1, <4>2
    <3>4. CASE ~(TooLargeAlone(i) \/ Unstorable(i))
      <4>1. it = i
        BY <3>1, <3>4 DEF Replayed
      <4> QED BY <1>3, <4>1 DEF Accounted
    <3> QED BY <3>3, <3>4
  <2>2. CASE rec.kind # "segment"
    <3>1. it \in [seq : rec.firstSeq .. rec.lastSeq, class : {"dropped"}, tombstoned : {TRUE}]
      BY <2>2, Zenon DEF ReplayItems, GapTombstones
    <3> QED BY <3>1
  <2> QED BY <2>1, <2>2
<1> QED BY <1>4, <1>5 DEF Justified

\* What is left to show of a step that leaves the batcher alone.
LEMMA DrainEvidenceFrame ==
  ASSUME EInv, UNCHANGED <<idVars, closeVars, buffer, batch, rangeVars, pc, windowVars>>,
         UNCHANGED <<breakerVars, evidenceVars, historyVars>>, rows \subseteq rows',
         \A r \in rows' \ rows : Justified(r, Sound, Evidence), RecordsAccounted,
         JournaledSeqs \subseteq JournaledSeqs' \cup StoredSeqs'
  PROVE  EInv'
<1>1. /\ UNCHANGED <<seq, base, generation, closed, buffer, batch, rangeFirst, rangeLast, pc, lo, hi>>
      /\ UNCHANGED <<tripped, tripSeq>>
      /\ UNCHANGED <<tombstoned, tombstoneOverflow, journalOnly, journalOnlyOverflow>>
      /\ UNCHANGED <<discarded, forgotten, shadowed>>
  BY DEF idVars, closeVars, rangeVars, windowVars, breakerVars, evidenceVars, historyVars
<1>2. Sound' = Sound /\ Evidence' = Evidence /\ RangeSeqs' = RangeSeqs
  BY <1>1 DEF Sound, Gone, Evidence, RangeSeqs
<1>3. Grows
  BY <1>1, <1>2 DEF Grows
<1>4. StoredSeqs \subseteq StoredSeqs'
  BY Zenon DEF StoredSeqs, SeqsOf
<1>5. TripReportTrue' /\ WindowRefused'
  BY <1>1, <1>2, <1>4, ReportKept DEF EInv, WindowRefused
<1>6. \A it \in Range(batch') \cup Range(buffer') \cup (rows' \ rows) : Justified(it, Sound, Evidence)
  BY <1>1 DEF EInv
<1>7. Sound' => RangeSeqs' \cup forgotten' \subseteq Evidence'
  BY <1>1, <1>2 DEF EInv
<1>8. (tripped' => pc' = "idle") /\ (~tripped' => discarded' = {})
  BY <1>1 DEF EInv
<1> QED BY <1>1, <1>3, <1>5, <1>6, <1>7, <1>8, StepEvidence DEF RecordsAccounted

\* The drainer stores only justified markers, whether or not its replay ends.
LEMMA DrainEvidence ==
  ASSUME IInv, DInv, EInv, Fenced, DrainStep \/ ClaimMovesOn
  PROVE  EInv'
<1>1. records \subseteq Record /\ drainSet \subseteq records /\ SegmentsCover
  BY DEF IInv, DInv, DiskOK
<1>2. /\ UNCHANGED <<idVars, closeVars, buffer, batch, rangeVars, pc, windowVars>>
      /\ UNCHANGED <<breakerVars, evidenceVars, historyVars>>
  BY DEF DrainStep, DrainProceeds, DrainFails, Eviction, DrainFinished, ClaimMovesOn, BatcherVars, flushVars,
         rangeVars, windowVars
<1>3. generation' = generation
  BY <1>2 DEF idVars
<1>4. records' = records => RecordsAccounted /\ JournaledSeqs' = JournaledSeqs
  BY <1>3, Zenon DEF RecordsAccounted, JournaledSeqs, OwnRecords, RecordSeqs, SeqsOf
<1>5. CASE DrainStart \/ DrainFinished \/ ClaimMovesOn
  <2>1. records' = records /\ rows' = rows
    BY <1>5 DEF DrainStart, DrainFinished, DrainEnd, ClaimMovesOn, LoseClaim, serverVars, manifestVars, outboxVars
  <2> QED BY <1>2, <1>4, <2>1, DrainEvidenceFrame
<1>6. CASE DrainRecord
  <2>1. PICK rec \in drainSet : /\ GenerationLive(rec.gen) /\ AppendMessages(ReplayItems(rec), rec.gen)
                                /\ records' = records \ {rec}
    BY <1>6 DEF DrainRecord, Replayable
  <2>2. rows \subseteq rows' /\ \A r \in rows' \ rows : Justified(r, Sound, Evidence)
    <3>1. rec \in records /\ rec.gen = generation
      BY <1>1, <2>1 DEF Fenced
    <3> QED BY <2>1, <3>1, ReplayJustified, RowsJustified
  <2>3. StoredSeqs' = StoredSeqs \cup RecordSeqs(rec)
    BY <1>1, <2>1, AppendStored, ReplayOK
  <2>4. JournaledSeqs \subseteq JournaledSeqs' \cup RecordSeqs(rec)
    <3> SUFFICES ASSUME NEW x \in JournaledSeqs, x \notin RecordSeqs(rec) PROVE x \in JournaledSeqs'
      OBVIOUS
    <3>1. PICK old \in records : old.gen = generation /\ x \in RecordSeqs(old)
      BY DEF JournaledSeqs, OwnRecords
    <3>2. old \in records' /\ old.gen = generation'
      BY <1>3, <2>1, <3>1
    <3> QED BY <3>1, <3>2 DEF JournaledSeqs, OwnRecords, RecordSeqs, SeqsOf
  <2>5. RecordsAccounted
    BY <2>1 DEF RecordsAccounted
  <2> QED BY <1>2, <2>2, <2>3, <2>4, <2>5, DrainEvidenceFrame
<1>7. CASE DrainFails
  <2>1. PICK rec \in drainSet :
          \/ UNCHANGED serverVars
          \/ GenerationLive(rec.gen) /\ \E sent \in SUBSET ReplayItems(rec) : AppendMessages(sent, rec.gen)
    BY <1>7, Zenon DEF DrainFails, DrainStops
  <2>2. rows \subseteq rows' /\ \A r \in rows' \ rows : Justified(r, Sound, Evidence)
    <3>1. CASE UNCHANGED serverVars
      BY <3>1 DEF serverVars
    <3>2. ASSUME GenerationLive(rec.gen), NEW sent \in SUBSET ReplayItems(rec), AppendMessages(sent, rec.gen)
          PROVE  rows \subseteq rows' /\ \A r \in rows' \ rows : Justified(r, Sound, Evidence)
      <4>1. rec \in records /\ rec.gen = generation
        BY <1>1, <3>2 DEF Fenced
      <4> QED BY <3>2, <4>1, ReplayJustified, RowsJustified
    <3> QED BY <2>1, <3>1, <3>2
  <2>3. records' = records
    BY <1>7 DEF DrainFails, DrainStops, manifestVars
  <2> QED BY <1>2, <1>4, <2>2, <2>3, DrainEvidenceFrame
<1>8. CASE Eviction
  <2>1. PICK E \in Evictable : records' = EvictSegments(E)
    BY <1>8 DEF Eviction, OtherRunEvicts
  <2>2. rows' = rows
    BY <1>8 DEF Eviction, OtherRunEvicts, serverVars
  <2>3. Grows
    BY <1>2, <2>2 DEF Grows, Sound, Gone, Evidence, idVars, closeVars, breakerVars, evidenceVars, historyVars
  <2>4. RecordsAccounted
    BY <2>1, <2>3, EvictAccounted DEF RecordsAccounted
  <2>5. JournaledSeqs \subseteq JournaledSeqs'
    BY <1>1, <1>3, <2>1, EvictKeeps DEF JournalStep
  <2> QED BY <1>2, <2>2, <2>4, <2>5, DrainEvidenceFrame
<1> QED BY <1>5, <1>6, <1>7, <1>8 DEF DrainStep, DrainProceeds

-----------------------------------------------------------------------------
(* close and preserveOwnedTail                                              *)

\* close() only adds to what is recorded.
LEMMA CloseGrows ==
  ASSUME CloseFrame, closed => closed', JournalGrows
  PROVE  Grows
BY DEF Grows, Sound, Gone, Evidence, JournalGrows, CloseFrame, serverVars, idVars, breakerVars, tombstoneVars,
       historyVars

\* What is left to show of a step of close(): what it takes from memory it writes.
LEMMA CloseEvidenceFrame ==
  ASSUME EInv, CloseFrame, closed => closed', JournalGrows, Range(buffer') \subseteq Range(buffer), RecordsAccounted,
         RangeSeqs' \subseteq RangeSeqs, JournaledSeqs \cup RangeSeqs \subseteq JournaledSeqs' \cup RangeSeqs'
  PROVE  EInv'
<1>1. /\ UNCHANGED <<rows, batch, pc, lo, hi, tripped, tripSeq, tombstoned, tombstoneOverflow, base>>
      /\ UNCHANGED <<discarded, forgotten, shadowed>>
  BY DEF CloseFrame, serverVars, idVars, windowVars, breakerVars, tombstoneVars, historyVars
<1>2. Grows
  BY CloseGrows
<1>3. StoredSeqs' = StoredSeqs
  BY <1>1, Zenon DEF StoredSeqs, SeqsOf
<1>4. TripReportTrue' /\ WindowRefused'
  BY <1>1, <1>3, ReportKept DEF EInv, WindowRefused
<1>5. \A it \in Range(batch') \cup Range(buffer') \cup (rows' \ rows) : Justified(it, Sound, Evidence)
  BY <1>1 DEF EInv
<1>6. Sound' => RangeSeqs' \cup forgotten' \subseteq Evidence'
  BY <1>1, <1>2 DEF EInv, Grows
<1>7. (tripped' => pc' = "idle") /\ (~tripped' => discarded' = {})
  BY <1>1 DEF EInv
<1> QED BY <1>1, <1>2, <1>4, <1>5, <1>6, <1>7, StepEvidence DEF RecordsAccounted

\* The last range of a close goes to the outbox whole.
LEMMA FinalRangeEvidence ==
  ASSUME IInv, DInv, EInv, FinalRange
  PROVE  EInv'
<1>1. /\ closePc = "fRange" /\ CloseFrame /\ UNCHANGED <<buffer, closed>> /\ UNCHANGED journalVars
      /\ AppendRangeRecord(rangeFirst, rangeLast, generation) /\ rangeFirst' = 0
  BY DEF FinalRange
<1>2. RangeSeqs = rangeFirst .. rangeLast /\ RangeSeqs' = {}
  BY <1>1 DEF IInv, CloseOK, RangeSeqs
<1>3. JournalGrows
  BY <1>1 DEF JournalGrows, journalVars
<1>4. Grows
  BY <1>1, <1>3, CloseGrows
<1>5. RecordsAccounted
  BY <1>1, <1>2, <1>4, RangeAccounted
<1>6. JournaledSeqs \cup RangeSeqs \subseteq JournaledSeqs'
  <2>1. SegmentsCover /\ generation' = generation
    BY <1>1 DEF DInv, CloseFrame, idVars
  <2> QED BY <1>1, <1>2, <2>1, AppendRangeKeeps DEF JournalStep
<1> QED BY <1>1, <1>2, <1>3, <1>5, <1>6, CloseEvidenceFrame

\* So does the tail that was buffered, a segment at a time.
LEMMA FinalSegmentEvidence ==
  ASSUME IInv, DInv, EInv, Fenced, FinalSegment
  PROVE  EInv'
<1>1. PICK n \in PrefixLengths(buffer, splitLimit) :
        /\ AppendSegment(Range(SubSeq(buffer, 1, n)), buffer[1].seq, buffer[n].seq, generation)
        /\ RecordJournalOnly(SubSeq(buffer, 1, n))
        /\ buffer' = From(buffer, n)
  BY DEF FinalSegment
<1>2. closePc = "fSegment" /\ CloseFrame /\ UNCHANGED <<closed, rangeFirst, rangeLast>>
  BY DEF FinalSegment, rangeVars
<1>3. /\ buffer \in Seq(Item) /\ splitLimit \in Nat /\ pc = "idle" /\ lo = 0 /\ batch = <<>>
      /\ records \subseteq Record /\ SegmentsCover
  BY <1>2 DEF IInv, FlushOK, DiskOK, CloseOK, Settled, DInv, HandEmpty
<1>4. n \in 1 .. Len(buffer) /\ n \in 0 .. Len(buffer)
  BY <1>1, <1>3, SMTT(30) DEF PrefixLengths
<1> DEFINE p == SubSeq(buffer, 1, n)
           q == From(buffer, n)
<1>5. /\ p \in Seq(Item) /\ Len(p) = n /\ (\A i \in 1 .. n : p[i] = buffer[i]) /\ q \in Seq(Item)
  BY <1>3, <1>4, CutType
<1>6. p \o q = buffer
  BY <1>3, <1>4, CutConcat
<1>7. RecordJournalOnly(p) /\ buffer' = q /\ AppendSegment(Range(p), buffer[1].seq, buffer[n].seq, generation)
  BY <1>1
<1> HIDE DEF p, q
<1>8. p # <<>> /\ p[1] = buffer[1] /\ p[Len(p)] = buffer[n]
  BY <1>4, <1>5
<1>9. p \o q = batch \o buffer
  BY <1>3, <1>6
<1>10. JournalGrows
  BY <1>5, <1>7, JournalNamed, Zenon DEF JournalGrows
<1>11. Grows
  BY <1>2, <1>10, CloseGrows
<1>12. AppendSegment(Range(p), p[1].seq, p[Len(p)].seq, generation)
  BY <1>7, <1>8
<1>13. RecordsAccounted
  BY <1>3, <1>5, <1>7, <1>8, <1>9, <1>11, <1>12, SegmentAccounted, Zenon
<1>14. Range(buffer') \subseteq Range(buffer)
  BY <1>5, <1>6, <1>7, ConcatRange, Zenon
<1>15. RangeSeqs' = RangeSeqs
  BY <1>2 DEF RangeSeqs
<1>16. JournaledSeqs \subseteq JournaledSeqs'
  <2>1. Ordered(p, seq)
    BY <1>5, <1>9, OrderedParts, Zenon DEF DInv
  <2>2. SeqsOf(Range(p)) \subseteq p[1].seq .. p[Len(p)].seq
    BY <1>5, <1>8, <2>1, OrderedEnds
  <2>3. generation' = generation
    BY <1>2 DEF CloseFrame, idVars
  <2> QED BY <1>3, <1>12, <2>2, <2>3, AppendSegmentKeeps DEF JournalStep
<1> QED BY <1>2, <1>10, <1>13, <1>14, <1>15, <1>16, CloseEvidenceFrame

\* Every step of close().
LEMMA CloseEvidence ==
  ASSUME IInv, DInv, EInv, Fenced, CloseStep
  PROVE  EInv'
<1>1. CASE CloseAttempt
  <2>1. FlushFrame /\ closed' = closed
    BY <1>1 DEF CloseAttempt
  <2>2. CASE StartFlush
    BY <2>1, <2>2, StartFlushEvidence
  <2>3. CASE UNCHANGED flushVars
    BY <2>1, <2>3, QuietEvidence
    DEF FlushFrame, serverVars, outboxVars, idVars, breakerVars, evidenceVars, historyVars, flushVars
  <2> QED BY <1>1, <2>2, <2>3 DEF CloseAttempt
<1>2. CASE FinalRange
  BY <1>2, FinalRangeEvidence
<1>3. CASE FinalSegment
  BY <1>3, FinalSegmentEvidence
<1>4. ASSUME CloseFrame, closed => closed', UNCHANGED <<buffer, rangeFirst, rangeLast>>, UNCHANGED journalVars,
             RecordsAccounted, JournaledSeqs \subseteq JournaledSeqs'
      PROVE  EInv'
  <2>1. RangeSeqs' = RangeSeqs /\ JournalGrows
    BY <1>4 DEF RangeSeqs, JournalGrows, journalVars
  <2> QED BY <1>4, <2>1, CloseEvidenceFrame
<1>5. ASSUME CloseFrame, records' = records
      PROVE  RecordsAccounted /\ JournaledSeqs \subseteq JournaledSeqs'
  BY <1>5, Zenon DEF RecordsAccounted, JournaledSeqs, OwnRecords, RecordSeqs, SeqsOf, CloseFrame, idVars
<1>6. CASE \/ CloseStart \/ CloseClearsTimer \/ CloseJoins \/ CloseExpires \/ CloseAttemptReturns \/ CloseGivesUp
           \/ PreserveStart \/ PreserveJoins
  <2>1. CloseFrame /\ UNCHANGED <<buffer, rangeFirst, rangeLast, records>> /\ UNCHANGED journalVars
    BY <1>6, Zenon DEF CloseStart, CloseClearsTimer, CloseJoins, CloseExpires, CloseAttemptReturns, CloseGivesUp,
                PreserveStart, PreserveJoins, CloseSame, manifestVars, rangeVars
  <2>2. closed => closed'
    BY <1>6, Zenon DEF CloseStart, CloseClearsTimer, CloseJoins, CloseExpires, CloseAttemptReturns,
                       CloseGivesUp, PreserveStart, PreserveJoins
  <2> QED BY <1>4, <1>5, <2>1, <2>2
<1>7. CASE FinalMark \/ FinalClear
  <2>1. /\ CloseFrame /\ (closed => closed') /\ UNCHANGED <<buffer, rangeFirst, rangeLast, records>>
        /\ UNCHANGED journalVars
    BY <1>7 DEF FinalMark, FinalClear, MarkSpillUnclean, ClearSpillUnclean, rangeVars
  <2> QED BY <1>4, <1>5, <2>1
<1>8. CASE FinalSpillFails
  <2>1. CloseFrame /\ closed' = closed /\ UNCHANGED <<buffer, rangeFirst, rangeLast>> /\ UNCHANGED journalVars
    BY <1>8 DEF FinalSpillFails, rangeVars
  <2>2. CASE UNCHANGED manifestVars
    BY <1>4, <1>5, <2>1, <2>2 DEF manifestVars
  <2>3. CASE AppendSegmentFails
    <3>1. PICK E \in Evictable : records' = EvictSegments(E)
      BY <2>3 DEF AppendSegmentFails
    <3>2. Grows
      BY <2>1, CloseGrows DEF JournalGrows, journalVars
    <3>3. RecordsAccounted
      BY <3>1, <3>2, EvictAccounted DEF RecordsAccounted
    <3>4. records \subseteq Record /\ SegmentsCover /\ generation' = generation
      BY <2>1 DEF IInv, DiskOK, DInv, CloseFrame, idVars
    <3>5. JournaledSeqs \subseteq JournaledSeqs'
      BY <2>3, <3>4, AppendSegmentFailsKeeps DEF JournalStep
    <3> QED BY <1>4, <2>1, <3>3, <3>5
  <2> QED BY <1>8, <2>2, <2>3 DEF FinalSpillFails
<1> QED BY <1>1, <1>2, <1>3, <1>6, <1>7, <1>8 DEF CloseStep

-----------------------------------------------------------------------------
(* All steps                                                                *)

\* EInv holds of a batcher as it is constructed.
LEMMA InitEvidence ==
  ASSUME Init
  PROVE  EInv
<1>1. Range(batch) = {} /\ Range(buffer) = {}
  <2>1. <<>> \in Seq(Item) /\ Len(<<>>) = 0 /\ 1 .. 0 = {}
    OBVIOUS
  <2> QED BY <2>1, SeqRange, Zenon DEF Init
<1>2. RangeSeqs = {} /\ rows = {} /\ records = {} /\ forgotten = {} /\ discarded = {}
  BY DEF Init, RangeSeqs
<1>3. ~tripped /\ pc = "idle"
  BY DEF Init
<1> QED BY <1>1, <1>2, <1>3 DEF EInv, WindowRefused, TripReportTrue

\* Every step preserves EInv, given the control invariant, the order and
\* conservation of seqs, and the fence.
LEMMA NextEvidence ==
  ASSUME IInv, DInv, EInv, Fenced, [Next]_vars
  PROVE  EInv'
<1>1. CASE Next
  BY <1>1, EmitEvidence, ScheduleEvidence, NetworkEvidence, SpillEvidence, DrainEvidence, CloseEvidence DEF Next
<1>2. CASE UNCHANGED vars
  BY <1>2, QuietEvidence
  DEF vars, serverVars, outboxVars, idVars, flushVars, breakerVars, evidenceVars, closeVars, historyVars
<1> QED BY <1>1, <1>2

-----------------------------------------------------------------------------
(* The lives of a worker                                                    *)

\* The path's invariant contains what the steps need of the generation fence.
LEMMA PathFenced ==
  ASSUME PInv
  PROVE  Fenced
<1>1. \A it \in Range(batch) \cup Range(buffer) : it.seq > base
  BY DEF PInv, FInv, Above, Held, SeqsOf
<1>2. ASSUME NEW rec \in records, GenerationLive(rec.gen)
      PROVE  rec.gen = generation
  <2>1. rec.gen = claimGen
    BY <1>2 DEF GenerationLive
  <2>2. generation \in Nat /\ claimGen \in Nat /\ generation <= claimGen /\ rec.gen <= generation
    BY <1>2 DEF PInv, FInv, RecordsFenced, IInv, IdsOK, ServerOK
  <2> QED BY <2>1, <2>2
<1> QED BY <1>1, <1>2 DEF Fenced

\* A batcher as its constructor leaves it has nothing to answer for: no row or
\* record is of its own, or it is the one a crash left behind.
LEMMA FreshEvidence ==
  ASSUME EInv, NEW s, NEW gen, FreshBatcher(s, gen), UNCHANGED <<rows, records>>,
         Gone' \/ \A r \in rows : ~(r.seq > s), Gone' \/ \A rec \in records : rec.gen # gen
  PROVE  EInv'
<1>1. /\ base' = s /\ generation' = gen /\ batch' = <<>> /\ buffer' = <<>> /\ rangeFirst' = 0
      /\ pc' = "idle" /\ ~tripped' /\ forgotten' = {} /\ discarded' = {}
  BY DEF FreshBatcher
<1>2. Range(batch') = {} /\ Range(buffer') = {}
  BY <1>1, EmptyHolds, Zenon DEF SeqsOf
<1>3. RangeSeqs' = {} /\ WindowRefused' /\ TripReportTrue'
  BY <1>1 DEF RangeSeqs, WindowRefused, TripReportTrue
<1>4. \A r \in rows' : Justified(r, Sound' /\ r.seq > base', Evidence')
  BY <1>1 DEF EInv, Justified, Sound
<1>5. \A rec \in records' : Accounted(rec, Sound' /\ rec.gen = generation', Known')
  BY <1>1, Zenon DEF EInv, Accounted, Sound
<1> QED BY <1>1, <1>2, <1>3, <1>4, <1>5 DEF EInv

\* A crash forgets the evidence together with the batcher that claimed it.
LEMMA CrashEvidence ==
  ASSUME EInv, Crash
  PROVE  EInv'
<1>1. /\ FreshBatcher(base, generation) /\ UNCHANGED <<rows, records>> /\ closed'
  BY DEF Crash, serverVars, manifestVars
<1>2. Gone'
  BY <1>1 DEF Gone, FreshBatcher
<1> QED BY <1>1, <1>2, FreshEvidence

\* A re-claim numbers on above every row, under a generation no record has.
LEMMA ReclaimEvidence ==
  ASSUME PInv, EInv, Reclaim
  PROVE  EInv'
<1>1. FreshBatcher(lastSeq, claimGen + 1) /\ UNCHANGED <<rows, records>>
  BY DEF Reclaim, outboxVars
<1>2. \A r \in rows : ~(r.seq > lastSeq)
  <2>1. lastSeq \in Nat /\ \A r \in rows : r.seq \in Nat /\ r.seq <= lastSeq
    BY DEF PInv, FInv, Watermark, IInv, ServerOK, Row
  <2> QED BY <2>1
<1>3. \A rec \in records : rec.gen # claimGen + 1
  <2>1. generation \in Nat /\ claimGen \in Nat /\ generation <= claimGen
    BY DEF PInv, FInv, IInv, IdsOK, ServerOK
  <2>2. \A rec \in records : rec.gen <= generation
    BY DEF PInv, FInv, RecordsFenced
  <2> QED BY <2>1, <2>2
<1> QED BY <1>1, <1>2, <1>3, FreshEvidence

\* Every step of the path keeps what is said of the messages true.
THEOREM PathEvidence == PathSpec => []EInv
<1>1. Init => EInv
  BY InitEvidence
<1>2. ASSUME PInv, EInv, [PathNext]_vars
      PROVE  EInv'
  <2>1. IInv /\ DInv /\ Fenced
    BY <1>2, PathFenced DEF PInv
  <2>2. CASE [Next]_vars
    BY <1>2, <2>1, <2>2, NextEvidence
  <2>3. CASE Crash
    BY <1>2, <2>3, CrashEvidence
  <2>4. CASE Reclaim
    BY <1>2, <2>4, ReclaimEvidence
  <2> QED BY <1>2, <2>2, <2>3, <2>4 DEF PathNext
<1>3. PInv /\ EInv /\ [PathNext]_vars => EInv'
  BY <1>2
<1> QED BY <1>1, <1>3, PathInvariance, PTL DEF PathSpec

\* Neither a bisection, a 413, a replay nor a close ever replaces a message by a
\* marker that the api would have stored as it was, whichever claim emitted it.
THEOREM MarkersOnlyForRefused == PathSpec => []OnlyRefusedTombstoned
<1>1. EInv => OnlyRefusedTombstoned
  BY DEF EInv, OnlyRefusedTombstoned, Justified
<1> QED BY <1>1, PathEvidence, PTL

\* A seq of the current claim that undeliveredFromSeq, tombstonedSeqs and
\* journalOnlySeqs do not name is at the api with its own content, until a set
\* overflows or the breaker trips, also when earlier claims left records behind.
THEOREM AccessorsSound == PathSpec => []EvidenceSound
<1>1. PInv /\ EInv => EvidenceSound
  <2> SUFFICES ASSUME PInv, EInv, ~tripped, ~tombstoneOverflow, ~journalOnlyOverflow,
                      NEW s \in Assigned \ (InMemory \cup tombstoned \cup journalOnly \cup shadowed)
               PROVE  \E r \in rows : r.seq = s /\ ~r.tombstoned
    BY DEF EvidenceSound
  <2>1. Sound
    <3>1. seq # base
      BY DEF Assigned, PInv, IInv, IdsOK
    <3> QED BY <3>1 DEF Sound, Gone
  <2>2. s \in Known /\ s \notin Evidence
    BY <2>1, AssignedKnown DEF Evidence, PInv
  <2> QED BY <2>2 DEF Known
<1> QED BY <1>1, PathInvariance, PathEvidence, PTL

\* Whatever made the breaker trip, a fatal answer, a refused marker, an exhausted
\* retry window or an outbox that cannot be written, everything below the seq it
\* reports is stored, journaled, or a dropped message whose marker is pending.
THEOREM TripReportHolds == PathSpec => []TripReportTrue
<1>1. EInv => TripReportTrue
  BY DEF EInv
<1> QED BY <1>1, PathEvidence, PTL

-----------------------------------------------------------------------------
(* A single life of a worker is one of the path's behaviours                *)

\* Spec is PathSpec without crashes and re-claims, so what holds of every step of
\* the path holds of the batcher by itself.
THEOREM OneLife == Spec => PathSpec
<1>1. [Next]_vars => [PathNext]_vars
  BY DEF PathNext
<1> QED BY <1>1, PTL DEF Spec, PathSpec
=============================================================================
