---------------------------- MODULE EvidenceProofs ----------------------------
(***************************************************************************)
(* What a batcher says about its messages: markers replace only messages    *)
(* that cannot be stored, the accessors name every seq that is not stored   *)
(* as itself, and the breaker's report is true. This module states the      *)
(* inductive invariant and shows that emit, the timers and every answer to  *)
(* a post preserve it, and that what is written to the outbox is accounted  *)
(* for, given the control invariant of MessageBatcherProofs and the         *)
(* conservation of seqs of DeliveryProofs.                                  *)
(***************************************************************************)
EXTENDS DeliveryProofs

-----------------------------------------------------------------------------
(* The inductive invariant                                                  *)

\* The batcher closed before it assigned a seq, or a crash took what it knew.
Gone == closed /\ seq = base

\* The accessors are exact: neither set has overflowed and nothing was let go.
Sound == ~tripped /\ ~tombstoneOverflow /\ ~journalOnlyOverflow /\ ~Gone

Evidence == tombstoned \cup journalOnly \cup shadowed

\* Seqs the accessors name, or that the api holds with their own content.
Known == Evidence \cup {r.seq : r \in {q \in rows : ~q.tombstoned}}

\* A marker stands for a message that was not clean and, while the accessors are
\* exact, its seq is one of those they name.
Justified(it, exact, named) ==
  it.tombstoned => it.class # "clean" /\ (exact => it.seq \in named)

\* A record holds only such markers, and every seq between its ends is known.
Accounted(rec, exact, known) ==
  /\ \A it \in rec.items : it.tombstoned => it.class # "clean"
  /\ exact => rec.firstSeq .. rec.lastSeq \subseteq known

\* The window of a bisection holds a message the api will not store.
WindowRefused == pc = "bisect" => \E i \in lo + 1 .. hi : Unstorable(batch[i])

\* Rows and records of earlier claims are none of this batcher's.
EInv ==
  /\ \A it \in Range(batch) \cup Range(buffer) : Justified(it, Sound, Evidence)
  /\ \A r \in rows : Justified(r, Sound /\ r.seq > base, Evidence)
  /\ \A rec \in records : Accounted(rec, Sound /\ rec.gen = generation, Known)
  /\ Sound => RangeSeqs \cup forgotten \subseteq Evidence
  /\ WindowRefused
  /\ tripped => pc = "idle"
  /\ ~tripped => discarded = {}
  /\ TripReportTrue

\* What the steps need of the generation fence: messages in hand are above the
\* seq the claim started from, and only its own records can be replayed.
Fenced ==
  /\ \A it \in Range(batch) \cup Range(buffer) : it.seq > base
  /\ \A rec \in records : GenerationLive(rec.gen) => rec.gen = generation

-----------------------------------------------------------------------------
(* What only grows                                                          *)

\* While a batcher lives its sets and the rows only grow, and lost exactness is
\* never regained.
Grows ==
  /\ UNCHANGED <<base, generation>>
  /\ Sound' => Sound
  /\ Evidence \subseteq Evidence'
  /\ rows \subseteq rows'

\* A marker that is justified stays so.
LEMMA JustifiedGrows ==
  ASSUME Grows, NEW it, Justified(it, Sound, Evidence)
  PROVE  Justified(it, Sound', Evidence')
BY DEF Grows, Justified

\* So does a marker that is stored.
LEMMA RowGrows ==
  ASSUME Grows, NEW r, Justified(r, Sound /\ r.seq > base, Evidence)
  PROVE  Justified(r, Sound' /\ r.seq > base', Evidence')
BY DEF Grows, Justified

\* A seq that is known stays so.
LEMMA KnownGrows ==
  ASSUME Grows
  PROVE  Known \subseteq Known'
BY DEF Grows, Known

\* A record that is accounted for stays so.
LEMMA AccountedGrows ==
  ASSUME Grows, NEW rec, Accounted(rec, Sound /\ rec.gen = generation, Known)
  PROVE  Accounted(rec, Sound' /\ rec.gen = generation', Known')
BY KnownGrows DEF Grows, Accounted

\* recordTombstone names the seq, or admits that it could not.
LEMMA TombstoneNamed ==
  ASSUME NEW s, RecordTombstone(s)
  PROVE  /\ tombstoned \subseteq tombstoned' /\ (tombstoneOverflow => tombstoneOverflow')
         /\ s \in tombstoned' \/ tombstoneOverflow'
BY DEF RecordTombstone

\* recordJournalOnly names every message of the segment, or admits that it could not.
LEMMA JournalNamed ==
  ASSUME NEW msgs \in Seq(Item), RecordJournalOnly(msgs)
  PROVE  /\ journalOnly \subseteq journalOnly' /\ (journalOnlyOverflow => journalOnlyOverflow')
         /\ SeqsOf(Range(msgs)) \subseteq journalOnly' \/ journalOnlyOverflow'
<1>1. PICK k \in 0 .. Len(msgs) :
        /\ journalOnly' = journalOnly \cup SeqsOf(Range(SubSeq(msgs, 1, k)))
        /\ journalOnlyOverflow' = (journalOnlyOverflow \/ k < Len(msgs))
  BY DEF RecordJournalOnly
<1>2. k = Len(msgs) => SubSeq(msgs, 1, k) = msgs
  <2>1. Len(msgs) \in 0 .. Len(msgs)
    OBVIOUS
  <2>2. /\ SubSeq(msgs, 1, Len(msgs)) \in Seq(Item) /\ Len(SubSeq(msgs, 1, Len(msgs))) = Len(msgs)
        /\ \A i \in 1 .. Len(msgs) : SubSeq(msgs, 1, Len(msgs))[i] = msgs[i]
    BY <2>1, CutType
  <2> QED BY <2>2, SeqSame
<1>3. k = Len(msgs) \/ k < Len(msgs)
  OBVIOUS
<1> QED BY <1>1, <1>2, <1>3, Zenon

\* The marker of a message that was not clean is justified once it is recorded.
LEMMA MarkerJustified ==
  ASSUME NEW it \in Item, it.class # "clean", RecordTombstone(it.seq)
  PROVE  /\ Tombstone(it) \in Item /\ Tombstone(it).seq = it.seq
         /\ Justified(Tombstone(it), Sound', Evidence')
<1>1. Tombstone(it) \in Item /\ Tombstone(it).seq = it.seq /\ Tombstone(it).class = it.class
  BY Zenon DEF Tombstone, Item
<1>2. Sound' => it.seq \in Evidence'
  BY TombstoneNamed DEF Sound, Evidence
<1> QED BY <1>1, <1>2 DEF Justified

\* The rows a committed batch adds are the messages that were not stored before.
LEMMA RowsJustified ==
  ASSUME NEW S, NEW gen, NEW exact, NEW named, AppendMessages(S, gen),
         \A it \in S : it.seq \notin StoredSeqs => Justified(it, exact, named)
  PROVE  rows \subseteq rows' /\ \A r \in rows' \ rows : Justified(r, exact, named)
<1> DEFINE row(it) == [seq |-> it.seq, class |-> it.class, tombstoned |-> it.tombstoned, gen |-> gen]
           new == {i \in S : i.seq \notin StoredSeqs}
<1>1. rows' = rows \cup {row(it) : it \in new}
  BY DEF AppendMessages, InsertRunMessage
<1>2. \A it \in new : Justified(row(it), exact, named)
  BY DEF Justified
<1> HIDE DEF row, new
<1> QED BY <1>1, <1>2

\* The same for a request that fails: it landed, or left the rows alone.
LEMMA FailedRowsJustified ==
  ASSUME NEW S, NEW gen, NEW exact, NEW named, TransientFailure(S, gen) \/ UNCHANGED serverVars,
         \A it \in S : Justified(it, exact, named)
  PROVE  rows \subseteq rows' /\ \A r \in rows' \ rows : Justified(r, exact, named)
<1>1. CASE UNCHANGED serverVars
  BY <1>1 DEF serverVars
<1>2. CASE AppendMessages(S, gen)
  BY <1>2, RowsJustified
<1> QED BY <1>1, <1>2 DEF TransientFailure

-----------------------------------------------------------------------------
(* What the invariant says of the seqs                                      *)

\* While the accessors are exact, a stored or journaled seq is known.
LEMMA AssignedKnown ==
  ASSUME IInv, DInv, EInv, Sound
  PROVE  Assigned \subseteq InMemory \cup Known
<1>1. \A s \in StoredSeqs : s > base => s \in Known
  BY DEF EInv, StoredSeqs, SeqsOf, Known, Justified
<1>2. JournaledSeqs \subseteq Known
  <2> SUFFICES ASSUME NEW rec \in records, rec.gen = generation PROVE RecordSeqs(rec) \subseteq Known
    BY DEF JournaledSeqs, OwnRecords
  <2>1. RecordSeqs(rec) \subseteq rec.firstSeq .. rec.lastSeq
    BY DEF DInv, SegmentsCover, RecordSeqs
  <2> QED BY <2>1 DEF EInv, Accounted
<1>3. discarded = {} /\ forgotten \subseteq Known
  BY DEF EInv, Sound, Known
<1>4. \A s \in Assigned : s > base
  BY DEF IInv, IdsOK, Assigned
<1> QED BY <1>1, <1>2, <1>3, <1>4 DEF DInv, NoSeqVanishes

\* A step that keeps the report keeps it true.
LEMMA ReportKept ==
  ASSUME TripReportTrue, UNCHANGED <<tripped, tripSeq, base>>,
         StoredSeqs \cup JournaledSeqs \cup forgotten \cup RangeSeqs
           \subseteq (StoredSeqs \cup JournaledSeqs \cup forgotten \cup RangeSeqs)'
  PROVE  TripReportTrue'
BY DEF TripReportTrue

\* The report is true when the breaker trips: what lies below the seq it names
\* is no longer in memory, except in the pending range.
LEMMA TripTrue ==
  ASSUME IInv, DInv, EInv, ~tripped,
         UNCHANGED <<seq, base, generation, records, forgotten, rangeFirst, rangeLast>>,
         StoredSeqs \subseteq StoredSeqs', tripSeq' \in Nat, tripSeq' <= seq,
         \A x \in SeqsOf(Range(From(batch, lo))) \cup BufferedSeqs :
           x \in Nat /\ (x < tripSeq' => x \in StoredSeqs')
  PROVE  TripReportTrue'
<1>1. JournaledSeqs' = JournaledSeqs /\ RangeSeqs' = RangeSeqs
  BY DEF JournaledSeqs, OwnRecords, RangeSeqs, RecordSeqs, SeqsOf
<1>2. discarded = {} /\ base \in Nat /\ seq \in Nat
  BY DEF EInv, IInv, IdsOK
<1> SUFFICES ASSUME NEW x \in base' + 1 .. tripSeq' - 1
             PROVE  x \in StoredSeqs' \cup JournaledSeqs' \cup forgotten' \cup RangeSeqs'
  BY Zenon DEF TripReportTrue
<1>3. x \in base + 1 .. tripSeq' - 1
  <2>1. base' = base
    OBVIOUS
  <2> QED BY ONLY <2>1, x \in base' + 1 .. tripSeq' - 1
<1>4. x \in Nat /\ x < tripSeq' /\ x \in base + 1 .. seq
  <2>1. \A b, t, n \in Nat : t <= n => \A y \in b + 1 .. t - 1 : y \in Nat /\ y < t /\ y \in b + 1 .. n
    OBVIOUS
  <2>2. base \in Nat /\ seq \in Nat /\ tripSeq' \in Nat /\ tripSeq' <= seq
    BY <1>2
  <2> QED BY <2>1, <2>2, <1>3, Zenon
<1>5. x \in Assigned
  BY <1>4 DEF Assigned
<1> QED BY <1>1, <1>2, <1>4, <1>5 DEF DInv, NoSeqVanishes, InMemory

-----------------------------------------------------------------------------
(* The messages in hand after a turn of the flush loop that starts from buf *)

\* A marker refilled from the pending range.
RangeMarker(it) == it.class # "clean" /\ it.seq \in RangeSeqs

\* Nothing is in hand that was not in buf, except markers of the pending range.
TurnItems(buf) ==
  /\ \A it \in Range(batch') \cup Range(buffer') : it \in Range(buf) \/ RangeMarker(it)
  /\ RangeSeqs' \subseteq RangeSeqs
  /\ pc' # "bisect"

\* The chunk holds markers of the pending range, and the range only shrinks.
LEMMA RangeChunkMarks ==
  ASSUME rangeFirst \in Nat \ {0}, rangeLast \in Nat, rangeFirst <= rangeLast, RefillPendingRangeChunk
  PROVE  /\ \A it \in Range(RangeChunk) : RangeMarker(it)
         /\ RangeSeqs' \subseteq RangeSeqs
<1>1. /\ RangeChunkEnd \in Nat /\ rangeFirst <= RangeChunkEnd /\ RangeChunkEnd <= rangeLast
      /\ RangeChunk \in Seq(Item) /\ Len(RangeChunk) = RangeChunkEnd - rangeFirst + 1
      /\ \A i \in 1 .. Len(RangeChunk) : RangeChunk[i].seq = rangeFirst + i - 1
  BY RangeChunkOK
<1>2. RangeSeqs = rangeFirst .. rangeLast
  BY DEF RangeSeqs
<1>3. \A i \in 1 .. RangeChunkEnd - rangeFirst + 1 : RangeChunk[i].class # "clean"
  BY DEF RangeChunk
<1>4. \A i \in 1 .. RangeChunkEnd - rangeFirst + 1 : rangeFirst + i - 1 \in rangeFirst .. rangeLast
  BY <1>1
<1>5. \A i \in 1 .. Len(RangeChunk) : RangeMarker(RangeChunk[i])
  BY <1>1, <1>2, <1>3, <1>4 DEF RangeMarker
<1>6. RangeSeqs' \subseteq RangeSeqs
  <2>1. CASE RangeChunkEnd >= rangeLast
    BY <2>1 DEF RefillPendingRangeChunk, RangeSeqs
  <2>2. CASE ~(RangeChunkEnd >= rangeLast)
    <3>1. rangeFirst' = RangeChunkEnd + 1 /\ rangeLast' = rangeLast
      BY <2>2 DEF RefillPendingRangeChunk
    <3>2. RangeSeqs' = RangeChunkEnd + 1 .. rangeLast
      BY <3>1, <1>1 DEF RangeSeqs
    <3> QED BY <3>2, <1>1, <1>2
  <2> QED BY <2>1, <2>2
<1> QED BY <1>1, <1>5, <1>6, SeqRange

\* The next turn of doFlush sends what was buffered, or markers of the range.
LEMMA SendNextItems ==
  ASSUME FlushOK, NEW buf \in Seq(Item), NEW limit \in Nat, HasWork(buf), SendNext(buf, limit)
  PROVE  TurnItems(buf)
<1>1. pc' = "post"
  BY DEF SendNext
<1>2. CASE TakePrefix(buf, limit) /\ UNCHANGED rangeVars
  <2>1. batch' \in Seq(Item) /\ buffer' \in Seq(Item) /\ batch' \o buffer' = buf
    BY <1>2, TakePrefixKeeps
  <2>2. Range(buf) = Range(batch') \cup Range(buffer')
    BY <2>1, ConcatRange, Zenon
  <2>3. RangeSeqs' = RangeSeqs
    BY <1>2 DEF RangeSeqs, rangeVars
  <2> QED BY <1>1, <2>2, <2>3 DEF TurnItems
<1>3. CASE buf = <<>> /\ RefillPendingRangeChunk /\ TakePrefix(RangeChunk, limit)
  <2>1. rangeFirst \in Nat \ {0} /\ rangeLast \in Nat /\ rangeFirst <= rangeLast
    BY <1>3 DEF HasWork, FlushOK
  <2>2. RangeChunk \in Seq(Item)
    BY <2>1, RangeChunkOK
  <2>3. batch' \in Seq(Item) /\ buffer' \in Seq(Item) /\ batch' \o buffer' = RangeChunk
    BY <1>3, <2>2, TakePrefixKeeps
  <2>4. Range(RangeChunk) = Range(batch') \cup Range(buffer')
    BY <2>3, ConcatRange, Zenon
  <2> QED BY <1>1, <1>3, <2>1, <2>4, RangeChunkMarks DEF TurnItems
<1> QED BY <1>2, <1>3 DEF SendNext

\* Ending a flush leaves buf in the buffer and nothing in hand.
LEMMA RestItems ==
  ASSUME NEW buf, buffer' = buf, batch' = <<>>, UNCHANGED rangeVars, pc' # "bisect"
  PROVE  TurnItems(buf)
<1>1. Range(batch') = {}
  <2>1. <<>> \in Seq(Item) /\ Len(<<>>) = 0 /\ 1 .. 0 = {}
    OBVIOUS
  <2> QED BY <2>1, SeqRange, Zenon
<1>2. RangeSeqs' = RangeSeqs
  BY DEF RangeSeqs, rangeVars
<1> QED BY <1>1, <1>2 DEF TurnItems

\* Leaving doFlush.
LEMMA StopFlushItems ==
  ASSUME NEW buf, NEW limit, NEW tripping, StopFlush(buf, limit, tripping)
  PROVE  TurnItems(buf) /\ pc' = "idle" /\ UNCHANGED <<rangeFirst, rangeLast>>
BY RestItems DEF StopFlush, rangeVars

\* Going round the flush loop, or leaving it.
LEMMA NextTurnItems ==
  ASSUME FlushOK, NEW buf \in Seq(Item), NEW limit \in Nat, NextTurn(buf, limit)
  PROVE  TurnItems(buf)
BY SendNextItems, StopFlushItems, Zenon DEF NextTurn

\* noteTransientFailure puts buf back, and trips at most with the seq it is given.
LEMMA NoteTransientFailureItems ==
  ASSUME NEW buf, NEW s, NoteTransientFailure(buf, s)
  PROVE  /\ TurnItems(buf)
         /\ \/ UNCHANGED breakerVars
            \/ Trip(s) /\ pc' = "idle" /\ UNCHANGED <<rangeFirst, rangeLast>>
<1>1. CASE StopFlush(buf, splitLimit, FALSE) /\ UNCHANGED breakerVars
  BY <1>1, StopFlushItems, Zenon
<1>2. CASE pc' = "enterSpill" /\ buffer' = buf /\ batch' = <<>> /\ UNCHANGED <<rangeVars, breakerVars>>
  BY <1>2, RestItems
<1>3. CASE Trip(s) /\ StopFlush(buf, splitLimit, TRUE)
  BY <1>3, StopFlushItems, Zenon
<1> QED BY <1>1, <1>2, <1>3, Zenon DEF NoteTransientFailure

\* The end of a bisection puts back what is left of its batch.
LEMMA AfterBisectItems ==
  ASSUME FlushOK, NEW rest, rest \o buffer \in Seq(Item), NEW moved, AfterBisect(rest, moved)
  PROVE  /\ TurnItems(rest \o buffer)
         /\ \/ UNCHANGED breakerVars
            \/ Trip(batch[1].seq) /\ pc' = "idle" /\ UNCHANGED <<rangeFirst, rangeLast>> /\ ~moved
<1> DEFINE buf == rest \o buffer
<1>1. buf \in Seq(Item) /\ splitLimit \in Nat
  BY DEF FlushOK
<1>2. \/ NextTurn(buf, splitLimit) /\ UNCHANGED breakerVars
      \/ NoteTransientFailure(buf, batch[1].seq) /\ ~moved
  BY DEF AfterBisect
<1> HIDE DEF buf
<1>3. /\ TurnItems(buf)
      /\ \/ UNCHANGED breakerVars
         \/ Trip(batch[1].seq) /\ pc' = "idle" /\ UNCHANGED <<rangeFirst, rangeLast>> /\ ~moved
  BY <1>1, <1>2, NextTurnItems, NoteTransientFailureItems
<1> QED BY <1>3 DEF buf

-----------------------------------------------------------------------------
(* Slices of the batch                                                      *)

\* The elements of a slice are those at its positions.
LEMMA SliceIs ==
  ASSUME NEW s \in Seq(Item), NEW l \in Nat, NEW m \in Nat, l <= m, m <= Len(s)
  PROVE  Range(Slice(s, l, m)) = {s[i] : i \in l + 1 .. m}
<1> DEFINE p == Slice(s, l, m)
<1>1. p \in Seq(Item) /\ Len(p) = m - l /\ \A i \in 1 .. m - l : p[i] = s[l + i]
  BY DEF Slice
<1> HIDE DEF p
<1>2. Range(p) = {p[i] : i \in 1 .. m - l}
  BY <1>1, SeqRange
<1>3. \A i \in 1 .. m - l : l + i \in l + 1 .. m
  OBVIOUS
<1>4. \A i \in l + 1 .. m : i - l \in 1 .. m - l /\ l + (i - l) = i
  OBVIOUS
<1>5. \A i \in l + 1 .. m : p[i - l] = s[i]
  BY <1>1, <1>4
<1>6. Range(p) \subseteq {s[i] : i \in l + 1 .. m}
  BY <1>1, <1>2, <1>3
<1>7. {s[i] : i \in l + 1 .. m} \subseteq Range(p)
  BY <1>2, <1>4, <1>5
<1> QED BY <1>6, <1>7 DEF p

\* So are those of a tail.
LEMMA FromIs ==
  ASSUME NEW s \in Seq(Item), NEW l \in 0 .. Len(s)
  PROVE  Range(From(s, l)) = {s[i] : i \in l + 1 .. Len(s)}
<1>1. From(s, l) = Slice(s, l, Len(s))
  BY DEF From, Slice
<1> QED BY <1>1, SliceIs

\* Everything in hand from a position on, and in the buffer, is at or above the
\* seq at that position.
LEMMA TailAbove ==
  ASSUME batch \in Seq(Item), buffer \in Seq(Item), seq \in Nat, Ordered(batch \o buffer, seq),
         NEW l \in Nat, l < Len(batch)
  PROVE  /\ batch[l + 1].seq \in Nat /\ batch[l + 1].seq <= seq
         /\ \A x \in SeqsOf(Range(From(batch, l))) \cup BufferedSeqs : x \in Nat /\ batch[l + 1].seq <= x
<1> DEFINE tail == From(batch, l)
           q == tail \o buffer
<1>1. l \in 0 .. Len(batch) /\ l + 1 \in 1 .. Len(batch)
  OBVIOUS
<1>2. /\ tail \in Seq(Item) /\ Len(tail) = Len(batch) - l
      /\ \A i \in 1 .. Len(batch) - l : tail[i] = batch[l + i]
  BY <1>1, CutType, Zenon
<1>3. tail[1] = batch[l + 1] /\ Len(tail) >= 1
  BY <1>2
<1>4. q \in Seq(Item) /\ Ordered(q, seq)
  <2>1. q \in Seq(Item) /\ l \in 0 .. Len(batch \o buffer) /\ q = From(batch \o buffer, l)
    BY <1>1, FromConcat
  <2>2. batch \o buffer \in Seq(Item)
    BY ConcatRange
  <2> QED BY <2>1, <2>2, OrderedFrom, Zenon
<1> HIDE DEF tail
<1>5. q[1] = tail[1] /\ Len(q) >= 1
  BY <1>2, <1>3, ConcatRange
<1>6. SeqsOf(Range(q)) = SeqsOf(Range(tail)) \cup BufferedSeqs
  BY <1>2, SeqsConcat DEF BufferedSeqs
<1> HIDE DEF q
<1>7. q # <<>> /\ q[1].seq \in Nat /\ q[1].seq <= seq
  BY <1>4, <1>5, ItemAt DEF Ordered
<1>8. SeqsOf(Range(q)) \subseteq q[1].seq .. q[Len(q)].seq
  BY <1>4, <1>7, OrderedEnds
<1>9. SeqsOf(Range(q)) \subseteq Nat
  BY <1>4, SeqsType
<1>10. \A x \in SeqsOf(Range(q)) : x \in Nat /\ q[1].seq <= x
  BY <1>8, <1>9
<1> QED BY <1>3, <1>5, <1>6, <1>7, <1>10 DEF tail

-----------------------------------------------------------------------------
(* What remains to show of a step                                           *)

\* A step preserves the invariant when the evidence grows, what is new in hand,
\* at the api and in the outbox is justified, and the breaker's report is true.
LEMMA StepEvidence ==
  ASSUME EInv, Grows,
         \A it \in Range(batch') \cup Range(buffer') \cup (rows' \ rows) :
           Justified(it, Sound, Evidence) \/ Justified(it, Sound', Evidence'),
         \A rec \in records' : rec \in records \/ Accounted(rec, Sound' /\ rec.gen = generation', Known'),
         Sound' => RangeSeqs' \cup forgotten' \subseteq Evidence',
         WindowRefused', tripped' => pc' = "idle", ~tripped' => discarded' = {}, TripReportTrue'
  PROVE  EInv'
<1>1. \A it \in Range(batch') \cup Range(buffer') \cup (rows' \ rows) : Justified(it, Sound', Evidence')
  BY JustifiedGrows
<1>2. \A r \in rows' : Justified(r, Sound' /\ r.seq > base', Evidence')
  <2>1. ASSUME NEW r \in rows PROVE Justified(r, Sound' /\ r.seq > base', Evidence')
    BY <2>1, RowGrows DEF EInv
  <2>2. ASSUME NEW r \in rows' \ rows PROVE Justified(r, Sound' /\ r.seq > base', Evidence')
    BY <1>1, <2>2 DEF Justified
  <2> QED BY <2>1, <2>2
<1>3. \A rec \in records' : Accounted(rec, Sound' /\ rec.gen = generation', Known')
  BY AccountedGrows DEF EInv
<1> QED BY <1>1, <1>2, <1>3 DEF EInv

\* A turn of the flush loop: what it leaves in hand comes from buf or the range.
LEMMA TurnJustified ==
  ASSUME EInv, NEW buf, TurnItems(buf),
         \A it \in Range(buf) : Justified(it, Sound, Evidence) \/ Justified(it, Sound', Evidence')
  PROVE  \A it \in Range(batch') \cup Range(buffer') :
           Justified(it, Sound, Evidence) \/ Justified(it, Sound', Evidence')
<1>1. \A it : RangeMarker(it) => Justified(it, Sound, Evidence)
  BY DEF EInv, RangeMarker, Justified
<1> QED BY <1>1 DEF TurnItems

\* The breaker trips with a report that is true.
TripReports == tripped' /\ pc' = "idle" /\ TripReportTrue'

\* The steps of a flush over the network leave the outbox and its evidence alone.
LEMMA PostEvidence ==
  ASSUME IInv, EInv, pc # "idle", PostFrame,
         tombstoned \subseteq tombstoned', tombstoneOverflow => tombstoneOverflow',
         rows \subseteq rows', \A r \in rows' \ rows : Justified(r, Sound, Evidence),
         \A it \in Range(batch') \cup Range(buffer') :
           Justified(it, Sound, Evidence) \/ Justified(it, Sound', Evidence'),
         RangeSeqs' \subseteq RangeSeqs, WindowRefused',
         UNCHANGED <<tripped, discarded>> \/ TripReports
  PROVE  EInv'
<1>1. ~tripped /\ discarded = {}
  BY DEF EInv
<1>2. UNCHANGED <<records, seq, base, generation, closed, journalOnly, journalOnlyOverflow, forgotten, shadowed>>
  BY DEF PostFrame, outboxVars, idVars, closeVars, journalVars
<1>3. Grows
  BY <1>1, <1>2 DEF Grows, Sound, Gone, Evidence
<1>4. Sound' => RangeSeqs' \cup forgotten' \subseteq Evidence'
  BY <1>2, <1>3 DEF EInv, Grows
<1>5. /\ tripped' => pc' = "idle"
      /\ ~tripped' => discarded' = {}
      /\ TripReportTrue'
  <2>1. CASE UNCHANGED <<tripped, discarded>>
    BY <1>1, <2>1 DEF TripReportTrue
  <2>2. CASE TripReports
    BY <2>2 DEF TripReports
  <2> QED BY <2>1, <2>2
<1> QED BY <1>2, <1>3, <1>4, <1>5, StepEvidence

-----------------------------------------------------------------------------
(* The network steps                                                        *)

\* A turn that starts from messages that are justified.
LEMMA TurnEvidence ==
  ASSUME IInv, EInv, pc # "idle", PostFrame,
         tombstoned \subseteq tombstoned', tombstoneOverflow => tombstoneOverflow',
         rows \subseteq rows', \A r \in rows' \ rows : Justified(r, Sound, Evidence),
         NEW buf, TurnItems(buf),
         \A it \in Range(buf) : Justified(it, Sound, Evidence) \/ Justified(it, Sound', Evidence'),
         UNCHANGED <<tripped, discarded>> \/ TripReports
  PROVE  EInv'
<1>1. \A it \in Range(batch') \cup Range(buffer') :
        Justified(it, Sound, Evidence) \/ Justified(it, Sound', Evidence')
  BY TurnJustified
<1>2. RangeSeqs' \subseteq RangeSeqs /\ WindowRefused'
  BY DEF TurnItems, WindowRefused
<1> QED BY <1>1, <1>2, PostEvidence

\* A trip on the head of what is in hand, after which the range is as it was.
LEMMA HeadTrips ==
  ASSUME IInv, DInv, EInv, pc # "idle", PostFrame, NEW l \in Nat, l < Len(batch),
         StoredSeqs \subseteq StoredSeqs',
         SeqsOf(Range(From(batch, lo))) \subseteq StoredSeqs' \cup SeqsOf(Range(From(batch, l))),
         Trip(batch[l + 1].seq), pc' = "idle", UNCHANGED <<rangeFirst, rangeLast>>
  PROVE  TripReports
<1>1. batch \in Seq(Item) /\ buffer \in Seq(Item) /\ seq \in Nat /\ Ordered(batch \o buffer, seq) /\ ~tripped
  BY DEF IInv, FlushOK, IdsOK, DInv, EInv
<1> DEFINE t == batch[l + 1].seq
<1>2. /\ t \in Nat /\ t <= seq
      /\ \A x \in SeqsOf(Range(From(batch, l))) \cup BufferedSeqs : x \in Nat /\ t <= x
  BY <1>1, TailAbove
<1>3. tripSeq' = t /\ tripped'
  BY DEF Trip
<1> HIDE DEF t
<1>4. SeqsOf(Range(From(batch, lo))) \subseteq Nat
  <2>1. lo \in 0 .. Len(batch)
    BY DEF IInv, FlushOK
  <2>2. From(batch, lo) \in Seq(Item)
    BY <1>1, <2>1, CutType
  <2> QED BY <2>2, SeqsType
<1>5. \A x \in SeqsOf(Range(From(batch, lo))) \cup BufferedSeqs :
        x \in Nat /\ (x < t => x \in StoredSeqs')
  <2>1. \A x \in Nat : t <= x => ~(x < t)
    BY <1>2
  <2> QED BY <1>2, <1>4, <2>1
<1>6. UNCHANGED <<seq, base, generation, records, forgotten>>
  BY DEF PostFrame, outboxVars, idVars
<1>7. TripReportTrue'
  BY <1>1, <1>2, <1>3, <1>5, <1>6, TripTrue
<1> QED BY <1>3, <1>7 DEF TripReports

\* Every answer the api can give to doFlush's post: only a message it refused
\* alone becomes a marker, and its seq is recorded first.
LEMMA PostAnswers ==
  ASSUME IInv, DInv, EInv, pc = "post", NetworkStep
  PROVE  EInv'
<1> DEFINE whole == batch \o buffer
           marked == <<Tombstone(batch[1])>> \o buffer
<1>1. /\ FlushOK /\ seq \in Nat /\ splitLimit \in Nat
      /\ batch \in Seq(Item) /\ buffer \in Seq(Item) /\ batch # <<>> /\ lo = 0 /\ 0 < Len(batch) /\ pc # "idle"
  BY DEF IInv, FlushOK, IdsOK
<1>2. whole \in Seq(Item) /\ Range(whole) = Range(batch) \cup Range(buffer)
  BY <1>1, ConcatRange
<1>3. \A it \in Range(batch) \cup Range(buffer) : Justified(it, Sound, Evidence)
  BY DEF EInv
<1>4. UNCHANGED serverVars => StoredSeqs' = StoredSeqs /\ rows' = rows
  BY DEF serverVars, StoredSeqs, SeqsOf
<1> HIDE DEF whole
<1>5. ASSUME PostFrame, UNCHANGED tombstoneVars, TransientFailure(Sent, generation) \/ UNCHANGED serverVars,
             TurnItems(whole) \/ TurnItems(buffer), UNCHANGED <<tripped, discarded>> \/ TripReports
      PROVE  EInv'
  <2>1. rows \subseteq rows' /\ \A r \in rows' \ rows : Justified(r, Sound, Evidence)
    BY <1>3, <1>5, FailedRowsJustified DEF Sent
  <2>2. UNCHANGED <<tombstoned, tombstoneOverflow>>
    BY <1>5 DEF tombstoneVars
  <2> QED BY <1>1, <1>2, <1>3, <1>5, <2>1, <2>2, TurnEvidence
<1>6. ASSUME PostFrame, TransientFailure(Sent, generation) \/ UNCHANGED serverVars, Trip(batch[1].seq), pc' = "idle",
             UNCHANGED <<rangeFirst, rangeLast>>
      PROVE  TripReports
  <2>1. StoredSeqs \subseteq StoredSeqs'
    BY <1>6, TransientStored
  <2>2. SeqsOf(Range(From(batch, lo))) \subseteq StoredSeqs' \cup SeqsOf(Range(From(batch, 0)))
    BY <1>1
  <2>3. Trip(batch[0 + 1].seq)
    BY <1>6
  <2> QED BY <1>1, <1>6, <2>1, <2>2, <2>3, HeadTrips
<1>7. CASE PostOk
  <2>1. TurnItems(buffer)
    BY <1>1, <1>7, NextTurnItems DEF PostOk
  <2> QED BY <1>5, <1>7, <2>1 DEF PostOk, TransientFailure, breakerVars
<1>8. CASE PostAborted
  <2>1. TurnItems(whole)
    BY <1>8, StopFlushItems, Zenon DEF PostAborted, whole
  <2> QED BY <1>5, <1>8, <2>1 DEF PostAborted, breakerVars
<1>9. CASE PostTransient
  <2>1. /\ TurnItems(whole)
        /\ \/ UNCHANGED breakerVars
           \/ Trip(batch[1].seq) /\ pc' = "idle" /\ UNCHANGED <<rangeFirst, rangeLast>>
    BY <1>9, NoteTransientFailureItems DEF PostTransient, whole
  <2> QED BY <1>5, <1>6, <1>9, <2>1 DEF PostTransient, breakerVars
<1>10. CASE PostMarkerRefused \/ PostFatal
  <2>1. /\ TurnItems(whole) \/ TurnItems(buffer)
        /\ pc' = "idle" /\ UNCHANGED <<rangeFirst, rangeLast>>
    BY <1>10, StopFlushItems, Zenon DEF PostMarkerRefused, PostFatal, whole
  <2> QED BY <1>5, <1>6, <1>10, <2>1, Zenon DEF PostMarkerRefused, PostFatal
<1>11. CASE PostOversizeSplit
  <2>1. Len(batch) \div 2 \in Nat
    BY <1>1
  <2>2. TurnItems(whole)
    BY <1>1, <1>2, <1>11, <2>1, NextTurnItems, Zenon DEF PostOversizeSplit, whole
  <2> QED BY <1>5, <1>11, <2>2 DEF PostOversizeSplit, breakerVars
<1>12. CASE PostOversizeOne \/ PostPermanentOne
  <2>1. /\ Len(batch) = 1 /\ PostFrame /\ UNCHANGED <<tripped, discarded>> /\ UNCHANGED serverVars
        /\ RecordTombstone(batch[1].seq) /\ (SaysOversize(Sent) \/ SaysPermanent(Sent))
        /\ \E limit \in Nat : NextTurn(marked, limit)
    BY <1>1, <1>12 DEF PostOversizeOne, PostPermanentOne, marked, breakerVars
  <2>2. Sent = {batch[1]} /\ batch[1] \in Item
    <3>1. 1 .. 1 = {1}
      OBVIOUS
    <3>2. Range(batch) = {batch[i] : i \in {1}}
      BY <1>1, <2>1, <3>1, SeqRange
    <3>3. Sent = {batch[1]}
      BY <3>2 DEF Sent
    <3>4. 1 \in 1 .. Len(batch)
      BY <2>1
    <3> QED BY <1>1, <3>3, <3>4, ItemAt
  <2>3. batch[1].class # "clean"
    <3>1. TooLargeAlone(batch[1]) \/ Unstorable(batch[1])
      BY <2>1, <2>2 DEF SaysOversize, SaysPermanent, TooLarge
    <3> QED BY <3>1 DEF TooLargeAlone, Unstorable
  <2>4. /\ Tombstone(batch[1]) \in Item
        /\ Justified(Tombstone(batch[1]), Sound', Evidence')
    BY <2>1, <2>2, <2>3, MarkerJustified
  <2> DEFINE m == Tombstone(batch[1])
  <2>5. marked \in Seq(Item) /\ Range(marked) = {m} \cup Range(buffer)
    <3>1. <<m>> \in Seq(Item) /\ Len(<<m>>) = 1 /\ <<m>>[1] = m
      BY <2>4
    <3>2. Range(<<m>>) = {m}
      <4>1. 1 .. 1 = {1}
        OBVIOUS
      <4>2. Range(<<m>>) = {<<m>>[i] : i \in {1}}
        BY <3>1, <4>1, SeqRange, Zenon
      <4> QED BY <3>1, <4>2
    <3> QED BY <1>1, <3>1, <3>2, ConcatRange, Zenon
  <2> HIDE DEF marked
  <2>6. TurnItems(marked)
    BY <1>1, <2>1, <2>5, NextTurnItems
  <2>7. \A it \in Range(marked) : Justified(it, Sound, Evidence) \/ Justified(it, Sound', Evidence')
    BY <1>3, <2>4, <2>5
  <2>8. tombstoned \subseteq tombstoned' /\ (tombstoneOverflow => tombstoneOverflow')
    BY <2>1, TombstoneNamed
  <2> QED BY <1>1, <1>4, <2>1, <2>6, <2>7, <2>8, TurnEvidence
<1>13. CASE PostPermanentMany
  <2>1. /\ UNCHANGED <<buffer, batch, rangeFirst, rangeLast, tripped, discarded, tombstoned, tombstoneOverflow>>
        /\ PostFrame /\ rows' = rows /\ SaysPermanent(Sent) /\ lo' = 0 /\ hi' = Len(batch)
    BY <1>4, <1>13 DEF PostPermanentMany, rangeVars, tombstoneVars, breakerVars
  <2>2. \E i \in 1 .. Len(batch) : Unstorable(batch[i])
    BY <1>1, <2>1, SeqRange DEF SaysPermanent, Sent
  <2>3. WindowRefused' /\ RangeSeqs' = RangeSeqs
    BY <2>1, <2>2 DEF WindowRefused, RangeSeqs
  <2>4. \A it \in Range(batch') \cup Range(buffer') : Justified(it, Sound, Evidence)
    BY <1>3, <2>1
  <2> QED BY <1>1, <2>1, <2>3, <2>4, PostEvidence
<1> QED
  BY <1>7, <1>8, <1>9, <1>10, <1>11, <1>12, <1>13
  DEF NetworkStep, BisectOk, BisectPermanent, BisectAbandoned, BisectFatal, MarkerOk, MarkerTransient,
      MarkerRefused

\* A turn of the bisection over a window that holds a refused message: the search
\* can only end on that message, so the one it tombstones is not clean.
LEMMA NarrowToEvidence ==
  ASSUME IInv, DInv, EInv, pc = "bisect", PostFrame, NEW l \in Nat, NEW h \in Nat, l < h, h <= Len(batch),
         \E i \in l + 1 .. h : Unstorable(batch[i]), NEW moved, NarrowTo(l, h, moved),
         rows \subseteq rows', \A r \in rows' \ rows : Justified(r, Sound, Evidence),
         StoredSeqs \subseteq StoredSeqs',
         SeqsOf(Range(From(batch, lo))) \subseteq StoredSeqs' \cup SeqsOf(Range(From(batch, l)))
  PROVE  EInv'
<1>1. /\ batch \in Seq(Item) /\ buffer \in Seq(Item) /\ l < Len(batch) /\ l + 1 \in 1 .. Len(batch)
      /\ pc # "idle"
  BY DEF IInv, FlushOK
<1>2. \A it \in Range(batch) \cup Range(buffer) : Justified(it, Sound, Evidence)
  BY DEF EInv
<1>3. CASE /\ Trip(batch[l + 1].seq) /\ StopFlush(buffer, splitLimit, TRUE) /\ UNCHANGED tombstoneVars
  <2>1. TurnItems(buffer) /\ pc' = "idle" /\ UNCHANGED <<rangeFirst, rangeLast>>
    BY <1>3, StopFlushItems, Zenon
  <2>2. TripReports
    BY <1>1, <1>3, <2>1, HeadTrips
  <2>3. UNCHANGED <<tombstoned, tombstoneOverflow>>
    BY <1>3 DEF tombstoneVars
  <2> QED BY <1>1, <1>2, <2>1, <2>2, <2>3, TurnEvidence
<1>4. CASE /\ lo' = l /\ hi' = h
           /\ UNCHANGED <<buffer, batch, rangeVars, pc, breakerVars, tombstoneVars, discarded>>
  <2>1. UNCHANGED <<buffer, batch, rangeFirst, rangeLast, tripped, discarded, tombstoned, tombstoneOverflow>>
    BY <1>4 DEF rangeVars, breakerVars, tombstoneVars
  <2>2. WindowRefused' /\ RangeSeqs' = RangeSeqs
    BY <1>4, <2>1 DEF WindowRefused, RangeSeqs
  <2>3. \A it \in Range(batch') \cup Range(buffer') : Justified(it, Sound, Evidence)
    BY <1>2, <2>1
  <2> QED BY <1>1, <2>1, <2>2, <2>3, PostEvidence
<1>5. CASE /\ h - l = 1 /\ pc' = "marker" /\ RecordTombstone(batch[l + 1].seq)
           /\ batch' = [batch EXCEPT ![l + 1] = Tombstone(batch[l + 1])]
           /\ UNCHANGED <<buffer, rangeVars, breakerVars, discarded>>
  <2>1. Unstorable(batch[l + 1])
    <3>1. \A i \in l + 1 .. h : i = l + 1
      BY <1>5
    <3> QED BY <3>1
  <2>2. batch[l + 1] \in Item /\ batch[l + 1].class # "clean"
    BY <1>1, <2>1, ItemAt DEF Unstorable
  <2> DEFINE m == Tombstone(batch[l + 1])
  <2>3. m \in Item /\ Justified(m, Sound', Evidence')
    BY <1>5, <2>2, MarkerJustified
  <2> HIDE DEF m
  <2>4. batch' = [batch EXCEPT ![l + 1] = m]
    BY <1>5 DEF m
  <2>5. batch' \in Seq(Item) /\ Len(batch') = Len(batch)
    BY <1>1, <2>3, <2>4
  <2>6. \A i \in 1 .. Len(batch) : batch'[i] = m \/ batch'[i] = batch[i]
    BY <1>1, <2>4
  <2>7. \A it \in Range(batch') : it = m \/ it \in Range(batch)
    <3>1. \A i \in 1 .. Len(batch) : batch[i] \in Range(batch)
      BY <1>1, SeqRange
    <3>2. Range(batch') = {batch'[i] : i \in 1 .. Len(batch)}
      BY <2>5, SeqRange
    <3> QED BY <2>6, <3>1, <3>2
  <2>8. \A it \in Range(batch') \cup Range(buffer') : Justified(it, Sound, Evidence) \/ Justified(it, Sound', Evidence')
    BY <1>2, <1>5, <2>3, <2>7
  <2>9. /\ RangeSeqs' = RangeSeqs /\ WindowRefused' /\ UNCHANGED <<tripped, discarded>>
        /\ tombstoned \subseteq tombstoned' /\ (tombstoneOverflow => tombstoneOverflow')
    BY <1>5, TombstoneNamed DEF RangeSeqs, rangeVars, WindowRefused, breakerVars
  <2> QED BY <1>1, <2>8, <2>9, PostEvidence
<1> QED BY <1>3, <1>4, <1>5, Zenon DEF NarrowTo

\* Every answer to a post of the bisection: a half that is accepted holds no
\* refused message, a half that is refused for its payload holds one.
LEMMA BisectAnswers ==
  ASSUME IInv, DInv, EInv, pc \in {"bisect", "marker"}, NetworkStep
  PROVE  EInv'
<1> DEFINE rest == From(batch, lo)
           next == From(batch, lo + 1)
<1>1. /\ FlushOK /\ batch \in Seq(Item) /\ buffer \in Seq(Item)
      /\ lo \in Nat /\ hi \in Nat /\ lo < hi /\ hi <= Len(batch) /\ lo < Len(batch)
      /\ lo \in 0 .. Len(batch) /\ lo + 1 \in 0 .. Len(batch) /\ lo + 1 \in 1 .. Len(batch)
      /\ (pc = "bisect" => lo + 1 < hi) /\ pc # "idle"
  BY SMTT(30) DEF IInv, FlushOK
<1>2. \A it \in Range(batch) \cup Range(buffer) : Justified(it, Sound, Evidence)
  BY DEF EInv
<1>3. /\ rest \in Seq(Item) /\ rest \o buffer \in Seq(Item)
      /\ next \in Seq(Item) /\ next \o buffer \in Seq(Item)
      /\ Range(rest \o buffer) \subseteq Range(batch) \cup Range(buffer)
      /\ Range(next \o buffer) \subseteq Range(batch) \cup Range(buffer)
  <2>1. ASSUME NEW n \in 0 .. Len(batch)
        PROVE  /\ From(batch, n) \in Seq(Item) /\ From(batch, n) \o buffer \in Seq(Item)
               /\ Range(From(batch, n) \o buffer) \subseteq Range(batch) \cup Range(buffer)
    <3>1. From(batch, n) \in Seq(Item) /\ Range(From(batch, n)) \subseteq Range(batch)
      BY <1>1, CutType, CutRange
    <3> QED BY <1>1, <3>1, ConcatRange
  <2> QED BY <1>1, <2>1
<1>4. UNCHANGED serverVars => StoredSeqs' = StoredSeqs /\ rows' = rows
  BY DEF serverVars, StoredSeqs, SeqsOf
<1>5. pc = "bisect" =>
        /\ Mid \in Nat /\ lo < Mid /\ Mid < hi
        /\ Half = {batch[i] : i \in lo + 1 .. Mid} /\ Half \subseteq Range(batch)
        /\ SeqsOf(Range(rest)) \subseteq SeqsOf(Half) \cup SeqsOf(Range(From(batch, Mid)))
  <2> SUFFICES ASSUME pc = "bisect"
               PROVE  /\ Mid \in Nat /\ lo < Mid /\ Mid < hi
                      /\ Half = {batch[i] : i \in lo + 1 .. Mid} /\ Half \subseteq Range(batch)
                      /\ SeqsOf(Range(rest)) \subseteq SeqsOf(Half) \cup SeqsOf(Range(From(batch, Mid)))
    OBVIOUS
  <2>1. Mid \in Nat /\ lo < Mid /\ Mid < hi /\ Mid \in 0 .. Len(batch)
    BY <1>1 DEF Mid
  <2>2. Half = {batch[i] : i \in lo + 1 .. Mid}
    BY <1>1, <2>1, SliceIs DEF Half
  <2>3. /\ Range(rest) = {batch[i] : i \in lo + 1 .. Len(batch)}
        /\ Range(From(batch, Mid)) = {batch[i] : i \in Mid + 1 .. Len(batch)}
    BY <1>1, <2>1, FromIs
  <2>4. \A i \in lo + 1 .. Len(batch) : i \in lo + 1 .. Mid \/ i \in Mid + 1 .. Len(batch)
    BY <1>1, <2>1
  <2>5. Range(rest) \subseteq Half \cup Range(From(batch, Mid))
    BY <2>2, <2>3, <2>4
  <2>6. Half \subseteq Range(batch)
    <3>1. \A i \in lo + 1 .. Mid : i \in 1 .. Len(batch)
      BY <1>1, <2>1
    <3> QED BY <1>1, <2>2, <3>1, SeqRange
  <2> HIDE DEF rest
  <2>7. SeqsOf(Range(rest)) \subseteq SeqsOf(Half) \cup SeqsOf(Range(From(batch, Mid)))
    BY <2>5 DEF SeqsOf
  <2> QED BY <2>1, <2>2, <2>6, <2>7
<1>6. pc = "bisect" => \E i \in lo + 1 .. hi : Unstorable(batch[i])
  BY DEF EInv, WindowRefused
<1> HIDE DEF rest, next
<1>7. CASE BisectOk
  <2>1. /\ pc = "bisect" /\ Accepts(Half, generation) /\ AppendMessages(Half, generation)
        /\ NarrowTo(Mid, hi, TRUE) /\ PostFrame
    BY <1>7, Zenon DEF BisectOk
  <2>2. StoredSeqs' = StoredSeqs \cup SeqsOf(Half)
    BY <2>1, AppendStored
  <2>3. rows \subseteq rows' /\ \A r \in rows' \ rows : Justified(r, Sound, Evidence)
    BY <1>2, <1>5, <2>1, RowsJustified, Zenon
  <2>4. \E i \in Mid + 1 .. hi : Unstorable(batch[i])
    <3>1. PICK i \in lo + 1 .. hi : Unstorable(batch[i])
      BY <1>6, <2>1
    <3>2. i \notin lo + 1 .. Mid
      BY <1>5, <2>1, <3>1 DEF Accepts
    <3>3. lo \in Nat /\ Mid \in Nat /\ hi \in Nat
      BY <1>1, <1>5, <2>1, Zenon
    <3>4. i \in Mid + 1 .. hi
      BY ONLY i \in lo + 1 .. hi, <3>2, <3>3
    <3> QED BY <3>1, <3>4
  <2>5. SeqsOf(Range(From(batch, lo))) \subseteq StoredSeqs' \cup SeqsOf(Range(From(batch, Mid)))
    BY <1>5, <2>1, <2>2, Zenon DEF rest
  <2> QED BY <1>1, <1>5, <2>1, <2>2, <2>3, <2>4, <2>5, NarrowToEvidence, Zenon
<1>8. CASE BisectPermanent
  <2>1. /\ pc = "bisect" /\ SaysPermanent(Half) /\ NarrowTo(lo, Mid, progressed) /\ PostFrame
        /\ StoredSeqs' = StoredSeqs /\ rows' = rows
    BY <1>4, <1>8 DEF BisectPermanent
  <2>2. \E i \in lo + 1 .. Mid : Unstorable(batch[i])
    BY <1>5, <2>1, Zenon DEF SaysPermanent
  <2>3. Mid <= Len(batch)
    BY <1>1, <1>5, <2>1
  <2> QED BY <1>1, <1>5, <2>1, <2>2, <2>3, NarrowToEvidence, Zenon
<1>9. ASSUME NEW S, S \subseteq Range(batch), TransientFailure(S, generation) \/ UNCHANGED serverVars,
             NEW n \in 0 .. Len(batch), NEW moved, AfterBisect(From(batch, n), moved),
             Range(From(batch, n) \o buffer) \subseteq Range(batch) \cup Range(buffer),
             From(batch, n) \o buffer \in Seq(Item), PostFrame, UNCHANGED <<tombstoneVars, discarded>>
      PROVE  EInv'
  <2> DEFINE buf == From(batch, n) \o buffer
  <2>1. /\ TurnItems(buf)
        /\ \/ UNCHANGED breakerVars
           \/ Trip(batch[1].seq) /\ pc' = "idle" /\ UNCHANGED <<rangeFirst, rangeLast>>
    BY <1>1, <1>9, AfterBisectItems
  <2>2. \A it \in Range(buf) : Justified(it, Sound, Evidence)
    BY <1>2, <1>9
  <2> HIDE DEF buf
  <2>3. rows \subseteq rows' /\ \A r \in rows' \ rows : Justified(r, Sound, Evidence)
    <3>1. \A it \in S : Justified(it, Sound, Evidence)
      BY <1>2, <1>9
    <3> QED BY <1>9, <3>1, FailedRowsJustified
  <2>4. UNCHANGED <<tripped, discarded>> \/ TripReports
    <3>1. CASE UNCHANGED breakerVars
      BY <1>9, <3>1 DEF breakerVars
    <3>2. CASE Trip(batch[1].seq) /\ pc' = "idle" /\ UNCHANGED <<rangeFirst, rangeLast>>
      <4>1. StoredSeqs \subseteq StoredSeqs'
        BY <1>9, TransientStored
      <4>2. SeqsOf(Range(From(batch, lo))) \subseteq StoredSeqs' \cup SeqsOf(Range(From(batch, 0)))
        <5>1. Range(From(batch, lo)) \subseteq Range(From(batch, 0))
          BY <1>1, CutRange, FromZero
        <5> QED BY <5>1 DEF SeqsOf
      <4>3. Trip(batch[0 + 1].seq) /\ 0 < Len(batch)
        BY <1>1, <3>2
      <4> QED BY <1>1, <1>9, <3>2, <4>1, <4>2, <4>3, HeadTrips, SMTT(30)
    <3> QED BY <2>1, <3>1, <3>2
  <2>5. UNCHANGED <<tombstoned, tombstoneOverflow>>
    BY <1>9 DEF tombstoneVars
  <2> QED BY <1>1, <1>9, <2>1, <2>2, <2>3, <2>4, <2>5, TurnEvidence
<1>10. {batch[lo + 1]} \subseteq Range(batch)
  BY <1>1, SeqRange
<1>11. CASE BisectAbandoned
  BY <1>1, <1>3, <1>5, <1>9, <1>11, Zenon DEF BisectAbandoned, rest
<1>12. CASE MarkerTransient
  BY <1>1, <1>3, <1>9, <1>10, <1>12, Zenon DEF MarkerTransient, rest
<1>13. CASE MarkerOk
  BY <1>1, <1>3, <1>9, <1>10, <1>13, Zenon DEF MarkerOk, next, TransientFailure
<1>14. CASE BisectFatal \/ MarkerRefused
  <2>1. /\ PostFrame /\ StoredSeqs' = StoredSeqs /\ rows' = rows /\ Trip(batch[lo + 1].seq)
        /\ StopFlush(buffer, splitLimit, TRUE) /\ UNCHANGED <<tombstoned, tombstoneOverflow>>
    BY <1>4, <1>14, Zenon DEF BisectFatal, MarkerRefused, tombstoneVars
  <2>2. TurnItems(buffer) /\ pc' = "idle" /\ UNCHANGED <<rangeFirst, rangeLast>>
    BY <2>1, StopFlushItems, Zenon
  <2>3. TripReports
    BY <1>1, <2>1, <2>2, HeadTrips
  <2> QED BY <1>1, <1>2, <2>1, <2>2, <2>3, TurnEvidence
<1> QED
  BY <1>7, <1>8, <1>11, <1>12, <1>13, <1>14, Zenon
  DEF NetworkStep, PostOk, PostAborted, PostTransient, PostMarkerRefused, PostFatal, PostOversizeSplit,
      PostOversizeOne, PostPermanentOne, PostPermanentMany

\* The network steps together.
LEMMA NetworkEvidence ==
  ASSUME IInv, DInv, EInv, NetworkStep
  PROVE  EInv'
<1>1. pc \in {"post", "bisect", "marker"}
  BY Zenon DEF NetworkStep, PostOk, PostAborted, PostTransient, PostMarkerRefused, PostFatal,
         PostOversizeSplit, PostOversizeOne, PostPermanentOne, PostPermanentMany, BisectOk,
         BisectPermanent, BisectAbandoned, BisectFatal, MarkerOk, MarkerTransient, MarkerRefused
<1> QED BY <1>1, PostAnswers, BisectAnswers

-----------------------------------------------------------------------------
(* emit and the steps that start a flush                                    *)

\* emit() records the seq of a message it replaces or drops, and the seqs a
\* widened range comes to cover are shadowed.
LEMMA EmitEvidence ==
  ASSUME IInv, DInv, EInv, Emit
  PROVE  EInv'
<1>1. /\ seq \in Nat /\ buffer \in Seq(Item) /\ rangeFirst \in Nat /\ rangeLast \in Nat /\ rangeLast <= seq
      /\ rangeFirst # 0 => rangeFirst <= rangeLast
  BY DEF IInv, FlushOK, IdsOK, WriteOK
<1>2. /\ UNCHANGED <<rows, records, base, generation, batch, pc, lo, hi, tripped, tripSeq>>
      /\ UNCHANGED <<journalOnly, journalOnlyOverflow, discarded, forgotten>> /\ ~closed
  BY DEF Emit, EmitKept, EmitFolded, serverVars, outboxVars, windowVars, breakerVars, journalVars, historyVars
<1>3. WindowRefused' /\ (tripped' => pc' = "idle") /\ (~tripped' => discarded' = {})
  BY <1>2 DEF EInv, WindowRefused
<1>4. StoredSeqs' = StoredSeqs /\ JournaledSeqs' = JournaledSeqs
  BY <1>2 DEF StoredSeqs, SeqsOf, JournaledSeqs, OwnRecords, RecordSeqs
<1>5. \A it \in Range(batch) \cup Range(buffer) : Justified(it, Sound, Evidence)
  BY DEF EInv
<1>6. CASE EmitKept
  <2>1. PICK c \in EmitClasses :
          /\ buffer' = Append(buffer, Emitted(c))
          /\ IF c = "huge" THEN RecordTombstone(seq + 1) ELSE UNCHANGED tombstoneVars
    BY <1>6 DEF EmitKept
  <2>2. /\ tombstoned \subseteq tombstoned' /\ (tombstoneOverflow => tombstoneOverflow')
        /\ c = "huge" => seq + 1 \in tombstoned' \/ tombstoneOverflow'
    BY <2>1, TombstoneNamed, Zenon DEF tombstoneVars
  <2>3. RangeSeqs' = RangeSeqs /\ shadowed' = shadowed
    BY <1>6 DEF EmitKept, rangeVars, historyVars, RangeSeqs
  <2>4. Grows
    BY <1>2, <2>2, <2>3 DEF Grows, Sound, Gone, Evidence
  <2>5. Emitted(c) \in Item /\ Emitted(c).seq = seq + 1 /\ Emitted(c).class = c /\ (Emitted(c).tombstoned <=> c = "huge")
    <3>1. c \in Class /\ seq + 1 \in Nat \ {0} /\ (c = "huge") \in BOOLEAN
      BY <1>1, BatcherAssumption
    <3>2. Emitted(c) \in Item
      BY <3>1, Zenon DEF Emitted, Item
    <3>3. Emitted(c).seq = seq + 1 /\ Emitted(c).class = c /\ (Emitted(c).tombstoned <=> c = "huge")
      BY Zenon DEF Emitted
    <3> QED BY <3>2, <3>3
  <2>6. Justified(Emitted(c), Sound', Evidence')
    BY <2>2, <2>5 DEF Justified, Sound, Evidence
  <2>7. Range(buffer') = Range(buffer) \cup {Emitted(c)}
    BY <1>1, <2>1, <2>5, AppendRange
  <2>8. \A it \in Range(batch') \cup Range(buffer') \cup (rows' \ rows) :
          Justified(it, Sound, Evidence) \/ Justified(it, Sound', Evidence')
    BY <1>2, <1>5, <2>6, <2>7
  <2>9. Sound' => RangeSeqs' \cup forgotten' \subseteq Evidence'
    BY <1>2, <2>3, <2>4 DEF EInv, Grows
  <2>10. TripReportTrue'
    BY <1>2, <1>4, <2>3, ReportKept DEF EInv
  <2> QED BY <1>2, <1>3, <2>4, <2>8, <2>9, <2>10, StepEvidence
<1>7. CASE EmitFolded
  <2>1. /\ RecordTombstone(seq + 1) /\ buffer' = buffer
        /\ rangeLast' = seq + 1 /\ rangeFirst' = IF rangeFirst = 0 THEN seq + 1 ELSE rangeFirst
        /\ shadowed' = IF rangeFirst = 0 THEN shadowed ELSE shadowed \cup (rangeLast + 1 .. seq)
    BY <1>7 DEF EmitFolded, FoldIntoPendingRange
  <2>2. /\ tombstoned \subseteq tombstoned' /\ (tombstoneOverflow => tombstoneOverflow')
        /\ seq + 1 \in tombstoned' \/ tombstoneOverflow'
    BY <2>1, TombstoneNamed
  <2>3. Grows
    BY <1>2, <2>1, <2>2 DEF Grows, Sound, Gone, Evidence
  <2>4. /\ RangeSeqs \subseteq RangeSeqs'
        /\ RangeSeqs' \subseteq RangeSeqs \cup shadowed' \cup {seq + 1}
    <3>1. CASE rangeFirst = 0
      BY <1>1, <2>1, <3>1, SMTT(30) DEF RangeSeqs
    <3>2. CASE rangeFirst # 0
      <4>1. /\ RangeSeqs = rangeFirst .. rangeLast /\ RangeSeqs' = rangeFirst .. seq + 1
            /\ shadowed' = shadowed \cup (rangeLast + 1 .. seq)
        BY <2>1, <3>2 DEF RangeSeqs
      <4>2. /\ rangeFirst .. rangeLast \subseteq rangeFirst .. seq + 1
            /\ rangeFirst .. seq + 1 \subseteq (rangeFirst .. rangeLast) \cup (rangeLast + 1 .. seq) \cup {seq + 1}
        BY <1>1, SMTT(30)
      <4> QED BY <4>1, <4>2
    <3> QED BY <3>1, <3>2
  <2>5. \A it \in Range(batch') \cup Range(buffer') \cup (rows' \ rows) :
          Justified(it, Sound, Evidence) \/ Justified(it, Sound', Evidence')
    BY <1>2, <1>5, <2>1
  <2>6. Sound' => RangeSeqs' \cup forgotten' \subseteq Evidence'
    <3>1. Sound' => RangeSeqs \cup forgotten \subseteq Evidence'
      BY <2>3 DEF EInv, Grows
    <3>2. Sound' => seq + 1 \in Evidence'
      BY <2>2 DEF Sound, Evidence
    <3>3. shadowed' \subseteq Evidence'
      BY DEF Evidence
    <3> QED BY <1>2, <2>4, <3>1, <3>2, <3>3
  <2>7. TripReportTrue'
    BY <1>2, <1>4, <2>4, ReportKept DEF EInv
  <2> QED BY <1>2, <1>3, <2>3, <2>5, <2>6, <2>7, StepEvidence
<1> QED BY <1>6, <1>7 DEF Emit

\* A step that changes neither the messages in hand, the rows, the records nor
\* what is said of them.
LEMMA QuietEvidence ==
  ASSUME EInv, UNCHANGED <<seq, base, generation, closed, rows, records, buffer, batch, rangeFirst, rangeLast>>,
         UNCHANGED <<pc, lo, hi, tripped, tripSeq, tombstoned, tombstoneOverflow>>,
         UNCHANGED <<journalOnly, journalOnlyOverflow, discarded, forgotten, shadowed>>
  PROVE  EInv'
<1>1. Sound' = Sound /\ Evidence' = Evidence /\ RangeSeqs' = RangeSeqs
  BY DEF Sound, Gone, Evidence, RangeSeqs
<1>2. StoredSeqs' = StoredSeqs /\ JournaledSeqs' = JournaledSeqs
  BY DEF StoredSeqs, SeqsOf, JournaledSeqs, OwnRecords, RecordSeqs
<1>3. Grows
  BY <1>1 DEF Grows
<1>4. WindowRefused' /\ TripReportTrue'
  BY <1>1, <1>2, ReportKept DEF EInv, WindowRefused
<1>5. \A it \in Range(batch') \cup Range(buffer') \cup (rows' \ rows) : Justified(it, Sound, Evidence)
  BY DEF EInv
<1> QED BY <1>1, <1>3, <1>4, <1>5, StepEvidence, Zenon DEF EInv

\* Starting a flush moves messages into the batch, or nothing.
LEMMA StartFlushEvidence ==
  ASSUME IInv, EInv, StartFlush, FlushFrame, closed' = closed
  PROVE  EInv'
<1>1. FlushOK /\ splitLimit \in Nat /\ pc = "idle" /\ buffer \in Seq(Item) /\ HasWork(buffer) /\ ~tripped
  BY DEF IInv, FlushOK, StartFlush, FlushMayStart
<1>2. /\ UNCHANGED <<seq, base, generation, rows, records, tripped, tripSeq, tombstoned, tombstoneOverflow>>
      /\ UNCHANGED <<journalOnly, journalOnlyOverflow, discarded, forgotten, shadowed>>
  BY DEF FlushFrame, serverVars, outboxVars, idVars, breakerVars, evidenceVars, historyVars
<1>3. Grows /\ Sound' = Sound /\ Evidence' = Evidence
  BY <1>2 DEF Grows, Sound, Gone, Evidence
<1>4. /\ \A it \in Range(batch') \cup Range(buffer') : Justified(it, Sound, Evidence)
      /\ RangeSeqs' \subseteq RangeSeqs /\ pc' # "bisect"
  <2>1. CASE spilled
    <3>1. pc' = "mark" /\ UNCHANGED <<buffer, batch, rangeFirst, rangeLast>>
      BY <2>1 DEF StartFlush, rangeVars
    <3> QED BY <3>1 DEF EInv, RangeSeqs
  <2>2. CASE ~spilled
    <3>1. TurnItems(buffer)
      BY <1>1, <2>2, SendNextItems DEF StartFlush
    <3>2. \A it \in Range(buffer) : Justified(it, Sound, Evidence)
      BY DEF EInv
    <3> QED BY <1>3, <3>1, <3>2, TurnJustified DEF TurnItems
  <2> QED BY <2>1, <2>2
<1>5. WindowRefused' /\ TripReportTrue'
  BY <1>1, <1>2, <1>4 DEF WindowRefused, TripReportTrue
<1>6. Sound' => RangeSeqs' \cup forgotten' \subseteq Evidence'
  BY <1>2, <1>3, <1>4 DEF EInv
<1> QED BY <1>1, <1>2, <1>3, <1>4, <1>5, <1>6, StepEvidence, Zenon DEF EInv

\* The batch timer, flush() and the abort.
LEMMA ScheduleEvidence ==
  ASSUME IInv, EInv, TimerFires \/ Flush \/ AbortFlush
  PROVE  EInv'
<1>1. FlushFrame /\ closed' = closed
  BY DEF TimerFires, Flush, AbortFlush, closeVars
<1>2. CASE StartFlush
  BY <1>1, <1>2, StartFlushEvidence
<1>3. CASE UNCHANGED <<buffer, batch, rangeVars, pc, windowVars, splitLimit>>
  BY <1>1, <1>3, QuietEvidence
  DEF FlushFrame, serverVars, outboxVars, idVars, breakerVars, evidenceVars, historyVars, rangeVars, windowVars
<1> QED BY <1>2, <1>3 DEF TimerFires, Flush, AbortFlush

-----------------------------------------------------------------------------
(* The outbox's records                                                     *)

\* What follows a part of an ordered sequence is above the last seq of the part.
LEMMA OrderedAcross ==
  ASSUME NEW s \in Seq(Item), NEW t \in Seq(Item), NEW m, Ordered(s \o t, m), s # <<>>
  PROVE  \A x \in SeqsOf(Range(t)) : x \notin s[1].seq .. s[Len(s)].seq
<1> DEFINE u == s \o t
<1>1. /\ u \in Seq(Item) /\ Len(u) = Len(s) + Len(t)
      /\ \A i \in 1 .. Len(s) : u[i] = s[i]
      /\ \A i \in 1 .. Len(t) : u[Len(s) + i] = t[i]
  BY ConcatRange
<1>2. Ordered(u, m)
  OBVIOUS
<1> HIDE DEF u
<1>3. Len(s) \in 1 .. Len(s) /\ Len(s) \in 1 .. Len(u)
  BY <1>1
<1>4. \A i \in 1 .. Len(t) : Len(s) + i \in 1 .. Len(u) /\ Len(s) < Len(s) + i
  BY <1>1
<1>5. \A i \in 1 .. Len(t) : s[Len(s)].seq < t[i].seq
  BY <1>1, <1>2, <1>3, <1>4 DEF Ordered
<1>6. s[1].seq \in Nat /\ s[Len(s)].seq \in Nat /\ \A i \in 1 .. Len(t) : t[i].seq \in Nat
  BY <1>3, ItemAt
<1>7. \A i \in 1 .. Len(t) : t[i].seq \notin s[1].seq .. s[Len(s)].seq
  BY <1>5, <1>6
<1> QED BY <1>7, SeqRange DEF SeqsOf

\* Every record is an old one, or accounted for.
RecordsAccounted ==
  \A rec \in records' : rec \in records \/ Accounted(rec, Sound' /\ rec.gen = generation', Known')

\* The range an eviction leaves is accounted for as its segment was.
LEMMA EvictAccounted ==
  ASSUME EInv, Grows, NEW E \in Evictable, NEW rec \in EvictSegments(E)
  PROVE  rec \in records \/ Accounted(rec, Sound' /\ rec.gen = generation', Known')
<1>1. CASE rec \in records
  BY <1>1
<1>2. CASE rec \in {RangeRecord(old.firstSeq, old.lastSeq, old.gen) : old \in E}
  <2>1. PICK old \in E : rec = RangeRecord(old.firstSeq, old.lastSeq, old.gen)
    BY <1>2
  <2>2. old \in records
    BY DEF Evictable, Segments
  <2>3. rec.items = {} /\ rec.firstSeq = old.firstSeq /\ rec.lastSeq = old.lastSeq /\ rec.gen = old.gen
    BY <2>1 DEF RangeRecord
  <2>4. Accounted(rec, Sound /\ rec.gen = generation, Known)
    BY <2>2, <2>3 DEF EInv, Accounted
  <2> QED BY <2>4, AccountedGrows
<1> QED BY <1>1, <1>2 DEF EvictSegments

\* A range record over the pending range is accounted for.
LEMMA RangeAccounted ==
  ASSUME EInv, Grows, NEW first, NEW last, first .. last \subseteq RangeSeqs,
         AppendRangeRecord(first, last, generation)
  PROVE  RecordsAccounted
<1> DEFINE new == RangeRecord(first, last, generation)
<1>1. records' = records \cup {new}
  BY DEF AppendRangeRecord
<1>2. new.items = {} /\ new.firstSeq = first /\ new.lastSeq = last
  BY DEF RangeRecord
<1> HIDE DEF new
<1>3. Accounted(new, Sound /\ new.gen = generation, Known)
  BY <1>2 DEF EInv, Accounted, Known
<1> QED BY <1>1, <1>3, AccountedGrows DEF RecordsAccounted

\* A segment written from the head of what is in hand is accounted for: its
\* messages are recorded, the seqs between them were dropped, stored or
\* journaled before, and none is still waiting behind it.
LEMMA SegmentAccounted ==
  ASSUME IInv, DInv, EInv, Fenced, Grows, lo = 0, NEW p \in Seq(Item), NEW q \in Seq(Item), p # <<>>,
         p \o q = batch \o buffer, RecordJournalOnly(p),
         AppendSegment(Range(p), p[1].seq, p[Len(p)].seq, generation)
  PROVE  RecordsAccounted
<1> DEFINE first == p[1].seq
           last == p[Len(p)].seq
           new == Segment(Range(p), first, last, generation)
<1>1. PICK E \in Evictable : records' = EvictSegments(E) \cup {new}
  BY DEF AppendSegment
<1>2. new.items = Range(p) /\ new.firstSeq = first /\ new.lastSeq = last
  BY DEF Segment
<1> HIDE DEF new
<1>3. batch \in Seq(Item) /\ buffer \in Seq(Item) /\ seq \in Nat /\ base \in Nat
  BY DEF IInv, FlushOK, IdsOK
<1>4. Ordered(p \o q, seq) /\ Ordered(p, seq)
  <2>1. Ordered(p \o q, seq)
    BY DEF DInv
  <2> QED BY <2>1, OrderedParts, Zenon
<1>5. Range(p) \subseteq Range(batch) \cup Range(buffer)
  <2>1. Range(p \o q) = Range(p) \cup Range(q)
    BY ConcatRange, Zenon
  <2>2. Range(batch \o buffer) = Range(batch) \cup Range(buffer)
    BY <1>3, ConcatRange
  <2> QED BY <2>1, <2>2
<1>6. \A it \in new.items : it.tombstoned => it.class # "clean"
  BY <1>2, <1>5 DEF EInv, Justified
<1>7. first .. last \subseteq Assigned
  <2>1. 1 \in 1 .. Len(p) /\ Len(p) \in 1 .. Len(p)
    OBVIOUS
  <2>2. first \in Nat /\ last \in Nat /\ last <= seq
    BY <1>4, <2>1, ItemAt DEF Ordered
  <2>3. first > base
    <3>1. p[1] \in Range(p)
      BY <2>1, SeqRange
    <3> QED BY <1>5, <3>1 DEF Fenced
  <2> HIDE DEF first, last
  <2> QED BY <1>3, <2>2, <2>3 DEF Assigned
<1>8. InMemory = SeqsOf(Range(p)) \cup SeqsOf(Range(q)) \cup RangeSeqs
  BY <1>3, MemoryAtRest, SeqsConcat, Zenon
<1>9. \A x \in SeqsOf(Range(q)) : x \notin first .. last
  BY <1>4, OrderedAcross, Zenon
<1> HIDE DEF first, last
<1>10. ASSUME Sound' PROVE first .. last \subseteq Known'
  <2>1. Sound /\ Known \subseteq Known'
    BY <1>10, KnownGrows DEF Grows
  <2>2. Assigned \subseteq InMemory \cup Known /\ RangeSeqs \subseteq Known
    BY <2>1, AssignedKnown, Zenon DEF EInv, Known
  <2>3. SeqsOf(Range(p)) \subseteq Known'
    BY <1>10, JournalNamed DEF Sound, Known, Evidence
  <2> QED BY <1>7, <1>8, <1>9, <2>1, <2>2, <2>3
<1>11. Accounted(new, Sound' /\ new.gen = generation', Known')
  BY <1>2, <1>6, <1>10 DEF Accounted
<1> QED BY <1>1, <1>11, EvictAccounted DEF RecordsAccounted
=============================================================================
