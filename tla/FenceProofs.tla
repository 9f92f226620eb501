------------------------------ MODULE FenceProofs ------------------------------
(***************************************************************************)
(* Proofs about the message path across crashes and re-claims, for every    *)
(* value of the constants: the generation fence, and that the transcript is *)
(* a RunLog. They rest on IInv and DInv, which crash and re-claim preserve. *)
(***************************************************************************)
EXTENDS MessagePath, DeliveryProofs

-----------------------------------------------------------------------------
(* The inductive invariant. What a worker holds, in memory or in records of *)
(* its own claim, lies above the seq its claim started from; records of     *)
(* earlier claims are older than the live generation; last_seq is the       *)
(* highest row.                                                             *)

Held == SeqsOf(Range(batch)) \cup SeqsOf(Range(buffer)) \cup RangeSeqs
Above(S) == \A s \in S : s > base
Distinct(S) == \A a, b \in S : a.seq = b.seq => a = b

OwnAbove(rec) == rec.gen = generation => rec.firstSeq > base /\ Above(SeqsOf(rec.items))

RecordsFenced == \A rec \in records : rec.gen <= generation /\ Distinct(rec.items) /\ OwnAbove(rec)

Watermark ==
  /\ \A r \in rows : r.seq <= lastSeq
  /\ lastSeq # 0 => lastSeq \in StoredSeqs

FInv ==
  /\ generation <= claimGen
  /\ base <= seq
  /\ Above(Held)
  /\ RecordsFenced
  /\ Watermark
  /\ FenceSound

-----------------------------------------------------------------------------
(* What a step of the batcher, the outbox or the drainer may do to the      *)
(* api's tables and to the manifest.                                        *)

\* The live claim appends messages of its own, each seq once.
Appends ==
  /\ generation = claimGen
  /\ \E S \in SUBSET Item : Distinct(S) /\ Above(SeqsOf(S)) /\ AppendMessages(S, generation)

\* A record that is new belongs to this claim, or is an old one turned into its range.
RecordsStep ==
  \A rec \in records' :
    \/ rec \in records
    \/ \E old \in records : rec = RangeRecord(old.firstSeq, old.lastSeq, old.gen)
    \/ rec.gen = generation /\ rec.firstSeq > base /\ Above(SeqsOf(rec.items)) /\ Distinct(rec.items)

ServerStep == UNCHANGED serverVars \/ Appends \/ LoseClaim

FencedStep ==
  /\ UNCHANGED <<base, generation>> /\ seq' \in Nat /\ seq <= seq'
  /\ Above(Held')
  /\ ServerStep
  /\ RecordsStep

\* After an append every row is an old one or a new one of the appended messages.
LEMMA AppendedRows ==
  ASSUME NEW S \in SUBSET Item, NEW gen, AppendMessages(S, gen)
  PROVE  /\ rows \subseteq rows'
         /\ \A r \in rows' \ rows :
              \E it \in S : /\ it.seq \notin StoredSeqs
                            /\ r = [seq |-> it.seq, class |-> it.class, tombstoned |-> it.tombstoned,
                                    gen |-> gen]
BY DEF AppendMessages, InsertRunMessage

\* An append moves last_seq to the highest seq stored.
LEMMA AppendedWatermark ==
  ASSUME ServerOK, Watermark, NEW S \in SUBSET Item, NEW gen, AppendMessages(S, gen)
  PROVE  Watermark'
<1>1. /\ lastSeq' \in {lastSeq} \cup SeqsOf(S)
      /\ \A m \in {lastSeq} \cup SeqsOf(S) : m <= lastSeq'
  BY DEF AppendMessages, UpdateRunLastSeq
<1>2. StoredSeqs' = StoredSeqs \cup SeqsOf(S)
  BY AppendStored
<1>3. SeqsOf(S) \subseteq Nat /\ lastSeq \in Nat /\ lastSeq' \in Nat /\ StoredSeqs \subseteq Nat
  BY <1>1 DEF ServerOK, SeqsOf, Item, Row, StoredSeqs
<1>4. \A s \in StoredSeqs : s <= lastSeq
  BY DEF Watermark, StoredSeqs, SeqsOf
<1>5. \A s \in StoredSeqs' : s <= lastSeq'
  BY <1>1, <1>2, <1>3, <1>4
<1>6. \A r \in rows' : r.seq <= lastSeq'
  BY <1>5 DEF StoredSeqs, SeqsOf
<1>7. lastSeq' # 0 => lastSeq' \in StoredSeqs'
  BY <1>1, <1>2 DEF Watermark
<1> QED BY <1>6, <1>7 DEF Watermark

\* A step of that shape preserves the invariant.
LEMMA FencedFrame ==
  ASSUME IInv, FInv, FencedStep
  PROVE  FInv'
<1>1. /\ generation \in Nat /\ base \in Nat /\ seq \in Nat /\ claimGen \in Nat
      /\ base' = base /\ generation' = generation /\ ServerOK
  BY DEF IInv, IdsOK, ServerOK, FencedStep
<1>2. generation' <= claimGen'
  BY <1>1 DEF FInv, FencedStep, ServerStep, serverVars, Appends, AppendMessages, LoseClaim
<1>3. base' <= seq'
  BY <1>1 DEF FInv, FencedStep
<1>4. Above(Held)'
  BY <1>1 DEF FencedStep, Above
<1>5. RecordsFenced'
  <2> SUFFICES ASSUME NEW rec \in records'
               PROVE  /\ rec.gen <= generation /\ Distinct(rec.items)
                      /\ rec.gen = generation => rec.firstSeq > base /\ Above(SeqsOf(rec.items))
    BY <1>1 DEF RecordsFenced, OwnAbove, Above, Distinct
  <2>1. CASE rec \in records
    BY <2>1 DEF FInv, RecordsFenced, OwnAbove
  <2>2. CASE \E old \in records : rec = RangeRecord(old.firstSeq, old.lastSeq, old.gen)
    <3>1. PICK old \in records : rec = RangeRecord(old.firstSeq, old.lastSeq, old.gen)
      BY <2>2
    <3>2. rec.gen = old.gen /\ rec.firstSeq = old.firstSeq /\ rec.items = {}
      BY <3>1 DEF RangeRecord
    <3> QED BY <3>2 DEF FInv, RecordsFenced, OwnAbove, Distinct, Above, SeqsOf
  <2>3. CASE rec.gen = generation /\ rec.firstSeq > base /\ Above(SeqsOf(rec.items)) /\ Distinct(rec.items)
    BY <2>3, <1>1
  <2> QED BY <2>1, <2>2, <2>3 DEF FencedStep, RecordsStep
<1>6. CASE UNCHANGED <<rows, lastSeq>>
  <2>1. Watermark' /\ FenceSound'
    BY <1>1, <1>6 DEF FInv, Watermark, FenceSound, StoredSeqs, SeqsOf
  <2> QED BY <1>2, <1>3, <1>4, <1>5, <2>1 DEF FInv
<1>7. CASE Appends
  <2>1. PICK S \in SUBSET Item : AppendMessages(S, generation)
    BY <1>7 DEF Appends
  <2>2. Watermark'
    BY <1>1, <2>1, AppendedWatermark DEF FInv
  <2>3. FenceSound'
    <3>1. \A r \in rows' \ rows : r.gen = generation
      BY <2>1, AppendedRows
    <3> QED BY <1>1, <3>1 DEF FInv, FenceSound
  <2> QED BY <1>2, <1>3, <1>4, <1>5, <2>2, <2>3 DEF FInv
<1> QED BY <1>6, <1>7 DEF FencedStep, ServerStep, serverVars, LoseClaim

-----------------------------------------------------------------------------
(* A turn of the flush loop that starts from buf holds nothing new          *)

TurnHolds(buf) == Held' \subseteq SeqsOf(Range(buf)) \cup RangeSeqs

\* The empty sequence holds nothing.
LEMMA EmptyHolds == <<>> \in Seq(Item) /\ SeqsOf(Range(<<>>)) = {}
<1>1. <<>> \in Seq(Item) /\ DOMAIN <<>> = {}
  OBVIOUS
<1>2. Range(<<>>) = {}
  BY <1>1 DEF Range
<1> QED BY <1>1, <1>2 DEF SeqsOf

\* Batch and buffer that make up buf, with no more of the range than before.
LEMMA PartsHold ==
  ASSUME NEW buf, batch' \in Seq(Item), buffer' \in Seq(Item), batch' \o buffer' = buf,
         RangeSeqs' \subseteq RangeSeqs
  PROVE  TurnHolds(buf)
<1>1. SeqsOf(Range(buf)) = SeqsOf(Range(batch')) \cup SeqsOf(Range(buffer'))
  BY SeqsConcat, Zenon
<1> QED BY <1>1 DEF TurnHolds, Held

\* A chunk refilled from the pending range is part of it.
LEMMA ChunkHolds ==
  ASSUME rangeFirst \in Nat \ {0}, rangeLast \in Nat, rangeFirst <= rangeLast,
         RefillPendingRangeChunk
  PROVE  /\ SeqsOf(Range(RangeChunk)) \subseteq RangeSeqs
         /\ RangeSeqs' \subseteq RangeSeqs
<1>1. /\ RangeChunkEnd \in Nat /\ rangeFirst <= RangeChunkEnd /\ RangeChunkEnd <= rangeLast
      /\ RangeChunk \in Seq(Item) /\ Len(RangeChunk) = RangeChunkEnd - rangeFirst + 1
      /\ \A i \in 1 .. Len(RangeChunk) : RangeChunk[i].seq = rangeFirst + i - 1
  BY RangeChunkOK
<1> DEFINE c == RangeChunk
           e == RangeChunkEnd
<1>2. c \in Seq(Item) /\ SeqsOf(Range(c)) = {c[i].seq : i \in 1 .. Len(c)}
  BY <1>1, SeqRange DEF SeqsOf
<1>3. RangeSeqs = rangeFirst .. rangeLast
  BY DEF RangeSeqs
<1>4. RangeSeqs' \subseteq RangeSeqs
  <2>1. CASE e >= rangeLast
    BY <2>1 DEF RefillPendingRangeChunk, RangeSeqs
  <2>2. CASE ~(e >= rangeLast)
    <3>1. rangeFirst' = e + 1 /\ rangeLast' = rangeLast
      BY <2>2 DEF RefillPendingRangeChunk
    <3> HIDE DEF e
    <3>2. RangeSeqs' = e + 1 .. rangeLast
      BY <3>1, <1>1 DEF RangeSeqs, e
    <3> QED BY <3>2, <1>1, <1>3 DEF e
  <2> QED BY <2>1, <2>2
<1> HIDE DEF c, e
<1>5. \A i \in 1 .. Len(c) : c[i].seq \in rangeFirst .. rangeLast
  BY <1>1 DEF c, e
<1> QED BY <1>2, <1>3, <1>4, <1>5 DEF c

\* The next turn of doFlush posts a prefix of the buffer or a chunk of the range.
LEMMA SendNextHolds ==
  ASSUME FlushOK, NEW buf \in Seq(Item), NEW limit \in Nat, HasWork(buf), SendNext(buf, limit)
  PROVE  TurnHolds(buf)
<1>1. CASE TakePrefix(buf, limit) /\ UNCHANGED rangeVars
  <2>1. batch' \in Seq(Item) /\ buffer' \in Seq(Item) /\ batch' \o buffer' = buf
    BY <1>1, TakePrefixKeeps
  <2>2. RangeSeqs' = RangeSeqs
    BY <1>1 DEF RangeSeqs, rangeVars
  <2> QED BY <2>1, <2>2, PartsHold
<1>2. CASE buf = <<>> /\ RefillPendingRangeChunk /\ TakePrefix(RangeChunk, limit)
  <2>1. rangeFirst \in Nat \ {0} /\ rangeLast \in Nat /\ rangeFirst <= rangeLast
    BY <1>2 DEF HasWork, FlushOK
  <2>2. RangeChunk \in Seq(Item)
    BY <2>1, RangeChunkOK
  <2>3. batch' \in Seq(Item) /\ buffer' \in Seq(Item) /\ batch' \o buffer' = RangeChunk
    BY <1>2, <2>2, TakePrefixKeeps
  <2>4. SeqsOf(Range(RangeChunk)) \subseteq RangeSeqs /\ RangeSeqs' \subseteq RangeSeqs
    BY <1>2, <2>1, ChunkHolds
  <2>5. TurnHolds(RangeChunk)
    BY <2>3, <2>4, PartsHold
  <2> QED BY <2>4, <2>5 DEF TurnHolds
<1> QED BY <1>1, <1>2 DEF SendNext

\* Ending a flush leaves buf and the range.
LEMMA RestHolds ==
  ASSUME NEW buf, buffer' = buf, batch' = <<>>, UNCHANGED rangeVars
  PROVE  TurnHolds(buf)
BY EmptyHolds DEF TurnHolds, Held, RangeSeqs, rangeVars

\* So does leaving doFlush by its finally block,
LEMMA StopFlushHolds ==
  ASSUME NEW buf, NEW limit, NEW tripping, StopFlush(buf, limit, tripping)
  PROVE  TurnHolds(buf)
BY RestHolds DEF StopFlush

\* going round the loop,
LEMMA NextTurnHolds ==
  ASSUME FlushOK, NEW buf \in Seq(Item), NEW limit \in Nat, NextTurn(buf, limit)
  PROVE  TurnHolds(buf)
BY SendNextHolds, StopFlushHolds, Zenon DEF NextTurn

\* noting a transient failure,
LEMMA NoteTransientFailureHolds ==
  ASSUME NEW buf, NEW s, NoteTransientFailure(buf, s)
  PROVE  TurnHolds(buf)
BY StopFlushHolds, RestHolds, Zenon DEF NoteTransientFailure

\* and the end of a bisection.
LEMMA AfterBisectHolds ==
  ASSUME FlushOK, NEW rest, rest \o buffer \in Seq(Item), NEW moved, AfterBisect(rest, moved)
  PROVE  TurnHolds(rest \o buffer)
<1> DEFINE buf == rest \o buffer
<1>1. buf \in Seq(Item) /\ splitLimit \in Nat
  BY DEF FlushOK
<1>2. NextTurn(buf, splitLimit) \/ NoteTransientFailure(buf, batch[1].seq)
  BY DEF AfterBisect
<1> HIDE DEF buf
<1>3. TurnHolds(buf)
  BY <1>1, <1>2, NextTurnHolds, NoteTransientFailureHolds
<1> QED BY <1>3 DEF buf

\* The bisection holds what it held, with one message replaced by its marker.
LEMMA NarrowToHolds ==
  ASSUME FlushOK, NEW l \in Nat, NEW h \in Nat, l < h, h <= Len(batch), NEW moved, NarrowTo(l, h, moved)
  PROVE  Held' \subseteq Held
<1>1. batch \in Seq(Item) /\ l + 1 \in 1 .. Len(batch)
  BY DEF FlushOK
<1>2. CASE StopFlush(buffer, splitLimit, TRUE)
  BY <1>2, StopFlushHolds, Zenon DEF TurnHolds, Held
<1>3. CASE UNCHANGED <<buffer, batch, rangeVars>>
  BY <1>3 DEF Held, RangeSeqs, rangeVars
<1>4. CASE /\ batch' = [batch EXCEPT ![l + 1] = Tombstone(batch[l + 1])]
           /\ UNCHANGED <<buffer, rangeVars>>
  <2>1. Tombstone(batch[l + 1]) \in Item /\ Tombstone(batch[l + 1]).seq = batch[l + 1].seq
    <3>1. batch[l + 1] \in Item
      BY <1>1, ItemAt
    <3> QED BY <3>1, Zenon DEF Tombstone, Item
  <2>2. batch' \in Seq(Item) /\ Len(batch') = Len(batch)
    BY <1>1, <1>4, <2>1
  <2>3. \A i \in 1 .. Len(batch) : batch'[i].seq = batch[i].seq
    <3>1. \A i \in 1 .. Len(batch) : i # l + 1 => batch'[i] = batch[i]
      BY <1>1, <1>4
    <3>2. batch'[l + 1] = Tombstone(batch[l + 1])
      BY <1>1, <1>4
    <3> QED BY <2>1, <3>1, <3>2
  <2>4. SeqsOf(Range(batch')) = SeqsOf(Range(batch))
    BY <1>1, <2>2, <2>3, SeqsSame
  <2> QED BY <1>4, <2>4 DEF Held, RangeSeqs, rangeVars
<1> QED BY <1>2, <1>3, <1>4, Zenon DEF NarrowTo

-----------------------------------------------------------------------------
(* The network steps                                                        *)

\* Any part of an ordered sequence of the claim's own messages has no seq twice.
LEMMA PartFresh ==
  ASSUME NEW s \in Seq(Item), Ordered(s, seq), Above(SeqsOf(Range(s))), NEW S \in SUBSET Range(s)
  PROVE  S \in SUBSET Item /\ Distinct(S) /\ Above(SeqsOf(S))
<1>1. Range(s) = {s[i] : i \in 1 .. Len(s)}
  BY SeqRange
<1>2. S \in SUBSET Item
  BY SeqsType
<1>3. Distinct(Range(s))
  <2> SUFFICES ASSUME NEW i \in 1 .. Len(s), NEW j \in 1 .. Len(s), s[i].seq = s[j].seq
               PROVE  s[i] = s[j]
    BY <1>1 DEF Distinct
  <2>1. s[i].seq \in Nat /\ s[j].seq \in Nat
    BY ItemAt
  <2>2. ~(i < j) /\ ~(j < i)
    BY <2>1 DEF Ordered
  <2>3. i = j
    BY <2>2
  <2> QED BY <2>3
<1>4. Distinct(S)
  BY <1>3 DEF Distinct
<1>5. SeqsOf(S) \subseteq SeqsOf(Range(s))
  BY DEF SeqsOf
<1> QED BY <1>2, <1>4, <1>5 DEF Above

\* Any part of the batch in hand is such a part.
LEMMA BatchFresh ==
  ASSUME batch \in Seq(Item), buffer \in Seq(Item), Ordered(batch \o buffer, seq), Above(Held),
         NEW S \in SUBSET Range(batch)
  PROVE  S \in SUBSET Item /\ Distinct(S) /\ Above(SeqsOf(S))
<1>1. Ordered(batch, seq)
  BY OrderedParts
<1>2. Above(SeqsOf(Range(batch)))
  BY DEF Above, Held
<1> QED BY <1>1, <1>2, PartFresh

\* Whatever the api does with a post of it, the tables move as they may.
LEMMA PostServerStep ==
  ASSUME batch \in Seq(Item), buffer \in Seq(Item), Ordered(batch \o buffer, seq), Above(Held),
         NEW S \in SUBSET Range(batch),
         \/ UNCHANGED serverVars
         \/ TransientFailure(S, generation)
         \/ Accepts(S, generation) /\ AppendMessages(S, generation)
  PROVE  ServerStep
<1>1. S \in SUBSET Item /\ Distinct(S) /\ Above(SeqsOf(S))
  BY BatchFresh
<1>2. CASE UNCHANGED serverVars
  BY <1>2 DEF ServerStep
<1>3. CASE Accepts(S, generation) /\ AppendMessages(S, generation)
  BY <1>1, <1>3 DEF ServerStep, Appends, Accepts, GenerationLive
<1> QED BY <1>2, <1>3 DEF TransientFailure

\* Every answer to a post is a fenced step.
LEMMA NetworkFenced ==
  ASSUME IInv, DInv, FInv, NetworkStep
  PROVE  FencedStep
<1> DEFINE whole == batch \o buffer
           marked == <<Tombstone(batch[1])>> \o buffer
<1>1. /\ FlushOK /\ batch \in Seq(Item) /\ buffer \in Seq(Item) /\ splitLimit \in Nat /\ seq \in Nat
      /\ Ordered(batch \o buffer, seq) /\ Above(Held)
  BY DEF IInv, FlushOK, IdsOK, DInv, FInv
<1>2. PostFrame
  BY Zenon DEF NetworkStep, PostOk, PostAborted, PostTransient, PostMarkerRefused, PostFatal,
         PostOversizeSplit, PostOversizeOne, PostPermanentOne, PostPermanentMany, BisectOk,
         BisectPermanent, BisectAbandoned, BisectFatal, MarkerOk, MarkerTransient, MarkerRefused
<1>3. UNCHANGED <<seq, base, generation, records>>
  BY <1>2 DEF PostFrame, idVars, outboxVars
<1>4. ASSUME ServerStep, Held' \subseteq Held PROVE FencedStep
  BY <1>1, <1>3, <1>4 DEF FencedStep, RecordsStep, Above
<1>5. /\ whole \in Seq(Item) /\ SeqsOf(Range(whole)) \subseteq Held
      /\ \A buf : TurnHolds(buf) /\ SeqsOf(Range(buf)) \subseteq Held => Held' \subseteq Held
  BY <1>1, SeqsConcat DEF Held, TurnHolds
<1>6. batch # <<>> => marked \in Seq(Item) /\ SeqsOf(Range(marked)) \subseteq Held
  <2> SUFFICES ASSUME batch # <<>> PROVE marked \in Seq(Item) /\ SeqsOf(Range(marked)) \subseteq Held
    OBVIOUS
  <2> DEFINE one == <<Tombstone(batch[1])>>
  <2>1. batch[1] \in Item /\ 1 \in 1 .. Len(batch)
    BY <1>1, ItemAt
  <2>2. Tombstone(batch[1]) \in Item /\ Tombstone(batch[1]).seq = batch[1].seq
    BY <2>1, Zenon DEF Tombstone, Item
  <2>3. one \in Seq(Item) /\ Len(one) = 1 /\ one[1].seq = batch[1].seq
    BY <2>2
  <2> HIDE DEF one
  <2>4. SeqsOf(Range(one)) = {batch[1].seq}
    <3>1. Range(one) = {one[i] : i \in 1 .. 1}
      BY <2>3, SeqRange
    <3>2. Range(one) = {one[1]}
      BY <3>1
    <3> QED BY <2>3, <3>2 DEF SeqsOf
  <2>5. batch[1].seq \in SeqsOf(Range(batch))
    BY <1>1, <2>1, SeqRange DEF SeqsOf
  <2>6. one \o buffer \in Seq(Item)
        /\ SeqsOf(Range(one \o buffer)) = SeqsOf(Range(one)) \cup SeqsOf(Range(buffer))
    BY <1>1, <2>3, SeqsConcat
  <2> QED BY <2>4, <2>5, <2>6 DEF Held, one
<1>7. SeqsOf(Range(buffer)) \subseteq Held
  BY DEF Held
<1>8. \A S \in SUBSET Range(batch) :
        \/ UNCHANGED serverVars
        \/ TransientFailure(S, generation)
        \/ Accepts(S, generation) /\ AppendMessages(S, generation)
        => ServerStep
  BY <1>1, PostServerStep
<1>9. pc = "post" => batch # <<>>
  BY <1>1 DEF FlushOK
<1> HIDE DEF whole, marked
<1>10. CASE PostOk
  <2>1. ServerStep
    BY <1>8, <1>10 DEF PostOk, Sent
  <2>2. TurnHolds(buffer)
    BY <1>1, <1>10, NextTurnHolds DEF PostOk
  <2> QED BY <1>4, <1>5, <1>7, <2>1, <2>2
<1>11. CASE PostAborted
  <2>1. ServerStep
    BY <1>8, <1>11 DEF PostAborted, Sent
  <2>2. TurnHolds(whole)
    BY <1>11, StopFlushHolds, Zenon DEF PostAborted, whole
  <2> QED BY <1>4, <1>5, <2>1, <2>2
<1>12. CASE PostTransient
  <2>1. ServerStep
    BY <1>8, <1>12 DEF PostTransient, Sent
  <2>2. TurnHolds(whole)
    BY <1>12, NoteTransientFailureHolds DEF PostTransient, whole
  <2> QED BY <1>4, <1>5, <2>1, <2>2
<1>13. CASE PostMarkerRefused
  <2>1. ServerStep
    BY <1>13 DEF PostMarkerRefused, ServerStep
  <2>2. TurnHolds(buffer)
    BY <1>13, StopFlushHolds, Zenon DEF PostMarkerRefused
  <2> QED BY <1>4, <1>5, <1>7, <2>1, <2>2
<1>14. CASE PostFatal
  <2>1. ServerStep
    BY <1>14 DEF PostFatal, ServerStep
  <2>2. TurnHolds(whole)
    BY <1>14, StopFlushHolds, Zenon DEF PostFatal, whole
  <2> QED BY <1>4, <1>5, <2>1, <2>2
<1>15. CASE PostOversizeSplit
  <2>1. Len(batch) \div 2 \in Nat
    BY <1>1
  <2>2. ServerStep
    BY <1>15 DEF PostOversizeSplit, ServerStep
  <2>3. TurnHolds(whole)
    BY <1>1, <1>5, <1>15, <2>1, NextTurnHolds, Zenon DEF PostOversizeSplit, whole
  <2> QED BY <1>4, <1>5, <2>2, <2>3
<1>16. CASE PostOversizeOne \/ PostPermanentOne
  <2>1. pc = "post" /\ UNCHANGED serverVars /\ \E limit \in Nat : NextTurn(marked, limit)
    BY <1>1, <1>16 DEF PostOversizeOne, PostPermanentOne, marked
  <2>2. TurnHolds(marked)
    BY <1>1, <1>6, <1>9, <2>1, NextTurnHolds
  <2> QED BY <1>4, <1>5, <1>6, <1>9, <2>1, <2>2 DEF ServerStep
<1>17. CASE PostPermanentMany
  <2>1. UNCHANGED <<buffer, batch, rangeFirst, rangeLast>> /\ ServerStep
    BY <1>17 DEF PostPermanentMany, rangeVars, ServerStep
  <2> QED BY <1>4, <2>1 DEF Held, RangeSeqs
<1>18. CASE pc \in {"bisect", "marker"} /\ (BisectOk \/ BisectPermanent \/ BisectAbandoned \/ BisectFatal
                                            \/ MarkerOk \/ MarkerTransient \/ MarkerRefused)
  <2>1. /\ lo \in Nat /\ hi \in Nat /\ lo < hi /\ hi <= Len(batch)
        /\ lo \in 0 .. Len(batch) /\ lo + 1 \in 0 .. Len(batch) /\ lo + 1 \in 1 .. Len(batch)
        /\ pc = "bisect" => lo + 1 < hi
    BY <1>1, <1>18, SMTT(30) DEF FlushOK
  <2>2. {batch[lo + 1]} \in SUBSET Range(batch)
    BY <1>1, <2>1, SeqRange
  <2>3. pc = "bisect" => Mid \in Nat /\ lo < Mid /\ Mid < hi /\ Mid <= Len(batch)
    BY <1>1, <2>1 DEF Mid
  <2>4. pc = "bisect" => Half \in SUBSET Range(batch)
    <3> SUFFICES ASSUME pc = "bisect" PROVE Range(Slice(batch, lo, Mid)) \subseteq Range(batch)
      BY DEF Half
    <3> DEFINE half == Slice(batch, lo, Mid)
               m == Mid
    <3>1. /\ half \in Seq(Item) /\ Len(half) = m - lo
          /\ \A i \in 1 .. m - lo : half[i] = batch[lo + i]
      BY <1>1, <2>1, <2>3 DEF Slice
    <3>2. m \in Nat /\ m <= Len(batch)
      BY <2>3
    <3> HIDE DEF half, m
    <3>3. \A i \in 1 .. Len(half) : lo + i \in 1 .. Len(batch) /\ half[i] = batch[lo + i]
      BY <1>1, <2>1, <3>1, <3>2
    <3>4. Range(half) \subseteq Range(batch)
      BY <1>1, <3>1, <3>3, SeqRange
    <3> QED BY <3>4 DEF half
  <2>5. ASSUME NEW n \in 0 .. Len(batch)
        PROVE  /\ From(batch, n) \o buffer \in Seq(Item)
               /\ SeqsOf(Range(From(batch, n) \o buffer)) \subseteq Held
    <3>1. From(batch, n) \in Seq(Item)
      BY <1>1, CutType
    <3>2. Range(From(batch, n)) \subseteq Range(batch)
      BY <1>1, CutRange
    <3>3. SeqsOf(Range(From(batch, n))) \subseteq SeqsOf(Range(batch))
      BY <3>2 DEF SeqsOf
    <3>4. /\ From(batch, n) \o buffer \in Seq(Item)
          /\ SeqsOf(Range(From(batch, n) \o buffer)) = SeqsOf(Range(From(batch, n))) \cup SeqsOf(Range(buffer))
      BY <1>1, <3>1, SeqsConcat
    <3> QED BY <3>3, <3>4 DEF Held
  <2>6. ASSUME NEW n \in 0 .. Len(batch), NEW moved, AfterBisect(From(batch, n), moved)
        PROVE  Held' \subseteq Held
    <3>1. TurnHolds(From(batch, n) \o buffer)
      BY <1>1, <2>5, <2>6, AfterBisectHolds
    <3> QED BY <1>5, <2>5, <3>1
  <2>7. CASE BisectOk
    <3>1. ServerStep
      BY <1>8, <2>4, <2>7 DEF BisectOk
    <3>2. Held' \subseteq Held
      BY <1>1, <2>1, <2>3, <2>7, NarrowToHolds, Zenon DEF BisectOk
    <3> QED BY <1>4, <3>1, <3>2
  <2>8. CASE BisectPermanent
    <3>1. Held' \subseteq Held
      BY <1>1, <2>1, <2>3, <2>8, NarrowToHolds DEF BisectPermanent
    <3> QED BY <1>4, <2>8, <3>1 DEF BisectPermanent, ServerStep
  <2>9. CASE BisectAbandoned
    <3>1. ServerStep
      BY <1>8, <2>4, <2>9 DEF BisectAbandoned
    <3> QED BY <1>4, <2>1, <2>6, <2>9, <3>1 DEF BisectAbandoned
  <2>10. CASE BisectFatal \/ MarkerRefused
    <3>1. UNCHANGED serverVars /\ StopFlush(buffer, splitLimit, TRUE)
      BY <2>10, Zenon DEF BisectFatal, MarkerRefused
    <3>2. TurnHolds(buffer)
      BY <3>1, StopFlushHolds, Zenon
    <3> QED BY <1>4, <1>5, <1>7, <3>1, <3>2 DEF ServerStep
  <2>11. CASE MarkerOk
    <3>1. ServerStep
      BY <1>8, <2>2, <2>11 DEF MarkerOk
    <3> QED BY <1>4, <2>1, <2>6, <2>11, <3>1, Zenon DEF MarkerOk
  <2>12. CASE MarkerTransient
    <3>1. ServerStep
      BY <1>8, <2>2, <2>12 DEF MarkerTransient
    <3> QED BY <1>4, <2>1, <2>6, <2>12, <3>1 DEF MarkerTransient
  <2> QED BY <1>18, <2>7, <2>8, <2>9, <2>10, <2>11, <2>12
<1>19. (BisectOk \/ BisectPermanent \/ BisectAbandoned \/ BisectFatal \/ MarkerOk \/ MarkerTransient
        \/ MarkerRefused) => pc \in {"bisect", "marker"}
  BY Zenon DEF BisectOk, BisectPermanent, BisectAbandoned, BisectFatal, MarkerOk, MarkerTransient, MarkerRefused
<1> QED
  BY <1>10, <1>11, <1>12, <1>13, <1>14, <1>15, <1>16, <1>17, <1>18, <1>19 DEF NetworkStep

-----------------------------------------------------------------------------
(* emit, the timer, flush() and the abort                                   *)

\* emit() numbers on from seq, above the base.
LEMMA EmitFenced ==
  ASSUME IInv, FInv, Emit
  PROVE  FencedStep
<1>1. /\ seq \in Nat /\ base \in Nat /\ base <= seq /\ buffer \in Seq(Item) /\ Above(Held)
      /\ rangeFirst \in Nat /\ rangeLast \in Nat /\ rangeLast <= seq
      /\ rangeFirst # 0 => rangeFirst <= rangeLast
  BY DEF IInv, FlushOK, IdsOK, WriteOK, FInv
<1>2. /\ seq' = seq + 1 /\ UNCHANGED <<base, generation, batch, records>> /\ UNCHANGED serverVars
  BY DEF Emit, EmitKept, EmitFolded, outboxVars
<1>3. Above(Held')
  <2>1. CASE EmitKept
    <3>1. PICK c \in EmitClasses : buffer' = Append(buffer, Emitted(c))
      BY <2>1 DEF EmitKept
    <3>2. Emitted(c) \in Item /\ Emitted(c).seq = seq + 1
      BY <1>1, BatcherAssumption, SMTT(30) DEF Emitted, Item
    <3>3. Range(buffer') = Range(buffer) \cup {Emitted(c)}
      BY <1>1, <3>1, <3>2, AppendRange
    <3>4. SeqsOf(Range(buffer')) = SeqsOf(Range(buffer)) \cup {seq + 1}
      BY <3>2, <3>3 DEF SeqsOf
    <3>5. RangeSeqs' = RangeSeqs
      BY <2>1 DEF EmitKept, RangeSeqs, rangeVars
    <3>6. Held' = Held \cup {seq + 1}
      BY <1>2, <3>4, <3>5 DEF Held
    <3> QED BY <1>1, <3>6 DEF Above
  <2>2. CASE EmitFolded
    <3>1. /\ buffer' = buffer /\ rangeLast' = seq + 1
          /\ rangeFirst' = IF rangeFirst = 0 THEN seq + 1 ELSE rangeFirst
      BY <2>2 DEF EmitFolded, FoldIntoPendingRange
    <3>2. Above(RangeSeqs')
      <4>1. CASE rangeFirst = 0
        BY <1>1, <3>1, <4>1 DEF RangeSeqs, Above
      <4>2. CASE rangeFirst # 0
        <5>1. rangeFirst \in RangeSeqs
          BY <1>1, <4>2 DEF RangeSeqs
        <5>2. rangeFirst > base
          BY <1>1, <5>1 DEF Above, Held
        <5>3. RangeSeqs' = rangeFirst .. seq + 1
          BY <1>1, <3>1, <4>2 DEF RangeSeqs
        <5> QED BY <1>1, <5>2, <5>3 DEF Above
      <4> QED BY <4>1, <4>2
    <3> QED BY <1>1, <1>2, <3>1, <3>2 DEF Above, Held
  <2> QED BY <2>1, <2>2 DEF Emit
<1> QED BY <1>1, <1>2, <1>3 DEF FencedStep, ServerStep, RecordsStep

\* A step that touches neither the tables nor the records, and holds nothing new.
LEMMA QuietFenced ==
  ASSUME IInv, FInv, UNCHANGED <<seq, base, generation, records>>, UNCHANGED serverVars,
         Held' \subseteq Held
  PROVE  FencedStep
BY DEF IInv, IdsOK, FInv, FencedStep, ServerStep, RecordsStep, Above

\* Starting a flush holds nothing new.
LEMMA StartFlushHolds ==
  ASSUME IInv, StartFlush
  PROVE  Held' \subseteq Held
<1>1. FlushOK /\ buffer \in Seq(Item) /\ splitLimit \in Nat
  BY DEF IInv, FlushOK
<1>2. CASE spilled
  BY <1>2 DEF StartFlush, Held, RangeSeqs, rangeVars
<1>3. CASE ~spilled
  <2>1. TurnHolds(buffer)
    BY <1>1, <1>3, SendNextHolds DEF StartFlush, FlushMayStart
  <2> QED BY <2>1 DEF TurnHolds, Held
<1> QED BY <1>2, <1>3

\* The timer, flush() and the abort.
LEMMA ScheduleFenced ==
  ASSUME IInv, FInv, TimerFires \/ Flush \/ AbortFlush
  PROVE  FencedStep
<1>1. UNCHANGED <<seq, base, generation, records>> /\ UNCHANGED serverVars
  BY DEF TimerFires, Flush, AbortFlush, FlushFrame, idVars, outboxVars
<1>2. StartFlush \/ UNCHANGED <<buffer, batch, rangeVars>>
  BY DEF TimerFires, Flush, AbortFlush
<1>3. Held' \subseteq Held
  BY <1>2, StartFlushHolds DEF Held, RangeSeqs, rangeVars
<1> QED BY <1>1, <1>3, QuietFenced

-----------------------------------------------------------------------------
(* The outbox: writes, evictions, the drain                                 *)

\* Eviction turns segments into their ranges.
LEMMA EvictFenced ==
  ASSUME NEW E \in Evictable, NEW new, records' \subseteq EvictSegments(E) \cup new,
         \A rec \in new : rec.gen = generation /\ rec.firstSeq > base /\ Above(SeqsOf(rec.items))
                          /\ Distinct(rec.items)
  PROVE  RecordsStep
<1>1. E \subseteq records
  BY DEF Evictable, Segments
<1> QED BY <1>1 DEF RecordsStep, EvictSegments

\* A segment of the claim's own messages.
LEMMA AppendSegmentFenced ==
  ASSUME NEW items, NEW first, NEW last, first > base, Above(SeqsOf(items)), Distinct(items),
         AppendSegment(items, first, last, generation)
  PROVE  RecordsStep
<1>1. PICK E \in Evictable : records' = EvictSegments(E) \cup {Segment(items, first, last, generation)}
  BY DEF AppendSegment
<1> DEFINE new == Segment(items, first, last, generation)
<1>2. new.gen = generation /\ new.firstSeq = first /\ new.items = items
  BY DEF Segment
<1> HIDE DEF new
<1>3. records' = EvictSegments(E) \cup {new}
  BY <1>1 DEF new
<1> QED BY <1>2, <1>3, EvictFenced, Zenon

\* A failed segment write leaves evictions only.
LEMMA AppendSegmentFailsFenced ==
  ASSUME AppendSegmentFails
  PROVE  RecordsStep
<1>1. PICK E \in Evictable : records' = EvictSegments(E)
  BY DEF AppendSegmentFails
<1>2. E \subseteq records
  BY DEF Evictable, Segments
<1> QED BY <1>1, <1>2 DEF RecordsStep, EvictSegments

\* A range of the claim's own seqs.
LEMMA AppendRangeFenced ==
  ASSUME NEW first, NEW last, first > base, AppendRangeRecord(first, last, generation)
  PROVE  RecordsStep
<1> DEFINE new == RangeRecord(first, last, generation)
<1>1. records' = records \cup {new}
  BY DEF AppendRangeRecord
<1>2. new.gen = generation /\ new.firstSeq = first /\ new.items = {}
  BY DEF RangeRecord
<1> HIDE DEF new
<1>3. Above(SeqsOf(new.items)) /\ Distinct(new.items)
  BY <1>2 DEF Above, SeqsOf, Distinct
<1> QED BY <1>1, <1>2, <1>3 DEF RecordsStep

\* The pending range lies above the base.
LEMMA RangeAbove ==
  ASSUME IInv, FInv, rangeFirst # 0
  PROVE  rangeFirst > base
<1>1. rangeFirst \in RangeSeqs
  BY DEF IInv, FlushOK, RangeSeqs
<1> QED BY <1>1 DEF FInv, Above, Held

\* The segment loop's head takes from the buffer.
LEMMA NextSegmentHolds ==
  ASSUME buffer \in Seq(Item), splitLimit \in Nat, NEW first, NextSegment(first),
         RangeSeqs' \subseteq RangeSeqs
  PROVE  Held' \subseteq Held
<1>1. CASE TakePrefix(buffer, splitLimit)
  <2>1. batch' \in Seq(Item) /\ buffer' \in Seq(Item) /\ batch' \o buffer' = buffer
    BY <1>1, TakePrefixKeeps
  <2>2. TurnHolds(buffer)
    BY <2>1, PartsHold
  <2> QED BY <2>2 DEF TurnHolds, Held
<1>2. CASE batch' = <<>> /\ buffer' = buffer
  BY <1>2, EmptyHolds DEF Held
<1> QED BY <1>1, <1>2 DEF NextSegment

\* The steps of a spill write the claim's own messages.
LEMMA SpillFenced ==
  ASSUME IInv, DInv, FInv, SpillStep
  PROVE  FencedStep
<1>1. /\ FlushOK /\ batch \in Seq(Item) /\ buffer \in Seq(Item) /\ splitLimit \in Nat /\ seq \in Nat
      /\ Ordered(batch \o buffer, seq) /\ Above(Held)
  BY DEF IInv, FlushOK, IdsOK, DInv, FInv
<1>2. SpillFrame
  BY Zenon DEF SpillStep, EnterSpill, EnterSpillFails, SpillMark, SpillRange, SpillSegment, SpillWriteFails,
         SpillClear
<1>3. UNCHANGED <<seq, base, generation>> /\ UNCHANGED serverVars
  BY <1>2 DEF SpillFrame, idVars
<1>4. ASSUME RecordsStep, Held' \subseteq Held PROVE FencedStep
  BY <1>1, <1>3, <1>4 DEF FencedStep, ServerStep, Above
<1>5. records' = records => RecordsStep
  BY DEF RecordsStep
<1>6. \A buf : TurnHolds(buf) /\ SeqsOf(Range(buf)) \subseteq Held => Held' \subseteq Held
  BY DEF TurnHolds, Held
<1>7. SeqsOf(Range(buffer)) \subseteq Held
  BY DEF Held
<1>8. CASE EnterSpill \/ EnterSpillFails \/ SpillClear
  <2>1. records' = records
    BY <1>8, Zenon DEF EnterSpill, EnterSpillFails, SpillClear, MarkSpillUnclean, ClearSpillUnclean, manifestVars
  <2>2. \E tripping \in BOOLEAN : StopFlush(buffer, splitLimit, tripping)
    BY <1>8, Zenon DEF EnterSpill, EnterSpillFails, SpillClear, StopSpillFlush
  <2>3. TurnHolds(buffer)
    BY <2>2, StopFlushHolds
  <2> QED BY <1>4, <1>5, <1>6, <1>7, <2>1, <2>3
<1>9. CASE SpillMark
  <2>1. records' = records /\ RangeSeqs' = RangeSeqs
    BY <1>9 DEF SpillMark, MarkSpillUnclean, RangeSeqs, rangeVars
  <2>2. UNCHANGED <<buffer, batch>> \/ NextSegment(0)
    BY <1>9 DEF SpillMark
  <2>3. Held' \subseteq Held
    BY <1>1, <2>1, <2>2, NextSegmentHolds DEF Held
  <2> QED BY <1>4, <1>5, <2>1, <2>3
<1>10. CASE SpillRange
  <2>1. rangeFirst # 0
    BY <1>10 DEF SpillRange, IInv, WriteOK
  <2>2. RecordsStep
    BY <1>10, <2>1, RangeAbove, AppendRangeFenced DEF SpillRange
  <2>3. RangeSeqs' \subseteq RangeSeqs
    BY <1>10 DEF SpillRange, RangeSeqs
  <2>4. Held' \subseteq Held
    BY <1>1, <1>10, <2>3, NextSegmentHolds DEF SpillRange
  <2> QED BY <1>4, <2>2, <2>4
<1>11. CASE SpillSegment
  <2>1. batch # <<>>
    BY <1>1, <1>11 DEF SpillSegment, FlushOK
  <2>2. Distinct(Sent) /\ Above(SeqsOf(Sent))
    BY <1>1, BatchFresh DEF Sent
  <2>3. batch[1].seq > base
    <3>1. 1 \in 1 .. Len(batch)
      BY <1>1, <2>1, ItemAt
    <3>2. batch[1].seq \in SeqsOf(Sent)
      BY <1>1, <3>1, SeqRange DEF Sent, SeqsOf
    <3> QED BY <2>2, <3>2 DEF Above
  <2>4. RecordsStep
    BY <1>11, <2>2, <2>3, AppendSegmentFenced, Zenon DEF SpillSegment
  <2>5. RangeSeqs' = RangeSeqs
    BY <1>11 DEF SpillSegment, RangeSeqs, rangeVars
  <2>6. Held' \subseteq Held
    BY <1>1, <1>11, <2>5, NextSegmentHolds DEF SpillSegment
  <2> QED BY <1>4, <2>4, <2>6
<1>12. CASE SpillWriteFails
  <2>1. RecordsStep
    BY <1>5, <1>12, AppendSegmentFailsFenced DEF SpillWriteFails, manifestVars
  <2>2. SeqsOf(Range(batch \o buffer)) \subseteq Held
    BY <1>1, SeqsConcat DEF Held
  <2>3. TurnHolds(buffer) \/ TurnHolds(batch \o buffer)
    BY <1>12, StopFlushHolds, Zenon DEF SpillWriteFails, StopSpillFlush
  <2> QED BY <1>4, <1>6, <1>7, <2>1, <2>2, <2>3
<1> QED BY <1>8, <1>9, <1>10, <1>11, <1>12 DEF SpillStep

\* Two markers of one seq are the same marker.
LEMMA MarkersDistinct ==
  ASSUME NEW R
  PROVE  Distinct([seq : R, class : {"dropped"}, tombstoned : {TRUE}])
<1> DEFINE G == [seq : R, class : {"dropped"}, tombstoned : {TRUE}]
<1> SUFFICES ASSUME NEW a \in G, NEW b \in G, a.seq = b.seq
             PROVE  a = b
  BY Zenon DEF Distinct
<1>1. a = [seq |-> a.seq, class |-> a.class, tombstoned |-> a.tombstoned]
  OBVIOUS
<1>2. b = [seq |-> b.seq, class |-> b.class, tombstoned |-> b.tombstoned]
  OBVIOUS
<1>3. a.class = b.class /\ a.tombstoned = b.tombstoned
  BY Zenon
<1> QED BY <1>1, <1>2, <1>3

\* What a drain replays of a record of this claim is the claim's own, each seq once.
LEMMA ReplayFresh ==
  ASSUME NEW rec \in Record, base \in Nat, Distinct(rec.items), rec.firstSeq > base,
         Above(SeqsOf(rec.items)), NEW S \in SUBSET ReplayItems(rec)
  PROVE  S \in SUBSET Item /\ Distinct(S) /\ Above(SeqsOf(S))
<1>1. ReplayItems(rec) \in SUBSET Item /\ SeqsOf(ReplayItems(rec)) = RecordSeqs(rec)
  BY ReplayOK
<1>2. Above(RecordSeqs(rec))
  <2>1. CASE rec.kind = "segment"
    BY <2>1 DEF RecordSeqs
  <2>2. CASE rec.kind # "segment"
    <3>1. RecordSeqs(rec) = rec.firstSeq .. rec.lastSeq /\ rec.firstSeq \in Nat /\ rec.lastSeq \in Nat
      BY <2>2 DEF RecordSeqs, Record
    <3> QED BY <3>1 DEF Above
  <2> QED BY <2>1, <2>2
<1>3. SeqsOf(S) \subseteq SeqsOf(ReplayItems(rec))
  BY DEF SeqsOf
<1>4. Distinct(ReplayItems(rec))
  <2>1. CASE rec.kind = "segment"
    <3>1. rec.items \subseteq Item /\ ReplayItems(rec) = {Replayed(it) : it \in rec.items}
      BY <2>1 DEF Record, ReplayItems
    <3>2. \A it \in Item : Replayed(it).seq = it.seq
      BY DEF Replayed, Item
    <3> QED BY <3>1, <3>2 DEF Distinct
  <2>2. CASE rec.kind # "segment"
    <3>1. ReplayItems(rec) = [seq : rec.firstSeq .. rec.lastSeq, class : {"dropped"}, tombstoned : {TRUE}]
      BY <2>2, Zenon DEF ReplayItems, GapTombstones
    <3> QED BY <3>1, MarkersDistinct, Zenon
  <2> QED BY <2>1, <2>2
<1>5. Distinct(S)
  BY <1>4 DEF Distinct
<1> QED BY <1>1, <1>2, <1>3, <1>5 DEF Above

\* The api admits a record only under the live generation, and then it is this claim's.
LEMMA ReplayServerStep ==
  ASSUME IInv, FInv, NEW rec \in records, GenerationLive(rec.gen), NEW S \in SUBSET ReplayItems(rec),
         AppendMessages(S, rec.gen)
  PROVE  ServerStep
<1>1. rec \in Record /\ rec.gen \in Nat /\ generation \in Nat /\ claimGen \in Nat /\ base \in Nat
  BY DEF IInv, DiskOK, IdsOK, ServerOK, Record
<1>2. rec.gen = generation /\ generation = claimGen
  BY <1>1 DEF GenerationLive, FInv, RecordsFenced
<1>3. Distinct(rec.items) /\ rec.firstSeq > base /\ Above(SeqsOf(rec.items))
  BY <1>2 DEF FInv, RecordsFenced, OwnAbove
<1>4. S \in SUBSET Item /\ Distinct(S) /\ Above(SeqsOf(S))
  BY <1>1, <1>3, ReplayFresh
<1> QED BY <1>2, <1>4 DEF ServerStep, Appends

\* The drainer, an eviction and the loss of the claim.
LEMMA DrainFenced ==
  ASSUME IInv, FInv, DrainStep \/ ClaimMovesOn
  PROVE  FencedStep
<1>1. UNCHANGED <<seq, base, generation, buffer, batch, rangeFirst, rangeLast>>
  BY DEF DrainStep, DrainProceeds, DrainFails, Eviction, DrainFinished, ClaimMovesOn, BatcherVars,
         idVars, flushVars, rangeVars
<1>2. Held' = Held
  BY <1>1 DEF Held, RangeSeqs
<1>3. ASSUME ServerStep, RecordsStep PROVE FencedStep
  BY <1>1, <1>2, <1>3 DEF IInv, IdsOK, FInv, FencedStep
<1>4. drainSet \subseteq records
  BY DEF IInv, DiskOK
<1>5. CASE DrainRecord
  <2>1. PICK rec \in drainSet :
          /\ Replayable(rec) /\ AppendMessages(ReplayItems(rec), rec.gen) /\ records' = records \ {rec}
    BY <1>5 DEF DrainRecord
  <2>2. ServerStep
    BY <1>4, <2>1, ReplayServerStep DEF Replayable
  <2>3. RecordsStep
    BY <2>1 DEF RecordsStep
  <2> QED BY <1>3, <2>2, <2>3
<1>6. CASE DrainFails
  <2>1. PICK rec \in drainSet :
          \/ UNCHANGED serverVars
          \/ /\ GenerationLive(rec.gen)
             /\ \E sent \in SUBSET ReplayItems(rec) : AppendMessages(sent, rec.gen)
    BY <1>6, Zenon DEF DrainFails, DrainStops
  <2>2. ServerStep
    <3>1. CASE UNCHANGED serverVars
      BY <3>1 DEF ServerStep
    <3>2. CASE /\ GenerationLive(rec.gen)
               /\ \E sent \in SUBSET ReplayItems(rec) : AppendMessages(sent, rec.gen)
      BY <1>4, <3>2, ReplayServerStep
    <3> QED BY <2>1, <3>1, <3>2
  <2>3. RecordsStep
    BY <1>6, Zenon DEF DrainFails, DrainStops, manifestVars, RecordsStep
  <2> QED BY <1>3, <2>2, <2>3
<1>7. CASE Eviction
  <2>1. PICK E \in Evictable : records' = EvictSegments(E)
    BY <1>7 DEF Eviction, OtherRunEvicts
  <2>2. E \subseteq records
    BY DEF Evictable, Segments
  <2> QED BY <1>3, <1>7, <2>1, <2>2 DEF Eviction, OtherRunEvicts, ServerStep, RecordsStep, EvictSegments
<1>8. CASE DrainStart \/ DrainFinished
  BY <1>3, <1>8 DEF DrainStart, DrainFinished, DrainEnd, manifestVars, ServerStep, RecordsStep
<1>9. CASE ClaimMovesOn
  BY <1>3, <1>9 DEF ClaimMovesOn, outboxVars, ServerStep, RecordsStep
<1> QED BY <1>5, <1>6, <1>7, <1>8, <1>9 DEF DrainStep, DrainProceeds

\* close() and preserveOwnedTail().
LEMMA CloseFenced ==
  ASSUME IInv, DInv, FInv, CloseStep
  PROVE  FencedStep
<1>1. /\ FlushOK /\ batch \in Seq(Item) /\ buffer \in Seq(Item) /\ splitLimit \in Nat /\ seq \in Nat
      /\ Ordered(buffer, seq) /\ Above(Held) /\ Above(SeqsOf(Range(buffer)))
  <2>1. batch \in Seq(Item) /\ buffer \in Seq(Item) /\ Ordered(batch \o buffer, seq)
    BY DEF IInv, FlushOK, DInv
  <2> QED BY <2>1, OrderedParts DEF IInv, FlushOK, IdsOK, FInv, Above, Held
<1>2. UNCHANGED <<seq, base, generation>> /\ UNCHANGED serverVars
  BY Zenon DEF CloseStep, CloseStart, CloseClearsTimer, CloseJoins, CloseExpires, CloseAttempt,
         CloseAttemptReturns, CloseGivesUp, FinalMark, FinalRange, FinalSegment, FinalClear,
         FinalSpillFails, PreserveStart, PreserveJoins, CloseFrame, FlushFrame, idVars
<1>3. ASSUME RecordsStep, Held' \subseteq Held PROVE FencedStep
  BY <1>1, <1>2, <1>3 DEF FencedStep, ServerStep, Above
<1>4. records' = records => RecordsStep
  BY DEF RecordsStep
<1>5. CASE CloseAttempt
  <2>1. StartFlush \/ UNCHANGED <<buffer, batch, rangeFirst, rangeLast>>
    BY <1>5 DEF CloseAttempt, flushVars
  <2>2. Held' \subseteq Held
    BY <2>1, StartFlushHolds DEF Held, RangeSeqs
  <2>3. records' = records
    BY <1>5 DEF CloseAttempt, FlushFrame, outboxVars
  <2> QED BY <1>3, <1>4, <2>2, <2>3
<1>6. CASE FinalRange
  <2>1. rangeFirst # 0
    BY <1>6 DEF FinalRange, IInv, CloseOK
  <2>2. RecordsStep
    BY <1>6, <2>1, RangeAbove, AppendRangeFenced DEF FinalRange
  <2>3. Held' \subseteq Held
    BY <1>6 DEF FinalRange, CloseFrame, Held, RangeSeqs
  <2> QED BY <1>3, <2>2, <2>3
<1>7. CASE FinalSegment
  <2>1. PICK n \in PrefixLengths(buffer, splitLimit) :
          /\ AppendSegment(Range(SubSeq(buffer, 1, n)), buffer[1].seq, buffer[n].seq, generation)
          /\ buffer' = From(buffer, n)
    BY <1>7 DEF FinalSegment
  <2>2. n \in 0 .. Len(buffer) /\ 1 \in 1 .. Len(buffer)
    BY <1>1 DEF PrefixLengths
  <2>3. Range(buffer) = Range(SubSeq(buffer, 1, n)) \cup Range(From(buffer, n))
    BY <1>1, <2>2, CutRange
  <2>4. Distinct(Range(SubSeq(buffer, 1, n))) /\ Above(SeqsOf(Range(SubSeq(buffer, 1, n))))
    BY <1>1, <2>3, PartFresh, Zenon
  <2>5. buffer[1].seq > base
    <3>1. buffer[1].seq \in SeqsOf(Range(buffer))
      BY <1>1, <2>2, SeqRange DEF SeqsOf
    <3> QED BY <1>1, <3>1 DEF Above
  <2>6. RecordsStep
    BY <2>1, <2>4, <2>5, AppendSegmentFenced, Zenon
  <2>7. SeqsOf(Range(buffer')) \subseteq SeqsOf(Range(buffer))
    BY <2>1, <2>3 DEF SeqsOf
  <2>8. UNCHANGED <<batch, rangeFirst, rangeLast>>
    BY <1>7 DEF FinalSegment, CloseFrame, rangeVars
  <2>9. Held' \subseteq Held
    BY <2>7, <2>8 DEF Held, RangeSeqs
  <2> QED BY <1>3, <2>6, <2>9
<1>8. CASE FinalSpillFails
  <2>1. RecordsStep
    BY <1>4, <1>8, AppendSegmentFailsFenced DEF FinalSpillFails, manifestVars
  <2>2. UNCHANGED <<batch, buffer, rangeFirst, rangeLast>>
    BY <1>8 DEF FinalSpillFails, CloseFrame, rangeVars
  <2> QED BY <1>3, <2>1, <2>2 DEF Held, RangeSeqs
<1>9. CASE CloseStart \/ CloseClearsTimer \/ CloseJoins \/ CloseExpires \/ CloseAttemptReturns
           \/ CloseGivesUp \/ FinalMark \/ FinalClear \/ PreserveStart \/ PreserveJoins
  <2>1. UNCHANGED <<records, batch, buffer, rangeFirst, rangeLast>>
    BY <1>9, Zenon DEF CloseStart, CloseClearsTimer, CloseJoins, CloseExpires, CloseAttemptReturns,
           CloseGivesUp, FinalMark, FinalClear, PreserveStart, PreserveJoins, MarkSpillUnclean,
           ClearSpillUnclean, CloseFrame, CloseSame, manifestVars, rangeVars
  <2> QED BY <1>3, <1>4, <2>1 DEF Held, RangeSeqs
<1> QED BY <1>5, <1>6, <1>7, <1>8, <1>9 DEF CloseStep

-----------------------------------------------------------------------------
(* Crash and re-claim                                                       *)

\* A fresh batcher with no drain under way is well-formed, and holds nothing.
LEMMA FreshInv ==
  ASSUME IInv, NEW s \in Nat, NEW gen \in Nat, FreshBatcher(s, gen),
         closed' \in BOOLEAN, closePc' \in CloseEnds \cup {"open"}, closed' <=> closePc' # "open",
         ServerOK', DiskOK'
  PROVE  IInv'
<1>1. <<>> \in Seq(Item)
  OBVIOUS
<1>2. /\ seq' = s /\ base' = s /\ generation' = gen /\ buffer' = <<>> /\ batch' = <<>>
      /\ rangeFirst' = 0 /\ rangeLast' = 0 /\ writeLast' = 0 /\ pc' = "idle"
      /\ lo' = 0 /\ hi' = 0 /\ posts' = 0 /\ progressed' = FALSE /\ splitLimit' = 0
      /\ timer' = FALSE /\ aborted' = FALSE /\ failed' = 0 /\ before' = 0
  BY DEF FreshBatcher, NoWindow
<1>3. FlushOK'
  <2>1. buffer' \in Seq(Item) /\ batch' \in Seq(Item)
    BY <1>1, <1>2
  <2> QED BY <1>2, <2>1, Zenon DEF FlushOK, FlushPc
<1>4. WriteOK'
  BY <1>2 DEF WriteOK
<1>5. CloseOK'
  BY <1>2 DEF CloseOK, ClosePc, CloseEnds
<1>6. IdsOK' /\ BreakerOK' /\ TombstoneOK' /\ JournalOK' /\ HistoryOK'
  BY Zenon DEF FreshBatcher, IdsOK, BreakerOK, TombstoneOK, JournalOK, HistoryOK
<1>7. Control'
  BY <1>2 DEF Control, NoLostWakeup, MidFlushUnclean, HasWork, CloseEnds
<1> QED BY <1>3, <1>4, <1>5, <1>6, <1>7 DEF IInv

\* It has given out no seq, so none is missing.
LEMMA FreshKeeps ==
  ASSUME DInv, NEW s \in Nat, NEW gen, FreshBatcher(s, gen), closePc' \in {"expired", "open"},
         records' = records
  PROVE  DInv'
<1>1. seq' = s /\ base' = s /\ buffer' = <<>> /\ batch' = <<>> /\ rangeFirst' = 0 /\ pc' = "idle"
  BY DEF FreshBatcher
<1>2. Ordered(batch' \o buffer', seq')
  <2>1. Len(batch' \o buffer') = 0
    BY <1>1
  <2> QED BY <2>1, SMTT(30) DEF Ordered
<1>3. HandEmpty' /\ SegmentsCover' /\ HandedOff'
  BY <1>1 DEF DInv, HandEmpty, SegmentsCover, HandedOff
<1>4. Assigned' = {}
  BY <1>1 DEF Assigned
<1> QED BY <1>2, <1>3, <1>4 DEF DInv, NoSeqVanishes

\* A fresh batcher holds nothing.
LEMMA FreshHolds ==
  ASSUME NEW s, NEW gen, FreshBatcher(s, gen)
  PROVE  Held' = {}
<1>1. buffer' = <<>> /\ batch' = <<>> /\ rangeFirst' = 0
  BY DEF FreshBatcher
<1> QED BY <1>1, EmptyHolds DEF Held, RangeSeqs

\* A crash keeps the tables, the manifest and the claim's base.
LEMMA CrashInv ==
  ASSUME IInv, DInv, FInv, Crash
  PROVE  IInv' /\ DInv' /\ FInv'
<1>1. base \in Nat /\ generation \in Nat /\ ServerOK /\ DiskOK
  BY DEF IInv, IdsOK
<1>2. /\ FreshBatcher(base, generation) /\ closed' = TRUE /\ closePc' = "expired"
      /\ draining' = FALSE /\ drainSet' = {}
      /\ UNCHANGED <<rows, lastSeq, claimGen, records, cursor, unclean>>
  BY DEF Crash, serverVars, manifestVars
<1>3. IInv'
  <2>1. ServerOK' /\ DiskOK'
    BY <1>1, <1>2, Zenon DEF ServerOK, DiskOK
  <2>2. closed' \in BOOLEAN /\ closePc' \in CloseEnds \cup {"open"} /\ (closed' <=> closePc' # "open")
    BY <1>2 DEF CloseEnds
  <2> QED BY <1>1, <1>2, <2>1, <2>2, FreshInv
<1>4. DInv'
  BY <1>1, <1>2, FreshKeeps
<1>5. FInv'
  <2>1. seq' = base /\ base' = base /\ generation' = generation
    BY <1>2 DEF FreshBatcher
  <2>2. Held' = {}
    BY <1>2, FreshHolds
  <2>3. Above(Held)'
    BY <2>2 DEF Above
  <2>4. RecordsFenced'
    BY <1>2, <2>1 DEF FInv, RecordsFenced, OwnAbove, Distinct, Above, SeqsOf
  <2>5. Watermark' /\ FenceSound'
    BY <1>2, <2>1 DEF FInv, Watermark, FenceSound, StoredSeqs, SeqsOf
  <2> QED BY <1>1, <1>2, <2>1, <2>3, <2>4, <2>5 DEF FInv
<1> QED BY <1>3, <1>4, <1>5

\* A re-claim starts above every row, with a generation above every record's.
LEMMA ReclaimInv ==
  ASSUME IInv, DInv, FInv, Reclaim
  PROVE  IInv' /\ DInv' /\ FInv'
<1>1. /\ base \in Nat /\ generation \in Nat /\ claimGen \in Nat /\ lastSeq \in Nat /\ ServerOK /\ DiskOK
      /\ rows \subseteq Row /\ records \subseteq Record /\ generation <= claimGen
  BY DEF IInv, IdsOK, ServerOK, DiskOK, FInv
<1>2. /\ FreshBatcher(lastSeq, claimGen + 1) /\ closed' = FALSE /\ closePc' = "open"
      /\ claimGen' = claimGen + 1
      /\ UNCHANGED <<rows, lastSeq, records, cursor, unclean, draining, drainSet>>
  BY DEF Reclaim, outboxVars
<1>3. IInv'
  <2>1. ServerOK' /\ DiskOK'
    BY <1>1, <1>2 DEF ServerOK, DiskOK
  <2>2. claimGen + 1 \in Nat
    BY <1>1
  <2>3. closed' \in BOOLEAN /\ closePc' \in CloseEnds \cup {"open"} /\ (closed' <=> closePc' # "open")
    BY <1>2, Zenon
  <2> QED BY <1>1, <1>2, <2>1, <2>2, <2>3, FreshInv
<1>4. DInv'
  BY <1>1, <1>2, FreshKeeps
<1>5. FInv'
  <2>1. seq' = lastSeq /\ base' = lastSeq /\ generation' = claimGen + 1
    BY <1>2 DEF FreshBatcher
  <2>2. Held' = {}
    BY <1>2, FreshHolds
  <2>3. Above(Held)'
    BY <2>2 DEF Above
  <2>4. RecordsFenced'
    <3>1. \A rec \in records : rec.gen \in Nat /\ rec.gen <= generation /\ Distinct(rec.items)
      BY <1>1 DEF FInv, RecordsFenced, Record
    <3>2. \A rec \in records : rec.gen <= claimGen + 1 /\ rec.gen # claimGen + 1
      BY <1>1, <3>1
    <3> QED BY <1>2, <2>1, <3>1, <3>2 DEF RecordsFenced, OwnAbove, Distinct
  <2>5. Watermark'
    BY <1>2, Zenon DEF FInv, Watermark, StoredSeqs, SeqsOf
  <2>6. FenceSound'
    <3>1. \A r \in rows : r.seq \in Nat /\ r.seq <= lastSeq
      BY <1>1 DEF Row, FInv, Watermark
    <3>2. \A r \in rows : ~(r.seq > lastSeq)
      BY <1>1, <3>1
    <3> QED BY <1>2, <2>1, <3>2 DEF FenceSound
  <2>7. generation' <= claimGen' /\ base' <= seq'
    BY <1>1, <1>2, <2>1
  <2> QED BY <2>3, <2>4, <2>5, <2>6, <2>7 DEF FInv
<1> QED BY <1>3, <1>4, <1>5

-----------------------------------------------------------------------------
(* The invariant of the path, and what follows from it                      *)

PInv == IInv /\ DInv /\ FInv

\* Every step of the batcher, the outbox, the drainer and the close is fenced.
LEMMA NextFenced ==
  ASSUME PInv, Next
  PROVE  FencedStep
BY EmitFenced, ScheduleFenced, NetworkFenced, SpillFenced, DrainFenced, CloseFenced DEF PInv, Next

\* The invariant holds of a first claim.
LEMMA InitPath ==
  ASSUME Init
  PROVE  PInv
<1>1. IInv /\ DInv
  BY InitInv, InitKeeps
<1>2. FInv
  <2>1. /\ rows = {} /\ lastSeq = 0 /\ claimGen = 1 /\ records = {} /\ seq = 0 /\ base = 0
        /\ generation = 1 /\ buffer = <<>> /\ batch = <<>> /\ rangeFirst = 0
    BY DEF Init
  <2>2. Held = {}
    BY <2>1, EmptyHolds DEF Held, RangeSeqs
  <2>3. Above(Held)
    BY <2>2 DEF Above
  <2>4. RecordsFenced /\ Watermark /\ FenceSound
    BY <2>1 DEF RecordsFenced, Watermark, FenceSound
  <2> QED BY <2>1, <2>3, <2>4 DEF FInv
<1> QED BY <1>1, <1>2 DEF PInv

\* A step that changes nothing is one the batcher may take.
LEMMA NextPath ==
  ASSUME PInv, [PathNext]_vars
  PROVE  PInv'
<1>1. CASE Next
  <2>1. IInv' /\ DInv'
    BY <1>1, NextInv, NextKeeps DEF PInv
  <2>2. FInv'
    BY <1>1, NextFenced, FencedFrame DEF PInv
  <2> QED BY <2>1, <2>2 DEF PInv
<1>2. CASE Crash
  BY <1>2, CrashInv DEF PInv
<1>3. CASE Reclaim
  BY <1>3, ReclaimInv DEF PInv
<1>4. CASE UNCHANGED vars
  <2>1. IInv' /\ DInv'
    BY <1>4, NextInv, NextKeeps DEF PInv
  <2>2. /\ UNCHANGED <<seq, base, generation, records, buffer, batch, rangeFirst, rangeLast>>
        /\ UNCHANGED serverVars
    BY <1>4 DEF vars, idVars, outboxVars, flushVars
  <2>3. Held' = Held
    BY <2>2 DEF Held, RangeSeqs
  <2>4. FInv'
    BY <2>2, <2>3, QuietFenced, FencedFrame DEF PInv
  <2> QED BY <2>1, <2>4 DEF PInv
<1> QED BY <1>1, <1>2, <1>3, <1>4 DEF PathNext

\* The invariants of control, delivery and the fence hold across the lives of a worker.
THEOREM PathInvariance == PathSpec => []PInv
<1>1. Init => PInv
  BY InitPath
<1>2. PInv /\ [PathNext]_vars => PInv'
  BY NextPath
<1> QED BY <1>1, <1>2, PTL DEF PathSpec

\* Every row above the seq the live batcher started from was written by its own
\* claim: a crashed worker's records never take a seq of its successor.
THEOREM FenceHolds == PathSpec => []FenceSound
<1>1. PInv => FenceSound
  BY DEF PInv, FInv
<1> QED BY <1>1, PathInvariance, PTL

\* No seq of the current claim vanishes, also when earlier claims crashed and
\* left records behind.
THEOREM NoSeqVanishesAcrossLives == PathSpec => []NoSeqVanishes
<1>1. PInv => NoSeqVanishes
  BY DEF PInv, DInv
<1> QED BY <1>1, PathInvariance, PTL

-----------------------------------------------------------------------------
(* The transcript is a RunLog                                               *)

\* Under the refinement mapping, what the api allows to be appended is a Write.
LEMMA AppendWrites ==
  ASSUME PInv, Appends, UNCHANGED <<base, generation>>
  PROVE  Transcript!Write(rows' \ rows)
<1>1. PICK S \in SUBSET Item : Distinct(S) /\ Above(SeqsOf(S)) /\ AppendMessages(S, generation)
  BY DEF Appends
<1>2. generation = claimGen /\ claimGen' = claimGen
  BY <1>1 DEF Appends, AppendMessages
<1>3. \A r \in rows' \ rows :
        \E it \in S : /\ it.seq \notin StoredSeqs
                      /\ r = [seq |-> it.seq, class |-> it.class, tombstoned |-> it.tombstoned,
                              gen |-> generation]
  <2>1. S \in SUBSET Item /\ AppendMessages(S, generation)
    BY <1>1
  <2> QED BY <2>1 DEF AppendMessages, InsertRunMessage
<1>4. \A r \in rows' \ rows : r.gen = generation /\ r.seq > base /\ r.seq \notin {s.seq : s \in rows}
  <2> SUFFICES ASSUME NEW r \in rows' \ rows
               PROVE  r.gen = generation /\ r.seq > base /\ r.seq \notin {s.seq : s \in rows}
    OBVIOUS
  <2>1. PICK it \in S : /\ it.seq \notin StoredSeqs
                        /\ r = [seq |-> it.seq, class |-> it.class, tombstoned |-> it.tombstoned,
                                gen |-> generation]
    BY <1>3
  <2>2. r.seq = it.seq /\ r.gen = generation
    BY <2>1
  <2>3. it.seq > base
    BY <1>1 DEF Above, SeqsOf
  <2> QED BY <2>1, <2>2, <2>3 DEF StoredSeqs, SeqsOf
<1>5. ASSUME NEW r \in rows' \ rows, NEW s \in rows' \ rows, r.seq = s.seq
      PROVE  r = s
  <2>1. PICK it \in S : r = [seq |-> it.seq, class |-> it.class, tombstoned |-> it.tombstoned,
                             gen |-> generation]
    BY <1>3
  <2>2. PICK jt \in S : s = [seq |-> jt.seq, class |-> jt.class, tombstoned |-> jt.tombstoned,
                             gen |-> generation]
    BY <1>3
  <2>3. it.seq = jt.seq
    BY <1>5, <2>1, <2>2
  <2>4. it = jt
    BY <1>1, <2>3, Zenon DEF Distinct
  <2> QED BY <2>1, <2>2, <2>4, Zenon
<1>6. rows' = rows \cup (rows' \ rows)
  BY <1>1, AppendedRows, Zenon
<1> QED BY <1>2, <1>4, <1>5, <1>6 DEF Transcript!Write, Transcript!LogSeqs

\* When the claim moves on, its successor will start above every row there is.
LEMMA MovesOnClaims ==
  ASSUME PInv, rows' = rows, claimGen' = claimGen + 1,
         \/ lastSeq' = lastSeq /\ generation' = generation
         \/ base' = lastSeq /\ generation' = claimGen'
  PROVE  Transcript!Claim
<1>1. lastSeq \in Nat /\ claimGen \in Nat /\ generation \in Nat /\ generation <= claimGen
  BY DEF PInv, IInv, ServerOK, IdsOK, FInv
<1>2. (IF generation = claimGen THEN base ELSE lastSeq)' = lastSeq
  BY <1>1
<1>3. lastSeq \in {r.seq : r \in rows} \cup {0} /\ \A s \in {r.seq : r \in rows} : s <= lastSeq
  BY DEF PInv, FInv, Watermark, StoredSeqs, SeqsOf
<1> QED BY <1>2, <1>3 DEF Transcript!Claim, Transcript!LogSeqs

\* Every step of the path is a step of the transcript, or leaves it alone.
LEMMA PathStepRefines ==
  ASSUME PInv, [PathNext]_vars
  PROVE  [Transcript!LogNext]_(Transcript!logVars)
<1>1. CASE Next
  <2>1. ServerStep /\ UNCHANGED <<base, generation>>
    BY <1>1, NextFenced DEF FencedStep
  <2>2. CASE UNCHANGED serverVars
    BY <2>1, <2>2 DEF Transcript!logVars, serverVars
  <2>3. CASE Appends
    BY <2>1, <2>3, AppendWrites DEF Transcript!LogNext
  <2>4. CASE LoseClaim
    BY <2>1, <2>4, MovesOnClaims DEF LoseClaim, Transcript!LogNext
  <2> QED BY <2>1, <2>2, <2>3, <2>4 DEF ServerStep
<1>2. CASE Crash
  <2>1. UNCHANGED serverVars /\ base' = base /\ generation' = generation
    BY <1>2 DEF Crash, FreshBatcher
  <2> QED BY <2>1 DEF Transcript!logVars, serverVars
<1>3. CASE Reclaim
  <2>1. rows' = rows /\ claimGen' = claimGen + 1 /\ base' = lastSeq /\ generation' = claimGen'
    BY <1>3 DEF Reclaim, FreshBatcher
  <2> QED BY <2>1, MovesOnClaims DEF Transcript!LogNext
<1>4. CASE UNCHANGED vars
  BY <1>4 DEF vars, serverVars, idVars, Transcript!logVars
<1> QED BY <1>1, <1>2, <1>3, <1>4 DEF PathNext

\* The message path implements RunLog: whatever is retried, split, spilled, drained
\* twice or cut short by a crash, the transcript only grows, one row per seq, and
\* only by the live claim above everything earlier claims stored.
THEOREM TranscriptIsRunLog == PathSpec => ImplementsRunLog
<1>1. Init => Transcript!LogInit
  BY DEF Init, Transcript!LogInit
<1>2. PInv /\ [PathNext]_vars => [Transcript!LogNext]_(Transcript!logVars)
  BY PathStepRefines
<1> QED BY <1>1, <1>2, PathInvariance, PTL DEF PathSpec, ImplementsRunLog, Transcript!LogSpec
=============================================================================
