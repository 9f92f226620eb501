---------------------------- MODULE ProgressProofs ----------------------------
(***************************************************************************)
(* A flush comes to its end, and so does an attempt of close(), for every   *)
(* value of the constants: every answer of the api or of the disk lowers a  *)
(* measure of what is ahead of the flush, and no attempt leaves more to     *)
(* deliver than it found. The measure needs the control invariant of        *)
(* MessageBatcherProofs and the order of DeliveryProofs, which hold in      *)
(* every life of a worker by FenceProofs.                                   *)
(***************************************************************************)
EXTENDS FenceProofs

-----------------------------------------------------------------------------
(* A flush comes to its end: what is ahead of it gets less with every       *)
(* answer, whatever the answer is.                                          *)

\* The seqs of messages that are not markers.
Bare(S) == SeqsOf({m \in S : ~m.tombstoned})

LEMMA BareUnion ==
  ASSUME NEW A, NEW B
  PROVE  Bare(A \cup B) = Bare(A) \cup Bare(B)
BY DEF Bare, SeqsOf

\* The measure where no window is open: what is in hand and what waits.
LEMMA MeasureAtRest ==
  ASSUME FlushOK, lo = 0
  PROVE  Work = Len(batch) + Left(buffer) /\ Unmarked = Bare(Range(batch) \cup Range(buffer))
BY FromZero, Zenon DEF FlushOK, Work, Unmarked, Bare

\* The width of the pending range is a number, and what it counts is there.
LEMMA WidthNat ==
  ASSUME FlushOK
  PROVE  PendingRangeWidth \in Nat
BY DEF FlushOK, PendingRangeWidth

\* What a turn of the loop with buf ahead of it posts, and what it leaves.
Turns(buf, limit) ==
  /\ pc' = "post"
  /\ Work' = Left(buf)
  /\ buf # <<>> => Unmarked' = Bare(Range(buf))
  /\ Len(batch') \in Nat /\ (limit # 0 => Len(batch') <= limit)

LEMMA TakePrefixMeasure ==
  ASSUME NEW buf \in Seq(Item), NEW limit \in Nat, TakePrefix(buf, limit), lo' = 0,
         PendingRangeWidth' \in Nat
  PROVE  /\ Work' = Len(buf) + PendingRangeWidth'
         /\ Unmarked' = Bare(Range(buf))
         /\ Len(batch') \in Nat /\ (limit # 0 => Len(batch') <= limit)
<1>1. PICK n \in PrefixLengths(buf, limit) :
        batch' = SubSeq(buf, 1, n) /\ buffer' = From(buf, n)
  BY Zenon DEF TakePrefix
<1>2. n \in 0 .. Len(buf) /\ (limit # 0 => n <= limit)
  BY DEF PrefixLengths
<1>3. /\ batch' \in Seq(Item) /\ Len(batch') = n /\ Len(buffer') = Len(buf) - n
      /\ Range(buf) = Range(batch') \cup Range(buffer')
  BY <1>1, <1>2, CutType, CutRange, Zenon
<1>4. From(batch', lo') = batch'
  BY <1>3, FromZero
<1>5. Work' = Len(batch') + (Len(buffer') + PendingRangeWidth')
  BY <1>4 DEF Work, Left
<1>6. Unmarked' = Bare(Range(buf))
  BY <1>3, <1>4, Zenon DEF Unmarked, Bare
<1>7. Len(batch') + (Len(buffer') + PendingRangeWidth') = Len(buf) + PendingRangeWidth'
  <2>1. n \in Int /\ Len(buf) \in Int
    BY <1>2
  <2> QED BY <1>3, <2>1
<1> QED BY <1>2, <1>3, <1>5, <1>6, <1>7

LEMMA SendNextMeasure ==
  ASSUME FlushOK, NEW buf \in Seq(Item), NEW limit \in Nat, HasWork(buf), SendNext(buf, limit)
  PROVE  Turns(buf, limit)
<1>1. pc' = "post" /\ lo' = 0
  BY DEF SendNext, NoWindow
<1>2. CASE buf # <<>> /\ TakePrefix(buf, limit) /\ UNCHANGED rangeVars
  <2>1. PendingRangeWidth' = PendingRangeWidth
    BY <1>2 DEF PendingRangeWidth, rangeVars
  <2> QED BY <1>1, <1>2, <2>1, WidthNat, TakePrefixMeasure DEF Turns, Left
<1>3. CASE buf = <<>> /\ RefillPendingRangeChunk /\ TakePrefix(RangeChunk, limit)
  <2>1. rangeFirst \in Nat \ {0} /\ rangeLast \in Nat /\ rangeFirst <= rangeLast
    BY <1>3 DEF HasWork, FlushOK
  <2>2. /\ RangeChunkEnd \in Nat /\ rangeFirst <= RangeChunkEnd /\ RangeChunkEnd <= rangeLast
        /\ RangeChunk \in Seq(Item) /\ Len(RangeChunk) = RangeChunkEnd - rangeFirst + 1
    BY <2>1, RangeChunkOK
  <2>3. PendingRangeWidth' = rangeLast - RangeChunkEnd
    BY <1>3, <2>1, <2>2 DEF RefillPendingRangeChunk, PendingRangeWidth
  <2>4. PendingRangeWidth' \in Nat /\ Len(RangeChunk) + PendingRangeWidth' = PendingRangeWidth
    BY <2>1, <2>2, <2>3 DEF PendingRangeWidth
  <2>5. Left(buf) = PendingRangeWidth
    BY <1>3, WidthNat DEF Left
  <2> QED BY <1>1, <1>3, <2>2, <2>4, <2>5, TakePrefixMeasure DEF Turns
<1> QED BY <1>2, <1>3 DEF SendNext

LEMMA NextTurnMeasure ==
  ASSUME FlushOK, NEW buf \in Seq(Item), NEW limit \in Nat, NextTurn(buf, limit)
  PROVE  pc' = "idle" \/ Turns(buf, limit)
BY SendNextMeasure, Zenon DEF NextTurn, StopFlush

LEMMA GivesUpStage ==
  ASSUME NEW buf, NEW s, NoteTransientFailure(buf, s)
  PROVE  pc' \in {"idle", "enterSpill"}
BY DEF NoteTransientFailure, StopFlush

\* The types of the measure, and the stages of a flush over the network.
LEMMA MeasureNat ==
  ASSUME FlushOK
  PROVE  /\ lo \in 0 .. Len(batch) \/ pc \notin {"bisect", "marker"}
         /\ pc \in {"post", "bisect", "marker"} => Work = Len(batch) - lo + Left(buffer) /\ Left(buffer) \in Nat
<1>1. lo \in Nat /\ hi \in Nat /\ batch \in Seq(Item) /\ buffer \in Seq(Item)
  BY DEF FlushOK
<1>2. pc \in {"bisect", "marker"} => lo < Len(batch)
  BY <1>1 DEF FlushOK
<1>3. pc = "post" => lo = 0
  BY DEF FlushOK
<1>4. pc \in {"post", "bisect", "marker"} => lo \in 0 .. Len(batch)
  BY <1>1, <1>2, <1>3
<1>5. lo \in 0 .. Len(batch) => Len(From(batch, lo)) = Len(batch) - lo
  BY <1>1, CutType
<1>6. Left(buffer) \in Nat
  BY <1>1, WidthNat DEF Left
<1> QED BY <1>1, <1>4, <1>5, <1>6 DEF Work

LEMMA StageDrops ==
  ASSUME pc \in {"post", "bisect", "marker"}, pc' = "enterSpill"
  PROVE  Closer
BY DEF Closer, Stage

LEMMA StageSame ==
  ASSUME pc \in {"post", "bisect", "marker"}, pc' \in {"post", "bisect", "marker"}
  PROVE  Stage' = Stage
BY DEF Stage

\* Putting messages back in front of the buffer, to be sent again.
LEMMA BackInFront ==
  ASSUME FlushOK, NEW b \in Seq(Item)
  PROVE  /\ b \o buffer \in Seq(Item) /\ Left(b \o buffer) = Len(b) + Left(buffer)
         /\ Left(buffer) \in Nat /\ Len(b) \in Nat /\ (b # <<>> => Len(b) > 0 /\ b \o buffer # <<>>)
         /\ Bare(Range(b \o buffer)) = Bare(Range(b) \cup Range(buffer))
<1>1. buffer \in Seq(Item) /\ PendingRangeWidth \in Nat
  BY WidthNat DEF FlushOK
<1>2. /\ b \o buffer \in Seq(Item) /\ Len(b \o buffer) = Len(b) + Len(buffer)
      /\ Range(b \o buffer) = Range(b) \cup Range(buffer)
  BY <1>1, ConcatRange
<1>3. b # <<>> => Len(b) > 0 /\ b \o buffer # <<>>
  BY <1>1, ConcatNonEmpty
<1>4. Len(b) \in Nat /\ Len(buffer) \in Nat
  BY <1>1
<1>5. Left(b \o buffer) = Len(b) + Left(buffer) /\ Left(buffer) \in Nat
  BY <1>1, <1>2, <1>4 DEF Left
<1> QED BY <1>2, <1>3, <1>4, <1>5

\* A message replaced by its marker is one less that may be.
LEMMA MarkedIsLess ==
  ASSUME FlushOK, Ordered(batch \o buffer, seq), Len(batch) = 1, ~batch[1].tombstoned
  PROVE  /\ <<Tombstone(batch[1])>> \in Seq(Item)
         /\ LET now == Bare(Range(<<Tombstone(batch[1])>>) \cup Range(buffer))
                was == Bare(Range(batch) \cup Range(buffer))
            IN  now \subseteq was /\ now # was
<1> DEFINE t == Tombstone(batch[1])
<1>1. batch \in Seq(Item) /\ buffer \in Seq(Item) /\ batch[1] \in Item
  <2>1. batch \in Seq(Item) /\ buffer \in Seq(Item)
    BY DEF FlushOK
  <2>2. 1 \in 1 .. Len(batch)
    OBVIOUS
  <2> QED BY <2>1, <2>2, ItemAt, Zenon
<1>2. t \in Item /\ t.tombstoned
  BY <1>1, Zenon DEF Tombstone, Item
<1> HIDE DEF t
<1>3. <<t>> \in Seq(Item) /\ Len(<<t>>) = 1 /\ <<t>>[1] = t /\ 1 .. 1 = {1}
  BY <1>2
<1>4. Range(<<t>>) = {t}
  <2>1. Range(<<t>>) = {<<t>>[i] : i \in {1}}
    BY <1>3, SeqRange, Zenon
  <2> QED BY <1>3, <2>1, Zenon
<1>5. Range(batch) = {batch[1]}
  BY <1>1, SeqRange
<1>6. Bare({t}) = {} /\ Bare({batch[1]}) = {batch[1].seq}
  BY <1>2 DEF Bare, SeqsOf
<1>7. batch[1].seq \notin Bare(Range(buffer))
  <2> DEFINE u == batch \o buffer
  <2>1. /\ u \in Seq(Item) /\ Len(u) = 1 + Len(buffer) /\ u[1] = batch[1]
        /\ \A i \in 1 .. Len(buffer) : u[1 + i] = buffer[i]
    <3>1. /\ u \in Seq(Item) /\ Len(u) = Len(batch) + Len(buffer)
          /\ \A i \in 1 .. Len(batch) : u[i] = batch[i]
          /\ \A i \in 1 .. Len(buffer) : u[Len(batch) + i] = buffer[i]
      BY <1>1, ConcatRange, Zenon
    <3> HIDE DEF u
    <3> QED BY <3>1
  <2>2. Ordered(u, seq)
    OBVIOUS
  <2> HIDE DEF u
  <2>3. ASSUME NEW i \in 1 .. Len(buffer) PROVE buffer[i].seq # batch[1].seq
    <3>1. 1 \in 1 .. Len(u) /\ 1 + i \in 1 .. Len(u) /\ 1 < 1 + i
      BY <1>1, <2>1
    <3>2. u[1].seq < u[1 + i].seq /\ u[1].seq \in Nat /\ u[1 + i].seq \in Nat
      BY <2>1, <2>2, <3>1, ItemAt DEF Ordered
    <3> QED BY <2>1, <3>2
  <2> QED BY <1>1, <2>3, SeqRange DEF Bare, SeqsOf
<1>8. /\ Bare(Range(<<t>>) \cup Range(buffer)) = Bare(Range(buffer))
      /\ Bare(Range(batch) \cup Range(buffer)) = {batch[1].seq} \cup Bare(Range(buffer))
  BY <1>4, <1>5, <1>6, BareUnion
<1> QED BY <1>3, <1>7, <1>8 DEF t

\* Every answer to doFlush's post ends the flush or brings it closer to its end.
LEMMA PostMeasure ==
  ASSUME FlushOK, Ordered(batch \o buffer, seq), pc = "post",
         PostOk \/ PostAborted \/ PostTransient \/ PostMarkerRefused \/ PostFatal \/ PostOversizeSplit
           \/ PostOversizeOne \/ PostPermanentOne \/ PostPermanentMany
  PROVE  pc' = "idle" \/ Closer
<1>1. /\ batch \in Seq(Item) /\ buffer \in Seq(Item) /\ batch # <<>> /\ lo = 0 /\ splitLimit \in Nat
      /\ Len(batch) \in Nat /\ Len(batch) >= 1 /\ Left(buffer) \in Nat
  <2>1. batch \in Seq(Item) /\ buffer \in Seq(Item) /\ batch # <<>> /\ lo = 0 /\ splitLimit \in Nat
    BY DEF FlushOK
  <2>2. Len(batch) \in Nat /\ Len(batch) > 0 /\ Left(buffer) \in Nat
    BY <2>1, BackInFront, Zenon
  <2> QED BY <2>1, <2>2
<1>2. Work = Len(batch) + Left(buffer) /\ Unmarked = Bare(Range(batch) \cup Range(buffer))
  BY <1>1, MeasureAtRest
<1>3. pc' = "post" => Stage' = Stage
  BY StageSame
<1>4. CASE PostOk
  <2>1. pc' = "idle" \/ Turns(buffer, 0)
    BY <1>1, <1>4, NextTurnMeasure DEF PostOk
  <2>2. ASSUME Turns(buffer, 0) PROVE Closer
    <3>1. pc' = "post" /\ Work' = Left(buffer)
      BY <2>2 DEF Turns
    <3>2. Work' < Work
      BY <1>1, <1>2, <3>1
    <3> QED BY <1>3, <3>1, <3>2 DEF Closer
  <2> QED BY <2>1, <2>2
<1>5. CASE PostAborted \/ PostMarkerRefused \/ PostFatal
  BY <1>5 DEF PostAborted, PostMarkerRefused, PostFatal, StopFlush
<1>6. CASE PostTransient
  <2>1. pc' \in {"idle", "enterSpill"}
    BY <1>6, GivesUpStage, Zenon DEF PostTransient
  <2> QED BY <2>1, StageDrops
<1>7. CASE PostOversizeSplit
  <2>1. Len(batch) > 1 /\ NextTurn(batch \o buffer, Len(batch) \div 2)
    BY <1>7 DEF PostOversizeSplit
  <2>2. /\ batch \o buffer \in Seq(Item) /\ batch \o buffer # <<>> /\ Left(batch \o buffer) = Work
        /\ Bare(Range(batch \o buffer)) = Unmarked
    BY <1>1, <1>2, BackInFront
  <2>3. Len(batch) \div 2 \in Nat /\ Len(batch) \div 2 # 0 /\ Len(batch) \div 2 < Len(batch)
    BY <1>1, <2>1
  <2>4. pc' = "idle" \/ Turns(batch \o buffer, Len(batch) \div 2)
    BY <2>1, <2>2, <2>3, NextTurnMeasure, Zenon
  <2>5. ASSUME Turns(batch \o buffer, Len(batch) \div 2) PROVE Closer
    <3>1. /\ pc' = "post" /\ Work' = Work /\ Unmarked' = Unmarked
          /\ Len(batch') \in Nat /\ Len(batch') <= Len(batch) \div 2
      BY <2>2, <2>3, <2>5 DEF Turns
    <3>2. Phase' = Phase /\ Width' = Len(batch') /\ Width = Len(batch)
      BY <3>1 DEF Phase, Width
    <3>3. Width' < Width
      BY <1>1, <2>3, <3>1, <3>2
    <3> QED BY <1>3, <3>1, <3>2, <3>3 DEF Closer
  <2> QED BY <2>4, <2>5
<1>8. CASE PostOversizeOne \/ PostPermanentOne
  <2> DEFINE one == <<Tombstone(batch[1])>>
  <2>1. Len(batch) = 1 /\ ~batch[1].tombstoned
    BY <1>8 DEF PostOversizeOne, PostPermanentOne, LoneMarker
  <2>2. PICK limit \in Nat : NextTurn(one \o buffer, limit)
    BY <1>1, <1>8, Zenon DEF PostOversizeOne, PostPermanentOne
  <2>3. /\ one \in Seq(Item) /\ Bare(Range(one) \cup Range(buffer)) \subseteq Unmarked
        /\ Bare(Range(one) \cup Range(buffer)) # Unmarked
    BY <1>2, <2>1, MarkedIsLess, Zenon
  <2>4. Len(one) = 1 /\ one # <<>>
    OBVIOUS
  <2> HIDE DEF one
  <2>5. /\ one \o buffer \in Seq(Item) /\ one \o buffer # <<>> /\ Left(one \o buffer) = Work
        /\ Bare(Range(one \o buffer)) = Bare(Range(one) \cup Range(buffer))
    BY <1>1, <1>2, <2>1, <2>3, <2>4, BackInFront, Zenon
  <2>6. pc' = "idle" \/ Turns(one \o buffer, limit)
    BY <2>2, <2>5, NextTurnMeasure, Zenon
  <2>7. ASSUME Turns(one \o buffer, limit) PROVE Closer
    <3>1. pc' = "post" /\ Work' = Work /\ Unmarked' \subseteq Unmarked /\ Unmarked' # Unmarked
      BY <2>3, <2>5, <2>7, Zenon DEF Turns
    <3> QED BY <1>3, <3>1 DEF Closer
  <2> QED BY <2>6, <2>7
<1>9. CASE PostPermanentMany
  <2>1. /\ pc' = "bisect" /\ lo' = lo /\ progressed' = FALSE /\ UNCHANGED <<buffer, batch, rangeVars>>
    BY <1>1, <1>9 DEF PostPermanentMany
  <2>2. Work' = Work /\ Unmarked' = Unmarked
    BY <2>1 DEF Work, Unmarked, Left, PendingRangeWidth, rangeVars
  <2>3. Phase' = 0 /\ Phase = 1
    BY <2>1 DEF Phase
  <2>4. Stage' = Stage
    BY <2>1, StageSame
  <2> QED BY <2>2, <2>3, <2>4 DEF Closer
<1> QED BY <1>4, <1>5, <1>6, <1>7, <1>8, <1>9

\* A marker put in a batch adds nothing that may still be replaced.
LEMMA MarkedHand ==
  ASSUME NEW b \in Seq(Item), NEW l \in Nat, l < Len(b),
         NEW c, c = b \/ c = [b EXCEPT ![l + 1] = Tombstone(b[l + 1])]
  PROVE  /\ c \in Seq(Item) /\ Len(c) = Len(b) /\ Len(From(c, l)) = Len(b) - l
         /\ Bare(Range(From(c, l))) \subseteq Bare(Range(From(b, l)))
<1>1. l + 1 \in 1 .. Len(b) /\ b[l + 1] \in Item /\ l \in 0 .. Len(b)
  OBVIOUS
<1>2. Tombstone(b[l + 1]) \in Item /\ Tombstone(b[l + 1]).tombstoned
  BY <1>1, Zenon DEF Tombstone, Item
<1>3. c \in Seq(Item) /\ Len(c) = Len(b)
  BY <1>1, <1>2
<1>4. \A i \in 1 .. Len(b) : c[i] = b[i] \/ c[i].tombstoned
  BY <1>1, <1>2
<1> DEFINE p == From(b, l)
           q == From(c, l)
<1>5. /\ p \in Seq(Item) /\ Len(p) = Len(b) - l /\ \A i \in 1 .. Len(b) - l : p[i] = b[l + i]
      /\ q \in Seq(Item) /\ Len(q) = Len(b) - l /\ \A i \in 1 .. Len(b) - l : q[i] = c[l + i]
  <2>1. l \in 0 .. Len(c)
    BY <1>1, <1>3
  <2>2. p \in Seq(Item) /\ Len(p) = Len(b) - l /\ \A i \in 1 .. Len(b) - l : p[i] = b[l + i]
    BY <1>1, CutType, Zenon
  <2>3. q \in Seq(Item) /\ Len(q) = Len(c) - l /\ \A i \in 1 .. Len(c) - l : q[i] = c[l + i]
    BY <1>3, <2>1, CutType, Zenon
  <2> QED BY <1>3, <2>2, <2>3, Zenon
<1> HIDE DEF p, q
<1>6. \A i \in 1 .. Len(b) - l : q[i] = p[i] \/ q[i].tombstoned
  <2> SUFFICES ASSUME NEW i \in 1 .. Len(b) - l PROVE q[i] = p[i] \/ q[i].tombstoned
    OBVIOUS
  <2>1. l + i \in 1 .. Len(b)
    OBVIOUS
  <2> QED BY <1>4, <1>5, <2>1
<1>7. Range(q) = {q[i] : i \in 1 .. Len(b) - l} /\ Range(p) = {p[i] : i \in 1 .. Len(b) - l}
  BY <1>5, SeqRange
<1>8. {m \in Range(q) : ~m.tombstoned} \subseteq {m \in Range(p) : ~m.tombstoned}
  BY <1>6, <1>7, Zenon
<1>9. Bare(Range(q)) \subseteq Bare(Range(p))
  BY <1>8, Zenon DEF Bare, SeqsOf
<1> QED BY <1>3, <1>5, <1>9 DEF p, q

\* A turn of the bisection's loop closes the window or moves past what was stored.
LEMMA NarrowToMeasure ==
  ASSUME FlushOK, pc = "bisect", NEW l \in Nat, NEW h \in Nat, NEW moved \in BOOLEAN,
         l < h, h <= hi, NarrowTo(l, h, moved),
         lo < l \/ (l = lo /\ h < hi /\ moved = progressed)
  PROVE  pc' = "idle" \/ Closer
<1>1. /\ batch \in Seq(Item) /\ buffer \in Seq(Item) /\ lo \in Nat /\ hi \in Nat
      /\ lo + 1 < hi /\ hi <= Len(batch) /\ progressed \in BOOLEAN
  BY DEF FlushOK
<1>2. Work = Len(batch) - lo + Left(buffer) /\ Left(buffer) \in Nat
  BY MeasureNat
<1>3. CASE pc' = "idle"
  BY <1>3
<1>4. CASE /\ pc' \in {"bisect", "marker"} /\ lo' = l /\ hi' = h /\ progressed' = moved
           /\ batch' = batch \/ batch' = [batch EXCEPT ![l + 1] = Tombstone(batch[l + 1])]
           /\ UNCHANGED <<buffer, rangeVars>>
  <2>1. l < Len(batch) /\ Len(batch) \in Nat
    BY <1>1
  <2>2. /\ Len(From(batch', l)) = Len(batch) - l
        /\ Bare(Range(From(batch', l))) \subseteq Bare(Range(From(batch, l)))
    BY <1>1, <1>4, <2>1, MarkedHand, Zenon
  <2>3. Left(buffer)' = Left(buffer)
    BY <1>4 DEF Left, PendingRangeWidth, rangeVars
  <2>4. Work' = Len(batch) - l + Left(buffer)
    BY <1>4, <2>2, <2>3 DEF Work
  <2>5. Stage' = Stage
    BY <1>4, StageSame
  <2>6. CASE lo < l
    <3>1. Work' < Work
      BY <1>1, <1>2, <2>1, <2>4, <2>6
    <3> QED BY <2>5, <3>1 DEF Closer
  <2>7. CASE l = lo /\ h < hi /\ moved = progressed
    <3>1. Work' = Work
      BY <1>2, <2>4, <2>7
    <3>2. /\ Unmarked = Bare(Range(From(batch, l))) \cup Bare(Range(buffer))
          /\ Unmarked' = Bare(Range(From(batch', l))) \cup Bare(Range(buffer))
      <4>1. Unmarked = Bare(Range(From(batch, l)) \cup Range(buffer))
        BY <2>7 DEF Unmarked, Bare
      <4>2. Unmarked' = Bare(Range(From(batch', l)) \cup Range(buffer))
        BY <1>4 DEF Unmarked, Bare
      <4> QED BY <4>1, <4>2, BareUnion, Zenon
    <3>3. Unmarked' \subseteq Unmarked
      BY <2>2, <3>2
    <3>4. Phase' = Phase
      BY <1>4, <2>7 DEF Phase
    <3>5. Width' = h - l /\ Width = hi - lo
      BY <1>4 DEF Width
    <3>6. Width' < Width
      BY <1>1, <2>7, <3>5
    <3> QED BY <2>5, <3>1, <3>3, <3>4, <3>6 DEF Closer
  <2> QED BY <2>6, <2>7
<1>5. \/ pc' = "idle"
      \/ /\ pc' \in {"bisect", "marker"} /\ lo' = l /\ hi' = h /\ progressed' = moved
         /\ batch' = batch \/ batch' = [batch EXCEPT ![l + 1] = Tombstone(batch[l + 1])]
         /\ UNCHANGED <<buffer, rangeVars>>
  BY Zenon DEF NarrowTo, StopFlush
<1> QED BY <1>3, <1>4, <1>5

\* After a bisection the flush goes on with less, or with as much and no search
\* under way, or hands over to the failure clock.
LEMMA AfterBisectMeasure ==
  ASSUME FlushOK, pc \in {"bisect", "marker"}, NEW l \in Nat, l <= Len(batch),
         NEW moved \in BOOLEAN, AfterBisect(From(batch, l), moved),
         lo < l \/ (l = lo /\ l < Len(batch) /\ moved = progressed)
  PROVE  pc' = "idle" \/ Closer
<1> DEFINE rest == From(batch, l)
<1>1. batch \in Seq(Item) /\ buffer \in Seq(Item) /\ lo \in Nat /\ splitLimit \in Nat /\ Len(batch) \in Nat
  BY DEF FlushOK
<1>2. Work = Len(batch) - lo + Left(buffer) /\ Left(buffer) \in Nat
  BY MeasureNat
<1>3. rest \in Seq(Item) /\ Len(rest) = Len(batch) - l
  BY <1>1, CutType
<1>4. /\ rest \o buffer \in Seq(Item) /\ Left(rest \o buffer) = Len(rest) + Left(buffer)
      /\ rest # <<>> => rest \o buffer # <<>>
      /\ Bare(Range(rest \o buffer)) = Bare(Range(rest) \cup Range(buffer))
  BY <1>3, BackInFront, Zenon
<1>5. CASE ~moved
  <2>1. pc' \in {"idle", "enterSpill"}
    BY <1>5, GivesUpStage, Zenon DEF AfterBisect
  <2> QED BY <2>1, StageDrops
<1>6. CASE moved
  <2>1. NextTurn(rest \o buffer, splitLimit)
    BY <1>6, Zenon DEF AfterBisect
  <2>2. pc' = "idle" \/ Turns(rest \o buffer, splitLimit)
    BY <1>1, <1>4, <2>1, NextTurnMeasure, Zenon
  <2>3. ASSUME Turns(rest \o buffer, splitLimit) PROVE Closer
    <3>1. pc' = "post" /\ Work' = Len(rest) + Left(buffer)
      BY <1>4, <2>3, Zenon DEF Turns
    <3>2. Stage' = Stage
      BY <3>1, StageSame
    <3>3. CASE lo < l
      <4>1. Work' < Work
        BY <1>1, <1>2, <1>3, <3>1, <3>3
      <4> QED BY <3>2, <4>1 DEF Closer
    <3>4. CASE l = lo /\ l < Len(batch) /\ moved = progressed
      <4>1. Work' = Work
        BY <1>2, <1>3, <3>1, <3>4
      <4>2. rest # <<>>
        BY <1>1, <1>3, <3>4
      <4>3. Unmarked' = Bare(Range(rest) \cup Range(buffer))
        BY <1>4, <2>3, <4>2, Zenon DEF Turns
      <4>4. Unmarked = Bare(Range(rest) \cup Range(buffer))
        BY <3>4 DEF Unmarked, Bare
      <4>5. Phase' = 1 /\ Phase = 2
        BY <1>6, <3>1, <3>4 DEF Phase
      <4> QED BY <3>2, <4>1, <4>3, <4>4, <4>5 DEF Closer
    <3> QED BY <3>3, <3>4
  <2> QED BY <2>2, <2>3
<1> QED BY <1>5, <1>6

\* Every answer in a bisection ends the flush or brings it closer to its end.
LEMMA BisectMeasure ==
  ASSUME FlushOK, pc \in {"bisect", "marker"},
         BisectOk \/ BisectPermanent \/ BisectAbandoned \/ BisectFatal
           \/ MarkerOk \/ MarkerTransient \/ MarkerRefused
  PROVE  pc' = "idle" \/ Closer
<1>1. lo \in Nat /\ hi \in Nat /\ Len(batch) \in Nat /\ lo < hi /\ hi <= Len(batch) /\ progressed \in BOOLEAN
  BY DEF FlushOK
<1>2. CASE BisectOk \/ BisectPermanent
  <2>1. pc = "bisect" /\ lo + 1 < hi
    BY <1>2, Zenon DEF BisectOk, BisectPermanent, FlushOK
  <2>2. Mid \in Nat /\ lo < Mid /\ Mid < hi
    BY <1>1, <2>1 DEF Mid
  <2>3. NarrowTo(Mid, hi, TRUE) \/ NarrowTo(lo, Mid, progressed)
    BY <1>2, Zenon DEF BisectOk, BisectPermanent
  <2>4. hi <= hi /\ Mid <= hi
    BY <1>1, <2>2
  <2> QED BY <1>1, <2>1, <2>2, <2>3, <2>4, NarrowToMeasure, Zenon
<1>3. CASE BisectAbandoned \/ MarkerTransient
  <2>1. AfterBisect(From(batch, lo), progressed)
    BY <1>3 DEF BisectAbandoned, MarkerTransient
  <2>2. lo <= Len(batch) /\ lo < Len(batch)
    BY <1>1
  <2> QED BY <1>1, <2>1, <2>2, AfterBisectMeasure
<1>4. CASE MarkerOk
  <2>1. AfterBisect(From(batch, lo + 1), TRUE)
    BY <1>4, Zenon DEF MarkerOk
  <2>2. lo + 1 \in Nat /\ lo + 1 <= Len(batch) /\ lo < lo + 1
    BY <1>1
  <2> QED BY <1>1, <2>1, <2>2, AfterBisectMeasure, Zenon
<1>5. CASE BisectFatal \/ MarkerRefused
  BY <1>5 DEF BisectFatal, MarkerRefused, StopFlush
<1> QED BY <1>2, <1>3, <1>4, <1>5

\* So does every call of a flush to the outbox.
LEMMA SpillMeasure ==
  ASSUME FlushOK, SpillStep
  PROVE  pc' = "idle" \/ Closer
<1>1. /\ batch \in Seq(Item) /\ buffer \in Seq(Item) /\ splitLimit \in Nat
      /\ pc \in {"mark", "range", "segment"} => lo = 0
  BY DEF FlushOK
<1>2. CASE EnterSpill \/ EnterSpillFails \/ SpillWriteFails \/ SpillClear
  BY <1>2, Zenon DEF EnterSpill, EnterSpillFails, SpillWriteFails, SpillClear, StopSpillFlush, StopFlush
<1>3. CASE SpillMark
  <2>1. pc = "mark" /\ pc' \in {"range", "segment", "clear", "idle"}
    BY <1>3, Zenon DEF SpillMark, NextSegment
  <2> QED BY <2>1 DEF Closer, Stage
<1>4. CASE SpillRange
  <2>1. pc = "range" /\ pc' \in {"segment", "clear", "idle"}
    BY <1>4, Zenon DEF SpillRange, NextSegment
  <2> QED BY <2>1 DEF Closer, Stage
<1>5. CASE SpillSegment
  <2>1. pc = "segment" /\ NextSegment(rangeFirst) /\ UNCHANGED rangeVars
    BY <1>5 DEF SpillSegment
  <2>2. \/ pc' \in {"clear", "idle"}
        \/ pc' = "segment" /\ TakePrefix(buffer, splitLimit) /\ UNCHANGED windowVars
    BY <2>1, Zenon DEF NextSegment
  <2>3. CASE pc' = "segment" /\ TakePrefix(buffer, splitLimit) /\ UNCHANGED windowVars
    <3>1. lo' = 0 /\ batch # <<>> /\ PendingRangeWidth' = PendingRangeWidth /\ lo = 0
      BY <1>1, <2>1, <2>3 DEF FlushOK, windowVars, PendingRangeWidth, rangeVars
    <3>2. Work' = Left(buffer)
      BY <1>1, <2>3, <3>1, WidthNat, TakePrefixMeasure DEF Left
    <3>3. Work = Len(batch) + Left(buffer)
      BY <3>1, MeasureAtRest
    <3>4. Len(batch) \in Nat /\ Len(batch) > 0 /\ Left(buffer) \in Nat
      BY <1>1, <3>1, BackInFront, Zenon
    <3>5. Work' < Work
      BY <3>2, <3>3, <3>4
    <3>6. Stage' = Stage
      BY <2>1, <2>3 DEF Stage
    <3> QED BY <3>5, <3>6 DEF Closer
  <2>4. CASE pc' \in {"clear", "idle"}
    BY <2>1, <2>4 DEF Closer, Stage
  <2> QED BY <2>2, <2>3, <2>4
<1> QED BY <1>2, <1>3, <1>4, <1>5 DEF SpillStep

\* The timer, a cancellation, the drainer and the close fiber leave a running
\* flush what it has to do.
LEMMA OthersLeaveIt ==
  ASSUME IInv, pc # "idle", Next, ~NetworkStep, ~SpillStep, ~Emit
  PROVE  UNCHANGED <<batch, buffer, rangeVars, pc, windowVars>>
<1>1. closePc \notin {"drain", "fMark", "fRange", "fSegment", "fClear"}
  BY DEF IInv, CloseOK, Settled
<1>2. CASE TimerFires \/ Flush \/ AbortFlush
  BY <1>2, Zenon DEF TimerFires, Flush, AbortFlush, StartFlush, FlushMayStart
<1>3. CASE DrainStep \/ ClaimMovesOn
  BY <1>3, Zenon DEF DrainStep, DrainProceeds, DrainFails, Eviction, DrainFinished, ClaimMovesOn, BatcherVars,
     flushVars, rangeVars, windowVars
<1>4. CASE CloseStep
  <2>1. (CloseFrame /\ CloseSame) \/ CloseClearsTimer \/ PreserveStart
    BY <1>1, <1>4, Zenon DEF CloseStep, CloseStart, CloseJoins, CloseExpires, CloseAttempt, CloseAttemptReturns,
       CloseGivesUp, FinalMark, FinalRange, FinalSegment, FinalClear, FinalSpillFails, PreserveJoins
  <2> QED BY <2>1, Zenon DEF CloseFrame, CloseSame, CloseClearsTimer, PreserveStart
<1> QED BY <1>2, <1>3, <1>4 DEF Next

\* Every flush comes closer to its end with every answer.
LEMMA FlushMeasure ==
  ASSUME IInv, DInv, Next, pc # "idle", pc' # "idle"
  PROVE  IF NetworkStep \/ SpillStep THEN Closer
         ELSE Emit \/ UNCHANGED <<batch, buffer, rangeVars, pc, windowVars>>
<1>1. FlushOK /\ Ordered(batch \o buffer, seq)
  BY DEF IInv, DInv
<1>2. CASE NetworkStep
  <2>1. CASE pc = "post"
    <3>1. PostOk \/ PostAborted \/ PostTransient \/ PostMarkerRefused \/ PostFatal \/ PostOversizeSplit
            \/ PostOversizeOne \/ PostPermanentOne \/ PostPermanentMany
      BY <1>2, <2>1, Zenon DEF NetworkStep, BisectOk, BisectPermanent, BisectAbandoned, BisectFatal,
         MarkerOk, MarkerTransient, MarkerRefused
    <3> QED BY <1>1, <1>2, <2>1, <3>1, PostMeasure, Zenon
  <2>2. CASE pc \in {"bisect", "marker"}
    <3>1. BisectOk \/ BisectPermanent \/ BisectAbandoned \/ BisectFatal
            \/ MarkerOk \/ MarkerTransient \/ MarkerRefused
      BY <1>2, <2>2, Zenon DEF NetworkStep, PostOk, PostAborted, PostTransient, PostMarkerRefused, PostFatal,
         PostOversizeSplit, PostOversizeOne, PostPermanentOne, PostPermanentMany
    <3> QED BY <1>1, <1>2, <2>2, <3>1, BisectMeasure, Zenon
  <2>3. pc = "post" \/ pc \in {"bisect", "marker"}
    BY <1>2, Zenon DEF NetworkStep, PostOk, PostAborted, PostTransient, PostMarkerRefused, PostFatal,
       PostOversizeSplit, PostOversizeOne, PostPermanentOne, PostPermanentMany, BisectOk, BisectPermanent,
       BisectAbandoned, BisectFatal, MarkerOk, MarkerTransient, MarkerRefused
  <2> QED BY <2>1, <2>2, <2>3
<1>3. CASE SpillStep
  BY <1>1, <1>3, SpillMeasure, Zenon
<1>4. CASE ~NetworkStep /\ ~SpillStep
  BY <1>4, OthersLeaveIt, Zenon
<1> QED BY <1>2, <1>3, <1>4, Zenon

\* Every answer of the api or the disk ends a flush or brings it closer to its end,
\* and only emit() gives it more to do: no sequence of splits, bisections, markers and
\* segments leads back to where it was (doFlush, handleFailure, bisect, doSpillFlush).
THEOREM FlushesProgress == PathSpec => TurnsProgress
<1>1. ASSUME PInv, [PathNext]_vars
      PROVE  [pc # "idle" /\ pc' # "idle" =>
                IF NetworkStep \/ SpillStep THEN Closer
                ELSE Emit \/ UNCHANGED <<batch, buffer, rangeVars, pc, windowVars>>]_vars
  <2>1. CASE Next
    BY <1>1, <2>1, FlushMeasure, Zenon DEF PInv
  <2>2. CASE Crash \/ Reclaim
    <3>1. pc' = "idle"
      BY <2>2 DEF Crash, Reclaim, FreshBatcher
    <3> QED BY <3>1
  <2>3. CASE UNCHANGED vars
    BY <2>3
  <2> QED BY <1>1, <2>1, <2>2, <2>3 DEF PathNext
<1>2. PInv /\ [PathNext]_vars =>
        [pc # "idle" /\ pc' # "idle" =>
           IF NetworkStep \/ SpillStep THEN Closer
           ELSE Emit \/ UNCHANGED <<batch, buffer, rangeVars, pc, windowVars>>]_vars
  BY <1>1
<1> QED BY <1>2, PathInvariance, PTL DEF PathSpec, TurnsProgress

-----------------------------------------------------------------------------
(* No answer leaves more to do than there was, so neither does an attempt   *)
(* of close().                                                              *)

\* A flush that stops has all that is left in the buffer and the range.
LEMMA StopWork ==
  ASSUME FlushOK, NEW buf \in Seq(Item), buffer' = buf, batch' = <<>>, lo' = 0, UNCHANGED rangeVars
  PROVE  Work' = Left(buf)
<1>1. Len(From(<<>>, 0)) = 0
  BY DEF From
<1>2. PendingRangeWidth' = PendingRangeWidth
  BY DEF PendingRangeWidth, rangeVars
<1>3. Work' = 0 + (Len(buf) + PendingRangeWidth)
  BY <1>1, <1>2 DEF Work, Left
<1>4. PendingRangeWidth \in Nat
  BY WidthNat
<1> QED BY <1>3, <1>4 DEF Left

LEMMA TurnWork ==
  ASSUME FlushOK, NEW buf \in Seq(Item),
         \/ \E limit \in Nat : NextTurn(buf, limit)
         \/ \E limit, tripping : StopFlush(buf, limit, tripping)
         \/ \E s : NoteTransientFailure(buf, s)
  PROVE  Work' = Left(buf)
<1>1. CASE buffer' = buf /\ batch' = <<>> /\ lo' = 0 /\ UNCHANGED rangeVars
  BY <1>1, StopWork
<1>2. CASE \E limit \in Nat : HasWork(buf) /\ SendNext(buf, limit)
  BY <1>2, SendNextMeasure DEF Turns
<1>3. \/ buffer' = buf /\ batch' = <<>> /\ lo' = 0 /\ UNCHANGED rangeVars
      \/ \E limit \in Nat : HasWork(buf) /\ SendNext(buf, limit)
  BY Zenon DEF NextTurn, StopFlush, NoteTransientFailure, NoWindow
<1> QED BY <1>1, <1>2, <1>3

LEMMA PostWork ==
  ASSUME FlushOK, pc = "post",
         PostOk \/ PostAborted \/ PostTransient \/ PostMarkerRefused \/ PostFatal \/ PostOversizeSplit
           \/ PostOversizeOne \/ PostPermanentOne \/ PostPermanentMany
  PROVE  Work' <= Work
<1>1. /\ batch \in Seq(Item) /\ buffer \in Seq(Item) /\ batch # <<>> /\ lo = 0 /\ splitLimit \in Nat
      /\ Len(batch) \in Nat /\ Len(batch) > 0 /\ Left(buffer) \in Nat
  <2>1. batch \in Seq(Item) /\ buffer \in Seq(Item) /\ batch # <<>> /\ lo = 0 /\ splitLimit \in Nat
    BY DEF FlushOK
  <2> QED BY <2>1, BackInFront, Zenon
<1>2. Work = Len(batch) + Left(buffer)
  BY <1>1, MeasureAtRest
<1>3. CASE PostOk \/ PostMarkerRefused
  <2>1. Work' = Left(buffer)
    <3>1. \/ \E limit \in Nat : NextTurn(buffer, limit)
          \/ \E limit, tripping : StopFlush(buffer, limit, tripping)
      BY <1>3, Zenon DEF PostOk, PostMarkerRefused
    <3> QED BY <1>1, <3>1, TurnWork
  <2> QED BY <1>1, <1>2, <2>1
<1>4. CASE PostAborted \/ PostTransient \/ PostFatal \/ PostOversizeSplit
  <2>1. batch \o buffer \in Seq(Item) /\ Left(batch \o buffer) = Len(batch) + Left(buffer)
    BY <1>1, BackInFront, Zenon
  <2>2. Len(batch) \div 2 \in Nat
    BY <1>1
  <2>3. \/ \E limit \in Nat : NextTurn(batch \o buffer, limit)
        \/ \E limit, tripping : StopFlush(batch \o buffer, limit, tripping)
        \/ \E s : NoteTransientFailure(batch \o buffer, s)
    BY <1>4, <2>2, Zenon DEF PostAborted, PostTransient, PostFatal, PostOversizeSplit
  <2>4. Work' = Left(batch \o buffer)
    BY <2>1, <2>3, TurnWork, Zenon
  <2> QED BY <1>1, <1>2, <2>1, <2>4
<1>5. CASE PostOversizeOne \/ PostPermanentOne
  <2> DEFINE one == <<Tombstone(batch[1])>>
  <2>1. Len(batch) = 1
    BY <1>5 DEF PostOversizeOne, PostPermanentOne
  <2>2. batch[1] \in Item
    <3>1. 1 \in 1 .. Len(batch)
      BY <2>1
    <3> QED BY <1>1, <3>1, ItemAt, Zenon
  <2>3. one \in Seq(Item) /\ Len(one) = 1
    <3>1. Tombstone(batch[1]) \in Item
      BY <2>2, Zenon DEF Tombstone, Item
    <3> QED BY <3>1
  <2>4. \E limit \in Nat : NextTurn(one \o buffer, limit)
    BY <1>1, <1>5, Zenon DEF PostOversizeOne, PostPermanentOne
  <2> HIDE DEF one
  <2>5. one \o buffer \in Seq(Item) /\ Left(one \o buffer) = Len(one) + Left(buffer)
    BY <2>3, BackInFront, Zenon
  <2>6. Work' = Left(one \o buffer)
    BY <2>4, <2>5, TurnWork, Zenon
  <2> QED BY <1>1, <1>2, <2>1, <2>3, <2>5, <2>6
<1>6. CASE PostPermanentMany
  <2>1. lo' = lo /\ UNCHANGED <<buffer, batch, rangeVars>>
    BY <1>1, <1>6 DEF PostPermanentMany
  <2>2. Work' = Work
    BY <2>1 DEF Work, Left, PendingRangeWidth, rangeVars
  <2> QED BY <1>1, <1>2, <2>2
<1> QED BY <1>3, <1>4, <1>5, <1>6

LEMMA BisectWork ==
  ASSUME FlushOK, pc \in {"bisect", "marker"},
         BisectOk \/ BisectPermanent \/ BisectAbandoned \/ BisectFatal
           \/ MarkerOk \/ MarkerTransient \/ MarkerRefused
  PROVE  Work' <= Work
<1>1. /\ batch \in Seq(Item) /\ buffer \in Seq(Item) /\ lo \in Nat /\ hi \in Nat /\ Len(batch) \in Nat
      /\ lo < hi /\ hi <= Len(batch) /\ splitLimit \in Nat
  BY DEF FlushOK
<1>2. Work = Len(batch) - lo + Left(buffer) /\ Left(buffer) \in Nat
  BY MeasureNat
<1>3. CASE \E limit, tripping : StopFlush(buffer, limit, tripping)
  <2>1. Work' = Left(buffer)
    BY <1>1, <1>3, TurnWork
  <2> QED BY <1>1, <1>2, <2>1
<1>4. CASE \E l \in {lo, lo + 1} : \E moved : AfterBisect(From(batch, l), moved)
  <2>1. PICK l \in {lo, lo + 1} : \E moved : AfterBisect(From(batch, l), moved)
    BY <1>4
  <2>2. l \in 0 .. Len(batch) /\ lo <= l
    BY <1>1
  <2>3. From(batch, l) \in Seq(Item) /\ Len(From(batch, l)) = Len(batch) - l
    BY <1>1, <2>2, CutType
  <2>4. /\ From(batch, l) \o buffer \in Seq(Item)
        /\ Left(From(batch, l) \o buffer) = Len(batch) - l + Left(buffer)
    BY <2>3, BackInFront, Zenon
  <2>5. \/ \E limit \in Nat : NextTurn(From(batch, l) \o buffer, limit)
        \/ \E s : NoteTransientFailure(From(batch, l) \o buffer, s)
    BY <1>1, <2>1, Zenon DEF AfterBisect
  <2>6. Work' = Left(From(batch, l) \o buffer)
    BY <2>4, <2>5, TurnWork, Zenon
  <2> QED BY <1>1, <1>2, <2>2, <2>4, <2>6
<1>5. CASE BisectOk \/ BisectPermanent
  <2>1. pc = "bisect" /\ lo + 1 < hi
    BY <1>5, Zenon DEF BisectOk, BisectPermanent, FlushOK
  <2>2. Mid \in Nat /\ lo < Mid /\ Mid < hi
    BY <1>1, <2>1 DEF Mid
  <2>3. PICK l \in {lo, Mid} : \E h, moved : NarrowTo(l, h, moved)
    BY <1>5, Zenon DEF BisectOk, BisectPermanent
  <2>4. CASE /\ lo' = l
             /\ batch' = batch \/ batch' = [batch EXCEPT ![l + 1] = Tombstone(batch[l + 1])]
             /\ UNCHANGED <<buffer, rangeVars>>
    <3>1. l \in Nat /\ l < Len(batch) /\ lo <= l
      BY <1>1, <2>2
    <3>2. Len(From(batch', l)) = Len(batch) - l
      BY <1>1, <2>4, <3>1, MarkedHand, Zenon
    <3>3. Left(buffer)' = Left(buffer)
      BY <2>4 DEF Left, PendingRangeWidth, rangeVars
    <3>4. Work' = Len(batch) - l + Left(buffer)
      BY <2>4, <3>2, <3>3 DEF Work
    <3> QED BY <1>1, <1>2, <3>1, <3>4
  <2>5. \/ \E limit, tripping : StopFlush(buffer, limit, tripping)
        \/ /\ lo' = l
           /\ batch' = batch \/ batch' = [batch EXCEPT ![l + 1] = Tombstone(batch[l + 1])]
           /\ UNCHANGED <<buffer, rangeVars>>
    BY <2>3, Zenon DEF NarrowTo
  <2> QED BY <1>3, <2>4, <2>5
<1>6. CASE BisectAbandoned \/ MarkerOk \/ MarkerTransient
  BY <1>4, <1>6, Zenon DEF BisectAbandoned, MarkerOk, MarkerTransient
<1>7. CASE BisectFatal \/ MarkerRefused
  BY <1>3, <1>7, Zenon DEF BisectFatal, MarkerRefused
<1> QED BY <1>5, <1>6, <1>7

LEMMA NextSegmentWork ==
  ASSUME FlushOK, lo = 0, NEW first, NextSegment(first), PendingRangeWidth' \in Nat
  PROVE  Work' = Len(buffer) + PendingRangeWidth'
<1>1. buffer \in Seq(Item) /\ splitLimit \in Nat
  BY DEF FlushOK
<1>2. lo' = 0 /\ (TakePrefix(buffer, splitLimit) \/ (batch' = <<>> /\ buffer' = buffer))
  BY Zenon DEF NextSegment, windowVars
<1>3. CASE TakePrefix(buffer, splitLimit)
  BY <1>1, <1>2, <1>3, TakePrefixMeasure
<1>4. CASE batch' = <<>> /\ buffer' = buffer
  <2>1. Len(From(<<>>, 0)) = 0
    BY DEF From
  <2>2. Work' = 0 + (Len(buffer) + PendingRangeWidth')
    BY <1>2, <1>4, <2>1 DEF Work, Left
  <2> QED BY <1>1, <2>2
<1> QED BY <1>2, <1>3, <1>4

LEMMA SpillWork ==
  ASSUME FlushOK, SpillStep
  PROVE  Work' <= Work
<1>1. /\ pc \in {"enterSpill", "mark", "range", "segment", "clear"} /\ lo = 0
      /\ batch \in Seq(Item) /\ buffer \in Seq(Item)
  <2>1. pc \in {"enterSpill", "mark", "range", "segment", "clear"}
    BY Zenon DEF SpillStep, EnterSpill, EnterSpillFails, SpillMark, SpillRange, SpillSegment, SpillWriteFails,
       SpillClear
  <2> QED BY <2>1 DEF FlushOK
<1>2. Len(batch) \in Nat /\ Left(buffer) \in Nat /\ Work = Len(batch) + Left(buffer)
  BY <1>1, BackInFront, MeasureAtRest, Zenon
<1>3. CASE \E limit, tripping : StopFlush(buffer, limit, tripping)
  <2>1. Work' = Left(buffer)
    BY <1>1, <1>3, TurnWork
  <2> QED BY <1>2, <2>1
<1>4. CASE \E limit, tripping : StopFlush(batch \o buffer, limit, tripping)
  <2>1. batch \o buffer \in Seq(Item) /\ Left(batch \o buffer) = Len(batch) + Left(buffer)
    BY <1>1, BackInFront, Zenon
  <2>2. Work' = Left(batch \o buffer)
    BY <1>4, <2>1, TurnWork, Zenon
  <2> QED BY <1>2, <2>1, <2>2
<1>5. CASE UNCHANGED <<buffer, batch, windowVars, rangeVars>>
  <2>1. Work' = Work
    BY <1>5 DEF Work, Left, PendingRangeWidth, windowVars, rangeVars
  <2> QED BY <1>2, <2>1
<1>6. CASE \E first : NextSegment(first) /\ (UNCHANGED rangeVars \/ rangeFirst' = 0)
  <2>1. Len(buffer) \in Nat /\ PendingRangeWidth \in Nat /\ Left(buffer) = Len(buffer) + PendingRangeWidth
    BY <1>1, WidthNat DEF Left
  <2>2. PendingRangeWidth' \in Nat /\ PendingRangeWidth' <= PendingRangeWidth
    BY <1>6, <2>1 DEF PendingRangeWidth, rangeVars
  <2>3. Work' = Len(buffer) + PendingRangeWidth'
    BY <1>1, <1>6, <2>2, NextSegmentWork
  <2> QED BY <1>2, <2>1, <2>2, <2>3
<1>7. \/ \E limit, tripping : StopFlush(buffer, limit, tripping) \/ StopFlush(batch \o buffer, limit, tripping)
      \/ UNCHANGED <<buffer, batch, windowVars, rangeVars>>
      \/ \E first : NextSegment(first) /\ (UNCHANGED rangeVars \/ rangeFirst' = 0)
  BY Zenon DEF SpillStep, EnterSpill, EnterSpillFails, SpillMark, SpillRange, SpillSegment, SpillWriteFails,
     SpillClear, StopSpillFlush
<1> QED BY <1>3, <1>4, <1>5, <1>6, <1>7

\* The measure is a number, and is what it was when nothing of it changes.
LEMMA WorkNat ==
  ASSUME FlushOK
  PROVE  Work \in Nat
<1>1. batch \in Seq(Item) /\ lo \in 0 .. Len(batch)
  <2>1. batch \in Seq(Item) /\ lo \in Nat /\ hi \in Nat
    BY DEF FlushOK
  <2>2. pc \in {"bisect", "marker"} => lo < Len(batch)
    BY <2>1 DEF FlushOK
  <2>3. pc \notin {"bisect", "marker"} => lo = 0
    BY DEF FlushOK
  <2> QED BY <2>1, <2>2, <2>3
<1>2. Len(From(batch, lo)) \in Nat
  BY <1>1, CutType
<1>3. Left(buffer) \in Nat
  BY <1>1, BackInFront, Zenon
<1> QED BY <1>2, <1>3 DEF Work

LEMMA SameWork ==
  ASSUME FlushOK, UNCHANGED <<batch, buffer, rangeVars, windowVars>>
  PROVE  Work' <= Work
<1>1. Work' = Work
  BY DEF Work, Left, PendingRangeWidth, windowVars, rangeVars
<1> QED BY <1>1, WorkNat

\* What is left when an attempt starts is what it is measured against.
LEMMA AttemptStarts ==
  ASSUME FlushOK, CloseOK, HandEmpty, CloseAttempt
  PROVE  Work' <= before'
<1>1. /\ closePc = "drain" /\ before' = Left(buffer) /\ HasWork(buffer)
      /\ \/ StartFlush
         \/ UNCHANGED flushVars
  BY Zenon DEF CloseAttempt
<1>2. pc = "idle"
  BY <1>1 DEF CloseOK, Settled
<1>3. batch = <<>> /\ lo = 0 /\ buffer \in Seq(Item) /\ splitLimit \in Nat
  BY <1>2 DEF HandEmpty, FlushOK
<1>4. Left(buffer) \in Nat
  BY <1>3, BackInFront, Zenon DEF FlushOK
<1>5. CASE UNCHANGED <<buffer, batch, rangeVars, windowVars>>
  <2>1. Work' = Left(buffer)
    BY <1>3, <1>5, StopWork DEF windowVars
  <2> QED BY <1>1, <1>4, <2>1
<1>6. CASE SendNext(buffer, splitLimit)
  <2>1. Work' = Left(buffer)
    BY <1>1, <1>3, <1>6, SendNextMeasure DEF Turns
  <2> QED BY <1>1, <1>4, <2>1
<1> QED BY <1>1, <1>5, <1>6, Zenon DEF StartFlush, flushVars, rangeVars, windowVars

\* While close() waits for an attempt, the flush it started is all that runs.
LEMMA AttemptGoesOn ==
  ASSUME IInv, Next, closePc = "attempt", closePc' = "attempt"
  PROVE  before' = before /\ Work' <= Work
<1>1. FlushOK /\ closed /\ ~timer
  BY DEF IInv, CloseOK
<1>2. CASE NetworkStep
  <2>1. pc = "post" \/ pc \in {"bisect", "marker"}
    BY <1>2, Zenon DEF NetworkStep, PostOk, PostAborted, PostTransient, PostMarkerRefused, PostFatal,
       PostOversizeSplit, PostOversizeOne, PostPermanentOne, PostPermanentMany, BisectOk, BisectPermanent,
       BisectAbandoned, BisectFatal, MarkerOk, MarkerTransient, MarkerRefused
  <2>2. CASE pc = "post"
    <3>1. PostOk \/ PostAborted \/ PostTransient \/ PostMarkerRefused \/ PostFatal \/ PostOversizeSplit
            \/ PostOversizeOne \/ PostPermanentOne \/ PostPermanentMany
      BY <1>2, <2>2, Zenon DEF NetworkStep, BisectOk, BisectPermanent, BisectAbandoned, BisectFatal,
         MarkerOk, MarkerTransient, MarkerRefused
    <3>2. before' = before
      BY <3>1, Zenon DEF PostOk, PostAborted, PostTransient, PostMarkerRefused, PostFatal,
       PostOversizeSplit, PostOversizeOne, PostPermanentOne, PostPermanentMany, PostFrame, closeVars
    <3> QED BY <1>1, <2>2, <3>1, <3>2, PostWork, Zenon
  <2>3. CASE pc \in {"bisect", "marker"}
    <3>1. BisectOk \/ BisectPermanent \/ BisectAbandoned \/ BisectFatal
            \/ MarkerOk \/ MarkerTransient \/ MarkerRefused
      BY <1>2, <2>3, Zenon DEF NetworkStep, PostOk, PostAborted, PostTransient, PostMarkerRefused, PostFatal,
         PostOversizeSplit, PostOversizeOne, PostPermanentOne, PostPermanentMany
    <3>2. before' = before
      BY <3>1, Zenon DEF BisectOk, BisectPermanent, BisectAbandoned, BisectFatal, MarkerOk, MarkerTransient,
         MarkerRefused, PostFrame, closeVars
    <3> QED BY <1>1, <2>3, <3>1, <3>2, BisectWork, Zenon
  <2> QED BY <2>1, <2>2, <2>3
<1>3. CASE SpillStep
  <2>1. before' = before
    BY <1>3, Zenon DEF SpillStep, EnterSpill, EnterSpillFails, SpillMark, SpillRange, SpillSegment,
       SpillWriteFails, SpillClear, SpillFrame, closeVars
  <2> QED BY <1>1, <1>3, <2>1, SpillWork, Zenon
<1>4. CASE AbortFlush \/ DrainStep \/ ClaimMovesOn
  <2>1. before' = before /\ UNCHANGED <<batch, buffer, rangeVars, windowVars>>
    BY <1>4, Zenon DEF AbortFlush, DrainStep, DrainProceeds, DrainFails, Eviction, DrainFinished, ClaimMovesOn,
       BatcherVars, flushVars, rangeVars, windowVars, closeVars
  <2> QED BY <1>1, <2>1, SameWork
<1>5. ~(Emit \/ TimerFires \/ Flush \/ CloseStep)
  BY <1>1, Zenon DEF Emit, EmitKept, EmitFolded, TimerFires, Flush, CloseStep, CloseStart, CloseClearsTimer, CloseJoins,
     CloseExpires, CloseAttempt, CloseAttemptReturns, CloseGivesUp, FinalMark, FinalRange, FinalSegment,
     FinalClear, FinalSpillFails, PreserveStart, PreserveJoins
<1> QED BY <1>2, <1>3, <1>4, <1>5, Zenon DEF Next

\* The first step of an attempt is the one that takes its measure.
LEMMA AttemptBegins ==
  ASSUME Next, closePc # "attempt", closePc' = "attempt"
  PROVE  CloseAttempt
<1>1. CASE CloseStep
  BY <1>1, Zenon DEF CloseStep, CloseStart, CloseClearsTimer, CloseJoins,
     CloseExpires, CloseAttempt, CloseAttemptReturns, CloseGivesUp, FinalMark, FinalRange, FinalSegment,
     FinalClear, FinalSpillFails, PreserveStart, PreserveJoins, CloseEnds
<1>2. CASE Emit \/ TimerFires \/ Flush \/ AbortFlush \/ DrainStep \/ ClaimMovesOn
  BY <1>2, Zenon DEF Emit, EmitKept, EmitFolded, TimerFires, Flush, AbortFlush, DrainStep, DrainProceeds, DrainFails,
     Eviction, DrainFinished, ClaimMovesOn, BatcherVars, closeVars
<1>3. CASE NetworkStep
  BY <1>3, Zenon DEF NetworkStep, PostOk, PostAborted, PostTransient, PostMarkerRefused, PostFatal,
     PostOversizeSplit, PostOversizeOne, PostPermanentOne, PostPermanentMany, BisectOk, BisectPermanent,
     BisectAbandoned, BisectFatal, MarkerOk, MarkerTransient, MarkerRefused, PostFrame, closeVars
<1>4. CASE SpillStep
  BY <1>4, Zenon DEF SpillStep, EnterSpill, EnterSpillFails, SpillMark, SpillRange, SpillSegment,
     SpillWriteFails, SpillClear, SpillFrame, closeVars
<1> QED BY <1>1, <1>2, <1>3, <1>4 DEF Next

\* An attempt of close() never leaves more to deliver than it found, whatever the api
\* answers, so the loop of drained attempts ends: an attempt that moves nothing is
\* counted, and one that moves something leaves less.
THEOREM AttemptsNeverGrow == PathSpec => []AttemptNeverGrows
<1>1. Init => AttemptNeverGrows
  BY DEF Init, AttemptNeverGrows
<1>2. ASSUME PInv, Work \in Nat, (Work \in Nat)', AttemptNeverGrows, [PathNext]_vars
      PROVE  AttemptNeverGrows'
  <2> SUFFICES ASSUME closePc' = "attempt"
               PROVE  Work' <= before'
    BY DEF AttemptNeverGrows
  <2>1. IInv /\ FlushOK /\ CloseOK /\ HandEmpty
    BY <1>2 DEF PInv, IInv, DInv
  <2>2. CASE Next /\ closePc # "attempt"
    BY <2>1, <2>2, AttemptBegins, AttemptStarts
  <2>3. CASE Next /\ closePc = "attempt"
    <3>1. before' = before /\ Work' <= Work /\ Work <= before
      BY <1>2, <2>1, <2>3, AttemptGoesOn DEF AttemptNeverGrows
    <3>2. before \in Nat
      BY <2>1 DEF CloseOK
    <3> QED BY <1>2, <3>1, <3>2
  <2>4. CASE Crash \/ Reclaim
    BY <2>4 DEF Crash, Reclaim
  <2>5. CASE UNCHANGED vars
    <3>1. UNCHANGED <<Work, before, closePc>>
      BY <2>5 DEF vars, flushVars, closeVars, Work, Left, PendingRangeWidth
    <3> QED BY <1>2, <3>1 DEF AttemptNeverGrows
  <2> QED BY <1>2, <2>2, <2>3, <2>4, <2>5 DEF PathNext
<1>3. PInv /\ Work \in Nat /\ (Work \in Nat)' /\ AttemptNeverGrows /\ [PathNext]_vars => AttemptNeverGrows'
  BY <1>2
<1>4. PInv => Work \in Nat
  BY WorkNat DEF PInv, IInv
<1> QED BY <1>1, <1>3, <1>4, PathInvariance, PTL DEF PathSpec
=============================================================================
