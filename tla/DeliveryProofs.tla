---------------------------- MODULE DeliveryProofs ----------------------------
(***************************************************************************)
(* Proofs that the batcher keeps its messages in order and loses none of    *)
(* the seqs it gives out, for every value of the constants. They rest on    *)
(* the control invariant of MessageBatcherProofs.                           *)
(***************************************************************************)
EXTENDS MessageBatcherProofs

-----------------------------------------------------------------------------
(* Strictly ascending sequences of messages, with no seq above n.           *)

Ordered(s, n) ==
  /\ \A i, j \in 1 .. Len(s) : i < j => s[i].seq < s[j].seq
  /\ \A i \in 1 .. Len(s) : s[i].seq <= n

\* takePrefix cuts the buffer in two and nothing else.
LEMMA CutConcat ==
  ASSUME NEW s \in Seq(Item), NEW n \in 0 .. Len(s)
  PROVE  SubSeq(s, 1, n) \o From(s, n) = s
<1> DEFINE p == SubSeq(s, 1, n)
           q == From(s, n)
<1>1. /\ p \in Seq(Item) /\ Len(p) = n /\ q \in Seq(Item) /\ Len(q) = Len(s) - n
      /\ \A i \in 1 .. n : p[i] = s[i]
      /\ \A i \in 1 .. Len(s) - n : q[i] = s[n + i]
  BY CutType
<1> HIDE DEF p, q
<1>2. /\ p \o q \in Seq(Item) /\ Len(p \o q) = Len(s)
      /\ \A i \in 1 .. n : (p \o q)[i] = s[i]
      /\ \A i \in 1 .. Len(s) - n : (p \o q)[n + i] = s[n + i]
  BY <1>1, ConcatRange
<1>3. \A i \in 1 .. Len(s) : (p \o q)[i] = s[i]
  <2> SUFFICES ASSUME NEW i \in 1 .. Len(s) PROVE (p \o q)[i] = s[i]
    BY Zenon
  <2>1. CASE i <= n
    BY <2>1, <1>2
  <2>2. CASE i > n
    <3>1. i - n \in 1 .. Len(s) - n /\ n + (i - n) = i
      BY <2>2
    <3> QED BY <3>1, <1>2, Zenon
  <2>3. i <= n \/ i > n
    OBVIOUS
  <2> QED BY <2>1, <2>2, <2>3, Zenon
<1>4. p \o q = s
  BY <1>2, <1>3, SeqSame, Zenon
<1> QED BY <1>4 DEF p, q

\* Dropping a prefix of the batch drops it from the batch and the buffer together.
LEMMA FromConcat ==
  ASSUME NEW s \in Seq(Item), NEW t \in Seq(Item), NEW n \in 0 .. Len(s)
  PROVE  /\ From(s, n) \o t \in Seq(Item) /\ n \in 0 .. Len(s \o t)
         /\ From(s, n) \o t = From(s \o t, n)
<1> DEFINE q == From(s, n)
           u == s \o t
           v == From(u, n)
<1>1. /\ q \in Seq(Item) /\ Len(q) = Len(s) - n
      /\ \A i \in 1 .. Len(s) - n : q[i] = s[n + i]
  BY CutType
<1>2. /\ u \in Seq(Item) /\ Len(u) = Len(s) + Len(t)
      /\ \A i \in 1 .. Len(s) : u[i] = s[i]
      /\ \A i \in 1 .. Len(t) : u[Len(s) + i] = t[i]
  BY ConcatRange
<1> HIDE DEF q, u
<1>3. n \in 0 .. Len(u)
  BY <1>2
<1>4. /\ v \in Seq(Item) /\ Len(v) = Len(u) - n
      /\ \A i \in 1 .. Len(u) - n : v[i] = u[n + i]
  BY <1>2, <1>3, CutType
<1> HIDE DEF v
<1>5. /\ q \o t \in Seq(Item) /\ Len(q \o t) = Len(v)
      /\ \A i \in 1 .. Len(q) : (q \o t)[i] = q[i]
      /\ \A i \in 1 .. Len(t) : (q \o t)[Len(q) + i] = t[i]
  <2>1. /\ q \o t \in Seq(Item) /\ Len(q \o t) = Len(q) + Len(t)
        /\ \A i \in 1 .. Len(q) : (q \o t)[i] = q[i]
        /\ \A i \in 1 .. Len(t) : (q \o t)[Len(q) + i] = t[i]
    BY <1>1, ConcatRange, Zenon
  <2>2. Len(q) + Len(t) = Len(v)
    BY <1>1, <1>2, <1>4
  <2> QED BY <2>1, <2>2
<1>6. \A i \in 1 .. Len(v) : (q \o t)[i] = v[i]
  <2> SUFFICES ASSUME NEW i \in 1 .. Len(v) PROVE (q \o t)[i] = v[i]
    BY Zenon
  <2>1. v[i] = u[n + i]
    BY <1>2, <1>4
  <2>2. CASE i <= Len(q)
    <3>1. i \in 1 .. Len(q) /\ n + i \in 1 .. Len(s)
      BY <2>2, <1>1, <1>4
    <3> QED BY <2>1, <3>1, <1>1, <1>2, <1>5
  <2>3. CASE i > Len(q)
    <3>1. /\ i - Len(q) \in 1 .. Len(t) /\ Len(q) + (i - Len(q)) = i
          /\ Len(s) + (i - Len(q)) = n + i
      BY <2>3, <1>1, <1>2, <1>4
    <3>2. (q \o t)[i] = t[i - Len(q)] /\ u[n + i] = t[i - Len(q)]
      BY <3>1, <1>2, <1>5, Zenon
    <3> QED BY <2>1, <3>2
  <2>4. i <= Len(q) \/ i > Len(q)
    BY <1>1
  <2> QED BY <2>2, <2>3, <2>4, Zenon
<1>7. q \o t = v
  BY <1>4, <1>5, <1>6, SeqSame, Zenon
<1> QED BY <1>3, <1>5, <1>7 DEF q, u, v

\* A suffix of an ordered sequence is ordered.
LEMMA OrderedFrom ==
  ASSUME NEW s \in Seq(Item), NEW n \in 0 .. Len(s), NEW m, Ordered(s, m)
  PROVE  Ordered(From(s, n), m)
<1> DEFINE q == From(s, n)
<1>1. /\ q \in Seq(Item) /\ Len(q) = Len(s) - n
      /\ \A i \in 1 .. Len(s) - n : q[i] = s[n + i]
  BY CutType, Zenon
<1> HIDE DEF q
<1>2. \A i \in 1 .. Len(q) : n + i \in 1 .. Len(s) /\ q[i] = s[n + i]
  BY <1>1
<1>3. \A i, j \in 1 .. Len(q) : i < j => n + i < n + j
  BY <1>1
<1>4. Ordered(q, m)
  BY <1>2, <1>3, Zenon DEF Ordered
<1> QED BY <1>4 DEF q

\* The batch and the buffer of an ordered concatenation are ordered themselves.
LEMMA OrderedParts ==
  ASSUME NEW s \in Seq(Item), NEW t \in Seq(Item), NEW m, Ordered(s \o t, m)
  PROVE  Ordered(s, m) /\ Ordered(t, m)
<1> DEFINE u == s \o t
<1>1. /\ u \in Seq(Item) /\ Len(u) = Len(s) + Len(t)
      /\ \A i \in 1 .. Len(s) : u[i] = s[i]
      /\ \A i \in 1 .. Len(t) : u[Len(s) + i] = t[i]
  BY ConcatRange
<1>2. Ordered(u, m)
  OBVIOUS
<1> HIDE DEF u
<1>3. \A i \in 1 .. Len(s) : i \in 1 .. Len(u)
  BY <1>1
<1>4. \A i \in 1 .. Len(t) : Len(s) + i \in 1 .. Len(u)
  BY <1>1
<1>5. \A i, j \in 1 .. Len(t) : i < j => Len(s) + i < Len(s) + j
  OBVIOUS
<1> QED BY <1>1, <1>2, <1>3, <1>4, <1>5, Zenon DEF Ordered

\* Replacing messages by markers of the same seq keeps the order.
LEMMA OrderedSame ==
  ASSUME NEW s \in Seq(Item), NEW t \in Seq(Item), NEW m, Ordered(s, m), Len(t) = Len(s),
         \A i \in 1 .. Len(s) : t[i].seq = s[i].seq
  PROVE  Ordered(t, m)
BY DEF Ordered

\* A message numbered one above the rest goes at the end.
LEMMA OrderedAppend ==
  ASSUME NEW s \in Seq(Item), NEW t \in Seq(Item), NEW m \in Nat, Ordered(s \o t, m),
         NEW e \in Item, e.seq = m + 1
  PROVE  Ordered(s \o Append(t, e), m + 1)
<1> DEFINE u == s \o t
           a == Append(t, e)
           v == s \o a
<1>1. /\ u \in Seq(Item) /\ Len(u) = Len(s) + Len(t)
      /\ \A i \in 1 .. Len(s) : u[i] = s[i]
      /\ \A i \in 1 .. Len(t) : u[Len(s) + i] = t[i]
  BY ConcatRange
<1>2. /\ a \in Seq(Item) /\ Len(a) = Len(t) + 1 /\ a[Len(t) + 1] = e
      /\ \A i \in 1 .. Len(t) : a[i] = t[i]
  OBVIOUS
<1> HIDE DEF a
<1>3. /\ v \in Seq(Item) /\ Len(v) = Len(s) + Len(a)
      /\ \A i \in 1 .. Len(s) : v[i] = s[i]
      /\ \A i \in 1 .. Len(a) : v[Len(s) + i] = a[i]
  BY <1>2, ConcatRange, Zenon
<1>4. Ordered(u, m)
  OBVIOUS
<1> HIDE DEF u, v
<1>5. /\ Len(v) = Len(u) + 1 /\ Len(u) \in Nat
      /\ v[Len(u) + 1] = e
  <2>1. Len(t) + 1 \in 1 .. Len(a) /\ Len(s) + (Len(t) + 1) = Len(u) + 1
    BY <1>1, <1>2
  <2> QED BY <2>1, <1>1, <1>2, <1>3
<1>6. \A i \in 1 .. Len(u) : v[i] = u[i]
  <2> SUFFICES ASSUME NEW i \in 1 .. Len(u) PROVE v[i] = u[i]
    OBVIOUS
  <2>1. CASE i <= Len(s)
    BY <2>1, <1>1, <1>3
  <2>2. CASE i > Len(s)
    <3>1. i - Len(s) \in 1 .. Len(t) /\ i - Len(s) \in 1 .. Len(a) /\ Len(s) + (i - Len(s)) = i
      BY <2>2, <1>1, <1>2
    <3> QED BY <3>1, <1>1, <1>2, <1>3, ZenonT(30)
  <2> QED BY <2>1, <2>2
<1>7. \A i \in 1 .. Len(u) : u[i].seq \in Nat /\ u[i].seq <= m
  BY <1>1, <1>4, ItemAt, Zenon DEF Ordered
<1>8. \A i \in 1 .. Len(v) : i \in 1 .. Len(u) \/ i = Len(u) + 1
  BY <1>5
<1>9. \A i \in 1 .. Len(v) : v[i].seq <= m + 1
  BY <1>5, <1>6, <1>7, <1>8
<1>10. ASSUME NEW i \in 1 .. Len(v), NEW j \in 1 .. Len(v), i < j
       PROVE  v[i].seq < v[j].seq
  <2>1. i \in 1 .. Len(u)
    BY <1>5, <1>10
  <2>2. CASE j \in 1 .. Len(u)
    BY <2>1, <2>2, <1>4, <1>6, <1>10, Zenon DEF Ordered
  <2>3. CASE j = Len(u) + 1
    BY <2>1, <2>3, <1>5, <1>6, <1>7
  <2> QED BY <2>2, <2>3, <1>8
<1>11. Ordered(v, m + 1)
  BY <1>9, <1>10 DEF Ordered
<1> QED BY <1>11 DEF v, a

\* The first and the last seq of an ordered sequence bound the others.
LEMMA OrderedEnds ==
  ASSUME NEW s \in Seq(Item), NEW m, Ordered(s, m), s # <<>>
  PROVE  SeqsOf(Range(s)) \subseteq s[1].seq .. s[Len(s)].seq
<1>1. /\ \A i \in 1 .. Len(s) : s[i].seq \in Nat
      /\ 1 \in 1 .. Len(s) /\ Len(s) \in 1 .. Len(s)
  BY ItemAt
<1>2. \A i \in 1 .. Len(s) : s[1].seq <= s[i].seq /\ s[i].seq <= s[Len(s)].seq
  BY <1>1 DEF Ordered
<1>3. \A i \in 1 .. Len(s) : s[i].seq \in s[1].seq .. s[Len(s)].seq
  BY <1>1, <1>2
<1> QED BY <1>3, SeqRange DEF SeqsOf

-----------------------------------------------------------------------------
(* The inductive invariant: what is in hand is in order, a flush that is    *)
(* not sending holds nothing, a segment covers its messages, a close that   *)
(* clears the flag has written everything, and no seq vanishes.             *)

HandEmpty == pc \notin {"post", "bisect", "marker", "segment"} => batch = <<>>

SegmentsCover ==
  \A rec \in records :
    rec.kind = "segment" => SeqsOf(rec.items) \subseteq rec.firstSeq .. rec.lastSeq

HandedOff ==
  /\ closePc = "fSegment" => rangeFirst = 0
  /\ closePc \in {"fClear", "spilled", "delivered"} => ~HasWork(buffer)

DInv ==
  /\ Ordered(batch \o buffer, seq)
  /\ HandEmpty
  /\ SegmentsCover
  /\ HandedOff
  /\ NoSeqVanishes

-----------------------------------------------------------------------------
(* Where the seqs are                                                       *)

\* A window that starts at 0 is the whole batch.
LEMMA FromZero ==
  ASSUME NEW s \in Seq(Item)
  PROVE  From(s, 0) = s
<1>1. 0 \in 0 .. Len(s)
  OBVIOUS
<1>2. /\ From(s, 0) \in Seq(Item) /\ Len(From(s, 0)) = Len(s) - 0
      /\ \A i \in 1 .. Len(s) - 0 : From(s, 0)[i] = s[0 + i]
  BY <1>1, CutType
<1>3. Len(From(s, 0)) = Len(s) /\ \A i \in 1 .. Len(s) : From(s, 0)[i] = s[i]
  BY <1>2
<1> QED BY <1>2, <1>3, SeqSame

\* The seqs of two sets of messages together.
LEMMA SeqsUnion ==
  ASSUME NEW A, NEW B
  PROVE  SeqsOf(A \cup B) = SeqsOf(A) \cup SeqsOf(B)
BY DEF SeqsOf

\* Putting a batch back in front of the buffer loses no seq.
LEMMA SeqsConcat ==
  ASSUME NEW s \in Seq(Item), NEW t \in Seq(Item)
  PROVE  s \o t \in Seq(Item) /\ SeqsOf(Range(s \o t)) = SeqsOf(Range(s)) \cup SeqsOf(Range(t))
BY ConcatRange, SeqsUnion

\* Markers stand for the seqs of the messages they replace.
LEMMA SeqsSame ==
  ASSUME NEW s \in Seq(Item), NEW t \in Seq(Item), Len(t) = Len(s),
         \A i \in 1 .. Len(s) : t[i].seq = s[i].seq
  PROVE  SeqsOf(Range(t)) = SeqsOf(Range(s))
<1>1. SeqsOf(Range(t)) = {t[i].seq : i \in 1 .. Len(s)}
  BY SeqRange DEF SeqsOf
<1>2. SeqsOf(Range(s)) = {s[i].seq : i \in 1 .. Len(s)}
  BY SeqRange DEF SeqsOf
<1> QED BY <1>1, <1>2

\* What the batcher holds in memory, as the sequence a re-buffering would make.
LEMMA MemoryIs ==
  ASSUME batch \in Seq(Item), buffer \in Seq(Item), lo \in 0 .. Len(batch)
  PROVE  InMemory = SeqsOf(Range(From(batch, lo) \o buffer)) \cup RangeSeqs
<1>1. From(batch, lo) \in Seq(Item)
  BY CutType
<1> QED BY <1>1, SeqsConcat DEF InMemory, BufferedSeqs

\* With no bisection window open, memory is the batch, the buffer and the pending range.
LEMMA MemoryAtRest ==
  ASSUME batch \in Seq(Item), buffer \in Seq(Item), lo = 0
  PROVE  InMemory = SeqsOf(Range(batch \o buffer)) \cup RangeSeqs
<1>1. lo \in 0 .. Len(batch)
  OBVIOUS
<1> QED BY <1>1, MemoryIs, FromZero

\* The same for the state after a step that closes the window.
LEMMA MemoryNext ==
  ASSUME batch' \in Seq(Item), buffer' \in Seq(Item), lo' = 0
  PROVE  InMemory' = SeqsOf(Range(batch' \o buffer')) \cup RangeSeqs'
<1>1. From(batch', 0) = batch'
  BY FromZero
<1>2. SeqsOf(Range(batch' \o buffer')) = SeqsOf(Range(batch')) \cup SeqsOf(Range(buffer'))
  BY SeqsConcat
<1>3. InMemory' = SeqsOf(Range(buffer')) \cup SeqsOf(Range(From(batch', 0))) \cup RangeSeqs'
  BY DEF InMemory, BufferedSeqs, From
<1> QED BY <1>1, <1>2, <1>3

\* A committed batch is stored, and nothing that was stored is lost.
LEMMA AppendStored ==
  ASSUME NEW S, NEW gen, AppendMessages(S, gen)
  PROVE  StoredSeqs' = StoredSeqs \cup SeqsOf(S)
<1> DEFINE row(it) == [seq |-> it.seq, class |-> it.class, tombstoned |-> it.tombstoned, gen |-> gen]
           new == {i \in S : i.seq \notin StoredSeqs}
<1>1. rows' = rows \cup {row(it) : it \in new}
  BY DEF AppendMessages, InsertRunMessage
<1>2. \A it \in new : row(it).seq = it.seq
  OBVIOUS
<1>3. StoredSeqs' = SeqsOf(rows')
  BY DEF StoredSeqs, SeqsOf
<1> HIDE DEF row
<1>4. SeqsOf({row(it) : it \in new}) = SeqsOf(new)
  BY <1>2 DEF SeqsOf
<1>5. SeqsOf(rows') = StoredSeqs \cup SeqsOf(new)
  BY <1>1, <1>4, SeqsUnion DEF StoredSeqs
<1>6. StoredSeqs \cup SeqsOf(new) = StoredSeqs \cup SeqsOf(S)
  BY DEF SeqsOf
<1> QED BY <1>3, <1>5, <1>6

\* A failed post never removes a stored seq, whether or not it landed.
LEMMA TransientStored ==
  ASSUME NEW S, NEW gen, TransientFailure(S, gen) \/ UNCHANGED serverVars
  PROVE  StoredSeqs \subseteq StoredSeqs'
<1>1. CASE UNCHANGED serverVars
  BY <1>1 DEF serverVars, StoredSeqs, SeqsOf
<1>2. CASE AppendMessages(S, gen)
  BY <1>2, AppendStored
<1> QED BY <1>1, <1>2 DEF TransientFailure

-----------------------------------------------------------------------------
(* A turn of the flush loop that starts from buf                            *)

\* What is left in hand is in order, and buf and the pending range are in memory.
TurnOK(buf) ==
  /\ Ordered(batch' \o buffer', seq)
  /\ HandEmpty'
  /\ SeqsOf(Range(buf)) \cup RangeSeqs \subseteq InMemory'

\* takePrefix splits the buffer and loses nothing.
LEMMA TakePrefixKeeps ==
  ASSUME NEW buf \in Seq(Item), NEW limit \in Nat, TakePrefix(buf, limit)
  PROVE  batch' \in Seq(Item) /\ buffer' \in Seq(Item) /\ batch' \o buffer' = buf
<1>1. PICK n \in PrefixLengths(buf, limit) :
        batch' = SubSeq(buf, 1, n) /\ buffer' = From(buf, n)
  BY Zenon DEF TakePrefix
<1>2. n \in 0 .. Len(buf)
  BY DEF PrefixLengths
<1> QED BY <1>1, <1>2, CutType, CutConcat, Zenon

\* The chunk of markers covers the head of the pending range, in order.
LEMMA RangeChunkCovers ==
  ASSUME rangeFirst \in Nat \ {0}, rangeLast \in Nat, rangeFirst <= rangeLast, seq \in Nat,
         rangeLast <= seq, RefillPendingRangeChunk
  PROVE  /\ Ordered(RangeChunk, seq)
         /\ RangeSeqs \subseteq SeqsOf(Range(RangeChunk)) \cup RangeSeqs'
<1>1. /\ RangeChunkEnd \in Nat /\ rangeFirst <= RangeChunkEnd /\ RangeChunkEnd <= rangeLast
      /\ RangeChunk \in Seq(Item) /\ Len(RangeChunk) = RangeChunkEnd - rangeFirst + 1
      /\ \A i \in 1 .. Len(RangeChunk) : RangeChunk[i].seq = rangeFirst + i - 1
  BY RangeChunkOK
<1> DEFINE c == RangeChunk
           e == RangeChunkEnd
<1>2. c \in Seq(Item) /\ SeqsOf(Range(c)) = {c[i].seq : i \in 1 .. Len(c)}
  BY <1>1, SeqRange DEF SeqsOf
<1> HIDE DEF c, e
<1>3. /\ e \in Nat /\ rangeFirst <= e /\ e <= rangeLast /\ Len(c) = e - rangeFirst + 1
      /\ \A i \in 1 .. Len(c) : c[i].seq = rangeFirst + i - 1
  BY <1>1 DEF c, e
<1>4. Ordered(c, seq)
  BY <1>3 DEF Ordered
<1>5. rangeFirst .. e \subseteq SeqsOf(Range(c))
  <2> SUFFICES ASSUME NEW x \in rangeFirst .. e PROVE x \in SeqsOf(Range(c))
    OBVIOUS
  <2>1. x - rangeFirst + 1 \in 1 .. Len(c)
    BY <1>3
  <2>2. c[x - rangeFirst + 1].seq = x
    BY <2>1, <1>3
  <2> QED BY <2>1, <2>2, <1>2
<1>6. RangeSeqs = rangeFirst .. rangeLast
  BY DEF RangeSeqs
<1>7. rangeFirst .. rangeLast \subseteq (rangeFirst .. e) \cup RangeSeqs'
  <2>1. CASE e >= rangeLast
    BY <2>1, <1>3
  <2>2. CASE ~(e >= rangeLast)
    <3>1. rangeFirst' = e + 1 /\ rangeLast' = rangeLast
      BY <2>2 DEF RefillPendingRangeChunk, e
    <3>2. RangeSeqs' = e + 1 .. rangeLast
      BY <3>1, <1>3 DEF RangeSeqs
    <3> QED BY <3>2, <1>3
  <2> QED BY <2>1, <2>2
<1> QED BY <1>4, <1>5, <1>6, <1>7 DEF c

\* The next turn of doFlush: a prefix of the buffer, or a chunk of the pending range.
LEMMA SendNextKeeps ==
  ASSUME FlushOK, seq \in Nat, rangeLast <= seq,
         NEW buf \in Seq(Item), NEW limit \in Nat, HasWork(buf), Ordered(buf, seq),
         SendNext(buf, limit)
  PROVE  TurnOK(buf)
<1>1. lo' = 0 /\ pc' = "post"
  BY DEF SendNext, NoWindow
<1>2. HandEmpty'
  BY <1>1 DEF HandEmpty
<1>3. CASE TakePrefix(buf, limit) /\ UNCHANGED rangeVars
  <2>1. batch' \in Seq(Item) /\ buffer' \in Seq(Item) /\ batch' \o buffer' = buf
    BY <1>3, TakePrefixKeeps
  <2>2. InMemory' = SeqsOf(Range(buf)) \cup RangeSeqs'
    BY <1>1, <2>1, MemoryNext
  <2>3. RangeSeqs' = RangeSeqs
    BY <1>3 DEF RangeSeqs, rangeVars
  <2> QED BY <1>2, <2>1, <2>2, <2>3 DEF TurnOK
<1>4. CASE buf = <<>> /\ RefillPendingRangeChunk /\ TakePrefix(RangeChunk, limit)
  <2>1. rangeFirst \in Nat \ {0} /\ rangeLast \in Nat /\ rangeFirst <= rangeLast
    BY <1>4 DEF HasWork, FlushOK
  <2>2. RangeChunk \in Seq(Item)
    BY <2>1, RangeChunkOK
  <2>3. batch' \in Seq(Item) /\ buffer' \in Seq(Item) /\ batch' \o buffer' = RangeChunk
    BY <1>4, <2>2, TakePrefixKeeps
  <2>4. InMemory' = SeqsOf(Range(RangeChunk)) \cup RangeSeqs'
    BY <1>1, <2>3, MemoryNext
  <2>5. Ordered(RangeChunk, seq) /\ RangeSeqs \subseteq SeqsOf(Range(RangeChunk)) \cup RangeSeqs'
    BY <1>4, <2>1, RangeChunkCovers
  <2>6. Range(buf) = {}
    <3>1. Len(buf) = 0 /\ 1 .. 0 = {}
      BY <1>4
    <3> QED BY <3>1, SeqRange, Zenon
  <2>7. SeqsOf(Range(buf)) = {}
    BY <2>6 DEF SeqsOf
  <2> QED BY <1>2, <2>3, <2>4, <2>5, <2>7 DEF TurnOK
<1> QED BY <1>3, <1>4 DEF SendNext

\* Ending a flush puts buf back in the buffer.
LEMMA RestKeeps ==
  ASSUME NEW buf \in Seq(Item), Ordered(buf, seq),
         buffer' = buf, batch' = <<>>, lo' = 0, UNCHANGED rangeVars
  PROVE  TurnOK(buf)
<1>1. <<>> \in Seq(Item) /\ Len(<<>>) = 0
  OBVIOUS
<1>2. <<>> \o buf = buf
  <2>1. 0 \in 0 .. Len(buf)
    OBVIOUS
  <2>2. SubSeq(buf, 1, 0) = <<>>
    BY <2>1, CutType
  <2> QED BY <2>1, <2>2, CutConcat, FromZero
<1>3. InMemory' = SeqsOf(Range(buf)) \cup RangeSeqs'
  BY <1>1, <1>2, MemoryNext
<1>4. RangeSeqs' = RangeSeqs
  BY DEF RangeSeqs, rangeVars
<1> QED BY <1>2, <1>3, <1>4 DEF TurnOK, HandEmpty

\* Leaving doFlush puts everything handed back in the buffer.
LEMMA StopFlushKeeps ==
  ASSUME NEW buf \in Seq(Item), Ordered(buf, seq), NEW limit, NEW tripping,
         StopFlush(buf, limit, tripping)
  PROVE  TurnOK(buf)
BY RestKeeps DEF StopFlush, NoWindow

\* Going round the flush loop, or leaving it, keeps what is in memory.
LEMMA NextTurnKeeps ==
  ASSUME FlushOK, seq \in Nat, rangeLast <= seq,
         NEW buf \in Seq(Item), NEW limit \in Nat, Ordered(buf, seq), NextTurn(buf, limit)
  PROVE  TurnOK(buf)
BY SendNextKeeps, StopFlushKeeps, Zenon DEF NextTurn

\* noteTransientFailure puts the batch back whether it retries, spills or trips.
LEMMA NoteTransientFailureKeeps ==
  ASSUME NEW buf \in Seq(Item), Ordered(buf, seq), NEW s, NoteTransientFailure(buf, s)
  PROVE  TurnOK(buf)
BY StopFlushKeeps, RestKeeps, Zenon DEF NoteTransientFailure, NoWindow

\* The end of a bisection puts back what is left of its batch.
LEMMA AfterBisectKeeps ==
  ASSUME FlushOK, seq \in Nat, rangeLast <= seq, NEW rest \in Seq(Item), rest \o buffer \in Seq(Item),
         Ordered(rest \o buffer, seq), NEW moved, AfterBisect(rest, moved)
  PROVE  TurnOK(rest \o buffer)
<1> DEFINE buf == rest \o buffer
<1>1. buf \in Seq(Item) /\ Ordered(buf, seq) /\ splitLimit \in Nat
  BY DEF FlushOK
<1>2. NextTurn(buf, splitLimit) \/ NoteTransientFailure(buf, batch[1].seq)
  BY DEF AfterBisect
<1> HIDE DEF buf
<1>3. TurnOK(buf)
  BY <1>1, <1>2, NextTurnKeeps, NoteTransientFailureKeeps
<1> QED BY <1>3 DEF buf

-----------------------------------------------------------------------------
(* The network steps                                                        *)

\* A step that leaves the outbox alone and either keeps, stores or discards what
\* was in memory preserves the invariant.
LEMMA NetworkKeepsFrame ==
  ASSUME IInv, DInv, pc \in {"post", "bisect", "marker"}, PostFrame,
         StoredSeqs \subseteq StoredSeqs', discarded \subseteq discarded',
         Ordered(batch' \o buffer', seq), HandEmpty',
         InMemory \subseteq InMemory' \cup StoredSeqs' \cup discarded'
  PROVE  DInv'
<1>1. /\ UNCHANGED <<seq, base, generation, records, forgotten, closePc>>
      /\ closePc \notin Settled
  BY DEF PostFrame, idVars, outboxVars, closeVars, IInv, CloseOK
<1>2. SegmentsCover'
  BY <1>1 DEF DInv, SegmentsCover
<1>3. HandedOff'
  BY <1>1 DEF HandedOff, Settled, CloseEnds
<1>4. Assigned' = Assigned /\ JournaledSeqs' = JournaledSeqs
  BY <1>1 DEF Assigned, JournaledSeqs, OwnRecords
<1>5. NoSeqVanishes'
  BY <1>1, <1>4 DEF DInv, NoSeqVanishes
<1> QED BY <1>1, <1>2, <1>3, <1>5 DEF DInv

\* A turn of the bisection accounts for the window it was given.
LEMMA NarrowToKeeps ==
  ASSUME FlushOK, pc = "bisect", Ordered(batch \o buffer, seq), NEW l \in Nat, NEW h \in Nat, l < h,
         h <= Len(batch), NEW moved, NarrowTo(l, h, moved)
  PROVE  /\ Ordered(batch' \o buffer', seq) /\ HandEmpty' /\ discarded \subseteq discarded'
         /\ SeqsOf(Range(From(batch, l))) \cup BufferedSeqs \cup RangeSeqs
              \subseteq InMemory' \cup discarded'
<1>1. batch \in Seq(Item) /\ buffer \in Seq(Item) /\ l \in 0 .. Len(batch) /\ l + 1 \in 1 .. Len(batch)
  BY DEF FlushOK
<1>2. Ordered(buffer, seq)
  BY <1>1, OrderedParts
<1>3. CASE /\ discarded' = discarded \cup SeqsOf(Range(From(batch, l)))
           /\ StopFlush(buffer, splitLimit, TRUE)
  <2>1. TurnOK(buffer)
    BY <1>1, <1>2, <1>3, StopFlushKeeps, Zenon
  <2> QED BY <1>3, <2>1 DEF TurnOK, BufferedSeqs
<1>4. CASE lo' = l /\ UNCHANGED <<buffer, batch, rangeVars, pc, discarded>>
  BY <1>4 DEF InMemory, BufferedSeqs, RangeSeqs, rangeVars, From, HandEmpty
<1>5. CASE /\ lo' = l /\ pc' = "marker"
           /\ batch' = [batch EXCEPT ![l + 1] = Tombstone(batch[l + 1])]
           /\ UNCHANGED <<buffer, rangeVars, discarded>>
  <2>1. Tombstone(batch[l + 1]) \in Item /\ Tombstone(batch[l + 1]).seq = batch[l + 1].seq
    <3>1. batch[l + 1] \in Item
      BY <1>1, ItemAt
    <3> QED BY <3>1, Zenon DEF Tombstone, Item
  <2>2. /\ batch' \in Seq(Item) /\ Len(batch') = Len(batch)
        /\ \A i \in 1 .. Len(batch) : batch'[i].seq = batch[i].seq
    <3>1. batch' \in Seq(Item) /\ Len(batch') = Len(batch)
      BY <1>1, <1>5, <2>1
    <3>2. \A i \in 1 .. Len(batch) : i # l + 1 => batch'[i] = batch[i]
      BY <1>1, <1>5
    <3>3. batch'[l + 1] = Tombstone(batch[l + 1])
      BY <1>1, <1>5
    <3> QED BY <2>1, <3>1, <3>2, <3>3
  <2>3. Ordered(batch' \o buffer', seq)
    <3>1. /\ batch \o buffer \in Seq(Item) /\ Len(batch \o buffer) = Len(batch) + Len(buffer)
          /\ \A i \in 1 .. Len(batch) : (batch \o buffer)[i] = batch[i]
          /\ \A i \in 1 .. Len(buffer) : (batch \o buffer)[Len(batch) + i] = buffer[i]
      BY <1>1, ConcatRange
    <3>2. /\ batch' \o buffer \in Seq(Item) /\ Len(batch' \o buffer) = Len(batch) + Len(buffer)
          /\ \A i \in 1 .. Len(batch) : (batch' \o buffer)[i] = batch'[i]
          /\ \A i \in 1 .. Len(buffer) : (batch' \o buffer)[Len(batch) + i] = buffer[i]
      <4>1. /\ batch' \o buffer \in Seq(Item) /\ Len(batch' \o buffer) = Len(batch') + Len(buffer)
            /\ \A i \in 1 .. Len(batch') : (batch' \o buffer)[i] = batch'[i]
            /\ \A i \in 1 .. Len(buffer) : (batch' \o buffer)[Len(batch') + i] = buffer[i]
        BY <1>1, <2>2, ConcatRange, Zenon
      <4>2. Len(batch') = Len(batch)
        BY <2>2
      <4> QED BY ONLY <4>1, <4>2
    <3> DEFINE u == batch \o buffer
               v == batch' \o buffer
    <3> HIDE DEF u, v
    <3>3. ASSUME NEW i \in 1 .. Len(batch) + Len(buffer) PROVE v[i].seq = u[i].seq
      <4>1. CASE i <= Len(batch)
        BY <4>1, <2>2, <3>1, <3>2, SMTT(30) DEF u, v
      <4>2. CASE i > Len(batch)
        <5>1. i - Len(batch) \in 1 .. Len(buffer) /\ Len(batch) + (i - Len(batch)) = i
          BY <4>2, <1>1
        <5>2. v[i] = buffer[i - Len(batch)] /\ u[i] = buffer[i - Len(batch)]
          BY <5>1, <3>1, <3>2 DEF u, v
        <5> QED BY <5>2
      <4>3. i <= Len(batch) \/ i > Len(batch)
        BY <1>1
      <4> QED BY <4>1, <4>2, <4>3
    <3>4. Ordered(v, seq)
      BY <3>1, <3>2, <3>3, OrderedSame, Zenon DEF u, v
    <3> QED BY <1>5, <3>4 DEF v
  <2>4. SeqsOf(Range(From(batch', l))) = SeqsOf(Range(From(batch, l)))
    <3>1. /\ From(batch, l) \in Seq(Item) /\ Len(From(batch, l)) = Len(batch) - l
          /\ \A i \in 1 .. Len(batch) - l : From(batch, l)[i] = batch[l + i]
      BY <1>1, CutType, Zenon
    <3>2. /\ From(batch', l) \in Seq(Item) /\ Len(From(batch', l)) = Len(batch) - l
          /\ \A i \in 1 .. Len(batch) - l : From(batch', l)[i] = batch'[l + i]
      <4>1. batch' \in Seq(Item) /\ l \in 0 .. Len(batch') /\ Len(batch') = Len(batch)
        BY <1>1, <2>2
      <4>2. /\ From(batch', l) \in Seq(Item) /\ Len(From(batch', l)) = Len(batch') - l
            /\ \A i \in 1 .. Len(batch') - l : From(batch', l)[i] = batch'[l + i]
        BY <4>1, CutType
      <4> QED BY ONLY <4>1, <4>2
    <3>3. \A i \in 1 .. Len(batch) - l : l + i \in 1 .. Len(batch)
      BY <1>1
    <3>4. \A i \in 1 .. Len(batch) - l : From(batch', l)[i].seq = From(batch, l)[i].seq
      BY <2>2, <3>1, <3>2, <3>3
    <3> QED BY <3>1, <3>2, <3>4, SeqsSame
  <2>5. InMemory' = SeqsOf(Range(buffer)) \cup SeqsOf(Range(From(batch', l))) \cup RangeSeqs
    BY <1>5 DEF InMemory, BufferedSeqs, RangeSeqs, rangeVars, From
  <2> QED BY <1>5, <2>3, <2>4, <2>5 DEF HandEmpty, BufferedSeqs
<1> QED BY <1>3, <1>4, <1>5, Zenon DEF NarrowTo

\* Every answer the api can give to doFlush's post preserves the invariant.
LEMMA PostKeeps ==
  ASSUME IInv, DInv, pc = "post", NetworkStep
  PROVE  DInv'
<1> DEFINE whole == batch \o buffer
           marked == <<Tombstone(batch[1])>> \o buffer
<1>1. /\ FlushOK /\ seq \in Nat /\ rangeLast <= seq /\ splitLimit \in Nat
      /\ batch \in Seq(Item) /\ buffer \in Seq(Item) /\ batch # <<>> /\ lo = 0
  BY DEF IInv, FlushOK, IdsOK, WriteOK
<1>2. whole \in Seq(Item) /\ Ordered(whole, seq) /\ Ordered(buffer, seq)
  BY <1>1, ConcatRange, OrderedParts DEF DInv
<1>3. /\ InMemory = SeqsOf(Range(whole)) \cup RangeSeqs
      /\ SeqsOf(Range(whole)) = SeqsOf(Sent) \cup SeqsOf(Range(buffer))
  BY <1>1, MemoryAtRest, SeqsConcat DEF Sent
<1>4. UNCHANGED serverVars => StoredSeqs' = StoredSeqs
  BY DEF serverVars, StoredSeqs, SeqsOf
<1>5. Len(batch) = 1 =>
        /\ marked \in Seq(Item) /\ Ordered(marked, seq)
        /\ SeqsOf(Range(marked)) = SeqsOf(Range(whole))
  <2> SUFFICES ASSUME Len(batch) = 1
               PROVE  /\ marked \in Seq(Item) /\ Ordered(marked, seq)
                      /\ SeqsOf(Range(marked)) = SeqsOf(Range(whole))
    OBVIOUS
  <2> DEFINE one == <<Tombstone(batch[1])>>
  <2>1. batch[1] \in Item
    BY <1>1, ItemAt
  <2>2. Tombstone(batch[1]) \in Item /\ Tombstone(batch[1]).seq = batch[1].seq
    BY <2>1, Zenon DEF Tombstone, Item
  <2>3. one \in Seq(Item) /\ Len(one) = 1 /\ one[1].seq = batch[1].seq
    BY <2>2
  <2> HIDE DEF one
  <2>4. /\ whole \in Seq(Item) /\ Len(whole) = 1 + Len(buffer) /\ whole[1] = batch[1]
        /\ \A j \in 1 .. Len(buffer) : whole[1 + j] = buffer[j]
    <3>1. /\ Len(whole) = Len(batch) + Len(buffer)
          /\ \A j \in 1 .. Len(batch) : whole[j] = batch[j]
          /\ \A j \in 1 .. Len(buffer) : whole[Len(batch) + j] = buffer[j]
      BY <1>1, ConcatRange
    <3> HIDE DEF whole
    <3> QED BY <1>2, <3>1
  <2>5. /\ one \o buffer \in Seq(Item) /\ Len(one \o buffer) = 1 + Len(buffer)
        /\ (one \o buffer)[1] = one[1]
        /\ \A j \in 1 .. Len(buffer) : (one \o buffer)[1 + j] = buffer[j]
    <3> DEFINE w == one \o buffer
    <3>1. /\ w \in Seq(Item) /\ Len(w) = Len(one) + Len(buffer)
          /\ \A j \in 1 .. Len(one) : w[j] = one[j]
          /\ \A j \in 1 .. Len(buffer) : w[Len(one) + j] = buffer[j]
      BY <1>1, <2>3, ConcatRange
    <3> HIDE DEF w
    <3>2. /\ w \in Seq(Item) /\ Len(w) = 1 + Len(buffer) /\ w[1] = one[1]
          /\ \A j \in 1 .. Len(buffer) : w[1 + j] = buffer[j]
      BY <2>3, <3>1
    <3> QED BY <3>2 DEF w
  <2>6. marked = one \o buffer
    BY DEF one
  <2> HIDE DEF whole, marked
  <2>7. ASSUME NEW j \in 1 .. Len(whole) PROVE marked[j].seq = whole[j].seq
    <3>1. CASE j = 1
      BY <3>1, <2>3, <2>4, <2>5, <2>6
    <3>2. CASE j # 1
      <4>1. j - 1 \in 1 .. Len(buffer) /\ 1 + (j - 1) = j
        BY <3>2, <2>4, <1>1
      <4>2. marked[j] = buffer[j - 1] /\ whole[j] = buffer[j - 1]
        BY <4>1, <2>4, <2>5, <2>6, SMTT(30)
      <4> QED BY <4>2
    <3> QED BY <3>1, <3>2
  <2>8. marked \in Seq(Item) /\ Len(marked) = Len(whole)
    BY <2>4, <2>5, <2>6
  <2> QED BY <1>2, <2>4, <2>7, <2>8, OrderedSame, SeqsSame
<1> HIDE DEF whole, marked
<1>6. CASE PostOk
  <2>1. StoredSeqs' = StoredSeqs \cup SeqsOf(Sent)
    BY <1>6, AppendStored DEF PostOk
  <2>2. TurnOK(buffer)
    BY <1>1, <1>2, <1>6, NextTurnKeeps DEF PostOk
  <2>3. PostFrame /\ discarded' = discarded
    BY <1>6 DEF PostOk
  <2> QED BY <1>3, <2>1, <2>2, <2>3, NetworkKeepsFrame DEF TurnOK
<1>7. ASSUME TurnOK(whole), StoredSeqs \subseteq StoredSeqs', PostFrame, discarded' = discarded
      PROVE  DInv'
  BY <1>3, <1>7, NetworkKeepsFrame DEF TurnOK
<1>8. CASE PostAborted
  <2>1. TurnOK(whole)
    BY <1>2, <1>8, StopFlushKeeps, Zenon DEF PostAborted, whole
  <2> QED BY <1>7, <1>8, <2>1, TransientStored DEF PostAborted
<1>9. CASE PostTransient
  <2>1. TurnOK(whole)
    BY <1>2, <1>9, NoteTransientFailureKeeps, Zenon DEF PostTransient, whole
  <2> QED BY <1>7, <1>9, <2>1, TransientStored DEF PostTransient
<1>10. CASE PostMarkerRefused
  <2>1. TurnOK(buffer)
    BY <1>1, <1>2, <1>10, StopFlushKeeps, Zenon DEF PostMarkerRefused
  <2>2. PostFrame /\ discarded' = discarded \cup SeqsOf(Sent) /\ StoredSeqs' = StoredSeqs
    BY <1>4, <1>10 DEF PostMarkerRefused
  <2> QED BY <1>3, <2>1, <2>2, NetworkKeepsFrame DEF TurnOK
<1>11. CASE PostFatal
  <2>1. TurnOK(whole)
    BY <1>2, <1>11, StopFlushKeeps, Zenon DEF PostFatal, whole
  <2> QED BY <1>4, <1>7, <1>11, <2>1 DEF PostFatal
<1>12. CASE PostOversizeSplit
  <2>1. Len(batch) \div 2 \in Nat
    BY <1>1
  <2>2. TurnOK(whole)
    BY <1>1, <1>2, <1>12, <2>1, NextTurnKeeps, Zenon DEF PostOversizeSplit, whole
  <2> QED BY <1>4, <1>7, <1>12, <2>2 DEF PostOversizeSplit
<1>13. CASE PostOversizeOne \/ PostPermanentOne
  <2>1. /\ Len(batch) = 1 /\ PostFrame /\ discarded' = discarded /\ StoredSeqs' = StoredSeqs
        /\ \E limit \in Nat : NextTurn(marked, limit)
    BY <1>1, <1>4, <1>13 DEF PostOversizeOne, PostPermanentOne, marked
  <2>2. TurnOK(marked)
    BY <1>1, <1>5, <2>1, NextTurnKeeps
  <2>3. TurnOK(whole)
    BY <1>5, <2>1, <2>2 DEF TurnOK
  <2> QED BY <1>7, <2>1, <2>3
<1>14. CASE PostPermanentMany
  <2>1. /\ UNCHANGED <<buffer, batch, rangeFirst, rangeLast, discarded>> /\ lo' = lo /\ pc' = "bisect"
        /\ PostFrame /\ StoredSeqs' = StoredSeqs
    BY <1>1, <1>4, <1>14 DEF PostPermanentMany, rangeVars
  <2>2. InMemory' = InMemory
    BY <2>1 DEF InMemory, BufferedSeqs, RangeSeqs, From
  <2>3. HandEmpty' /\ Ordered(batch' \o buffer', seq)
    BY <1>2, <2>1 DEF HandEmpty, whole
  <2> QED BY <2>1, <2>2, <2>3, NetworkKeepsFrame
<1> QED
  BY <1>6, <1>8, <1>9, <1>10, <1>11, <1>12, <1>13, <1>14
  DEF NetworkStep, BisectOk, BisectPermanent, BisectAbandoned, BisectFatal, MarkerOk, MarkerTransient,
      MarkerRefused

\* Every answer to a post of the bisection preserves the invariant: a half that
\* was accepted is stored, a window that is given up is put back or discarded.
LEMMA BisectKeeps ==
  ASSUME IInv, DInv, pc \in {"bisect", "marker"}, NetworkStep
  PROVE  DInv'
<1> DEFINE rest == From(batch, lo)
           next == From(batch, lo + 1)
<1>1. /\ FlushOK /\ seq \in Nat /\ rangeLast <= seq
      /\ batch \in Seq(Item) /\ buffer \in Seq(Item)
      /\ lo \in Nat /\ hi \in Nat /\ lo < hi /\ hi <= Len(batch)
      /\ lo \in 0 .. Len(batch) /\ lo + 1 \in 0 .. Len(batch) /\ lo + 1 \in 1 .. Len(batch)
      /\ pc = "bisect" => lo + 1 < hi
  BY SMTT(30) DEF IInv, FlushOK, IdsOK, WriteOK
<1>2. Ordered(batch \o buffer, seq) /\ Ordered(buffer, seq) /\ batch \o buffer \in Seq(Item)
  BY <1>1, ConcatRange, OrderedParts DEF DInv
<1>3. /\ rest \in Seq(Item) /\ rest \o buffer \in Seq(Item) /\ Ordered(rest \o buffer, seq)
      /\ next \in Seq(Item) /\ next \o buffer \in Seq(Item) /\ Ordered(next \o buffer, seq)
  <2>1. ASSUME NEW n \in 0 .. Len(batch)
        PROVE  /\ From(batch, n) \in Seq(Item) /\ From(batch, n) \o buffer \in Seq(Item)
               /\ Ordered(From(batch, n) \o buffer, seq)
    <3>1. From(batch, n) \in Seq(Item)
      BY <1>1, CutType
    <3>2. /\ From(batch, n) \o buffer \in Seq(Item) /\ n \in 0 .. Len(batch \o buffer)
          /\ From(batch, n) \o buffer = From(batch \o buffer, n)
      BY <1>1, FromConcat
    <3>3. Ordered(From(batch \o buffer, n), seq)
      BY <1>2, <3>2, OrderedFrom, Zenon
    <3> QED BY <3>1, <3>2, <3>3
  <2> QED BY <1>1, <2>1
<1>4. /\ InMemory = SeqsOf(Range(rest)) \cup SeqsOf(Range(buffer)) \cup RangeSeqs
      /\ SeqsOf(Range(rest \o buffer)) = SeqsOf(Range(rest)) \cup SeqsOf(Range(buffer))
      /\ SeqsOf(Range(next \o buffer)) = SeqsOf(Range(next)) \cup SeqsOf(Range(buffer))
  BY <1>1, <1>3, SeqsConcat DEF InMemory, BufferedSeqs
<1>5. UNCHANGED serverVars => StoredSeqs' = StoredSeqs
  BY DEF serverVars, StoredSeqs, SeqsOf
<1>6. ASSUME NEW m \in lo + 1 .. Len(batch)
      PROVE  SeqsOf(Range(rest)) \subseteq SeqsOf(Range(Slice(batch, lo, m))) \cup SeqsOf(Range(From(batch, m)))
  <2> DEFINE half == Slice(batch, lo, m)
             tail == From(batch, m)
  <2>1. m \in 0 .. Len(batch)
    BY <1>1, <1>6
  <2>2. /\ half \in Seq(Item) /\ Len(half) = m - lo
        /\ \A i \in 1 .. m - lo : half[i] = batch[lo + i]
    BY <1>1, <1>6 DEF Slice
  <2>3. /\ tail \in Seq(Item) /\ Len(tail) = Len(batch) - m
        /\ \A i \in 1 .. Len(batch) - m : tail[i] = batch[m + i]
    BY <1>1, <2>1, CutType
  <2>4. /\ Len(rest) = Len(batch) - lo
        /\ \A i \in 1 .. Len(batch) - lo : rest[i] = batch[lo + i]
    BY <1>1, CutType, Zenon
  <2> HIDE DEF rest, half, tail
  <2>5. ASSUME NEW i \in 1 .. Len(rest) PROVE rest[i] \in Range(half) \cup Range(tail)
    <3>1. rest[i] = batch[lo + i]
      BY <1>1, <2>4
    <3>2. CASE i <= m - lo
      <4>1. i \in 1 .. Len(half) /\ half[i] = rest[i]
        BY <1>1, <2>2, <3>1, <3>2, SMTT(30)
      <4> QED BY <4>1, <2>2, SeqRange
    <3>3. CASE i > m - lo
      <4>1. i - (m - lo) \in 1 .. Len(tail) /\ m + (i - (m - lo)) = lo + i
        BY <1>1, <2>1, <2>3, <2>4, <3>3, SMTT(30)
      <4>2. tail[i - (m - lo)] = batch[lo + i]
        BY <4>1, <2>3
      <4> QED BY <4>1, <4>2, <3>1, <2>3, SeqRange
    <3>4. i <= m - lo \/ i > m - lo
      BY <1>1, <2>1
    <3> QED BY <3>2, <3>3, <3>4
  <2>6. Range(rest) \subseteq Range(half) \cup Range(tail)
    BY <1>3, <2>5, SeqRange, SMTT(30)
  <2>7. SeqsOf(Range(rest)) \subseteq SeqsOf(Range(half)) \cup SeqsOf(Range(tail))
    BY <2>6 DEF SeqsOf
  <2> QED BY <2>7 DEF half, tail
<1>7. SeqsOf(Range(rest)) \subseteq SeqsOf({batch[lo + 1]}) \cup SeqsOf(Range(next))
  <2>1. lo + 1 \in lo + 1 .. Len(batch)
    BY <1>1
  <2>2. Range(Slice(batch, lo, lo + 1)) \subseteq {batch[lo + 1]}
    <3> DEFINE half == Slice(batch, lo, lo + 1)
    <3>1. half \in Seq(Item) /\ Len(half) = 1 /\ half[1] = batch[lo + 1]
      BY <1>1, SMTT(30) DEF Slice
    <3> HIDE DEF half
    <3>2. \A i \in 1 .. Len(half) : half[i] = batch[lo + 1]
      BY <3>1
    <3>3. Range(half) \subseteq {batch[lo + 1]}
      BY <3>1, <3>2, SeqRange
    <3> QED BY <3>3 DEF half
  <2>3. SeqsOf(Range(Slice(batch, lo, lo + 1))) \subseteq SeqsOf({batch[lo + 1]})
    BY <2>2 DEF SeqsOf
  <2> QED BY <2>1, <2>3, <1>6, Zenon
<1>8. pc = "bisect" =>
        /\ Mid \in Nat /\ lo < Mid /\ Mid < hi /\ Mid \in lo + 1 .. Len(batch)
        /\ SeqsOf(Range(rest)) \subseteq SeqsOf(Half) \cup SeqsOf(Range(From(batch, Mid)))
  <2>1. pc = "bisect" => Mid \in Nat /\ lo < Mid /\ Mid < hi /\ Mid \in lo + 1 .. Len(batch)
    BY <1>1 DEF Mid
  <2> QED BY <2>1, <1>6 DEF Half
<1> HIDE DEF rest, next
<1>9. CASE BisectOk
  <2>1. StoredSeqs' = StoredSeqs \cup SeqsOf(Half)
    BY <1>9, AppendStored DEF BisectOk
  <2>2. pc = "bisect" /\ NarrowTo(Mid, hi, TRUE) /\ PostFrame
    BY <1>9, Zenon DEF BisectOk
  <2>3. /\ Ordered(batch' \o buffer', seq) /\ HandEmpty' /\ discarded \subseteq discarded'
        /\ SeqsOf(Range(From(batch, Mid))) \cup BufferedSeqs \cup RangeSeqs \subseteq InMemory' \cup discarded'
    BY <1>1, <1>2, <1>8, <2>2, NarrowToKeeps, Zenon
  <2>4. InMemory \subseteq InMemory' \cup StoredSeqs' \cup discarded'
    BY <1>4, <1>8, <2>1, <2>2, <2>3 DEF BufferedSeqs
  <2> QED BY <2>1, <2>2, <2>3, <2>4, NetworkKeepsFrame
<1>10. CASE BisectPermanent
  <2>1. pc = "bisect" /\ NarrowTo(lo, Mid, progressed) /\ PostFrame /\ StoredSeqs' = StoredSeqs
    BY <1>5, <1>10 DEF BisectPermanent
  <2>2. Mid <= Len(batch)
    BY <1>1, <1>8, <2>1
  <2>3. /\ Ordered(batch' \o buffer', seq) /\ HandEmpty' /\ discarded \subseteq discarded'
        /\ SeqsOf(Range(From(batch, lo))) \cup BufferedSeqs \cup RangeSeqs \subseteq InMemory' \cup discarded'
    BY <1>1, <1>2, <1>8, <2>1, <2>2, NarrowToKeeps
  <2>4. InMemory \subseteq InMemory' \cup discarded'
    BY <2>3 DEF InMemory
  <2> QED BY <2>1, <2>3, <2>4, NetworkKeepsFrame
<1>11. ASSUME NEW moved, AfterBisect(From(batch, lo), moved), StoredSeqs \subseteq StoredSeqs', PostFrame,
              discarded' = discarded
       PROVE  DInv'
  <2>1. TurnOK(rest \o buffer)
    BY <1>1, <1>3, <1>11, AfterBisectKeeps DEF rest
  <2> QED BY <1>4, <1>11, <2>1, NetworkKeepsFrame DEF TurnOK
<1>12. CASE BisectAbandoned
  <2>1. StoredSeqs \subseteq StoredSeqs'
    BY <1>5, <1>12, TransientStored DEF BisectAbandoned
  <2> QED BY <1>11, <1>12, <2>1 DEF BisectAbandoned
<1>13. CASE MarkerTransient
  <2>1. StoredSeqs \subseteq StoredSeqs'
    BY <1>13, TransientStored DEF MarkerTransient
  <2> QED BY <1>11, <1>13, <2>1 DEF MarkerTransient
<1>14. CASE MarkerOk
  <2>1. StoredSeqs' = StoredSeqs \cup SeqsOf({batch[lo + 1]})
    BY <1>14, AppendStored DEF MarkerOk
  <2>2. TurnOK(next \o buffer)
    BY <1>1, <1>3, <1>14, AfterBisectKeeps, Zenon DEF MarkerOk, next
  <2>3. PostFrame /\ discarded' = discarded
    BY <1>14 DEF MarkerOk
  <2> QED BY <1>4, <1>7, <2>1, <2>2, <2>3, NetworkKeepsFrame DEF TurnOK
<1>15. CASE BisectFatal \/ MarkerRefused
  <2>1. /\ discarded' = discarded \cup SeqsOf(Range(rest)) /\ PostFrame /\ StoredSeqs' = StoredSeqs
        /\ StopFlush(buffer, splitLimit, TRUE)
    BY <1>5, <1>15, Zenon DEF BisectFatal, MarkerRefused, rest
  <2>2. TurnOK(buffer)
    BY <1>1, <1>2, <2>1, StopFlushKeeps, Zenon
  <2> QED BY <1>4, <2>1, <2>2, NetworkKeepsFrame DEF TurnOK
<1> QED
  BY <1>9, <1>10, <1>12, <1>13, <1>14, <1>15, Zenon
  DEF NetworkStep, PostOk, PostAborted, PostTransient, PostMarkerRefused, PostFatal, PostOversizeSplit,
      PostOversizeOne, PostPermanentOne, PostPermanentMany

\* The network steps together.
LEMMA NetworkKeeps ==
  ASSUME IInv, DInv, NetworkStep
  PROVE  DInv'
<1>1. pc \in {"post", "bisect", "marker"}
  BY Zenon DEF NetworkStep, PostOk, PostAborted, PostTransient, PostMarkerRefused, PostFatal,
         PostOversizeSplit, PostOversizeOne, PostPermanentOne, PostPermanentMany, BisectOk,
         BisectPermanent, BisectAbandoned, BisectFatal, MarkerOk, MarkerTransient, MarkerRefused
<1> QED BY <1>1, PostKeeps, BisectKeeps

-----------------------------------------------------------------------------
(* emit and the steps that start a flush                                    *)

\* emit() places its seq in the buffer or in the pending range.
LEMMA EmitKeeps ==
  ASSUME IInv, DInv, Emit
  PROVE  DInv'
<1>1. /\ seq \in Nat /\ base \in Nat /\ batch \in Seq(Item) /\ buffer \in Seq(Item)
      /\ rangeFirst \in Nat /\ rangeLast \in Nat /\ rangeLast <= seq
      /\ rangeFirst # 0 => rangeFirst <= rangeLast
  BY DEF IInv, FlushOK, IdsOK, WriteOK
<1>2. ASSUME seq' = seq + 1, ~closed, UNCHANGED <<serverVars, outboxVars, base, generation, batch, pc, lo>>,
             UNCHANGED <<closeVars, discarded, forgotten>>,
             Ordered(batch' \o buffer', seq'), InMemory \cup {seq + 1} \subseteq InMemory'
      PROVE  DInv'
  <2>1. Assigned' \subseteq Assigned \cup {seq + 1}
    BY <1>1, <1>2 DEF Assigned
  <2>2. StoredSeqs' = StoredSeqs /\ JournaledSeqs' = JournaledSeqs
    BY <1>2 DEF StoredSeqs, SeqsOf, JournaledSeqs, OwnRecords, serverVars, outboxVars
  <2>3. NoSeqVanishes'
    BY <1>2, <2>1, <2>2 DEF DInv, NoSeqVanishes
  <2>4. HandEmpty'
    BY <1>2 DEF DInv, HandEmpty
  <2>5. SegmentsCover'
    BY <1>2 DEF DInv, SegmentsCover, outboxVars
  <2>6. HandedOff'
    BY <1>2 DEF IInv, CloseOK, HandedOff, closeVars
  <2> QED BY <1>2, <2>3, <2>4, <2>5, <2>6 DEF DInv
<1>3. CASE EmitKept
  <2>1. PICK c \in EmitClasses : buffer' = Append(buffer, Emitted(c))
    BY <1>3 DEF EmitKept
  <2>2. Emitted(c) \in Item /\ Emitted(c).seq = seq + 1
    BY <1>1, BatcherAssumption, SMTT(30) DEF Emitted, Item
  <2>3. /\ seq' = seq + 1 /\ ~closed /\ UNCHANGED <<serverVars, outboxVars, base, generation, batch, pc, lo>>
        /\ UNCHANGED <<closeVars, discarded, forgotten, rangeFirst, rangeLast>>
    BY <1>3 DEF EmitKept, windowVars, rangeVars, historyVars
  <2>4. Ordered(batch' \o buffer', seq')
    BY <1>1, <2>1, <2>2, <2>3, OrderedAppend DEF DInv
  <2>6. Range(buffer') = Range(buffer) \cup {Emitted(c)}
    BY <1>1, <2>1, <2>2, AppendRange
  <2>7. SeqsOf(Range(buffer)) \cup {seq + 1} \subseteq SeqsOf(Range(buffer'))
    BY <2>2, <2>6 DEF SeqsOf
  <2>8. InMemory \cup {seq + 1} \subseteq InMemory'
    BY <2>3, <2>7 DEF InMemory, BufferedSeqs, RangeSeqs, From
  <2> QED BY <1>2, <2>3, <2>4, <2>8
<1>4. CASE EmitFolded
  <2>1. /\ seq' = seq + 1 /\ ~closed /\ UNCHANGED <<serverVars, outboxVars, base, generation, batch, pc, lo>>
        /\ UNCHANGED <<closeVars, discarded, forgotten, buffer>>
        /\ rangeLast' = seq + 1 /\ rangeFirst' = IF rangeFirst = 0 THEN seq + 1 ELSE rangeFirst
    BY <1>4 DEF EmitFolded, FoldIntoPendingRange, windowVars
  <2>2. RangeSeqs \cup {seq + 1} \subseteq RangeSeqs'
    <3>1. CASE rangeFirst = 0
      BY <1>1, <2>1, <3>1, SMTT(30) DEF RangeSeqs
    <3>2. CASE rangeFirst # 0
      BY <1>1, <2>1, <3>2, SMTT(30) DEF RangeSeqs
    <3> QED BY <3>1, <3>2
  <2>3. InMemory \cup {seq + 1} \subseteq InMemory'
    BY <2>1, <2>2 DEF InMemory, BufferedSeqs, From
  <2>4. Ordered(batch' \o buffer', seq')
    <3> DEFINE whole == batch \o buffer
    <3>1. whole \in Seq(Item) /\ Ordered(whole, seq)
      BY <1>1, ConcatRange DEF DInv
    <3> HIDE DEF whole
    <3>2. \A i \in 1 .. Len(whole) : whole[i].seq \in Nat
      BY <3>1, ItemAt
    <3>3. Ordered(whole, seq + 1)
      BY <1>1, <3>1, <3>2, SMTT(30) DEF Ordered
    <3> QED BY <2>1, <3>3 DEF whole
  <2> QED BY <1>2, <2>1, <2>3, <2>4
<1> QED BY <1>3, <1>4 DEF Emit

\* Starting a flush moves messages into the batch, or nothing.
LEMMA StartFlushKeeps ==
  ASSUME IInv, DInv, StartFlush, FlushFrame, closePc' \notin Settled
  PROVE  DInv'
<1>1. /\ FlushOK /\ seq \in Nat /\ rangeLast <= seq /\ splitLimit \in Nat /\ pc = "idle" /\ lo = 0
      /\ batch \in Seq(Item) /\ buffer \in Seq(Item)
  BY DEF IInv, FlushOK, IdsOK, WriteOK, StartFlush, FlushMayStart
<1>2. /\ UNCHANGED <<seq, base, generation, records, forgotten, discarded>> /\ UNCHANGED serverVars
  BY DEF FlushFrame, idVars, outboxVars, historyVars
<1>3. Ordered(batch' \o buffer', seq) /\ HandEmpty' /\ InMemory \subseteq InMemory'
  <2>1. batch = <<>> /\ Ordered(buffer, seq) /\ Ordered(batch \o buffer, seq)
    BY <1>1, OrderedParts DEF DInv, HandEmpty
  <2>2. CASE spilled
    <3>1. UNCHANGED <<buffer, batch, rangeFirst, rangeLast, lo>>
      BY <2>2 DEF StartFlush, rangeVars, windowVars
    <3> QED BY <2>1, <3>1 DEF HandEmpty, InMemory, BufferedSeqs, RangeSeqs, From
  <2>3. CASE ~spilled
    <3>1. TurnOK(buffer)
      BY <1>1, <2>1, <2>3, SendNextKeeps DEF StartFlush, FlushMayStart
    <3>2. Range(batch) = {}
      <4>1. Len(batch) = 0 /\ 1 .. 0 = {}
        BY <2>1
      <4> QED BY <4>1, <1>1, SeqRange, Zenon
    <3>3. InMemory = SeqsOf(Range(buffer)) \cup RangeSeqs
      BY <1>1, <3>2, FromZero DEF InMemory, BufferedSeqs, SeqsOf
    <3> QED BY <3>1, <3>3 DEF TurnOK
  <2> QED BY <2>2, <2>3
<1>4. Assigned' = Assigned /\ JournaledSeqs' = JournaledSeqs /\ StoredSeqs' = StoredSeqs
  BY <1>2 DEF Assigned, JournaledSeqs, OwnRecords, StoredSeqs, SeqsOf, serverVars
<1>5. NoSeqVanishes'
  BY <1>2, <1>3, <1>4 DEF DInv, NoSeqVanishes
<1>6. SegmentsCover' /\ HandedOff'
  BY <1>2 DEF DInv, SegmentsCover, HandedOff, Settled, CloseEnds
<1> QED BY <1>2, <1>3, <1>5, <1>6 DEF DInv

\* A step that leaves memory, records and history alone.
LEMMA QuietKeeps ==
  ASSUME DInv, UNCHANGED <<seq, base, generation, buffer, batch, rangeFirst, rangeLast, lo, pc>>,
         UNCHANGED <<records, discarded, forgotten>>, StoredSeqs \subseteq StoredSeqs', HandedOff'
  PROVE  DInv'
<1>1. Assigned' = Assigned /\ JournaledSeqs' = JournaledSeqs /\ InMemory' = InMemory
  BY DEF Assigned, JournaledSeqs, OwnRecords, InMemory, BufferedSeqs, RangeSeqs, From
<1>2. NoSeqVanishes'
  BY <1>1 DEF DInv, NoSeqVanishes
<1>3. HandEmpty' /\ SegmentsCover'
  BY DEF DInv, HandEmpty, SegmentsCover
<1> QED BY <1>2, <1>3 DEF DInv

\* The batch timer, flush() and the abort.
LEMMA ScheduleKeeps ==
  ASSUME IInv, DInv, TimerFires \/ Flush \/ AbortFlush
  PROVE  DInv'
<1>1. FlushFrame /\ closePc' = closePc
  BY DEF TimerFires, Flush, AbortFlush, closeVars
<1>2. CASE StartFlush /\ (TimerFires \/ Flush)
  <2>1. closePc \notin Settled
    BY <1>2 DEF IInv, CloseOK, TimerFires, Flush, Settled, CloseEnds
  <2> QED BY <1>1, <1>2, <2>1, StartFlushKeeps
<1>3. CASE UNCHANGED <<buffer, batch, rangeVars, pc, windowVars, splitLimit>>
  <2>1. /\ UNCHANGED <<seq, base, generation, buffer, batch, rangeFirst, rangeLast, lo, pc>>
        /\ UNCHANGED <<records, discarded, forgotten>> /\ UNCHANGED serverVars
    BY <1>1, <1>3 DEF FlushFrame, idVars, outboxVars, historyVars, rangeVars, windowVars
  <2>2. HandedOff'
    BY <1>1, <2>1 DEF DInv, HandedOff, HasWork
  <2>3. StoredSeqs' = StoredSeqs
    BY <2>1 DEF serverVars, StoredSeqs, SeqsOf
  <2> QED BY <2>1, <2>2, <2>3, QuietKeeps
<1> QED BY <1>2, <1>3, Zenon DEF TimerFires, Flush, AbortFlush

-----------------------------------------------------------------------------
(* The outbox                                                               *)

\* A write that keeps every journaled seq journaled, and every segment covering
\* its messages.
JournalStep == SegmentsCover' /\ JournaledSeqs \subseteq JournaledSeqs'

\* Eviction keeps the seqs of the segments it turns into ranges.
LEMMA EvictKeeps ==
  ASSUME records \subseteq Record, SegmentsCover, NEW E \in Evictable, NEW R, EvictSegments(E) \subseteq R,
         \A rec \in R \ EvictSegments(E) :
           rec.kind = "segment" => SeqsOf(rec.items) \subseteq rec.firstSeq .. rec.lastSeq,
         records' = R, generation' = generation
  PROVE  JournalStep
<1>1. E \subseteq records /\ \A rec \in E : rec.kind = "segment"
  BY DEF Evictable, Segments
<1>2. \A rec \in E : LET new == RangeRecord(rec.firstSeq, rec.lastSeq, rec.gen)
                     IN  /\ new \in R /\ new.gen = rec.gen /\ new.kind = "range"
                         /\ RecordSeqs(rec) \subseteq RecordSeqs(new)
  <2> SUFFICES ASSUME NEW rec \in E
               PROVE  LET new == RangeRecord(rec.firstSeq, rec.lastSeq, rec.gen)
                      IN  /\ new \in R /\ new.gen = rec.gen /\ new.kind = "range"
                          /\ RecordSeqs(rec) \subseteq RecordSeqs(new)
    OBVIOUS
  <2> DEFINE new == RangeRecord(rec.firstSeq, rec.lastSeq, rec.gen)
  <2>1. new \in R
    BY DEF EvictSegments
  <2>2. new.gen = rec.gen /\ new.kind = "range" /\ RecordSeqs(new) = rec.firstSeq .. rec.lastSeq
    BY Zenon DEF RangeRecord, RecordSeqs
  <2>3. RecordSeqs(rec) \subseteq rec.firstSeq .. rec.lastSeq
    BY <1>1 DEF SegmentsCover, RecordSeqs
  <2> QED BY <2>1, <2>2, <2>3
<1>3. \A rec \in records : rec \in E \/ rec \in R
  BY DEF EvictSegments
<1>4. ASSUME NEW x \in JournaledSeqs PROVE x \in JournaledSeqs'
  <2>1. PICK rec \in records : rec.gen = generation /\ x \in RecordSeqs(rec)
    BY DEF JournaledSeqs, OwnRecords
  <2>2. \E new \in R : new.gen = generation /\ x \in RecordSeqs(new)
    BY <1>2, <1>3, <2>1
  <2>3. \E new \in records' : new.gen = generation' /\ x \in RecordSeqs(new)
    BY <2>2
  <2> QED BY <2>3 DEF JournaledSeqs, OwnRecords, RecordSeqs, SeqsOf
<1>5. SegmentsCover'
  <2>1. ASSUME NEW rec \in R, rec.kind = "segment"
        PROVE  SeqsOf(rec.items) \subseteq rec.firstSeq .. rec.lastSeq
    <3>1. CASE rec \notin EvictSegments(E)
      BY <2>1, <3>1
    <3>2. CASE rec \in records
      BY <2>1, <3>2 DEF SegmentsCover
    <3>3. CASE rec \in {RangeRecord(old.firstSeq, old.lastSeq, old.gen) : old \in E}
      BY <2>1, <3>3, SMTT(30) DEF RangeRecord
    <3> QED BY <3>1, <3>2, <3>3 DEF EvictSegments
  <2> QED BY <2>1 DEF SegmentsCover, SeqsOf
<1> QED BY <1>4, <1>5 DEF JournalStep

\* An appended segment journals its messages.
LEMMA AppendSegmentKeeps ==
  ASSUME records \subseteq Record, SegmentsCover, generation' = generation,
         NEW items, NEW first, NEW last, SeqsOf(items) \subseteq first .. last,
         AppendSegment(items, first, last, generation)
  PROVE  JournalStep /\ SeqsOf(items) \subseteq JournaledSeqs'
<1> DEFINE new == Segment(items, first, last, generation)
<1>1. PICK E \in Evictable : records' = EvictSegments(E) \cup {new}
  BY DEF AppendSegment
<1>2. /\ new.kind = "segment" /\ new.items = items /\ new.firstSeq = first /\ new.lastSeq = last
      /\ new.gen = generation /\ RecordSeqs(new) = SeqsOf(items)
  BY DEF Segment, RecordSeqs
<1> HIDE DEF new
<1>3. JournalStep
  BY <1>1, <1>2, EvictKeeps
<1>4. new \in records' /\ new.gen = generation'
  BY <1>1, <1>2
<1>5. RecordSeqs(new) \subseteq JournaledSeqs'
  BY <1>4 DEF JournaledSeqs, OwnRecords, RecordSeqs, SeqsOf
<1> QED BY <1>2, <1>3, <1>5

\* A failed segment write may evict, and still journals what was journaled.
LEMMA AppendSegmentFailsKeeps ==
  ASSUME records \subseteq Record, SegmentsCover, generation' = generation, AppendSegmentFails
  PROVE  JournalStep
<1>1. PICK E \in Evictable : records' = EvictSegments(E)
  BY DEF AppendSegmentFails
<1> QED BY <1>1, EvictKeeps

\* An appended range record journals the range.
LEMMA AppendRangeKeeps ==
  ASSUME SegmentsCover, generation' = generation, NEW first, NEW last,
         AppendRangeRecord(first, last, generation)
  PROVE  JournalStep /\ first .. last \subseteq JournaledSeqs'
<1> DEFINE new == RangeRecord(first, last, generation)
<1>1. records' = records \cup {new}
  BY DEF AppendRangeRecord
<1>2. new.kind = "range" /\ new.gen = generation /\ RecordSeqs(new) = first .. last
  BY DEF RangeRecord, RecordSeqs
<1> HIDE DEF new
<1>3. JournaledSeqs \subseteq JournaledSeqs' /\ RecordSeqs(new) \subseteq JournaledSeqs'
  BY <1>1, <1>2 DEF JournaledSeqs, OwnRecords, RecordSeqs, SeqsOf
<1>4. SegmentsCover'
  BY <1>1, <1>2 DEF SegmentsCover, SeqsOf
<1> QED BY <1>2, <1>3, <1>4 DEF JournalStep

\* The spilled_unclean flag changes no record.
LEMMA MarkKeeps ==
  ASSUME SegmentsCover, generation' = generation,
         MarkSpillUnclean \/ ClearSpillUnclean \/ UNCHANGED manifestVars
  PROVE  JournalStep
<1>1. records' = records
  BY DEF MarkSpillUnclean, ClearSpillUnclean, manifestVars
<1> QED BY <1>1 DEF JournalStep, SegmentsCover, JournaledSeqs, OwnRecords, SeqsOf, RecordSeqs

\* The segment loop's head: what was buffered stays in memory.
LEMMA NextSegmentKeeps ==
  ASSUME buffer \in Seq(Item), splitLimit \in Nat, lo = 0, Ordered(buffer, seq), NEW first, NextSegment(first)
  PROVE  Ordered(batch' \o buffer', seq) /\ HandEmpty' /\ BufferedSeqs \subseteq InMemory'
<1>1. lo' = 0 /\ batch' \in Seq(Item) /\ buffer' \in Seq(Item) /\ batch' \o buffer' = buffer /\ HandEmpty'
  <2>1. CASE TakePrefix(buffer, splitLimit) /\ pc' = "segment" /\ UNCHANGED windowVars
    BY <2>1, TakePrefixKeeps DEF HandEmpty, windowVars
  <2>2. CASE batch' = <<>> /\ UNCHANGED <<buffer, windowVars>>
    <3>1. <<>> \in Seq(Item) /\ <<>> \o buffer = buffer
      OBVIOUS
    <3> QED BY <2>2, <3>1 DEF HandEmpty, windowVars
  <2> QED BY <2>1, <2>2 DEF NextSegment
<1>2. InMemory' = SeqsOf(Range(batch' \o buffer')) \cup RangeSeqs'
  BY <1>1, MemoryNext
<1> QED BY <1>1, <1>2 DEF BufferedSeqs

\* What every spill step leaves alone, and what remains to show of it.
LEMMA SpillKeepsFrame ==
  ASSUME IInv, DInv, pc # "idle", SpillFrame, JournalStep, Ordered(batch' \o buffer', seq), HandEmpty',
         forgotten \subseteq forgotten', InMemory \subseteq InMemory' \cup JournaledSeqs' \cup forgotten'
  PROVE  DInv'
<1>1. /\ UNCHANGED <<seq, base, generation, discarded, closePc>> /\ UNCHANGED serverVars
  BY DEF SpillFrame, idVars, closeVars
<1>2. Assigned' = Assigned /\ StoredSeqs' = StoredSeqs
  BY <1>1 DEF Assigned, StoredSeqs, SeqsOf, serverVars
<1>3. NoSeqVanishes'
  BY <1>1, <1>2 DEF DInv, NoSeqVanishes, JournalStep
<1>4. HandedOff'
  BY <1>1 DEF IInv, CloseOK, Settled, CloseEnds, HandedOff
<1> QED BY <1>1, <1>3, <1>4 DEF DInv, JournalStep

\* A spill flush loses a seq only by the reset that follows the range record.
LEMMA SpillKeeps ==
  ASSUME IInv, DInv, SpillStep
  PROVE  DInv'
<1>1. /\ records \subseteq Record /\ SegmentsCover /\ seq \in Nat /\ splitLimit \in Nat
      /\ batch \in Seq(Item) /\ buffer \in Seq(Item) /\ batch \o buffer \in Seq(Item)
      /\ rangeFirst \in Nat /\ rangeLast \in Nat /\ writeLast \in Nat
  BY SMTT(30) DEF IInv, DInv, FlushOK, DiskOK, IdsOK, WriteOK
<1>2. pc \in {"enterSpill", "mark", "range", "segment", "clear"} /\ SpillFrame /\ generation' = generation
  BY Zenon DEF SpillStep, EnterSpill, EnterSpillFails, SpillMark, SpillRange, SpillSegment, SpillWriteFails,
         SpillClear, SpillFrame, idVars
<1>3. lo = 0 /\ Ordered(batch \o buffer, seq) /\ Ordered(buffer, seq)
  <2>1. lo = 0
    BY <1>2 DEF IInv, FlushOK
  <2> QED BY <1>1, <2>1, OrderedParts DEF DInv
<1>4. InMemory = SeqsOf(Range(batch \o buffer)) \cup RangeSeqs
  BY <1>1, <1>3, MemoryAtRest
<1>5. pc # "segment" => batch = <<>> /\ batch \o buffer = buffer
  BY <1>1, <1>2 DEF DInv, HandEmpty
<1>6. ASSUME NEW buf, buf = batch \o buffer, NEW tripping, StopFlush(buf, splitLimit, tripping), JournalStep,
             forgotten' = forgotten
      PROVE  DInv'
  <2>1. TurnOK(buf)
    BY <1>1, <1>3, <1>6, StopFlushKeeps, Zenon
  <2> QED BY <1>2, <1>4, <1>6, <2>1, SpillKeepsFrame DEF TurnOK
<1>7. CASE EnterSpill \/ EnterSpillFails \/ SpillClear
  <2>1. PICK tripping : StopFlush(buffer, splitLimit, tripping)
    BY <1>7, Zenon DEF EnterSpill, EnterSpillFails, SpillClear, StopSpillFlush
  <2>2. MarkSpillUnclean \/ ClearSpillUnclean \/ UNCHANGED manifestVars
    BY <1>7, Zenon DEF EnterSpill, EnterSpillFails, SpillClear
  <2>3. JournalStep
    BY <1>1, <1>2, <2>2, MarkKeeps
  <2>4. pc # "segment" /\ forgotten' = forgotten
    BY <1>7, Zenon DEF EnterSpill, EnterSpillFails, SpillClear
  <2> QED BY <1>5, <1>6, <2>1, <2>3, <2>4
<1>8. CASE SpillWriteFails
  <2>1. CASE pc \in {"mark", "range"} /\ UNCHANGED manifestVars /\ StopFlush(buffer, splitLimit, FALSE)
    <3>1. JournalStep /\ forgotten' = forgotten
      BY <1>1, <1>2, <1>8, <2>1, MarkKeeps DEF SpillWriteFails
    <3> QED BY <1>5, <1>6, <2>1, <3>1, Zenon
  <2>2. CASE pc = "segment" /\ AppendSegmentFails /\ StopFlush(batch \o buffer, splitLimit, FALSE)
    <3>1. JournalStep /\ forgotten' = forgotten
      BY <1>1, <1>2, <1>8, <2>2, AppendSegmentFailsKeeps DEF SpillWriteFails
    <3> QED BY <1>6, <2>2, <3>1, Zenon
  <2> QED BY <1>8, <2>1, <2>2, Zenon DEF SpillWriteFails, StopSpillFlush
<1>9. CASE SpillMark
  <2>1. JournalStep /\ pc = "mark" /\ UNCHANGED <<rangeFirst, rangeLast, forgotten>>
    BY <1>1, <1>2, <1>9, MarkKeeps DEF SpillMark, rangeVars
  <2>2. RangeSeqs' = RangeSeqs
    BY <2>1 DEF RangeSeqs
  <2>3. CASE pc' = "range" /\ UNCHANGED <<buffer, batch, windowVars>>
    <3>1. InMemory' = InMemory
      BY <2>2, <2>3 DEF InMemory, BufferedSeqs, From, windowVars
    <3>2. Ordered(batch' \o buffer', seq) /\ HandEmpty'
      BY <1>3, <1>5, <2>1, <2>3 DEF HandEmpty
    <3> QED BY <1>2, <2>1, <3>1, <3>2, SpillKeepsFrame
  <2>4. CASE NextSegment(0)
    <3>1. Ordered(batch' \o buffer', seq) /\ HandEmpty' /\ BufferedSeqs \subseteq InMemory'
      BY <1>1, <1>3, <2>4, NextSegmentKeeps
    <3>2. InMemory = BufferedSeqs \cup RangeSeqs
      BY <1>4, <1>5, <2>1 DEF BufferedSeqs
    <3>3. RangeSeqs' \subseteq InMemory'
      BY DEF InMemory
    <3> QED BY <1>2, <2>1, <2>2, <3>1, <3>2, <3>3, SpillKeepsFrame
  <2> QED BY <1>9, <2>3, <2>4 DEF SpillMark
<1>10. CASE SpillRange
  <2>1. JournalStep /\ rangeFirst .. writeLast \subseteq JournaledSeqs'
    BY <1>1, <1>2, <1>10, AppendRangeKeeps DEF SpillRange
  <2>2. Ordered(batch' \o buffer', seq) /\ HandEmpty' /\ BufferedSeqs \subseteq InMemory'
    BY <1>1, <1>3, <1>10, NextSegmentKeeps DEF SpillRange
  <2>3. pc = "range" /\ forgotten' = forgotten \cup (writeLast + 1 .. rangeLast)
    BY <1>10 DEF SpillRange
  <2>4. RangeSeqs \subseteq (rangeFirst .. writeLast) \cup (writeLast + 1 .. rangeLast)
    BY <1>1 DEF RangeSeqs
  <2>5. InMemory = BufferedSeqs \cup RangeSeqs
    BY <1>4, <1>5, <2>3 DEF BufferedSeqs
  <2> QED BY <1>2, <2>1, <2>2, <2>3, <2>4, <2>5, SpillKeepsFrame, Zenon
<1>11. CASE SpillSegment
  <2>1. pc = "segment" /\ batch # <<>> /\ Ordered(batch, seq) /\ UNCHANGED <<rangeFirst, rangeLast, forgotten>>
    BY <1>1, <1>3, <1>11, OrderedParts DEF SpillSegment, IInv, FlushOK, rangeVars
  <2>2. SeqsOf(Sent) \subseteq batch[1].seq .. batch[Len(batch)].seq
    BY <1>1, <2>1, OrderedEnds DEF Sent
  <2>3. JournalStep /\ SeqsOf(Sent) \subseteq JournaledSeqs'
    BY <1>1, <1>2, <1>11, <2>2, AppendSegmentKeeps DEF SpillSegment
  <2>4. Ordered(batch' \o buffer', seq) /\ HandEmpty' /\ BufferedSeqs \subseteq InMemory'
    BY <1>1, <1>3, <1>11, NextSegmentKeeps DEF SpillSegment
  <2>5. RangeSeqs' = RangeSeqs /\ RangeSeqs' \subseteq InMemory'
    BY <2>1 DEF RangeSeqs, InMemory
  <2>6. InMemory = SeqsOf(Sent) \cup BufferedSeqs \cup RangeSeqs
    BY <1>1, <1>4, SeqsConcat DEF Sent, BufferedSeqs
  <2> QED BY <1>2, <2>1, <2>3, <2>4, <2>5, <2>6, SpillKeepsFrame
<1> QED BY <1>7, <1>8, <1>9, <1>10, <1>11 DEF SpillStep

-----------------------------------------------------------------------------
(* The drainer                                                              *)

\* A step of the drainer: what it retires is stored, and the batcher's memory is
\* not touched.
LEMMA DrainKeepsFrame ==
  ASSUME DInv, UNCHANGED <<idVars, buffer, batch, rangeVars, pc, windowVars, closeVars, historyVars>>,
         StoredSeqs \subseteq StoredSeqs', SegmentsCover', JournaledSeqs \subseteq JournaledSeqs' \cup StoredSeqs'
  PROVE  DInv'
<1>1. UNCHANGED <<seq, base, generation, buffer, batch, rangeFirst, rangeLast, lo, pc, closePc, discarded, forgotten>>
  BY DEF idVars, rangeVars, windowVars, closeVars, historyVars
<1>2. Assigned' = Assigned /\ InMemory' = InMemory
  BY <1>1 DEF Assigned, InMemory, BufferedSeqs, RangeSeqs, From
<1>3. NoSeqVanishes'
  BY <1>1, <1>2 DEF DInv, NoSeqVanishes
<1>4. HandEmpty' /\ HandedOff'
  BY <1>1 DEF DInv, HandEmpty, HandedOff, HasWork
<1> QED BY <1>1, <1>3, <1>4 DEF DInv

\* The drainer retires a record only after the api stored every seq of it.
LEMMA DrainKeeps ==
  ASSUME IInv, DInv, DrainStep \/ ClaimMovesOn
  PROVE  DInv'
<1>1. records \subseteq Record /\ drainSet \subseteq records /\ SegmentsCover
  BY DEF IInv, DInv, DiskOK
<1>2. UNCHANGED <<idVars, buffer, batch, rangeVars, pc, windowVars, closeVars, historyVars>>
  BY DEF DrainStep, DrainProceeds, DrainFails, Eviction, DrainFinished, ClaimMovesOn, BatcherVars, flushVars,
         rangeVars, windowVars
<1>3. generation' = generation
  BY <1>2 DEF idVars
<1>4. ASSUME UNCHANGED records, StoredSeqs \subseteq StoredSeqs' PROVE DInv'
  <2>1. JournaledSeqs' = JournaledSeqs /\ SegmentsCover'
    BY <1>1, <1>3, <1>4, Zenon DEF JournaledSeqs, OwnRecords, SegmentsCover, SeqsOf, RecordSeqs
  <2> QED BY <1>2, <1>4, <2>1, DrainKeepsFrame
<1>5. rows' = rows => StoredSeqs' = StoredSeqs
  BY DEF StoredSeqs, SeqsOf
<1>6. CASE DrainStart \/ DrainFinished \/ ClaimMovesOn
  <2>1. records' = records /\ rows' = rows
    BY <1>6 DEF DrainStart, DrainFinished, DrainEnd, ClaimMovesOn, LoseClaim, serverVars, manifestVars, outboxVars
  <2> QED BY <1>4, <1>5, <2>1
<1>7. CASE DrainRecord
  <2>1. PICK rec \in drainSet : AppendMessages(ReplayItems(rec), rec.gen) /\ records' = records \ {rec}
    BY <1>7 DEF DrainRecord
  <2>2. SeqsOf(ReplayItems(rec)) = RecordSeqs(rec)
    BY <1>1, ReplayOK
  <2>3. StoredSeqs' = StoredSeqs \cup RecordSeqs(rec)
    BY <2>1, <2>2, AppendStored
  <2>4. JournaledSeqs \subseteq JournaledSeqs' \cup RecordSeqs(rec)
    <3> SUFFICES ASSUME NEW x \in JournaledSeqs, x \notin RecordSeqs(rec) PROVE x \in JournaledSeqs'
      OBVIOUS
    <3>1. PICK old \in records : old.gen = generation /\ x \in RecordSeqs(old)
      BY DEF JournaledSeqs, OwnRecords
    <3>2. old \in records' /\ old.gen = generation'
      BY <1>3, <2>1, <3>1
    <3> QED BY <3>1, <3>2 DEF JournaledSeqs, OwnRecords, RecordSeqs, SeqsOf
  <2>5. SegmentsCover'
    BY <1>1, <2>1 DEF SegmentsCover, SeqsOf
  <2> QED BY <1>2, <2>3, <2>4, <2>5, DrainKeepsFrame
<1>8. CASE DrainFails
  <2>1. UNCHANGED serverVars \/ \E rec, sent : AppendMessages(sent, rec.gen)
    BY <1>8, Zenon DEF DrainFails, DrainStops
  <2>2. StoredSeqs \subseteq StoredSeqs'
    BY <1>5, <2>1, AppendStored DEF serverVars
  <2> QED BY <1>4, <1>8, <2>2 DEF DrainFails, DrainStops, manifestVars
<1>9. CASE Eviction
  <2>1. PICK E \in Evictable : records' = EvictSegments(E)
    BY <1>9 DEF Eviction, OtherRunEvicts
  <2>2. JournalStep
    BY <1>1, <1>3, <2>1, EvictKeeps
  <2>3. StoredSeqs' = StoredSeqs
    BY <1>5, <1>9 DEF Eviction, OtherRunEvicts, serverVars
  <2> QED BY <1>2, <2>2, <2>3, DrainKeepsFrame DEF JournalStep
<1> QED BY <1>6, <1>7, <1>8, <1>9 DEF DrainStep, DrainProceeds

-----------------------------------------------------------------------------
(* close and preserveOwnedTail                                              *)

\* A step of close() that journals what it takes from memory.
LEMMA CloseKeepsFrame ==
  ASSUME DInv, CloseFrame, JournalStep, Ordered(batch' \o buffer', seq), HandedOff',
         InMemory \subseteq InMemory' \cup JournaledSeqs'
  PROVE  DInv'
<1>1. UNCHANGED <<seq, base, generation, batch, pc, discarded, forgotten>> /\ UNCHANGED serverVars
  BY DEF CloseFrame, idVars, historyVars
<1>2. Assigned' = Assigned /\ StoredSeqs' = StoredSeqs
  BY <1>1 DEF Assigned, StoredSeqs, SeqsOf, serverVars
<1>3. NoSeqVanishes'
  BY <1>1, <1>2 DEF DInv, NoSeqVanishes, JournalStep
<1>4. HandEmpty'
  BY <1>1 DEF DInv, HandEmpty
<1> QED BY <1>1, <1>3, <1>4 DEF DInv, JournalStep

\* close() ends as delivered, or spilled, only with nothing left in memory.
LEMMA CloseKeeps ==
  ASSUME IInv, DInv, CloseStep
  PROVE  DInv'
<1>1. /\ records \subseteq Record /\ SegmentsCover /\ seq \in Nat /\ splitLimit \in Nat /\ lo \in Nat
      /\ batch \in Seq(Item) /\ buffer \in Seq(Item)
      /\ rangeFirst \in Nat /\ rangeLast \in Nat /\ (rangeFirst # 0 => rangeFirst <= rangeLast)
  BY DEF IInv, DInv, FlushOK, DiskOK, IdsOK, WriteOK
<1>2. CASE CloseAttempt
  <2>1. FlushFrame /\ closePc' = "attempt"
    BY <1>2 DEF CloseAttempt
  <2>2. CASE StartFlush
    BY <2>1, <2>2, StartFlushKeeps DEF Settled, CloseEnds
  <2>3. CASE UNCHANGED flushVars
    <3>1. /\ UNCHANGED <<seq, base, generation, buffer, batch, rangeFirst, rangeLast, lo, pc>>
          /\ UNCHANGED <<records, discarded, forgotten>> /\ UNCHANGED serverVars
      BY <2>1, <2>3 DEF FlushFrame, idVars, outboxVars, historyVars, flushVars, rangeVars, windowVars
    <3>2. HandedOff' /\ StoredSeqs' = StoredSeqs
      BY <2>1, <3>1 DEF HandedOff, serverVars, StoredSeqs, SeqsOf
    <3> QED BY <3>1, <3>2, QuietKeeps
  <2> QED BY <1>2, <2>2, <2>3 DEF CloseAttempt
<1>3. ~CloseAttempt => CloseFrame
  BY Zenon DEF CloseStep, CloseStart, CloseClearsTimer, CloseJoins, CloseExpires, CloseAttemptReturns,
         CloseGivesUp, FinalMark, FinalRange, FinalSegment, FinalClear, FinalSpillFails, PreserveStart,
         PreserveJoins
<1>4. CloseFrame => UNCHANGED <<batch, pc, lo, seq, base, generation>>
  BY DEF CloseFrame, idVars, windowVars
<1>5. ASSUME CloseFrame, UNCHANGED <<buffer, rangeVars>>, HandedOff',
             \/ MarkSpillUnclean \/ ClearSpillUnclean \/ UNCHANGED manifestVars
             \/ AppendSegmentFails
      PROVE  DInv'
  <2>1. UNCHANGED <<buffer, batch, rangeFirst, rangeLast, lo, generation>>
    BY <1>4, <1>5 DEF rangeVars
  <2>2. JournalStep
    BY <1>1, <1>5, <2>1, MarkKeeps, AppendSegmentFailsKeeps
  <2>3. InMemory' = InMemory
    BY <2>1 DEF InMemory, BufferedSeqs, RangeSeqs, From
  <2> QED BY <1>5, <2>1, <2>2, <2>3, CloseKeepsFrame DEF DInv
<1>6. Left(buffer) = 0 => ~HasWork(buffer)
  <2>1. Len(buffer) \in Nat /\ (buffer = <<>> <=> Len(buffer) = 0)
    BY <1>1
  <2>2. PendingRangeWidth \in Nat /\ (PendingRangeWidth = 0 => rangeFirst = 0)
    BY <1>1 DEF PendingRangeWidth
  <2> QED BY <2>1, <2>2 DEF Left, HasWork
<1>7. CASE CloseStart \/ CloseClearsTimer \/ PreserveStart
  BY <1>5, <1>7 DEF CloseStart, CloseClearsTimer, PreserveStart, CloseSame, HandedOff
<1>8. CASE CloseJoins \/ PreserveJoins
  BY <1>5, <1>8 DEF CloseJoins, PreserveJoins, CloseSame, HandedOff, HasWork, rangeVars
<1>9. CASE CloseExpires \/ CloseGivesUp
  BY <1>5, <1>9 DEF CloseExpires, CloseGivesUp, CloseSame, HandedOff, HasWork, rangeVars
<1>10. CASE CloseAttemptReturns
  BY <1>5, <1>6, <1>10 DEF CloseAttemptReturns, CloseSame, HandedOff, HasWork, rangeVars
<1>11. CASE FinalMark
  BY <1>5, <1>11 DEF FinalMark, HandedOff, rangeVars
<1>12. CASE FinalClear \/ FinalSpillFails
  BY <1>5, <1>12 DEF FinalClear, FinalSpillFails, HandedOff, HasWork, rangeVars, DInv
<1>13. ASSUME closePc \in {"fRange", "fSegment"}
       PROVE  /\ batch = <<>> /\ lo = 0 /\ InMemory = BufferedSeqs \cup RangeSeqs
              /\ Ordered(buffer, seq)
  <2>1. pc = "idle"
    BY <1>13 DEF IInv, CloseOK, Settled
  <2>2. batch = <<>> /\ lo = 0
    BY <2>1 DEF DInv, HandEmpty, IInv, FlushOK
  <2>3. batch \o buffer = buffer
    BY <1>1, <2>2
  <2> QED BY <1>1, <2>2, <2>3, MemoryAtRest DEF DInv, BufferedSeqs
<1>14. CASE FinalRange
  <2>1. /\ closePc = "fRange" /\ CloseFrame /\ buffer' = buffer /\ rangeFirst' = 0
        /\ closePc' = IF buffer = <<>> THEN "fClear" ELSE "fSegment"
    BY <1>14 DEF FinalRange
  <2>2. JournalStep /\ rangeFirst .. rangeLast \subseteq JournaledSeqs'
    BY <1>1, <1>4, <1>14, AppendRangeKeeps DEF FinalRange
  <2>3. HandedOff'
    BY <2>1 DEF HandedOff, HasWork
  <2>4. Ordered(batch' \o buffer', seq)
    BY <1>4, <2>1 DEF DInv
  <2>5. BufferedSeqs \subseteq InMemory' /\ RangeSeqs \subseteq rangeFirst .. rangeLast
    BY <2>1 DEF BufferedSeqs, RangeSeqs, InMemory
  <2> QED BY <1>13, <2>1, <2>2, <2>3, <2>4, <2>5, CloseKeepsFrame, Zenon
<1>15. CASE FinalSegment
  <2>1. PICK n \in PrefixLengths(buffer, splitLimit) :
          /\ AppendSegment(Range(SubSeq(buffer, 1, n)), buffer[1].seq, buffer[n].seq, generation)
          /\ buffer' = From(buffer, n)
          /\ closePc' = IF n = Len(buffer) THEN "fClear" ELSE "fSegment"
    BY <1>15 DEF FinalSegment
  <2>2. /\ closePc = "fSegment" /\ CloseFrame /\ UNCHANGED <<rangeFirst, rangeLast>>
    BY <1>15 DEF FinalSegment, rangeVars
  <2>3. n \in 1 .. Len(buffer) /\ n \in 0 .. Len(buffer)
    BY <1>1, <2>1, SMTT(30) DEF PrefixLengths
  <2> DEFINE p == SubSeq(buffer, 1, n)
             q == From(buffer, n)
  <2>4. /\ p \in Seq(Item) /\ Len(p) = n /\ (\A i \in 1 .. n : p[i] = buffer[i])
        /\ q \in Seq(Item) /\ Len(q) = Len(buffer) - n
    BY <1>1, <2>3, CutType
  <2>5. p \o q = buffer
    BY <1>1, <2>3, CutConcat
  <2>6. Ordered(buffer, seq) /\ batch = <<>> /\ lo = 0 /\ InMemory = BufferedSeqs \cup RangeSeqs
    BY <1>13, <2>2
  <2> HIDE DEF p, q
  <2>7. Ordered(p, seq) /\ Ordered(q, seq)
    BY <2>4, <2>5, <2>6, OrderedParts, Zenon
  <2>8. p # <<>> /\ p[1] = buffer[1] /\ p[Len(p)] = buffer[n]
    BY <2>3, <2>4
  <2>9. SeqsOf(Range(p)) \subseteq buffer[1].seq .. buffer[n].seq
    BY <2>4, <2>7, <2>8, OrderedEnds, Zenon
  <2>10. AppendSegment(Range(p), buffer[1].seq, buffer[n].seq, generation) /\ buffer' = q
    BY <2>1 DEF p, q
  <2>11. JournalStep /\ SeqsOf(Range(p)) \subseteq JournaledSeqs'
    BY <1>1, <1>4, <2>2, <2>9, <2>10, AppendSegmentKeeps, Zenon
  <2>12. BufferedSeqs = SeqsOf(Range(p)) \cup SeqsOf(Range(q))
    BY <2>4, <2>5, SeqsConcat, Zenon DEF BufferedSeqs
  <2>13. SeqsOf(Range(q)) \subseteq InMemory' /\ RangeSeqs \subseteq InMemory'
    BY <2>2, <2>10 DEF InMemory, BufferedSeqs, RangeSeqs
  <2>14. Ordered(batch' \o buffer', seq)
    <3>1. batch' = <<>>
      BY <1>4, <2>2, <2>6
    <3>2. <<>> \o q = q
      BY <2>4, SMTT(30)
    <3> QED BY <2>7, <2>10, <3>1, <3>2
  <2>15. HandedOff'
    <3>1. rangeFirst' = 0
      BY <2>2 DEF DInv, HandedOff
    <3>2. n = Len(buffer) => buffer' = <<>>
      BY <1>1, <2>4, <2>10, SMTT(30)
    <3> QED BY <2>1, <3>1, <3>2 DEF HandedOff, HasWork
  <2> QED BY <2>2, <2>6, <2>11, <2>12, <2>13, <2>14, <2>15, CloseKeepsFrame
<1> QED BY <1>2, <1>7, <1>8, <1>9, <1>10, <1>11, <1>12, <1>14, <1>15 DEF CloseStep

-----------------------------------------------------------------------------
(* The theorems                                                             *)

\* DInv holds of a batcher as it is constructed.
LEMMA InitKeeps ==
  ASSUME Init
  PROVE  DInv
<1>1. batch = <<>> /\ buffer = <<>> /\ seq = 0 /\ base = 0 /\ records = {} /\ rangeFirst = 0 /\ closePc = "open"
  BY DEF Init
<1>2. Ordered(batch \o buffer, seq)
  <2>1. Len(batch \o buffer) = 0
    BY <1>1
  <2> QED BY <2>1, SMTT(30) DEF Ordered
<1>3. HandEmpty /\ SegmentsCover /\ HandedOff
  BY <1>1 DEF HandEmpty, SegmentsCover, HandedOff
<1>4. Assigned = {}
  BY <1>1 DEF Assigned
<1> QED BY <1>2, <1>3, <1>4 DEF DInv, NoSeqVanishes

\* Every step preserves DInv, given the control invariant.
LEMMA NextKeeps ==
  ASSUME IInv, DInv, [Next]_vars
  PROVE  DInv'
<1>1. CASE Next
  BY <1>1, EmitKeeps, ScheduleKeeps, NetworkKeeps, SpillKeeps, DrainKeeps, CloseKeeps DEF Next
<1>2. CASE UNCHANGED vars
  <2>1. /\ UNCHANGED <<seq, base, generation, buffer, batch, rangeFirst, rangeLast, lo, pc>>
        /\ UNCHANGED <<records, discarded, forgotten, closePc, rows>>
    BY <1>2 DEF vars, serverVars, outboxVars, idVars, flushVars, rangeVars, windowVars, historyVars, closeVars
  <2>2. HandedOff' /\ StoredSeqs' = StoredSeqs
    BY <2>1 DEF DInv, HandedOff, HasWork, StoredSeqs, SeqsOf
  <2> QED BY <2>1, <2>2, QuietKeeps
<1> QED BY <1>1, <1>2

\* Order, the outbox's coverage, the hand-off and the conservation of seqs are
\* kept by every step, given the control invariant.
THEOREM Delivery == Spec => []DInv
<1>1. Init => DInv
  BY InitKeeps
<1>2. IInv /\ DInv /\ [Next]_vars => DInv'
  BY NextKeeps
<1> QED BY <1>1, <1>2, Invariance, PTL DEF Spec

\* No seq the batcher gives out is lost by posting, splitting, bisecting, spilling,
\* evicting, draining, re-arming or closing: it is stored, journaled, in memory,
\* discarded after the api refused its marker, or cleared by the range reset.
THEOREM NoSeqEverVanishes == Spec => []NoSeqVanishes
<1>1. DInv => NoSeqVanishes
  BY DEF DInv
<1> QED BY <1>1, Delivery, PTL

\* The batch in hand followed by the buffer is strictly ascending in seq,
\* whatever was put back by a failed post, bisection or segment write.
THEOREM OrderKept == Spec => []Ascending
<1>1. DInv => Ascending
  BY DEF DInv, Ordered, Ascending
<1> QED BY <1>1, Delivery, PTL

\* When close() reports everything delivered, or everything spilled, each seq is
\* at the api or in the outbox, except for those discarded or forgotten.
THEOREM ClosedHandsOff == Spec => []CloseHandsOff
<1>1. IInv /\ DInv => CloseHandsOff
  <2> SUFFICES ASSUME IInv, DInv, closePc \in {"delivered", "spilled"} PROVE InMemory = {}
    BY DEF CloseHandsOff, DInv, NoSeqVanishes
  <2>1. pc = "idle"
    BY DEF IInv, CloseOK, Settled, CloseEnds
  <2>2. batch = <<>> /\ lo = 0 /\ batch \in Seq(Item) /\ buffer \in Seq(Item)
    BY <2>1 DEF DInv, HandEmpty, IInv, FlushOK
  <2>3. buffer = <<>> /\ rangeFirst = 0
    BY DEF DInv, HandedOff, HasWork
  <2>4. InMemory = SeqsOf(Range(batch \o buffer)) \cup RangeSeqs
    BY <2>2, MemoryAtRest
  <2>5. Range(batch \o buffer) = {}
    <3>1. batch \o buffer = <<>>
      BY <2>2, <2>3
    <3>2. DOMAIN (batch \o buffer) = {}
      BY <3>1
    <3> QED BY <3>2 DEF Range
  <2> QED BY <2>3, <2>4, <2>5 DEF SeqsOf, RangeSeqs
<1> QED BY <1>1, Invariance, Delivery, PTL
=============================================================================
