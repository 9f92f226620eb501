------------------------- MODULE MessageBatcherProofs -------------------------
(***************************************************************************)
(* Proofs about the batcher, its outbox and the api, for every value of     *)
(* the constants.                                                           *)
(***************************************************************************)
EXTENDS MessageBatcher, TLAPS

-----------------------------------------------------------------------------
(* Sequences of messages: slices, concatenation, one replaced element.      *)

\* A head prefix and the rest of a sequence are sequences over the same set.
LEMMA CutType ==
  ASSUME NEW s \in Seq(Item), NEW n \in 0 .. Len(s)
  PROVE  /\ SubSeq(s, 1, n) \in Seq(Item) /\ Len(SubSeq(s, 1, n)) = n
         /\ From(s, n) \in Seq(Item) /\ Len(From(s, n)) = Len(s) - n
         /\ \A i \in 1 .. n : SubSeq(s, 1, n)[i] = s[i]
         /\ \A i \in 1 .. Len(s) - n : From(s, n)[i] = s[n + i]
BY DEF From

\* The elements of a sequence are those at its positions.
LEMMA SeqRange ==
  ASSUME NEW s \in Seq(Item)
  PROVE  Range(s) = {s[i] : i \in 1 .. Len(s)}
BY DEF Range

\* Appending a message adds it to the elements and nothing else.
LEMMA AppendRange ==
  ASSUME NEW s \in Seq(Item), NEW x \in Item
  PROVE  Range(Append(s, x)) = Range(s) \cup {x}
<1> DEFINE t == Append(s, x)
<1>1. /\ t \in Seq(Item) /\ Len(t) = Len(s) + 1 /\ t[Len(s) + 1] = x
      /\ \A i \in 1 .. Len(s) : t[i] = s[i]
  OBVIOUS
<1>2. Range(t) = {t[i] : i \in 1 .. Len(t)} /\ Range(s) = {s[i] : i \in 1 .. Len(s)}
  BY <1>1, SeqRange, Zenon
<1> HIDE DEF t
<1>3. 1 .. Len(t) = (1 .. Len(s)) \cup {Len(s) + 1}
  BY <1>1
<1>4. Range(t) = {t[i] : i \in 1 .. Len(s)} \cup {t[Len(s) + 1]}
  BY <1>2, <1>3
<1>5. {t[i] : i \in 1 .. Len(s)} = {s[i] : i \in 1 .. Len(s)}
  BY <1>1
<1> QED BY <1>1, <1>2, <1>4, <1>5 DEF t

\* Cutting a sequence in two loses no element and adds none.
LEMMA CutRange ==
  ASSUME NEW s \in Seq(Item), NEW n \in 0 .. Len(s)
  PROVE  Range(s) = Range(SubSeq(s, 1, n)) \cup Range(From(s, n))
<1> DEFINE p == SubSeq(s, 1, n)
           q == From(s, n)
<1>1. /\ p \in Seq(Item) /\ Len(p) = n /\ q \in Seq(Item) /\ Len(q) = Len(s) - n
      /\ \A i \in 1 .. n : p[i] = s[i]
      /\ \A i \in 1 .. Len(s) - n : q[i] = s[n + i]
  BY CutType
<1> HIDE DEF p, q
<1>2. ASSUME NEW x \in Range(s) PROVE x \in Range(p) \cup Range(q)
  <2>1. PICK i \in 1 .. Len(s) : x = s[i]
    BY <1>2 DEF Range
  <2>2. CASE i <= n
    BY <2>1, <2>2, <1>1 DEF Range
  <2>3. CASE i > n
    <3>1. i - n \in 1 .. Len(s) - n /\ q[i - n] = s[i]
      BY <2>1, <2>3, <1>1
    <3> QED BY <3>1, <2>1, <1>1 DEF Range
  <2> QED BY <2>2, <2>3, <2>1
<1>3. Range(p) \subseteq Range(s)
  <2>1. \A i \in 1 .. n : i \in 1 .. Len(s)
    OBVIOUS
  <2> QED BY <2>1, <1>1 DEF Range
<1>4. Range(q) \subseteq Range(s)
  <2>1. ASSUME NEW i \in 1 .. Len(s) - n PROVE q[i] \in Range(s)
    <3>1. n + i \in 1 .. Len(s) /\ q[i] = s[n + i]
      BY <1>1
    <3> QED BY <3>1 DEF Range
  <2> QED BY <2>1, <1>1, SeqRange
<1> QED BY <1>2, <1>3, <1>4 DEF p, q

\* The elements of a concatenation are those of its parts.
LEMMA ConcatRange ==
  ASSUME NEW s \in Seq(Item), NEW t \in Seq(Item)
  PROVE  /\ s \o t \in Seq(Item) /\ Len(s \o t) = Len(s) + Len(t)
         /\ \A i \in 1 .. Len(s) : (s \o t)[i] = s[i]
         /\ \A i \in 1 .. Len(t) : (s \o t)[Len(s) + i] = t[i]
         /\ Range(s \o t) = Range(s) \cup Range(t)
<1>1. /\ s \o t \in Seq(Item) /\ Len(s \o t) = Len(s) + Len(t)
      /\ \A i \in 1 .. Len(s) : (s \o t)[i] = s[i]
      /\ \A i \in 1 .. Len(t) : (s \o t)[Len(s) + i] = t[i]
  OBVIOUS
<1> DEFINE u == s \o t
<1> HIDE DEF u
<1>2. /\ u \in Seq(Item) /\ Len(u) = Len(s) + Len(t)
      /\ \A i \in 1 .. Len(s) : u[i] = s[i]
      /\ \A i \in 1 .. Len(t) : u[Len(s) + i] = t[i]
  BY <1>1 DEF u
<1>3. ASSUME NEW x \in Range(u) PROVE x \in Range(s) \cup Range(t)
  <2>1. PICK i \in 1 .. Len(u) : x = u[i]
    BY <1>2, <1>3 DEF Range
  <2>2. CASE i <= Len(s)
    BY <2>1, <2>2, <1>2 DEF Range
  <2>3. CASE i > Len(s)
    <3>1. i - Len(s) \in 1 .. Len(t) /\ Len(s) + (i - Len(s)) = i
      BY <2>1, <2>3, <1>2
    <3>2. t[i - Len(s)] = u[i]
      BY <3>1, <1>2
    <3> QED BY <3>1, <3>2, <2>1 DEF Range
  <2> QED BY <2>2, <2>3, <2>1
<1>4. Range(s) \cup Range(t) \subseteq Range(u)
  <2>1. \A i \in 1 .. Len(s) : i \in 1 .. Len(u)
    BY <1>2
  <2>3. Range(s) \subseteq Range(u)
    BY <2>1, <1>2 DEF Range
  <2>2. ASSUME NEW i \in 1 .. Len(t) PROVE t[i] \in Range(u)
    <3>1. Len(s) + i \in 1 .. Len(u) /\ u[Len(s) + i] = t[i]
      BY <1>2
    <3> QED BY <3>1, <1>2 DEF Range
  <2> QED BY <2>3, <2>2, SeqRange
<1> QED BY <1>1, <1>3, <1>4 DEF u

\* The messages of a sequence have seqs above zero; a non-empty one has a first and a last.
LEMMA ItemAt ==
  ASSUME NEW s \in Seq(Item)
  PROVE  /\ \A i \in 1 .. Len(s) : s[i] \in Item /\ s[i].seq \in Nat \ {0}
         /\ s # <<>> => Len(s) >= 1 /\ s[1].seq \in Nat \ {0} /\ s[Len(s)].seq \in Nat \ {0}
<1>1. \A i \in 1 .. Len(s) : s[i] \in Item
  OBVIOUS
<1>2. s # <<>> => 1 \in 1 .. Len(s) /\ Len(s) \in 1 .. Len(s)
  OBVIOUS
<1>3. \A it \in Item : it.seq \in Nat \ {0}
  BY DEF Item
<1> QED BY <1>1, <1>2, <1>3

\* Two sequences with the same messages at the same positions are the same.
LEMMA SeqSame ==
  ASSUME NEW s \in Seq(Item), NEW t \in Seq(Item), Len(s) = Len(t),
         \A i \in 1 .. Len(s) : s[i] = t[i]
  PROVE  s = t
<1>1. s \in [1 .. Len(s) -> Item] /\ t \in [1 .. Len(s) -> Item]
  OBVIOUS
<1>2. \A D : \A f, g \in [D -> Item] : (\A i \in D : f[i] = g[i]) => f = g
  OBVIOUS
<1> QED BY <1>1, <1>2

\* Re-buffering something leaves something in the buffer.
LEMMA ConcatNonEmpty ==
  ASSUME NEW s \in Seq(Item), NEW t \in Seq(Item)
  PROVE  s \o t \in Seq(Item) /\ (s # <<>> => s \o t # <<>>)
<1>1. s \o t \in Seq(Item) /\ Len(s \o t) = Len(s) + Len(t)
  BY ConcatRange
<1>2. s # <<>> => Len(s) > 0
  OBVIOUS
<1>3. Len(s \o t) > 0 => s \o t # <<>>
  BY <1>1
<1> QED BY <1>1, <1>2, <1>3

-----------------------------------------------------------------------------
(* The inductive invariant, one conjunct per group of variables. Beyond the *)
(* types it says what each suspension point knows: the flush that posts has *)
(* messages in hand, the bisection's window lies inside the batch, the      *)
(* close fiber owns the batcher once the flush has settled.                 *)

ServerOK == rows \subseteq Row /\ lastSeq \in Nat /\ claimGen \in Nat

DiskOK ==
  /\ records \subseteq Record /\ cursor \in Nat /\ unclean \in BOOLEAN
  /\ draining \in BOOLEAN /\ drainSet \subseteq records
  /\ ~draining => drainSet = {}

FlushOK ==
  /\ buffer \in Seq(Item) /\ batch \in Seq(Item)
  /\ rangeFirst \in Nat /\ rangeLast \in Nat
  /\ pc \in FlushPc /\ lo \in Nat /\ hi \in Nat /\ posts \in Nat /\ progressed \in BOOLEAN
  /\ splitLimit \in Nat /\ timer \in BOOLEAN /\ aborted \in BOOLEAN
  /\ pc \in {"post", "segment"} => batch # <<>>
  /\ pc = "bisect" => lo + 1 < hi /\ hi <= Len(batch)
  /\ pc = "marker" => hi = lo + 1 /\ hi <= Len(batch)
  /\ pc \notin {"bisect", "marker"} => lo = 0
  /\ pc = "enterSpill" => buffer # <<>>
  /\ rangeFirst # 0 => rangeFirst <= rangeLast

WriteOK ==
  /\ writeLast \in Nat /\ rangeLast <= seq
  /\ pc = "range" => rangeFirst # 0 /\ rangeFirst <= writeLast /\ writeLast <= rangeLast

\* Where the close fiber has seen the flush settle.
Settled == {"drain", "fMark", "fRange", "fSegment", "fClear"} \cup CloseEnds

CloseOK ==
  /\ closed \in BOOLEAN /\ closePc \in ClosePc /\ failed \in Nat /\ before \in Nat
  /\ closed <=> closePc # "open"
  /\ closePc \notin {"open", "usage"} => ~timer
  /\ closePc \in Settled => pc = "idle"
  /\ closePc = "fRange" => rangeFirst # 0

IdsOK == seq \in Nat /\ base \in Nat /\ generation \in Nat /\ spilled \in BOOLEAN
BreakerOK == failing \in BOOLEAN /\ tripped \in BOOLEAN /\ tripSeq \in Nat
TombstoneOK == tombstoned \subseteq Nat /\ tombstoneOverflow \in BOOLEAN
JournalOK == journalOnly \subseteq Nat /\ journalOnlyOverflow \in BOOLEAN
HistoryOK == discarded \subseteq Nat /\ forgotten \subseteq Nat /\ shadowed \subseteq Nat

Control == NoLostWakeup /\ MidFlushUnclean

IInv == /\ ServerOK /\ DiskOK /\ FlushOK /\ WriteOK /\ CloseOK
        /\ IdsOK /\ BreakerOK /\ TombstoneOK /\ JournalOK /\ HistoryOK
        /\ Control

-----------------------------------------------------------------------------
(* What the shared steps of the model establish.                            *)

\* A committed batch leaves well-typed rows and a numeric last_seq.
LEMMA AppendOK ==
  ASSUME ServerOK, NEW S \in SUBSET Item, NEW gen \in Nat, AppendMessages(S, gen)
  PROVE  ServerOK' /\ claimGen' = claimGen
<1>1. rows' \subseteq Row
  BY DEF ServerOK, AppendMessages, InsertRunMessage, Item, Row
<1>2. lastSeq' \in Nat
  BY DEF ServerOK, AppendMessages, UpdateRunLastSeq, SeqsOf, Item
<1> QED BY <1>1, <1>2 DEF ServerOK, AppendMessages

\* So does a request that fails, whether or not it landed.
LEMMA TransientOK ==
  ASSUME ServerOK, NEW S \in SUBSET Item, NEW gen \in Nat, TransientFailure(S, gen)
  PROVE  ServerOK'
<1>1. CASE UNCHANGED serverVars
  BY <1>1 DEF ServerOK, serverVars
<1>2. CASE AppendMessages(S, gen)
  BY <1>2, AppendOK
<1> QED BY <1>1, <1>2 DEF TransientFailure

\* takePrefix hands over at least one message of a buffer that has one.
LEMMA TakePrefixOK ==
  ASSUME NEW buf \in Seq(Item), NEW limit \in Nat, TakePrefix(buf, limit)
  PROVE  batch' \in Seq(Item) /\ batch' # <<>> /\ buffer' \in Seq(Item)
<1>1. PICK n \in PrefixLengths(buf, limit) :
        batch' = SubSeq(buf, 1, n) /\ buffer' = From(buf, n)
  BY Zenon DEF TakePrefix
<1>2. n \in 0 .. Len(buf) /\ n > 0
  BY DEF PrefixLengths
<1>3. Len(SubSeq(buf, 1, n)) = n /\ SubSeq(buf, 1, n) \in Seq(Item) /\ From(buf, n) \in Seq(Item)
  BY <1>2, CutType
<1> QED BY <1>1, <1>2, <1>3

\* The chunk refilled from the pending range is a non-empty run of markers
\* that starts at rangeFirst and stays inside the range.
LEMMA RangeChunkOK ==
  ASSUME rangeFirst \in Nat \ {0}, rangeLast \in Nat, rangeFirst <= rangeLast
  PROVE  /\ RangeChunkEnd \in Nat /\ rangeFirst <= RangeChunkEnd /\ RangeChunkEnd <= rangeLast
         /\ RangeChunk \in Seq(Item) /\ RangeChunk # <<>>
         /\ Len(RangeChunk) = RangeChunkEnd - rangeFirst + 1
         /\ \A i \in 1 .. Len(RangeChunk) : RangeChunk[i].seq = rangeFirst + i - 1
<1>1. RangeChunkEnd \in Nat /\ rangeFirst <= RangeChunkEnd /\ RangeChunkEnd <= rangeLast
  BY BatcherAssumption DEF RangeChunkEnd
<1> DEFINE n == RangeChunkEnd - rangeFirst + 1
<1>2. n \in Nat /\ n >= 1
  BY <1>1
<1>3. \A i \in 1 .. n : [seq |-> rangeFirst + i - 1, class |-> "dropped", tombstoned |-> TRUE] \in Item
  BY <1>1 DEF Item, Class
<1>4. RangeChunk \in [1 .. n -> Item]
  BY <1>3 DEF RangeChunk
<1>5. RangeChunk \in Seq(Item) /\ Len(RangeChunk) = n
  BY <1>4, <1>2
<1>6. \A i \in 1 .. n : RangeChunk[i].seq = rangeFirst + i - 1
  BY DEF RangeChunk
<1>7. RangeChunk # <<>>
  BY <1>5, <1>2
<1> QED BY <1>1, <1>5, <1>6, <1>7

\* A turn of the flush loop ends with messages in hand and a well-formed range.
LEMMA SendNextOK ==
  ASSUME FlushOK, NEW buf \in Seq(Item), NEW limit \in Nat, HasWork(buf), SendNext(buf, limit),
         timer' \in BOOLEAN, aborted' \in BOOLEAN
  PROVE  FlushOK' /\ pc' = "post" /\ rangeLast' <= rangeLast
<1>1. batch' \in Seq(Item) /\ batch' # <<>> /\ buffer' \in Seq(Item)
  <2>1. CASE TakePrefix(buf, limit)
    BY <2>1, TakePrefixOK
  <2>2. CASE buf = <<>> /\ TakePrefix(RangeChunk, limit)
    <3>1. RangeChunk \in Seq(Item)
      BY <2>2, RangeChunkOK DEF HasWork, FlushOK
    <3> QED BY <2>2, <3>1, TakePrefixOK
  <2> QED BY <2>1, <2>2 DEF SendNext
<1>2. /\ rangeFirst' \in Nat /\ rangeLast' \in Nat /\ rangeLast' <= rangeLast
      /\ rangeFirst' # 0 => rangeFirst' <= rangeLast'
  <2>1. CASE UNCHANGED rangeVars
    BY <2>1 DEF FlushOK, rangeVars
  <2>2. CASE buf = <<>> /\ RefillPendingRangeChunk
    <3>1. RangeChunkEnd \in Nat /\ rangeLast \in Nat
      BY <2>2, RangeChunkOK DEF HasWork, FlushOK
    <3> QED BY <2>2, <3>1 DEF RefillPendingRangeChunk
  <2> QED BY <2>1, <2>2 DEF SendNext
<1> QED BY <1>1, <1>2, Zenon DEF FlushOK, SendNext, NoWindow, FlushPc

\* The loop's exit leaves nothing in hand, never touches the timer of a closed
\* batcher, and reschedules an open one that has work unless it trips.
LEMMA StopFlushOK ==
  ASSUME FlushOK, NEW buf \in Seq(Item), NEW limit \in Nat, NEW tripping \in BOOLEAN,
         closed \in BOOLEAN, StopFlush(buf, limit, tripping)
  PROVE  /\ FlushOK' /\ pc' = "idle" /\ UNCHANGED rangeVars
         /\ closed => timer' = timer
         /\ (buf # <<>> \/ rangeFirst' # 0) /\ ~closed /\ ~tripping => timer'
<1>1. timer' \in BOOLEAN
  BY DEF StopFlush, FlushOK
<1>2. FlushOK'
  <2>1. /\ buffer' = buf /\ batch' = <<>> /\ pc' = "idle" /\ splitLimit' = limit /\ aborted' = FALSE
        /\ lo' = 0 /\ hi' = 0 /\ posts' = 0 /\ progressed' = FALSE
        /\ rangeFirst' = rangeFirst /\ rangeLast' = rangeLast
    BY DEF StopFlush, NoWindow, rangeVars
  <2>2. <<>> \in Seq(Item)
    OBVIOUS
  <2>3. batch' \in Seq(Item)
    BY <2>1, <2>2
  <2> QED BY <2>1, <2>3, <1>1, Zenon DEF FlushOK, FlushPc
<1>3. closed => timer' = timer
  BY DEF StopFlush, FlushOK
<1>4. buf # <<>> \/ rangeFirst' # 0 => HasWork(buf)
  BY DEF HasWork, StopFlush, rangeVars
<1> QED BY <1>2, <1>3, <1>4, Zenon DEF StopFlush

\* What every answer to a post leaves behind: the flush goes on or ends, and
\* when it ends with work waiting it is rescheduled, or the breaker has tripped.
FlushStep ==
  /\ FlushOK' /\ rangeLast' <= rangeLast
  /\ pc' \in {"idle", "post", "bisect", "marker", "enterSpill"}
  /\ closed => timer' = timer
  /\ pc' = "idle" /\ HasWork(buffer)' /\ ~closed /\ ~tripped' => timer'

\* Leaving doFlush leaves the batcher idle, with the timer armed if work is left.
LEMMA StopFlushStep ==
  ASSUME FlushOK, NEW buf \in Seq(Item), NEW limit \in Nat, NEW tripping \in BOOLEAN,
         closed \in BOOLEAN, StopFlush(buf, limit, tripping), tripping => tripped'
  PROVE  FlushStep
<1>1. buffer' = buf
  BY DEF StopFlush
<1>2. HasWork(buffer)' => buf # <<>> \/ rangeFirst' # 0
  BY <1>1 DEF HasWork
<1>3. UNCHANGED rangeVars => rangeLast' <= rangeLast
  BY DEF FlushOK, rangeVars
<1> QED BY <1>2, <1>3, StopFlushOK DEF FlushStep

\* Going round the flush loop keeps the control invariant.
LEMMA NextTurnStep ==
  ASSUME FlushOK, NEW buf \in Seq(Item), NEW limit \in Nat, closed \in BOOLEAN,
         NextTurn(buf, limit)
  PROVE  FlushStep
<1>1. CASE HasWork(buf) /\ ~aborted
  <2>1. SendNext(buf, limit) /\ timer' = timer /\ aborted' = aborted
    BY <1>1 DEF NextTurn
  <2>2. FlushOK' /\ pc' = "post" /\ rangeLast' <= rangeLast
    BY <1>1, <2>1, SendNextOK DEF FlushOK
  <2> QED BY <2>1, <2>2 DEF FlushStep
<1>2. CASE ~(HasWork(buf) /\ ~aborted)
  <2>1. StopFlush(buf, limit, FALSE)
    BY <1>2, Zenon DEF NextTurn
  <2> QED BY <2>1, StopFlushStep, Zenon
<1> QED BY <1>1, <1>2

\* noteTransientFailure re-arms the timer, enters spill mode or trips.
LEMMA NoteTransientFailureStep ==
  ASSUME FlushOK, BreakerOK, NEW buf \in Seq(Item), buf # <<>>, NEW s \in Nat, closed \in BOOLEAN,
         NoteTransientFailure(buf, s)
  PROVE  FlushStep /\ BreakerOK'
<1>1. CASE StopFlush(buf, splitLimit, FALSE) /\ UNCHANGED breakerVars
  <2>1. splitLimit \in Nat
    BY DEF FlushOK
  <2> QED BY <1>1, <2>1, StopFlushStep, Zenon DEF NoteTransientFailure, BreakerOK, breakerVars
<1>2. CASE /\ pc' = "enterSpill" /\ buffer' = buf /\ batch' = <<>> /\ NoWindow
           /\ UNCHANGED <<rangeVars, splitLimit, timer, aborted, breakerVars>>
  <2>1. <<>> \in Seq(Item)
    OBVIOUS
  <2>2. batch' \in Seq(Item)
    BY <1>2, <2>1
  <2>3. FlushOK'
    BY <1>2, <2>2, Zenon DEF FlushOK, FlushPc, NoWindow, rangeVars
  <2>4. rangeLast' <= rangeLast
    BY <1>2 DEF FlushOK, rangeVars
  <2> QED BY <1>2, <2>3, <2>4 DEF FlushStep, NoteTransientFailure, BreakerOK, breakerVars
<1>3. CASE Trip(s) /\ StopFlush(buf, splitLimit, TRUE)
  <2>1. splitLimit \in Nat
    BY DEF FlushOK
  <2> QED BY <1>3, <2>1, StopFlushStep, Zenon DEF NoteTransientFailure, BreakerOK, Trip
<1> QED BY <1>1, <1>2, <1>3, Zenon DEF NoteTransientFailure

\* After a bisection the flush goes on, or counts a transient failure.
LEMMA AfterBisectStep ==
  ASSUME FlushOK, BreakerOK, closed \in BOOLEAN, batch # <<>>,
         NEW rest \in Seq(Item), NEW moved \in BOOLEAN, moved \/ rest # <<>>,
         AfterBisect(rest, moved)
  PROVE  FlushStep /\ BreakerOK'
<1> DEFINE buf == rest \o buffer
<1>1. buf \in Seq(Item) /\ (rest # <<>> => buf # <<>>) /\ splitLimit \in Nat
  <2>1. buffer \in Seq(Item) /\ splitLimit \in Nat
    BY DEF FlushOK
  <2> QED BY <2>1, ConcatNonEmpty
<1>2. batch[1].seq \in Nat
  BY ItemAt DEF FlushOK
<1> HIDE DEF buf
<1>3. CASE moved
  <2>1. failing' = FALSE /\ NextTurn(buf, splitLimit) /\ UNCHANGED breakerVars
    BY <1>3 DEF AfterBisect, buf
  <2> QED BY <2>1, <1>1, NextTurnStep, Zenon DEF BreakerOK, breakerVars
<1>4. CASE ~moved
  <2>1. NoteTransientFailure(buf, batch[1].seq)
    BY <1>4 DEF AfterBisect, buf
  <2> QED BY <2>1, <1>1, <1>2, <1>4, NoteTransientFailureStep
<1> QED BY <1>3, <1>4

\* The tombstone set only ever receives seqs.
LEMMA RecordTombstoneOK ==
  ASSUME TombstoneOK, NEW s \in Nat, RecordTombstone(s)
  PROVE  TombstoneOK'
BY Zenon DEF TombstoneOK, RecordTombstone

\* The seqs a slice of a batch discards are seqs.
LEMMA SeqsType ==
  ASSUME NEW s \in Seq(Item)
  PROVE  Range(s) \in SUBSET Item /\ SeqsOf(Range(s)) \subseteq Nat
<1>1. Range(s) \in SUBSET Item
  BY SeqRange, ItemAt
<1> QED BY <1>1 DEF SeqsOf, Item

\* A turn of the bisection keeps its window inside the batch and ends with one
\* message isolated, a smaller window, or a tripped breaker.
LEMMA NarrowToStep ==
  ASSUME FlushOK, BreakerOK, TombstoneOK, discarded \subseteq Nat, closed \in BOOLEAN,
         pc = "bisect", NEW l \in Nat, NEW h \in Nat, l < h, h <= Len(batch),
         NEW moved \in BOOLEAN, NarrowTo(l, h, moved)
  PROVE  FlushStep /\ BreakerOK' /\ TombstoneOK' /\ discarded' \subseteq Nat
<1>1. batch \in Seq(Item) /\ buffer \in Seq(Item) /\ splitLimit \in Nat /\ posts \in Nat
  BY DEF FlushOK
<1>2. l + 1 \in 1 .. Len(batch) /\ l \in 0 .. Len(batch) /\ batch[l + 1] \in Item
      /\ batch[l + 1].seq \in Nat
  BY <1>1, ItemAt
<1>3. CASE /\ Trip(batch[l + 1].seq)
           /\ discarded' = discarded \cup SeqsOf(Range(From(batch, l)))
           /\ StopFlush(buffer, splitLimit, TRUE)
           /\ UNCHANGED <<failing, tombstoneVars>>
  <2>1. FlushStep
    BY <1>3, <1>1, StopFlushStep, Zenon DEF Trip
  <2>2. discarded' \subseteq Nat
    BY <1>3, <1>1, <1>2, CutType, SeqsType, Zenon
  <2> QED BY <1>3, <1>2, <2>1, <2>2 DEF Trip, BreakerOK, TombstoneOK, tombstoneVars
<1>4. CASE /\ h - l > 1
           /\ lo' = l /\ hi' = h /\ posts' = posts + 1 /\ progressed' = moved
           /\ UNCHANGED <<buffer, batch, rangeVars, pc, splitLimit, timer, aborted, failing,
                          breakerVars, tombstoneVars, discarded>>
  <2>1. FlushOK'
    BY <1>4 DEF FlushOK, rangeVars
  <2>2. rangeLast' <= rangeLast
    BY <1>4 DEF FlushOK, rangeVars
  <2> QED BY <1>4, <2>1, <2>2 DEF FlushStep, BreakerOK, TombstoneOK, tombstoneVars, breakerVars
<1>5. CASE /\ h - l = 1
           /\ lo' = l /\ hi' = h /\ posts' = posts /\ progressed' = moved
           /\ pc' = "marker"
           /\ batch' = [batch EXCEPT ![l + 1] = Tombstone(batch[l + 1])]
           /\ RecordTombstone(batch[l + 1].seq)
           /\ UNCHANGED <<buffer, rangeVars, splitLimit, timer, aborted, failing, breakerVars,
                          discarded>>
  <2>1. Tombstone(batch[l + 1]) \in Item
    BY <1>2, Zenon DEF Tombstone, Item
  <2>2. batch' \in Seq(Item) /\ Len(batch') = Len(batch)
    BY <1>5, <1>1, <1>2, <2>1
  <2>3. FlushOK'
    BY <1>5, <2>2, SMTT(30) DEF FlushOK, FlushPc, rangeVars
  <2>4. rangeLast' <= rangeLast
    BY <1>5 DEF FlushOK, rangeVars
  <2> QED BY <1>5, <1>2, <2>3, <2>4, RecordTombstoneOK DEF FlushStep, BreakerOK, breakerVars
<1> QED BY <1>3, <1>4, <1>5, Zenon DEF NarrowTo

\* An answer to a post that leaves a FlushStep behind preserves the invariant.
LEMMA NetworkFrame ==
  ASSUME IInv, pc \in {"post", "bisect", "marker"}, PostFrame, FlushStep,
         ServerOK', BreakerOK', TombstoneOK', discarded' \subseteq Nat
  PROVE  IInv'
<1>1. DiskOK'
  BY DEF IInv, PostFrame, DiskOK, outboxVars
<1>2. WriteOK'
  <2>1. seq \in Nat /\ rangeLast \in Nat /\ rangeLast' \in Nat /\ seq' = seq
    BY DEF IInv, IdsOK, FlushOK, FlushStep, PostFrame, idVars
  <2> QED BY <2>1 DEF IInv, PostFrame, FlushStep, WriteOK
<1>3. closePc \notin Settled /\ closePc' = closePc /\ closed' = closed
  BY DEF IInv, CloseOK, PostFrame, closeVars
<1>4. CloseOK'
  BY <1>3 DEF IInv, CloseOK, PostFrame, closeVars, FlushStep, Settled
<1>5. IdsOK' /\ JournalOK' /\ HistoryOK'
  BY DEF IInv, PostFrame, IdsOK, JournalOK, HistoryOK, idVars, journalVars
<1>6. NoLostWakeup'
  BY <1>3 DEF NoLostWakeup, FlushStep
<1>7. MidFlushUnclean'
  BY <1>3 DEF MidFlushUnclean, FlushStep, Settled
<1> QED BY <1>1, <1>2, <1>4, <1>5, <1>6, <1>7 DEF IInv, Control, FlushStep

\* Every answer the api can give to a post preserves the invariant.
LEMMA NetworkInv ==
  ASSUME IInv, NetworkStep
  PROVE  IInv'
<1> DEFINE whole == batch \o buffer
           marked == <<Tombstone(batch[1])>> \o buffer
<1>1. /\ ServerOK /\ FlushOK /\ BreakerOK /\ TombstoneOK /\ discarded \subseteq Nat
      /\ closed \in BOOLEAN /\ generation \in Nat
  BY DEF IInv, CloseOK, IdsOK, HistoryOK
<1>2. /\ batch \in Seq(Item) /\ buffer \in Seq(Item) /\ splitLimit \in Nat
      /\ Sent \in SUBSET Item /\ SeqsOf(Sent) \subseteq Nat /\ progressed \in BOOLEAN
  BY <1>1, SeqsType DEF FlushOK, Sent
<1>3. whole \in Seq(Item) /\ (batch # <<>> => whole # <<>>)
  BY <1>2, ConcatNonEmpty
<1>4. batch # <<>> => batch[1].seq \in Nat /\ batch[1] \in Item /\ marked \in Seq(Item)
  <2>1. batch # <<>> => batch[1].seq \in Nat /\ batch[1] \in Item
    BY <1>2, ItemAt
  <2>2. batch[1] \in Item => Tombstone(batch[1]) \in Item
    BY Zenon DEF Tombstone, Item
  <2>3. batch[1] \in Item => <<Tombstone(batch[1])>> \in Seq(Item)
    BY <2>2
  <2> QED BY <2>1, <2>3, <1>2, ConcatNonEmpty
<1>5. pc = "post" => batch # <<>>
  BY <1>1 DEF FlushOK
<1>6. UNCHANGED serverVars => ServerOK'
  BY <1>1 DEF ServerOK, serverVars
<1>7. UNCHANGED <<failing, breakerVars>> => BreakerOK'
  BY <1>1 DEF BreakerOK, breakerVars
<1>8. UNCHANGED tombstoneVars => TombstoneOK'
  BY <1>1 DEF TombstoneOK, tombstoneVars
<1>9. \A s \in Nat : Trip(s) /\ UNCHANGED failing => BreakerOK' /\ tripped'
  BY <1>1 DEF BreakerOK, Trip
<1> HIDE DEF whole, marked
<1>10. CASE PostOk
  <2>1. ServerOK'
    BY <1>10, <1>1, <1>2, AppendOK DEF PostOk
  <2>2. FlushStep
    BY <1>10, <1>1, <1>2, NextTurnStep DEF PostOk
  <2>3. BreakerOK'
    BY <1>10, <1>1, Zenon DEF PostOk, BreakerOK, breakerVars
  <2> QED BY <1>10, <1>1, <1>8, <2>1, <2>2, <2>3, NetworkFrame DEF PostOk
<1>11. CASE PostAborted
  <2>1. ServerOK'
    BY <1>11, <1>1, <1>2, TransientOK DEF PostAborted
  <2>2. FlushStep
    BY <1>11, <1>1, <1>2, <1>3, StopFlushStep, Zenon DEF PostAborted, whole
  <2> QED BY <1>11, <1>1, <1>7, <1>8, <2>1, <2>2, NetworkFrame DEF PostAborted
<1>12. CASE PostTransient
  <2>1. ServerOK'
    BY <1>12, <1>1, <1>2, TransientOK DEF PostTransient
  <2>2. FlushStep /\ BreakerOK'
    BY <1>12, <1>1, <1>2, <1>3, <1>4, <1>5, NoteTransientFailureStep, Zenon DEF PostTransient, whole
  <2> QED BY <1>12, <1>1, <1>8, <2>1, <2>2, NetworkFrame DEF PostTransient
<1>13. CASE PostMarkerRefused
  <2>1. BreakerOK' /\ tripped'
    BY <1>13, <1>4, <1>5, <1>9 DEF PostMarkerRefused
  <2>2. FlushStep
    BY <1>13, <1>1, <1>2, <2>1, StopFlushStep, Zenon DEF PostMarkerRefused
  <2>3. discarded' \subseteq Nat
    BY <1>13, <1>1, <1>2, Zenon DEF PostMarkerRefused
  <2> QED BY <1>13, <1>6, <1>8, <2>1, <2>2, <2>3, NetworkFrame DEF PostMarkerRefused
<1>14. CASE PostFatal
  <2>1. BreakerOK' /\ tripped'
    BY <1>14, <1>4, <1>5, <1>9 DEF PostFatal
  <2>2. FlushStep
    BY <1>14, <1>1, <1>2, <1>3, <2>1, StopFlushStep, Zenon DEF PostFatal, whole
  <2> QED BY <1>14, <1>1, <1>6, <1>8, <2>1, <2>2, NetworkFrame DEF PostFatal
<1>15. CASE PostOversizeSplit
  <2>1. Len(batch) \div 2 \in Nat
    BY <1>2
  <2>2. FlushStep
    BY <1>15, <1>1, <1>3, <2>1, NextTurnStep, Zenon DEF PostOversizeSplit, whole
  <2>3. BreakerOK'
    BY <1>15, <1>1, Zenon DEF PostOversizeSplit, BreakerOK, breakerVars
  <2> QED BY <1>15, <1>1, <1>6, <1>8, <2>2, <2>3, NetworkFrame DEF PostOversizeSplit
<1>16. CASE PostOversizeOne
  <2>1. FlushStep
    BY <1>16, <1>1, <1>4, <1>5, NextTurnStep, Zenon DEF PostOversizeOne, marked
  <2>2. TombstoneOK'
    BY <1>16, <1>1, <1>4, <1>5, RecordTombstoneOK DEF PostOversizeOne
  <2> QED BY <1>16, <1>1, <1>6, <1>7, <2>1, <2>2, NetworkFrame DEF PostOversizeOne
<1>17. CASE PostPermanentOne
  <2>1. FlushStep
    BY <1>17, <1>1, <1>2, <1>4, <1>5, NextTurnStep, Zenon DEF PostPermanentOne, marked
  <2>2. TombstoneOK'
    BY <1>17, <1>1, <1>4, <1>5, RecordTombstoneOK DEF PostPermanentOne
  <2> QED BY <1>17, <1>1, <1>6, <1>7, <2>1, <2>2, NetworkFrame DEF PostPermanentOne
<1>18. CASE PostPermanentMany
  <2>1. FlushOK'
    <3>1. /\ Len(batch) > 1 /\ Len(batch) \in Nat /\ pc' = "bisect"
          /\ lo' = 0 /\ hi' = Len(batch) /\ posts' = 1 /\ progressed' = FALSE
          /\ UNCHANGED <<buffer, batch, rangeFirst, rangeLast, splitLimit, timer, aborted>>
      BY <1>18, <1>2, SMTT(30) DEF PostPermanentMany, rangeVars
    <3>2. lo' \in Nat /\ hi' \in Nat /\ posts' \in Nat /\ lo' + 1 < hi' /\ hi' <= Len(batch')
      BY <3>1
    <3> QED BY <3>1, <3>2, <1>1, Zenon DEF FlushOK, FlushPc
  <2>2. FlushStep
    <3>1. rangeLast' <= rangeLast
      BY <1>18, <1>1, SMTT(30) DEF PostPermanentMany, FlushOK, rangeVars
    <3> QED BY <1>18, <2>1, <3>1 DEF PostPermanentMany, FlushStep
  <2> QED BY <1>18, <1>1, <1>6, <1>7, <1>8, <2>2, NetworkFrame DEF PostPermanentMany
<1>19. CASE pc \in {"bisect", "marker"} /\ (BisectOk \/ BisectPermanent \/ BisectAbandoned \/ BisectFatal
                                            \/ MarkerOk \/ MarkerTransient \/ MarkerRefused)
  <2>1. /\ lo \in Nat /\ hi \in Nat /\ lo < hi /\ hi <= Len(batch) /\ batch # <<>>
        /\ pc = "bisect" => lo + 1 < hi
        /\ lo \in 0 .. Len(batch) /\ lo + 1 \in 0 .. Len(batch)
    BY <1>19, <1>1, <1>2 DEF FlushOK
  <2>2. batch[lo + 1] \in Item /\ batch[lo + 1].seq \in Nat
    BY <2>1, <1>2, ItemAt
  <2>3. /\ From(batch, lo) \in Seq(Item) /\ From(batch, lo) # <<>> /\ From(batch, lo + 1) \in Seq(Item)
        /\ SeqsOf(Range(From(batch, lo))) \subseteq Nat
    <3>1. From(batch, lo) \in Seq(Item) /\ Len(From(batch, lo)) = Len(batch) - lo
      BY <2>1, <1>2, CutType
    <3>2. From(batch, lo + 1) \in Seq(Item)
      BY <2>1, <1>2, CutType
    <3>3. From(batch, lo) # <<>>
      BY <3>1, <2>1, <1>2
    <3> QED BY <3>1, <3>2, <3>3, SeqsType
  <2>4. pc = "bisect" => /\ Mid \in Nat /\ lo < Mid /\ Mid < hi
    BY <2>1 DEF Mid
  <2>5. pc = "bisect" => Half \in SUBSET Item
    <3>1. pc = "bisect" => Slice(batch, lo, Mid) \in Seq(Item)
      BY <2>1, <2>4, <1>2 DEF Slice
    <3> QED BY <3>1, SeqsType DEF Half
  <2>6. CASE BisectOk
    <3>1. ServerOK'
      BY <2>6, <2>5, <1>1, AppendOK DEF BisectOk
    <3>2. FlushStep /\ BreakerOK' /\ TombstoneOK' /\ discarded' \subseteq Nat
      BY <2>6, <2>1, <2>4, <1>1, NarrowToStep, Zenon DEF BisectOk
    <3> QED BY <2>6, <3>1, <3>2, NetworkFrame DEF BisectOk
  <2>7. CASE BisectPermanent
    <3>1. FlushStep /\ BreakerOK' /\ TombstoneOK' /\ discarded' \subseteq Nat
      <4>1. Mid <= Len(batch) /\ pc = "bisect" /\ NarrowTo(lo, Mid, progressed)
        BY <2>7, <2>1, <2>4, <1>2 DEF BisectPermanent
      <4> QED BY <4>1, <2>1, <2>4, <1>1, <1>2, NarrowToStep
    <3> QED BY <2>7, <3>1, <1>6, NetworkFrame DEF BisectPermanent
  <2>8. CASE BisectAbandoned
    <3>1. ServerOK'
      BY <2>8, <2>5, <1>1, <1>6, TransientOK DEF BisectAbandoned
    <3>2. FlushStep /\ BreakerOK'
      BY <2>8, <2>1, <2>3, <1>1, <1>2, AfterBisectStep DEF BisectAbandoned
    <3> QED BY <2>8, <3>1, <3>2, <1>1, <1>8, NetworkFrame DEF BisectAbandoned
  <2>9. CASE BisectFatal
    <3>1. BreakerOK' /\ tripped'
      BY <2>9, <2>2, <1>9 DEF BisectFatal
    <3>2. FlushStep
      BY <2>9, <3>1, <1>1, <1>2, StopFlushStep, Zenon DEF BisectFatal
    <3>3. discarded' \subseteq Nat
      BY <2>9, <2>3, <1>1, Zenon DEF BisectFatal
    <3> QED BY <2>9, <3>1, <3>2, <3>3, <1>6, <1>8, NetworkFrame DEF BisectFatal
  <2>10. CASE MarkerOk
    <3>1. ServerOK'
      BY <2>10, <2>2, <1>1, AppendOK DEF MarkerOk
    <3>2. FlushStep /\ BreakerOK'
      BY <2>10, <2>1, <2>3, <1>1, AfterBisectStep, Zenon DEF MarkerOk
    <3> QED BY <2>10, <3>1, <3>2, <1>1, <1>8, NetworkFrame DEF MarkerOk
  <2>11. CASE MarkerTransient
    <3>1. ServerOK'
      BY <2>11, <2>2, <1>1, TransientOK DEF MarkerTransient
    <3>2. FlushStep /\ BreakerOK'
      BY <2>11, <2>1, <2>3, <1>1, <1>2, AfterBisectStep DEF MarkerTransient
    <3> QED BY <2>11, <3>1, <3>2, <1>1, <1>8, NetworkFrame DEF MarkerTransient
  <2>12. CASE MarkerRefused
    <3>1. BreakerOK' /\ tripped'
      BY <2>12, <2>2, <1>9, Zenon DEF MarkerRefused
    <3>2. FlushStep
      BY <2>12, <3>1, <1>1, <1>2, StopFlushStep, Zenon DEF MarkerRefused
    <3>3. discarded' \subseteq Nat
      BY <2>12, <2>3, <1>1, Zenon DEF MarkerRefused
    <3> QED BY <2>12, <3>1, <3>2, <3>3, <1>6, <1>8, NetworkFrame DEF MarkerRefused
  <2> QED BY <1>19, <2>6, <2>7, <2>8, <2>9, <2>10, <2>11, <2>12
<1>20. (BisectOk \/ BisectPermanent \/ BisectAbandoned \/ BisectFatal \/ MarkerOk \/ MarkerTransient
        \/ MarkerRefused) => pc \in {"bisect", "marker"}
  BY Zenon DEF BisectOk, BisectPermanent, BisectAbandoned, BisectFatal, MarkerOk, MarkerTransient, MarkerRefused
<1> QED BY <1>10, <1>11, <1>12, <1>13, <1>14, <1>15, <1>16, <1>17, <1>18, <1>19, <1>20 DEF NetworkStep

-----------------------------------------------------------------------------
(* emit, the timer, flush() and the abort                                   *)

\* emit() preserves the invariant, at whatever await the flush is suspended.
LEMMA EmitInv ==
  ASSUME IInv, Emit
  PROVE  IInv'
<1>1. CASE EmitKept
  <2>1. PICK c \in EmitClasses :
          /\ buffer' = Append(buffer, Emitted(c))
          /\ IF c = "huge" THEN RecordTombstone(seq + 1) ELSE UNCHANGED tombstoneVars
    BY <1>1 DEF EmitKept
  <2>2. Emitted(c) \in Item
    BY BatcherAssumption, SMTT(30) DEF Emitted, Item, IInv, IdsOK
  <2>3. buffer' \in Seq(Item) /\ buffer' # <<>>
    <3>1. buffer \in Seq(Item)
      BY DEF IInv, FlushOK
    <3>2. Append(buffer, Emitted(c)) \in Seq(Item) /\ Len(Append(buffer, Emitted(c))) = Len(buffer) + 1
      BY <3>1, <2>2
    <3>3. Len(Append(buffer, Emitted(c))) # 0
      BY <3>1, <3>2
    <3> QED BY <2>1, <3>2, <3>3
  <2>4. FlushOK'
    BY <1>1, <2>3 DEF EmitKept, IInv, FlushOK, rangeVars, windowVars
  <2>5. TombstoneOK'
    <3>1. seq + 1 \in Nat /\ TombstoneOK
      BY DEF IInv, IdsOK
    <3> QED BY <2>1, <3>1, RecordTombstoneOK, Zenon DEF TombstoneOK, tombstoneVars
  <2>6. ServerOK' /\ DiskOK'
    BY <1>1 DEF EmitKept, IInv, ServerOK, DiskOK, serverVars, outboxVars
  <2>7. WriteOK' /\ IdsOK'
    BY <1>1, SMTT(30) DEF EmitKept, IInv, WriteOK, IdsOK, FlushOK, rangeVars
  <2>8. CloseOK'
    BY <1>1 DEF EmitKept, IInv, CloseOK, closeVars, Settled, rangeVars
  <2>9. BreakerOK' /\ JournalOK' /\ HistoryOK'
    BY <1>1 DEF EmitKept, IInv, BreakerOK, JournalOK, HistoryOK, breakerVars, journalVars, historyVars
  <2>10. NoLostWakeup' /\ MidFlushUnclean'
    BY <1>1 DEF EmitKept, IInv, Control, NoLostWakeup, MidFlushUnclean, closeVars, outboxVars
  <2> QED BY <2>4, <2>5, <2>6, <2>7, <2>8, <2>9, <2>10 DEF IInv, Control
<1>2. CASE EmitFolded
  <2>1. /\ seq \in Nat /\ rangeFirst \in Nat /\ rangeLast \in Nat /\ rangeLast <= seq
        /\ rangeFirst # 0 => rangeFirst <= rangeLast
        /\ seq' = seq + 1 /\ rangeLast' = seq + 1
        /\ rangeFirst' = IF rangeFirst = 0 THEN seq + 1 ELSE rangeFirst
    BY <1>2 DEF EmitFolded, FoldIntoPendingRange, IInv, IdsOK, FlushOK, WriteOK
  <2>2. /\ rangeFirst' \in Nat /\ rangeFirst' # 0 /\ rangeFirst' <= rangeLast' /\ rangeLast' \in Nat
        /\ rangeLast <= rangeLast' /\ (rangeFirst # 0 => rangeFirst' = rangeFirst)
    BY <2>1
  <2>3. FlushOK'
    BY <1>2, <2>2 DEF EmitFolded, IInv, FlushOK, windowVars
  <2>4. TombstoneOK'
    BY <1>2, <2>1, RecordTombstoneOK, SMTT(30) DEF EmitFolded, IInv
  <2>5. ServerOK' /\ DiskOK'
    BY <1>2 DEF EmitFolded, IInv, ServerOK, DiskOK, serverVars, outboxVars
  <2>6. WriteOK' /\ IdsOK'
    <3>1. writeLast \in Nat /\ writeLast' = writeLast /\ pc' = pc
      BY <1>2 DEF EmitFolded, IInv, WriteOK
    <3>2. WriteOK'
      BY <2>1, <2>2, <3>1 DEF IInv, WriteOK
    <3> QED BY <1>2, <3>2, SMTT(30) DEF EmitFolded, IInv, IdsOK
  <2>7. CloseOK'
    BY <1>2, <2>2 DEF EmitFolded, IInv, CloseOK, closeVars, Settled
  <2>8. BreakerOK' /\ JournalOK'
    BY <1>2 DEF EmitFolded, IInv, BreakerOK, JournalOK, breakerVars, journalVars
  <2>9. HistoryOK'
    BY <1>2, <2>1, SMTT(30) DEF EmitFolded, IInv, HistoryOK
  <2>10. NoLostWakeup' /\ MidFlushUnclean'
    BY <1>2 DEF EmitFolded, IInv, Control, NoLostWakeup, MidFlushUnclean, closeVars, outboxVars
  <2> QED BY <2>3, <2>4, <2>5, <2>6, <2>7, <2>8, <2>9, <2>10 DEF IInv, Control
<1> QED BY <1>1, <1>2 DEF Emit

\* A flush that starts posts a batch or marks the manifest.
LEMMA StartFlushOK ==
  ASSUME FlushOK, StartFlush, timer' \in BOOLEAN, aborted' \in BOOLEAN
  PROVE  FlushOK' /\ pc' \in {"mark", "post"} /\ rangeLast' <= rangeLast
<1>1. CASE spilled
  BY <1>1, SMTT(30) DEF StartFlush, FlushMayStart, FlushOK, FlushPc, rangeVars, windowVars
<1>2. CASE ~spilled
  <2>1. /\ HasWork(buffer) /\ SendNext(buffer, splitLimit)
        /\ buffer \in Seq(Item) /\ splitLimit \in Nat
    BY <1>2 DEF StartFlush, FlushMayStart, FlushOK
  <2> QED BY <2>1, SendNextOK
<1> QED BY <1>1, <1>2

\* What only the flush and the close fiber can disturb, when a step leaves the rest alone.
LEMMA FlushFrameOK ==
  ASSUME IInv, FlushFrame
  PROVE  /\ ServerOK' /\ DiskOK' /\ IdsOK' /\ BreakerOK' /\ TombstoneOK' /\ JournalOK' /\ HistoryOK'
         /\ UNCHANGED <<seq, writeLast, unclean, tripped>>
<1>1. ServerOK' /\ DiskOK' /\ unclean' = unclean
  BY DEF IInv, FlushFrame, ServerOK, DiskOK, serverVars, outboxVars
<1>2. IdsOK' /\ BreakerOK' /\ UNCHANGED <<seq, writeLast, tripped>>
  BY DEF IInv, FlushFrame, IdsOK, BreakerOK, idVars, breakerVars
<1>3. TombstoneOK' /\ JournalOK' /\ HistoryOK'
  BY DEF IInv, FlushFrame, TombstoneOK, JournalOK, HistoryOK, evidenceVars, historyVars
<1> QED BY <1>1, <1>2, <1>3

\* A step that starts a flush, with the close fiber before its last phase.
LEMMA StartFlushInv ==
  ASSUME IInv, StartFlush, FlushFrame, timer' \in {FALSE, timer}, aborted' = aborted,
         closed' = closed, closePc' \in {closePc, "attempt"}, closePc' # closePc => closePc = "drain",
         closePc' \notin Settled, failed' \in Nat, before' \in Nat
  PROVE  IInv'
<1>1. timer' \in BOOLEAN /\ aborted' \in BOOLEAN /\ FlushOK
  BY Zenon DEF IInv, FlushOK
<1>2. FlushOK' /\ pc' \in {"mark", "post"} /\ rangeLast' <= rangeLast
  BY <1>1, StartFlushOK
<1>3. WriteOK'
  <2>1. rangeLast \in Nat /\ rangeLast' \in Nat /\ seq \in Nat /\ seq' = seq /\ writeLast' = writeLast
    BY <1>2, FlushFrameOK DEF IInv, FlushOK, IdsOK
  <2> QED BY <1>2, <2>1 DEF IInv, WriteOK
<1>4. CloseOK'
  <2>1. closePc \notin {"open", "usage"} => ~timer'
    BY Zenon DEF IInv, CloseOK
  <2>2. closed \in BOOLEAN /\ (closed <=> closePc # "open")
    BY DEF IInv, CloseOK
  <2>3. closePc' \in ClosePc /\ closePc' # "fRange"
    BY DEF IInv, CloseOK, Settled, ClosePc
  <2>4. CASE closePc' = closePc
    BY <2>1, <2>2, <2>3, <2>4 DEF CloseOK
  <2>5. CASE closePc = "drain" /\ closePc' = "attempt"
    BY <2>1, <2>2, <2>3, <2>5 DEF CloseOK
  <2> QED BY <2>4, <2>5
<1>5. NoLostWakeup' /\ MidFlushUnclean'
  BY <1>2 DEF NoLostWakeup, MidFlushUnclean, Settled
<1> QED BY <1>2, <1>3, <1>4, <1>5, FlushFrameOK DEF IInv, Control

\* The batch timer, flush() and the abort preserve the invariant.
LEMMA ScheduleInv ==
  ASSUME IInv, TimerFires \/ Flush \/ AbortFlush
  PROVE  IInv'
<1>1. failed \in Nat /\ before \in Nat
  BY DEF IInv, CloseOK
<1>2. CASE TimerFires /\ StartFlush
  <2>1. closePc' = closePc /\ closePc \notin Settled
    BY <1>2 DEF IInv, CloseOK, TimerFires, closeVars, Settled, CloseEnds
  <2> QED BY <1>1, <1>2, <2>1, StartFlushInv, Zenon DEF TimerFires, closeVars
<1>3. CASE TimerFires /\ ~FlushMayStart
           /\ UNCHANGED <<buffer, batch, rangeVars, pc, windowVars, splitLimit>>
  <2>1. FlushOK'
    BY <1>3, Zenon DEF TimerFires, IInv, FlushOK, rangeVars, windowVars
  <2>2. WriteOK'
    BY <1>3, FlushFrameOK DEF TimerFires, IInv, WriteOK, rangeVars
  <2>3. CloseOK'
    BY <1>3 DEF TimerFires, IInv, CloseOK, closeVars, rangeVars
  <2>4. NoLostWakeup'
    BY <1>3, FlushFrameOK DEF TimerFires, FlushMayStart, NoLostWakeup, HasWork, rangeVars
  <2>5. MidFlushUnclean'
    BY <1>3, FlushFrameOK DEF TimerFires, IInv, Control, MidFlushUnclean, closeVars
  <2> QED BY <1>3, <2>1, <2>2, <2>3, <2>4, <2>5, FlushFrameOK DEF TimerFires, IInv, Control
<1>4. CASE Flush
  <2>1. closePc' = closePc /\ closePc \notin Settled
    BY <1>4 DEF IInv, CloseOK, Flush, closeVars, Settled, CloseEnds
  <2> QED BY <1>1, <1>4, <2>1, StartFlushInv DEF Flush, closeVars
<1>5. CASE AbortFlush
  <2>1. FlushOK'
    BY <1>5 DEF AbortFlush, IInv, FlushOK, rangeVars, windowVars
  <2>2. WriteOK'
    BY <1>5, FlushFrameOK DEF AbortFlush, IInv, WriteOK, rangeVars
  <2>3. CloseOK'
    BY <1>5 DEF AbortFlush, IInv, CloseOK, closeVars, rangeVars
  <2>4. NoLostWakeup'
    BY <1>5 DEF AbortFlush, NoLostWakeup
  <2>5. MidFlushUnclean'
    BY <1>5, FlushFrameOK DEF AbortFlush, IInv, Control, MidFlushUnclean, closeVars
  <2> QED BY <1>5, <2>1, <2>2, <2>3, <2>4, <2>5, FlushFrameOK DEF AbortFlush, IInv, Control
<1> QED BY <1>2, <1>3, <1>4, <1>5, Zenon DEF TimerFires

-----------------------------------------------------------------------------
(* The outbox and the spill flush                                           *)

\* Quota eviction turns segments into ranges and keeps the manifest well typed.
LEMMA EvictOK ==
  ASSUME records \subseteq Record, NEW E \in Evictable
  PROVE  EvictSegments(E) \subseteq Record /\ (E = {} => EvictSegments(E) = records)
<1>1. E \subseteq records
  BY DEF Evictable, Segments
<1>2. \A rec \in E : RangeRecord(rec.firstSeq, rec.lastSeq, rec.gen) \in Record
  BY <1>1 DEF RangeRecord, Record
<1> QED BY <1>2 DEF EvictSegments

\* What the three writes do to the manifest.
ManifestStep ==
  /\ records' \subseteq Record /\ cursor' \in Nat /\ unclean' \in BOOLEAN
  /\ draining => records' = records

\* An appended segment leaves a well-formed manifest.
LEMMA AppendSegmentStep ==
  ASSUME DiskOK, NEW items \in SUBSET Item, NEW first \in Nat \ {0}, NEW last \in Nat \ {0},
         NEW gen \in Nat, AppendSegment(items, first, last, gen)
  PROVE  ManifestStep /\ unclean' = unclean
<1>1. PICK E \in Evictable : records' = EvictSegments(E) \cup {Segment(items, first, last, gen)}
  BY DEF AppendSegment
<1>2. Segment(items, first, last, gen) \in Record
  BY DEF Segment, Record
<1> QED BY <1>1, <1>2, EvictOK DEF ManifestStep, DiskOK, AppendSegment, LockFree

\* A failed segment write leaves a well-formed manifest.
LEMMA AppendSegmentFailsStep ==
  ASSUME DiskOK, AppendSegmentFails
  PROVE  ManifestStep /\ unclean' = unclean
<1>1. PICK E \in Evictable : (E # {} => LockFree) /\ records' = EvictSegments(E)
  BY DEF AppendSegmentFails
<1> QED BY <1>1, EvictOK DEF ManifestStep, DiskOK, AppendSegmentFails, LockFree

\* An appended range record leaves a well-formed manifest.
LEMMA AppendRangeStep ==
  ASSUME DiskOK, NEW first \in Nat \ {0}, NEW last \in Nat \ {0}, NEW gen \in Nat,
         AppendRangeRecord(first, last, gen)
  PROVE  ManifestStep /\ unclean' = unclean
<1>1. RangeRecord(first, last, gen) \in Record
  BY DEF RangeRecord, Record
<1> QED BY <1>1 DEF ManifestStep, DiskOK, AppendRangeRecord, LockFree

\* Setting or clearing spilled_unclean leaves the records alone.
LEMMA MarkStep ==
  ASSUME DiskOK, MarkSpillUnclean \/ ClearSpillUnclean \/ UNCHANGED manifestVars
  PROVE  ManifestStep
BY Zenon DEF DiskOK, MarkSpillUnclean, ClearSpillUnclean, manifestVars, ManifestStep

\* A write under a free lock cannot disturb a drain.
LEMMA ManifestOK ==
  ASSUME DiskOK, ManifestStep, UNCHANGED <<draining, drainSet>>
  PROVE  DiskOK'
BY DEF DiskOK, ManifestStep

\* Only seqs enter journalOnlySeqs.
LEMMA RecordJournalOnlyOK ==
  ASSUME JournalOK, NEW msgs \in Seq(Item), RecordJournalOnly(msgs)
  PROVE  JournalOK'
<1>1. PICK k \in 0 .. Len(msgs) :
        /\ journalOnly' = journalOnly \cup SeqsOf(Range(SubSeq(msgs, 1, k)))
        /\ journalOnlyOverflow' = (journalOnlyOverflow \/ k < Len(msgs))
  BY DEF RecordJournalOnly
<1>2. SubSeq(msgs, 1, k) \in Seq(Item)
  BY CutType
<1>3. SeqsOf(Range(SubSeq(msgs, 1, k))) \subseteq Nat
  BY <1>2, SeqsType, Zenon
<1>4. journalOnly' \subseteq Nat
  BY <1>1, <1>3, Zenon DEF JournalOK
<1>5. journalOnlyOverflow' \in BOOLEAN
  BY <1>1 DEF JournalOK
<1> QED BY <1>4, <1>5 DEF JournalOK

\* doSpillFlush's loop goes on with a segment in hand, clears the flag, or stops
\* and reschedules an open batcher.
LEMMA NextSegmentStep ==
  ASSUME FlushOK, failing \in BOOLEAN, closed \in BOOLEAN, lo = 0,
         NEW first, NextSegment(first),
         rangeFirst' \in Nat, rangeLast' \in Nat, rangeFirst' # 0 => rangeFirst' <= rangeLast'
  PROVE  /\ FlushOK' /\ pc' \in {"segment", "clear", "idle"} /\ failing' \in BOOLEAN
         /\ closed => timer' = timer
         /\ pc' = "idle" /\ ~closed => timer'
<1>1. <<>> \in Seq(Item)
  OBVIOUS
<1>2. CASE buffer # <<>> /\ ~closed /\ spilled
  <2>1. /\ TakePrefix(buffer, splitLimit) /\ pc' = "segment"
        /\ UNCHANGED <<lo, hi, posts, progressed, splitLimit, timer, aborted, failing>>
    BY <1>2 DEF NextSegment, windowVars
  <2>2. batch' \in Seq(Item) /\ batch' # <<>> /\ buffer' \in Seq(Item)
    BY <2>1, TakePrefixOK DEF FlushOK
  <2> QED BY <2>1, <2>2 DEF FlushOK, FlushPc
<1>3. CASE ~(buffer # <<>> /\ ~closed /\ spilled) /\ (buffer = <<>> /\ first = 0)
  <2>1. /\ pc' = "clear" /\ failing' = FALSE /\ batch' = <<>>
        /\ UNCHANGED <<buffer, lo, hi, posts, progressed, splitLimit, timer, aborted>>
    BY <1>3 DEF NextSegment, windowVars
  <2>2. batch' \in Seq(Item)
    BY <1>1, <2>1
  <2> QED BY <2>1, <2>2, Zenon DEF FlushOK, FlushPc
<1>4. CASE ~(buffer # <<>> /\ ~closed /\ spilled) /\ ~(buffer = <<>> /\ first = 0)
  <2>1. /\ pc' = "idle" /\ timer' = (timer \/ ~closed) /\ aborted' = FALSE /\ batch' = <<>>
        /\ UNCHANGED <<buffer, lo, hi, posts, progressed, splitLimit, failing>>
    BY <1>4 DEF NextSegment, windowVars
  <2>2. batch' \in Seq(Item)
    BY <1>1, <2>1
  <2>3. timer' \in BOOLEAN /\ (closed => timer' = timer) /\ (~closed => timer')
    BY <2>1, Zenon DEF FlushOK
  <2>4. /\ pc' = "idle" /\ aborted' = FALSE
        /\ UNCHANGED <<buffer, lo, hi, posts, progressed, splitLimit, failing>>
    BY <2>1
  <2> QED BY <2>2, <2>3, <2>4, Zenon DEF FlushOK, FlushPc
<1> QED BY <1>2, <1>3, <1>4

\* A step of the spill flush that leaves the manifest and the flush in order
\* preserves the invariant.
LEMMA SpillStepFrame ==
  ASSUME IInv, pc # "idle", SpillFrame, ManifestStep, FlushOK', WriteOK', BreakerOK', JournalOK',
         forgotten' \subseteq Nat, spilled' \in BOOLEAN,
         closed => timer' = timer,
         pc' = "idle" /\ HasWork(buffer)' /\ ~closed /\ ~tripped' => timer',
         pc' \in {"range", "segment"} => unclean'
  PROVE  IInv'
<1>1. closePc \notin Settled /\ closePc' = closePc /\ closed' = closed
  BY DEF IInv, CloseOK, SpillFrame, closeVars
<1>2. DiskOK'
  BY ManifestOK DEF IInv, SpillFrame
<1>3. CloseOK'
  BY <1>1, SMTT(30) DEF IInv, CloseOK, SpillFrame, closeVars, Settled
<1>4. ServerOK' /\ IdsOK' /\ TombstoneOK' /\ HistoryOK'
  BY DEF IInv, SpillFrame, ServerOK, IdsOK, TombstoneOK, HistoryOK, serverVars, idVars, tombstoneVars
<1>5. NoLostWakeup' /\ MidFlushUnclean'
  BY <1>1 DEF NoLostWakeup, MidFlushUnclean, Settled
<1> QED BY <1>2, <1>3, <1>4, <1>5 DEF IInv, Control

\* enterSpill and the four outbox calls of doSpillFlush preserve the invariant.
LEMMA SpillInv ==
  ASSUME IInv, SpillStep
  PROVE  IInv'
<1>1. /\ FlushOK /\ DiskOK /\ WriteOK /\ BreakerOK /\ JournalOK /\ closed \in BOOLEAN
      /\ generation \in Nat /\ seq \in Nat /\ spilled \in BOOLEAN /\ forgotten \subseteq Nat
  BY DEF IInv, CloseOK, IdsOK, HistoryOK
<1>2. /\ batch \in Seq(Item) /\ buffer \in Seq(Item) /\ splitLimit \in Nat
      /\ rangeFirst \in Nat /\ rangeLast \in Nat /\ (rangeFirst # 0 => rangeFirst <= rangeLast)
      /\ writeLast \in Nat /\ rangeLast <= seq
  BY <1>1 DEF FlushOK, WriteOK
<1>3. UNCHANGED journalVars => JournalOK'
  BY <1>1 DEF JournalOK, journalVars
<1>4. ASSUME NEW buf \in Seq(Item), NEW tripping \in BOOLEAN, StopFlush(buf, splitLimit, tripping),
             tripping => tripped', SpillFrame, writeLast' \in Nat
      PROVE  /\ FlushOK' /\ pc' = "idle" /\ WriteOK'
             /\ closed => timer' = timer
             /\ pc' = "idle" /\ HasWork(buffer)' /\ ~closed /\ ~tripped' => timer'
  <2>1. FlushStep /\ pc' = "idle" /\ UNCHANGED rangeVars
    BY <1>4, <1>1, <1>2, StopFlushStep, StopFlushOK
  <2>2. WriteOK'
    BY <2>1, <1>4, <1>2 DEF WriteOK, rangeVars, SpillFrame, idVars
  <2> QED BY <2>1, <2>2 DEF FlushStep
<1>5. CASE EnterSpill
  <2>1. ManifestStep
    BY <1>5, <1>1, MarkStep DEF EnterSpill
  <2>2. BreakerOK'
    BY <1>5, <1>1, Zenon DEF EnterSpill, BreakerOK, breakerVars
  <2>3. StopFlush(buffer, splitLimit, FALSE) /\ SpillFrame /\ writeLast' \in Nat
    BY <1>5, <1>2, Zenon DEF EnterSpill
  <2>4. /\ FlushOK' /\ pc' = "idle" /\ WriteOK'
        /\ closed => timer' = timer
        /\ pc' = "idle" /\ HasWork(buffer)' /\ ~closed /\ ~tripped' => timer'
    BY <2>3, <1>2, <1>4, Zenon
  <2> QED BY <1>5, <1>1, <1>3, <2>1, <2>2, <2>3, <2>4, SpillStepFrame DEF EnterSpill
<1>6. CASE EnterSpillFails
  <2>1. ManifestStep
    BY <1>6, <1>1, MarkStep DEF EnterSpillFails
  <2>2. buffer[1].seq \in Nat
    BY <1>6, <1>1, ItemAt DEF EnterSpillFails, FlushOK
  <2>3. BreakerOK'
    BY <1>6, <1>1, <2>2, Zenon DEF EnterSpillFails, BreakerOK, breakerVars, Trip
  <2>4. \E tripping \in BOOLEAN : StopFlush(buffer, splitLimit, tripping) /\ (tripping => tripped')
    BY <1>6, Zenon DEF EnterSpillFails, Trip
  <2>5. SpillFrame /\ writeLast' \in Nat
    BY <1>6, <1>2 DEF EnterSpillFails
  <2>6. /\ FlushOK' /\ pc' = "idle" /\ WriteOK'
        /\ closed => timer' = timer
        /\ pc' = "idle" /\ HasWork(buffer)' /\ ~closed /\ ~tripped' => timer'
    BY <2>4, <2>5, <1>2, <1>4
  <2> QED BY <1>6, <1>1, <1>3, <2>1, <2>3, <2>5, <2>6, SpillStepFrame DEF EnterSpillFails
<1>7. ASSUME pc \in {"mark", "range", "segment"}, NEW first, NextSegment(first),
             rangeFirst' \in Nat, rangeLast' \in Nat, rangeFirst' # 0 => rangeFirst' <= rangeLast',
             rangeLast' <= rangeLast, writeLast' \in Nat, UNCHANGED breakerVars, SpillFrame
      PROVE  /\ FlushOK' /\ WriteOK' /\ BreakerOK' /\ pc' # "range"
             /\ closed => timer' = timer
             /\ pc' = "idle" /\ HasWork(buffer)' /\ ~closed /\ ~tripped' => timer'
  <2>1. lo = 0 /\ failing \in BOOLEAN
    BY <1>1, <1>7 DEF FlushOK, BreakerOK
  <2>2. /\ FlushOK' /\ pc' \in {"segment", "clear", "idle"} /\ failing' \in BOOLEAN
        /\ closed => timer' = timer
        /\ pc' = "idle" /\ ~closed => timer'
    BY <1>1, <1>7, <2>1, NextSegmentStep
  <2>3. WriteOK'
    BY <1>1, <1>2, <1>7, <2>2, SMTT(30) DEF WriteOK, SpillFrame, idVars
  <2> QED BY <1>1, <1>7, <2>2, <2>3 DEF BreakerOK, breakerVars
<1>8. CASE SpillMark
  <2>1. ManifestStep /\ unclean'
    BY <1>8, <1>1, MarkStep DEF SpillMark, MarkSpillUnclean
  <2>2. UNCHANGED <<rangeFirst, rangeLast>> /\ UNCHANGED breakerVars /\ SpillFrame
    BY <1>8 DEF SpillMark, rangeVars
  <2>3. CASE /\ rangeFirst # 0 /\ pc' = "range" /\ writeLast' = rangeLast
             /\ UNCHANGED <<buffer, batch, windowVars, splitLimit, timer, aborted, failing>>
    <3>1. FlushOK'
      BY <1>8, <2>2, <2>3, <1>1 DEF SpillMark, FlushOK, FlushPc, windowVars
    <3>2. WriteOK'
      BY <2>2, <2>3, <1>2, SMTT(30) DEF WriteOK, SpillFrame, idVars
    <3>3. BreakerOK'
      BY <2>2, <2>3, <1>1 DEF BreakerOK, breakerVars
    <3> QED BY <1>8, <1>1, <1>3, <2>1, <2>2, <2>3, <3>1, <3>2, <3>3, SpillStepFrame DEF SpillMark
  <2>4. CASE NextSegment(0) /\ UNCHANGED writeLast
    <3>1. rangeLast' <= rangeLast
      BY <2>2, <1>2
    <3>2. /\ FlushOK' /\ WriteOK' /\ BreakerOK' /\ pc' # "range"
          /\ closed => timer' = timer
          /\ pc' = "idle" /\ HasWork(buffer)' /\ ~closed /\ ~tripped' => timer'
      BY <1>7, <1>8, <1>2, <2>2, <2>4, <3>1 DEF SpillMark
    <3> QED BY <1>8, <1>1, <1>3, <2>1, <2>2, <3>2, SpillStepFrame DEF SpillMark
  <2> QED BY <1>8, <2>3, <2>4 DEF SpillMark
<1>9. CASE SpillRange
  <2>1. /\ rangeFirst \in Nat \ {0} /\ writeLast \in Nat \ {0} /\ unclean
    BY <1>9, <1>1, <1>2, SMTT(30) DEF SpillRange, WriteOK, IInv, Control, MidFlushUnclean
  <2>2. ManifestStep /\ unclean' = unclean
    BY <1>9, <1>1, <2>1, AppendRangeStep, Zenon DEF SpillRange
  <2>3. /\ FlushOK' /\ WriteOK' /\ BreakerOK' /\ pc' # "range"
        /\ closed => timer' = timer
        /\ pc' = "idle" /\ HasWork(buffer)' /\ ~closed /\ ~tripped' => timer'
    <3>1. /\ pc \in {"mark", "range", "segment"} /\ NextSegment(0) /\ UNCHANGED breakerVars /\ SpillFrame
          /\ rangeFirst' = 0 /\ rangeLast' = 0 /\ writeLast' = 0
      BY <1>9 DEF SpillRange
    <3>2. rangeLast' <= rangeLast
      BY <3>1, <1>2
    <3> QED BY <1>7, <3>1, <3>2
  <2>4. forgotten' \subseteq Nat
    BY <1>9, <1>1, <1>2 DEF SpillRange
  <2> QED BY <1>9, <1>1, <1>3, <2>1, <2>2, <2>3, <2>4, SpillStepFrame DEF SpillRange
<1>10. CASE SpillSegment
  <2>1. batch # <<>> /\ unclean
    BY <1>10, <1>1 DEF SpillSegment, FlushOK, IInv, Control, MidFlushUnclean
  <2>2. /\ batch[1].seq \in Nat \ {0} /\ batch[Len(batch)].seq \in Nat \ {0}
        /\ Sent \in SUBSET Item
    BY <1>2, <2>1, ItemAt, SeqsType DEF Sent
  <2>3. ManifestStep /\ unclean' = unclean
    BY <1>10, <1>1, <2>2, AppendSegmentStep DEF SpillSegment
  <2>4. JournalOK'
    BY <1>10, <1>1, <1>2, RecordJournalOnlyOK DEF SpillSegment
  <2>5. /\ FlushOK' /\ WriteOK' /\ BreakerOK' /\ pc' # "range"
        /\ closed => timer' = timer
        /\ pc' = "idle" /\ HasWork(buffer)' /\ ~closed /\ ~tripped' => timer'
    <3>1. /\ pc \in {"mark", "range", "segment"} /\ NextSegment(rangeFirst) /\ UNCHANGED breakerVars
          /\ SpillFrame /\ rangeFirst' = rangeFirst /\ rangeLast' = rangeLast /\ writeLast' = writeLast
      BY <1>10 DEF SpillSegment, rangeVars
    <3>2. rangeLast' <= rangeLast
      BY <3>1, <1>2
    <3> QED BY <1>2, <1>7, <3>1, <3>2
  <2> QED BY <1>10, <1>1, <2>1, <2>3, <2>4, <2>5, SpillStepFrame DEF SpillSegment
<1>11. CASE SpillWriteFails
  <2>1. ManifestStep
    BY <1>11, <1>1, MarkStep, AppendSegmentFailsStep DEF SpillWriteFails
  <2>2. \E buf \in Seq(Item) : StopFlush(buf, splitLimit, FALSE)
    BY <1>11, <1>2, ConcatNonEmpty, Zenon DEF SpillWriteFails, StopSpillFlush
  <2>3. SpillFrame /\ writeLast' \in Nat /\ pc # "idle"
    BY <1>11 DEF SpillWriteFails
  <2>4. /\ FlushOK' /\ pc' = "idle" /\ WriteOK'
        /\ closed => timer' = timer
        /\ pc' = "idle" /\ HasWork(buffer)' /\ ~closed /\ ~tripped' => timer'
    BY <2>2, <2>3, <1>4, Zenon
  <2>5. failing' \in BOOLEAN
    BY <1>11, <1>1 DEF SpillWriteFails, BreakerOK
  <2>6. BreakerOK'
    BY <1>11, <1>1, <2>5 DEF SpillWriteFails, BreakerOK, breakerVars
  <2>7. UNCHANGED <<spilled, journalVars, forgotten>>
    BY <1>11 DEF SpillWriteFails
  <2> QED BY <1>1, <1>3, <2>1, <2>3, <2>4, <2>6, <2>7, SpillStepFrame
<1>12. CASE SpillClear
  <2>1. ManifestStep
    BY <1>12, <1>1, MarkStep DEF SpillClear
  <2>2. SpillFrame /\ writeLast' \in Nat /\ StopFlush(buffer, splitLimit, FALSE)
    BY <1>12, <1>2, Zenon DEF SpillClear, StopSpillFlush
  <2>3. /\ FlushOK' /\ pc' = "idle" /\ WriteOK'
        /\ closed => timer' = timer
        /\ pc' = "idle" /\ HasWork(buffer)' /\ ~closed /\ ~tripped' => timer'
    BY <2>2, <1>2, <1>4, Zenon
  <2>4. BreakerOK'
    BY <1>12, <1>1 DEF SpillClear, BreakerOK, breakerVars
  <2> QED BY <1>12, <1>1, <1>3, <2>1, <2>2, <2>3, <2>4, SpillStepFrame DEF SpillClear
<1> QED BY <1>5, <1>6, <1>8, <1>9, <1>10, <1>11, <1>12 DEF SpillStep

-----------------------------------------------------------------------------
(* The drainer, evictions by other runs, and the loss of the claim          *)

\* What a drain replays of a record is a set of messages with that record's seqs.
LEMMA ReplayOK ==
  ASSUME NEW rec \in Record
  PROVE  ReplayItems(rec) \in SUBSET Item /\ SeqsOf(ReplayItems(rec)) = RecordSeqs(rec)
<1>1. CASE rec.kind = "segment"
  <2>1. rec.items \subseteq Item /\ ReplayItems(rec) = {Replayed(it) : it \in rec.items}
    BY <1>1 DEF Record, ReplayItems
  <2>2. \A it \in Item : Replayed(it) \in Item /\ Replayed(it).seq = it.seq
    BY Zenon DEF Replayed, Item
  <2>3. SeqsOf(ReplayItems(rec)) = SeqsOf(rec.items)
    BY <2>1, <2>2, SMTT(30) DEF SeqsOf
  <2> QED BY <1>1, <2>1, <2>2, <2>3 DEF RecordSeqs
<1>2. CASE rec.kind # "segment"
  <2> DEFINE R == rec.firstSeq .. rec.lastSeq
             G == GapTombstones(rec.firstSeq, rec.lastSeq)
  <2>1. ReplayItems(rec) = G /\ RecordSeqs(rec) = R
    BY <1>2 DEF ReplayItems, RecordSeqs
  <2>2. R \subseteq Nat \ {0}
    BY DEF Record
  <2>3. G = [seq : R, class : {"dropped"}, tombstoned : {TRUE}]
    BY DEF GapTombstones
  <2> HIDE DEF R, G
  <2>4. G \subseteq Item
    BY <2>2, <2>3, Zenon DEF Item, Class
  <2>5. \A n \in R : [seq |-> n, class |-> "dropped", tombstoned |-> TRUE] \in G
    BY <2>3
  <2>6. \A it \in G : it.seq \in R
    BY <2>3
  <2>7. SeqsOf(G) = R
    <3>1. \A n \in R : \E it \in G : it.seq = n
      BY <2>5, Zenon
    <3> QED BY <3>1, <2>6 DEF SeqsOf
  <2> QED BY <2>1, <2>4, <2>7
<1> QED BY <1>1, <1>2

\* A step that leaves the batcher and the unclean flag alone.
LEMMA BatcherFrameInv ==
  ASSUME IInv, UNCHANGED BatcherVars, UNCHANGED unclean, ServerOK', DiskOK'
  PROVE  IInv'
<1>1. FlushOK'
  BY DEF IInv, BatcherVars, FlushOK, flushVars
<1>2. WriteOK' /\ IdsOK' /\ BreakerOK'
  BY DEF IInv, BatcherVars, WriteOK, IdsOK, BreakerOK, flushVars, idVars, breakerVars
<1>3. CloseOK'
  BY DEF IInv, BatcherVars, CloseOK, closeVars, flushVars
<1>4. TombstoneOK' /\ JournalOK' /\ HistoryOK'
  BY DEF IInv, BatcherVars, TombstoneOK, JournalOK, HistoryOK, evidenceVars, historyVars
<1>5. NoLostWakeup' /\ MidFlushUnclean'
  BY DEF IInv, Control, NoLostWakeup, MidFlushUnclean, HasWork, BatcherVars, flushVars, closeVars,
         breakerVars
<1> QED BY <1>1, <1>2, <1>3, <1>4, <1>5 DEF IInv, Control

\* The drainer, an eviction and a re-claim preserve the invariant.
LEMMA DrainInv ==
  ASSUME IInv, DrainStep \/ ClaimMovesOn
  PROVE  IInv'
<1>1. ServerOK /\ DiskOK
  BY DEF IInv
<1>2. CASE DrainStart /\ UNCHANGED BatcherVars
  <2>1. ServerOK' /\ DiskOK' /\ unclean' = unclean
    BY <1>1, <1>2 DEF DrainStart, ServerOK, DiskOK, serverVars, manifestVars, Pending
  <2> QED BY <1>2, <2>1, BatcherFrameInv
<1>3. CASE DrainRecord /\ UNCHANGED BatcherVars
  <2>1. PICK rec \in drainSet :
          /\ AppendMessages(ReplayItems(rec), rec.gen)
          /\ records' = records \ {rec}
          /\ cursor' = IF rec.lastSeq > cursor THEN rec.lastSeq ELSE cursor
          /\ drainSet' = drainSet \ {rec}
    BY <1>3 DEF DrainRecord
  <2>2. rec \in Record /\ rec.gen \in Nat /\ rec.lastSeq \in Nat
    BY <1>1 DEF DiskOK, Record
  <2>3. ServerOK'
    BY <1>1, <2>1, <2>2, AppendOK, ReplayOK
  <2>4. DiskOK' /\ unclean' = unclean
    BY <1>1, <1>3, <2>1, <2>2 DEF DrainRecord, DiskOK
  <2> QED BY <1>3, <2>3, <2>4, BatcherFrameInv
<1>4. CASE DrainFails
  <2>1. PICK rec \in drainSet :
          \/ UNCHANGED serverVars
          \/ \E sent \in SUBSET ReplayItems(rec) : AppendMessages(sent, rec.gen)
    BY <1>4, Zenon DEF DrainFails, DrainStops
  <2>2. rec \in Record /\ rec.gen \in Nat
    BY <1>1 DEF DiskOK, Record
  <2>3. ReplayItems(rec) \in SUBSET Item
    BY <2>2, ReplayOK
  <2>4. ServerOK'
    <3>1. CASE UNCHANGED serverVars
      BY <1>1, <3>1 DEF ServerOK, serverVars
    <3>2. CASE \E sent \in SUBSET ReplayItems(rec) : AppendMessages(sent, rec.gen)
      <4>1. PICK sent \in SUBSET ReplayItems(rec) : AppendMessages(sent, rec.gen)
        BY <3>2
      <4>2. sent \in SUBSET Item
        BY <2>3
      <4> QED BY <1>1, <2>2, <4>1, <4>2, AppendOK
    <3> QED BY <2>1, <3>1, <3>2
  <2>5. DiskOK' /\ unclean' = unclean
    BY <1>1, <1>4, Zenon DEF DrainFails, DrainStops, DiskOK, manifestVars
  <2> QED BY <1>4, <2>4, <2>5, BatcherFrameInv DEF DrainFails
<1>5. CASE Eviction
  <2>1. PICK E \in Evictable : records' = EvictSegments(E)
    BY <1>5 DEF Eviction, OtherRunEvicts
  <2>2. records' \subseteq Record
    BY <1>1, <2>1, EvictOK DEF DiskOK
  <2>3. ServerOK' /\ DiskOK' /\ unclean' = unclean
    BY <1>1, <1>5, <2>2 DEF Eviction, OtherRunEvicts, ServerOK, DiskOK, serverVars, LockFree
  <2> QED BY <1>5, <2>3, BatcherFrameInv DEF Eviction
<1>6. CASE DrainFinished
  <2>1. ServerOK' /\ DiskOK' /\ unclean' = unclean
    BY <1>1, <1>6, Zenon DEF DrainFinished, DrainEnd, DrainDone, ServerOK, DiskOK, serverVars, manifestVars
  <2>2. CASE UNCHANGED <<spilled, failing, timer>>
    <3>1. UNCHANGED BatcherVars
      BY <1>6, <2>2 DEF DrainFinished, BatcherVars, flushVars, idVars, rangeVars, windowVars
    <3> QED BY <2>1, <3>1, BatcherFrameInv
  <2>3. CASE ~closed /\ Rearm
    <3>1. timer' \in BOOLEAN /\ (HasWork(buffer) => timer')
      BY <2>3, Zenon DEF Rearm, IInv, FlushOK
    <3>2. spilled' = FALSE /\ failing' = FALSE
      BY <2>3 DEF Rearm
    <3>3. FlushOK'
      BY <1>6, <3>1 DEF DrainFinished, IInv, FlushOK, rangeVars, windowVars
    <3>4. WriteOK' /\ IdsOK' /\ BreakerOK'
      BY <1>6, <3>2, Zenon DEF DrainFinished, IInv, WriteOK, IdsOK, BreakerOK, rangeVars, idVars, breakerVars
    <3>5. CloseOK'
      BY <1>6, <2>3 DEF DrainFinished, IInv, CloseOK, closeVars, rangeVars, Settled
    <3>6. TombstoneOK' /\ JournalOK' /\ HistoryOK'
      BY <1>6 DEF DrainFinished, IInv, TombstoneOK, JournalOK, HistoryOK, evidenceVars, historyVars
    <3>7. NoLostWakeup'
      BY <1>6, <3>1 DEF DrainFinished, NoLostWakeup, HasWork, rangeVars
    <3>8. MidFlushUnclean'
      BY <1>6, <2>1 DEF DrainFinished, IInv, Control, MidFlushUnclean, closeVars
    <3> QED BY <2>1, <3>3, <3>4, <3>5, <3>6, <3>7, <3>8 DEF IInv, Control
  <2> QED BY <1>6, <2>2, <2>3 DEF DrainFinished
<1>7. CASE ClaimMovesOn
  <2>1. ServerOK' /\ DiskOK' /\ unclean' = unclean
    BY <1>1, <1>7, SMTT(30) DEF ClaimMovesOn, LoseClaim, ServerOK, DiskOK, outboxVars
  <2> QED BY <1>7, <2>1, BatcherFrameInv DEF ClaimMovesOn
<1> QED BY <1>2, <1>3, <1>4, <1>5, <1>6, <1>7 DEF DrainStep, DrainProceeds

-----------------------------------------------------------------------------
(* close and preserveOwnedTail                                              *)

\* A step of the close fiber that leaves the flush's own variables alone.
LEMMA CloseStepFrame ==
  ASSUME IInv, CloseFrame, ManifestStep, JournalOK', CloseOK',
         buffer' \in Seq(Item), buffer # buffer' => pc = "idle",
         timer' \in {FALSE, timer}, aborted' \in BOOLEAN,
         UNCHANGED rangeVars \/ (pc = "idle" /\ rangeFirst' = 0 /\ rangeLast' = 0),
         closed', unclean' # unclean => unclean' \/ pc = "idle",
         closePc' \in {"fRange", "fSegment"} => unclean'
  PROVE  IInv'
<1>1. FlushOK /\ WriteOK /\ seq \in Nat /\ pc \in FlushPc
  BY DEF IInv, FlushOK, IdsOK
<1>2. /\ UNCHANGED <<seq, batch, pc, lo, hi, posts, progressed, splitLimit, writeLast, tripped>>
      /\ draining' = draining /\ drainSet' = drainSet
  BY DEF CloseFrame, idVars, windowVars, breakerVars
<1>3. FlushOK'
  <2>1. rangeFirst' \in Nat /\ rangeLast' \in Nat /\ (rangeFirst' # 0 => rangeFirst' <= rangeLast')
    BY <1>1 DEF FlushOK, rangeVars
  <2>2. timer' \in BOOLEAN
    BY <1>1, Zenon DEF FlushOK
  <2>3. pc = "enterSpill" => buffer' # <<>>
    BY <1>1 DEF FlushOK
  <2> QED BY <1>1, <1>2, <2>1, <2>2, <2>3 DEF FlushOK
<1>4. WriteOK'
  BY <1>1, <1>2, SMTT(30) DEF WriteOK, rangeVars
<1>5. ServerOK' /\ IdsOK' /\ BreakerOK' /\ TombstoneOK' /\ HistoryOK'
  BY DEF IInv, CloseFrame, ServerOK, IdsOK, BreakerOK, TombstoneOK, HistoryOK, serverVars, idVars,
         breakerVars, tombstoneVars, historyVars
<1>6. DiskOK'
  BY <1>2, ManifestOK DEF IInv
<1>7. NoLostWakeup'
  BY DEF NoLostWakeup
<1>8. MidFlushUnclean'
  BY <1>2 DEF IInv, Control, MidFlushUnclean
<1> QED BY <1>3, <1>4, <1>5, <1>6, <1>7, <1>8 DEF IInv, Control

\* Every step of close(), finalSpillOnClose and preserveOwnedTail preserves the
\* invariant.
LEMMA CloseInv ==
  ASSUME IInv, CloseStep
  PROVE  IInv'
<1>1. /\ FlushOK /\ DiskOK /\ CloseOK /\ JournalOK /\ generation \in Nat
      /\ buffer \in Seq(Item) /\ splitLimit \in Nat /\ aborted \in BOOLEAN /\ timer \in BOOLEAN
      /\ rangeFirst \in Nat /\ rangeLast \in Nat /\ (rangeFirst # 0 => rangeFirst <= rangeLast)
      /\ failed \in Nat /\ before \in Nat /\ closePc \in ClosePc /\ Len(buffer) \in Nat
  <2>1. /\ FlushOK /\ DiskOK /\ CloseOK /\ JournalOK /\ generation \in Nat
    BY Zenon DEF IInv, IdsOK
  <2>2. /\ buffer \in Seq(Item) /\ splitLimit \in Nat /\ aborted \in BOOLEAN /\ timer \in BOOLEAN
        /\ rangeFirst \in Nat /\ rangeLast \in Nat /\ (rangeFirst # 0 => rangeFirst <= rangeLast)
    BY <2>1, Zenon DEF FlushOK
  <2>3. failed \in Nat /\ before \in Nat /\ closePc \in ClosePc
    BY <2>1, Zenon DEF CloseOK
  <2>4. Len(buffer) \in Nat
    BY <2>2
  <2> QED BY <2>1, <2>2, <2>3, <2>4, Zenon
<1>2. UNCHANGED journalVars => JournalOK'
  BY <1>1 DEF JournalOK, journalVars
<1>3. UNCHANGED manifestVars => ManifestStep /\ unclean' = unclean
  BY <1>1, MarkStep DEF manifestVars
<1>4. Left(buffer) \in Nat
  BY <1>1 DEF Left, PendingRangeWidth
<1>5. ASSUME CloseSame, CloseFrame, CloseOK', closed', closePc' \notin {"fRange", "fSegment"}
      PROVE  IInv'
  <2>1. ManifestStep /\ unclean' = unclean /\ JournalOK'
    BY <1>5, <1>2, <1>3 DEF CloseSame
  <2>2. UNCHANGED <<buffer, rangeVars, timer, aborted>>
    BY <1>5 DEF CloseSame
  <2> QED BY <1>1, <1>5, <2>1, <2>2, CloseStepFrame
<1>6. CASE CloseStart
  <2>1. CloseOK'
    BY <1>6, <1>1 DEF CloseStart, CloseOK, ClosePc, Settled, CloseEnds
  <2> QED BY <1>5, <1>6, <2>1 DEF CloseStart
<1>7. CASE CloseClearsTimer
  <2>1. CloseOK'
    BY <1>7, <1>1 DEF CloseClearsTimer, CloseOK, ClosePc, Settled, CloseEnds
  <2>2. closed'
    BY <1>7, <1>1 DEF CloseClearsTimer, CloseOK
  <2> QED BY <1>1, <1>2, <1>3, <1>7, <2>1, <2>2, CloseStepFrame, Zenon DEF CloseClearsTimer
<1>8. CASE CloseJoins \/ CloseExpires \/ CloseGivesUp \/ PreserveJoins
  <2>1. /\ pc = "idle" /\ closePc \in {"join", "drain", "preserve"} /\ UNCHANGED <<closed, failed, before>>
        /\ closePc' \in {"fMark", "fClear", "drain"} \cup CloseEnds
        /\ CloseSame /\ CloseFrame
    BY <1>8, <1>1 DEF CloseJoins, CloseExpires, CloseGivesUp, PreserveJoins, CloseEnds, CloseOK, Settled
  <2>2. closed' /\ ~timer' /\ pc' = "idle"
    BY <2>1, <1>1 DEF CloseOK, CloseSame, CloseFrame
  <2>3. CloseOK'
    BY <2>1, <2>2, <1>1 DEF CloseOK, ClosePc, CloseEnds
  <2> QED BY <1>5, <2>1, <2>2, <2>3 DEF CloseEnds
<1>9. CASE CloseAttempt
  <2>1. /\ closePc = "drain" /\ closePc' = "attempt" /\ closed' = closed
        /\ failed' \in Nat /\ before' \in Nat /\ FlushFrame
    BY <1>9, <1>1, <1>4 DEF CloseAttempt
  <2>2. CASE StartFlush /\ UNCHANGED <<timer, aborted>>
    BY <2>1, <2>2, StartFlushInv DEF Settled, CloseEnds
  <2>3. CASE UNCHANGED flushVars
    <3>1. FlushOK'
      BY <2>3, <1>1 DEF FlushOK, flushVars
    <3>2. WriteOK'
      BY <2>1, <2>3, FlushFrameOK DEF IInv, WriteOK, flushVars
    <3>3. closed /\ ~timer
      BY <2>1, <1>1 DEF CloseOK
    <3>4. CloseOK'
      BY <2>1, <2>3, <3>3, <1>1 DEF CloseOK, flushVars, ClosePc, Settled, CloseEnds
    <3>5. NoLostWakeup' /\ MidFlushUnclean'
      BY <2>1, <2>3, <3>3, FlushFrameOK DEF IInv, Control, NoLostWakeup, MidFlushUnclean, flushVars
    <3> QED BY <2>1, <3>1, <3>2, <3>4, <3>5, FlushFrameOK DEF IInv, Control
  <2> QED BY <1>9, <2>2, <2>3 DEF CloseAttempt
<1>10. CASE CloseAttemptReturns
  <2>1. /\ pc = "idle" /\ closePc = "attempt" /\ UNCHANGED <<closed, before>>
        /\ closePc' \in {"delivered", "drain"} /\ failed' \in Nat
        /\ CloseSame /\ CloseFrame
    BY <1>10, <1>1, SMTT(30) DEF CloseAttemptReturns
  <2>2. closed' /\ ~timer' /\ pc' = "idle"
    BY <2>1, <1>1 DEF CloseOK, CloseSame, CloseFrame
  <2>3. CloseOK'
    BY <2>1, <2>2, <1>1 DEF CloseOK, ClosePc, CloseEnds
  <2> QED BY <1>5, <2>1, <2>2, <2>3
<1>11. ASSUME closePc \in {"fMark", "fRange", "fSegment", "fClear"}, CloseFrame, ManifestStep, JournalOK',
              UNCHANGED <<closed, failed, before, timer, aborted>>, buffer' \in Seq(Item),
              closePc' \in {"fRange", "fSegment", "fClear", "spilled", "spillFailed"},
              closePc' = "fRange" => rangeFirst' # 0,
              UNCHANGED rangeVars \/ (rangeFirst' = 0 /\ rangeLast' = 0),
              closePc' \in {"fRange", "fSegment"} => unclean'
       PROVE  IInv'
  <2>1. closed /\ ~timer /\ pc = "idle" /\ pc' = "idle"
    BY <1>1, <1>11 DEF CloseOK, Settled, CloseFrame
  <2>2. CloseOK'
    BY <1>1, <1>11, <2>1 DEF CloseOK, ClosePc, CloseEnds
  <2> QED BY <1>1, <1>11, <2>1, <2>2, CloseStepFrame
<1>12. CASE FinalMark
  <2>1. ManifestStep /\ unclean'
    BY <1>12, <1>1, MarkStep DEF FinalMark, MarkSpillUnclean
  <2>2. closePc' = "fRange" => rangeFirst' # 0
    BY <1>12 DEF FinalMark, rangeVars
  <2>3. closePc' \in {"fRange", "fSegment"}
    BY <1>12 DEF FinalMark
  <2> QED BY <1>1, <1>2, <1>11, <1>12, <2>1, <2>2, <2>3 DEF FinalMark
<1>13. CASE FinalRange
  <2>1. rangeFirst \in Nat \ {0} /\ rangeLast \in Nat \ {0} /\ unclean
    BY <1>13, <1>1, SMTT(30) DEF FinalRange, CloseOK, IInv, Control, MidFlushUnclean
  <2>2. ManifestStep /\ unclean' = unclean
    BY <1>13, <1>1, <2>1, AppendRangeStep, Zenon DEF FinalRange
  <2> QED BY <1>1, <1>2, <1>11, <1>13, <2>1, <2>2 DEF FinalRange
<1>14. CASE FinalSegment
  <2>1. PICK n \in PrefixLengths(buffer, splitLimit) :
          /\ AppendSegment(Range(SubSeq(buffer, 1, n)), buffer[1].seq, buffer[n].seq, generation)
          /\ RecordJournalOnly(SubSeq(buffer, 1, n))
          /\ buffer' = From(buffer, n)
          /\ closePc' = IF n = Len(buffer) THEN "fClear" ELSE "fSegment"
    BY <1>14 DEF FinalSegment
  <2>2. n \in 0 .. Len(buffer) /\ n \in 1 .. Len(buffer) /\ 1 \in 1 .. Len(buffer)
    BY <1>1 DEF PrefixLengths
  <2>3. SubSeq(buffer, 1, n) \in Seq(Item) /\ From(buffer, n) \in Seq(Item)
    BY <1>1, <2>2, CutType
  <2>4. /\ Range(SubSeq(buffer, 1, n)) \in SUBSET Item
        /\ buffer[1].seq \in Nat \ {0} /\ buffer[n].seq \in Nat \ {0}
    BY <1>1, <2>2, <2>3, SeqsType, ItemAt, Zenon
  <2>5. ManifestStep /\ unclean' = unclean
    BY <1>1, <2>1, <2>4, AppendSegmentStep, Zenon
  <2>6. JournalOK'
    BY <1>1, <2>1, <2>3, RecordJournalOnlyOK, Zenon
  <2>7. unclean
    BY <1>14 DEF FinalSegment, IInv, Control, MidFlushUnclean
  <2> QED BY <1>11, <1>14, <2>1, <2>3, <2>5, <2>6, <2>7 DEF FinalSegment
<1>15. CASE FinalClear
  <2>1. ManifestStep
    BY <1>15, <1>1, MarkStep DEF FinalClear
  <2> QED BY <1>1, <1>2, <1>11, <1>15, <2>1 DEF FinalClear
<1>16. CASE FinalSpillFails
  <2>1. ManifestStep
    BY <1>16, <1>1, MarkStep, AppendSegmentFailsStep DEF FinalSpillFails
  <2>2. closePc \in {"fMark", "fRange", "fSegment", "fClear"} /\ closePc' = "spillFailed"
    BY <1>16 DEF FinalSpillFails
  <2> QED BY <1>1, <1>2, <1>11, <1>16, <2>1, <2>2 DEF FinalSpillFails
<1>17. CASE PreserveStart
  <2>1. CloseOK'
    BY <1>17, <1>1 DEF PreserveStart, CloseOK, ClosePc, Settled, CloseEnds
  <2>2. ManifestStep /\ unclean' = unclean /\ JournalOK'
    BY <1>17, <1>2, <1>3 DEF PreserveStart
  <2>3. /\ aborted' \in BOOLEAN /\ timer' = FALSE /\ UNCHANGED <<buffer, rangeVars>>
        /\ closed' /\ closePc' = "preserve" /\ CloseFrame
    BY <1>17 DEF PreserveStart
  <2> QED BY <1>1, <2>1, <2>2, <2>3, CloseStepFrame, Zenon
<1> QED BY <1>6, <1>7, <1>8, <1>9, <1>10, <1>12, <1>13, <1>14, <1>15, <1>16, <1>17 DEF CloseStep

-----------------------------------------------------------------------------
(* The invariant, and what follows from it                                  *)

\* IInv holds of a batcher as it is constructed.
LEMMA InitInv ==
  ASSUME Init
  PROVE  IInv
<1>1. ServerOK /\ DiskOK
  BY Zenon DEF Init, ServerOK, DiskOK
<1>2. <<>> \in Seq(Item)
  OBVIOUS
<1>3. FlushOK
  <2>1. buffer \in Seq(Item) /\ batch \in Seq(Item)
    BY <1>2 DEF Init
  <2> QED BY <2>1, Zenon DEF Init, FlushOK, FlushPc
<1>4. WriteOK /\ CloseOK
  <2>1. closed = FALSE /\ closePc = "open" /\ failed = 0 /\ before = 0
    BY DEF Init
  <2>2. CloseOK
    BY <2>1, Zenon DEF CloseOK, ClosePc, CloseEnds, Settled
  <2> QED BY <2>2, SMTT(30) DEF Init, WriteOK
<1>5. IdsOK /\ BreakerOK /\ TombstoneOK /\ JournalOK /\ HistoryOK
  BY Zenon DEF Init, IdsOK, BreakerOK, TombstoneOK, JournalOK, HistoryOK
<1>6. Control
  BY DEF Init, Control, NoLostWakeup, MidFlushUnclean, HasWork
<1> QED BY <1>1, <1>3, <1>4, <1>5, <1>6 DEF IInv

\* Every step of every fiber preserves IInv.
LEMMA NextInv ==
  ASSUME IInv, [Next]_vars
  PROVE  IInv'
<1>1. CASE Next
  BY <1>1, EmitInv, ScheduleInv, NetworkInv, SpillInv, DrainInv, CloseInv DEF Next
<1>2. CASE UNCHANGED vars
  <2>1. ServerOK' /\ DiskOK' /\ UNCHANGED unclean
    BY <1>2 DEF IInv, ServerOK, DiskOK, vars, serverVars, outboxVars
  <2>2. UNCHANGED BatcherVars
    BY <1>2 DEF vars, BatcherVars
  <2> QED BY <2>1, <2>2, BatcherFrameInv
<1> QED BY <1>1, <1>2

\* IInv is inductive: it holds when the batcher is constructed and every step of
\* every fiber preserves it.
THEOREM Invariance == Spec => []IInv
<1>1. Init => IInv
  BY InitInv
<1>2. IInv /\ [Next]_vars => IInv'
  BY NextInv
<1> QED BY <1>1, <1>2, PTL DEF Spec

\* Every variable of the batcher, the outbox and the api keeps its type: in
\* particular no post, split, bisection, refill or re-buffering ever reads past
\* the end of the batch or takes the head of an empty buffer.
THEOREM TypeCorrect == Spec => []TypeOK
<1>1. IInv => TypeOK
  BY DEF IInv, TypeOK, ServerOK, DiskOK, FlushOK, WriteOK, CloseOK, IdsOK, BreakerOK, TombstoneOK,
         JournalOK, HistoryOK
<1> QED BY <1>1, Invariance, PTL

\* Work is never stranded: an open batcher with a message or a range waiting has
\* its timer armed or a flush under way, whatever emit, re-arm, failures and
\* expiries interleave.
THEOREM WakeupNeverLost == Spec => []NoLostWakeup
<1>1. IInv => NoLostWakeup
  BY DEF IInv, Control
<1> QED BY <1>1, Invariance, PTL

\* A spill flush or a spilled close part-way through its writes has marked the
\* manifest spilled_unclean.
THEOREM SpillAlwaysMarked == Spec => []MidFlushUnclean
<1>1. IInv => MidFlushUnclean
  BY DEF IInv, Control
<1> QED BY <1>1, Invariance, PTL

\* Once close() or preserveOwnedTail() has returned, no request or write is in
\* flight and no timer is armed.
THEOREM ClosedIsQuiet == Spec => []QuietAfterClose
<1>1. IInv => QuietAfterClose
  BY DEF IInv, CloseOK, QuietAfterClose, Settled, CloseEnds
<1> QED BY <1>1, Invariance, PTL
=============================================================================
