---------------------------- MODULE MessageBatcher ----------------------------
(***************************************************************************)
(* The worker's message batcher for one run (agent/src/batcher.ts), with    *)
(* the outbox it spills to and the api it posts to.                         *)
(*                                                                         *)
(* emit() is synchronous. A flush is one fiber at a time: it runs to its    *)
(* next await in one step, and pc names the await it is suspended on:       *)
(*   post       doFlush's postMessages of batch                             *)
(*   bisect     bisect's postMessages of the left half of the window        *)
(*   marker     bisect's postMessages of the isolated message's marker      *)
(*   enterSpill enterSpill's markSpillUnclean                               *)
(*   mark, range, segment, clear   doSpillFlush's four outbox calls         *)
(* close() and preserveOwnedTail() are a second fiber, with closePc. emit,  *)
(* rearm and that fiber run while a flush is suspended.                     *)
(*                                                                         *)
(* Bytes are abstracted: takePrefix may cut at any length, and while        *)
(* spilled any message but the first may be over the buffer cap. Times are  *)
(* abstracted to "the failure clock is running"; the clock may expire at    *)
(* any failure but the first of a streak.                                   *)
(***************************************************************************)
EXTENDS Outbox

CONSTANTS
  MaxSeq,            \* bound: messages emitted
  MaxGen,            \* bound: claim generations
  EmitClasses,       \* the classes of message the executor emits
  OutboxUsable,      \* the worker has an outbox and it is not disabled
  MaxTombstoneSeqs,  \* MAX_TOMBSTONE_SEQS
  MaxBisectPosts,    \* MAX_BISECT_POSTS
  RearmChunk,        \* REARM_TOMBSTONE_CHUNK
  CloseMaxFailed     \* CLOSE_MAX_FAILED_ATTEMPTS

ASSUME BatcherAssumption ==
  /\ MaxSeq \in Nat /\ MaxGen \in Nat
  /\ EmitClasses \subseteq Class \ {"dropped"}
  /\ OutboxUsable \in BOOLEAN
  /\ MaxTombstoneSeqs \in Nat /\ MaxBisectPosts \in Nat \ {0}
  /\ RearmChunk \in Nat \ {0} /\ CloseMaxFailed \in Nat

VARIABLES
  seq, base, generation,            \* last seq given out; last_seq and generation of the claim
  buffer,                           \* messages waiting, oldest first
  batch,                            \* the messages the flush holds across its await
  rangeFirst, rangeLast,            \* pendingRangeFirst / Last, 0 when undefined
  writeLast,                        \* doSpillFlush's local last, across appendRangeRecord
  pc,                               \* where the flush is suspended
  lo, hi, posts, progressed,        \* bisect's locals
  splitLimit,                       \* 0 when undefined
  failing,                          \* failingSince is set
  tripped, tripSeq,                 \* the breaker, and the lastSeq it reported
  spilled, timer,
  aborted,                          \* the flush's AbortSignal
  tombstoned, tombstoneOverflow, journalOnly, journalOnlyOverflow,
  closed, closePc, failed, before,  \* close()'s progress and locals
  discarded,                        \* history: seqs a trip let go of
  forgotten,                        \* history: seqs a range write cleared without covering
  shadowed                          \* history: kept seqs inside the pending range

idVars == <<seq, base, generation>>
rangeVars == <<rangeFirst, rangeLast>>
windowVars == <<lo, hi, posts, progressed>>
flushVars == <<buffer, batch, rangeFirst, rangeLast, pc, lo, hi, posts, progressed, splitLimit,
               timer, aborted>>
breakerVars == <<tripped, tripSeq>>
tombstoneVars == <<tombstoned, tombstoneOverflow>>
journalVars == <<journalOnly, journalOnlyOverflow>>
evidenceVars == <<tombstoned, tombstoneOverflow, journalOnly, journalOnlyOverflow>>
closeVars == <<closed, closePc, failed, before>>
historyVars == <<discarded, forgotten, shadowed>>
vars == <<serverVars, outboxVars, idVars, flushVars, writeLast, failing, breakerVars, spilled,
          evidenceVars, closeVars, historyVars>>

FlushPc == {"idle", "post", "bisect", "marker", "enterSpill", "mark", "range", "segment", "clear"}
CloseEnds == {"delivered", "undelivered", "spilled", "spillFailed", "expired", "tripped"}
ClosePc == {"open", "usage", "join", "preserve", "drain", "attempt", "fMark", "fRange", "fSegment",
            "fClear"} \cup CloseEnds

BufferedSeqs == SeqsOf(Range(buffer))
RangeSeqs == IF rangeFirst = 0 THEN {} ELSE rangeFirst .. rangeLast
PendingRangeWidth == IF rangeFirst = 0 THEN 0 ELSE rangeLast - rangeFirst + 1
HasWork(buf) == buf # <<>> \/ rangeFirst # 0
Left(buf) == Len(buf) + PendingRangeWidth

Tombstone(it) == [it EXCEPT !.tombstoned = TRUE]
Slice(s, m, n) == SubSeq(s, m + 1, n)     \* s.slice(m, n)
From(s, m) == SubSeq(s, m + 1, Len(s))    \* s.slice(m)

\* mutant: a tombstone beyond the cap is not remembered as an overflow
RecordTombstoneSilently(s) ==
  /\ tombstoned' = IF Cardinality(tombstoned) < MaxTombstoneSeqs THEN tombstoned \cup {s} ELSE tombstoned
  /\ UNCHANGED tombstoneOverflow

RecordTombstone(s) ==
  IF s \in tombstoned \/ Cardinality(tombstoned) < MaxTombstoneSeqs
  THEN tombstoned' = tombstoned \cup {s} /\ UNCHANGED tombstoneOverflow
  ELSE tombstoneOverflow' = TRUE /\ UNCHANGED tombstoned

\* mutant: segment writes leave no evidence
RecordNothing(msgs) == UNCHANGED journalVars

\* Records the seqs in order and stops at the first that does not fit.
RecordJournalOnly(msgs) ==
  \E k \in 0 .. Len(msgs) :
    LET upTo(n) == journalOnly \cup SeqsOf(Range(SubSeq(msgs, 1, n)))
    IN  /\ k = 0 \/ Cardinality(upTo(k)) <= MaxTombstoneSeqs
        /\ k < Len(msgs) => Cardinality(upTo(k + 1)) > MaxTombstoneSeqs
        /\ journalOnly' = upTo(k)
        /\ journalOnlyOverflow' = (journalOnlyOverflow \/ k < Len(msgs))

Trip(s) == tripped' = TRUE /\ tripSeq' = s

-----------------------------------------------------------------------------
(* emit                                                                     *)

\* mutant: the seq is read before it is advanced
EmittedBeforeAdvance(c) == [seq |-> seq, class |-> c, tombstoned |-> c = "huge"]

Emitted(c) == [seq |-> seq + 1, class |-> c, tombstoned |-> c = "huge"]

\* mutant: emit() does not look at closed
EmitKeptWhenClosed ==
  /\ seq < MaxSeq
  /\ \E c \in EmitClasses :
       /\ buffer' = Append(buffer, Emitted(c))
       /\ IF c = "huge" THEN RecordTombstone(seq + 1) ELSE UNCHANGED tombstoneVars
  /\ seq' = seq + 1
  /\ timer' = TRUE
  /\ UNCHANGED <<serverVars, outboxVars, base, generation, batch, rangeVars, writeLast, pc, windowVars,
                 splitLimit, failing, breakerVars, spilled, aborted, journalVars, closeVars, historyVars>>

\* Kept: a message over the hard cap is already its marker.
EmitKept ==
  /\ ~closed
  /\ seq < MaxSeq
  /\ \E c \in EmitClasses :
       /\ buffer' = Append(buffer, Emitted(c))
       /\ IF c = "huge" THEN RecordTombstone(seq + 1) ELSE UNCHANGED tombstoneVars
  /\ seq' = seq + 1
  /\ timer' = TRUE
  /\ UNCHANGED <<serverVars, outboxVars, base, generation, batch, rangeVars, writeLast, pc, windowVars,
                 splitLimit, failing, breakerVars, spilled, aborted, journalVars, closeVars, historyVars>>

FoldIntoPendingRange(s) ==
  /\ rangeFirst' = IF rangeFirst = 0 THEN s ELSE rangeFirst
  /\ rangeLast' = s

\* Dropped by the spill-buffer cap and folded into the pending range.
EmitFolded ==
  /\ ~closed
  /\ seq < MaxSeq
  /\ spilled /\ buffer # <<>>
  /\ FoldIntoPendingRange(seq + 1)
  /\ RecordTombstone(seq + 1)
  /\ shadowed' = IF rangeFirst = 0 THEN shadowed ELSE shadowed \cup (rangeLast + 1 .. seq)
  /\ seq' = seq + 1
  /\ timer' = TRUE
  /\ UNCHANGED <<serverVars, outboxVars, base, generation, buffer, batch, writeLast, pc, windowVars,
                 splitLimit, failing, breakerVars, spilled, aborted, journalVars, closeVars,
                 discarded, forgotten>>

-----------------------------------------------------------------------------
(* The flush loop over the network: doFlush                                 *)

NoWindow == lo' = 0 /\ hi' = 0 /\ posts' = 0 /\ progressed' = FALSE

\* The byte cap may cut anywhere after the first message, the split limit cuts by count.
PrefixLengths(buf, limit) == 1 .. (IF limit = 0 \/ limit > Len(buf) THEN Len(buf) ELSE limit)

TakePrefix(buf, limit) ==
  \E n \in PrefixLengths(buf, limit) :
    batch' = SubSeq(buf, 1, n) /\ buffer' = From(buf, n)

RangeChunkEnd == IF rangeFirst + RearmChunk - 1 < rangeLast THEN rangeFirst + RearmChunk - 1 ELSE rangeLast
RangeChunk == [i \in 1 .. (RangeChunkEnd - rangeFirst + 1) |->
                 [seq |-> rangeFirst + i - 1, class |-> "dropped", tombstoned |-> TRUE]]

\* mutant: the next chunk starts one seq late
RefillSkipsOne ==
  IF RangeChunkEnd >= rangeLast THEN rangeFirst' = 0 /\ rangeLast' = 0
  ELSE rangeFirst' = RangeChunkEnd + 2 /\ UNCHANGED rangeLast

RefillPendingRangeChunk ==
  IF RangeChunkEnd >= rangeLast THEN rangeFirst' = 0 /\ rangeLast' = 0
  ELSE rangeFirst' = RangeChunkEnd + 1 /\ UNCHANGED rangeLast

\* One turn of the loop: refill an empty buffer from the range, post a prefix.
SendNext(buf, limit) ==
  /\ \/ buf # <<>> /\ TakePrefix(buf, limit) /\ UNCHANGED rangeVars
     \/ buf = <<>> /\ RefillPendingRangeChunk /\ TakePrefix(RangeChunk, limit)
  /\ pc' = "post"
  /\ splitLimit' = limit
  /\ NoWindow

\* mutant: the finally block does not reschedule
StopFlushForGood(buf, limit, tripping) ==
  /\ buffer' = buf /\ batch' = <<>>
  /\ pc' = "idle" /\ splitLimit' = limit /\ aborted' = FALSE
  /\ NoWindow
  /\ UNCHANGED <<rangeVars, timer>>

\* The loop's exit and the finally block.
StopFlush(buf, limit, tripping) ==
  /\ buffer' = buf
  /\ batch' = <<>>
  /\ pc' = "idle"
  /\ splitLimit' = limit
  /\ timer' = (timer \/ (HasWork(buf) /\ ~closed /\ ~tripping))
  /\ aborted' = FALSE
  /\ NoWindow
  /\ UNCHANGED rangeVars

NextTurn(buf, limit) ==
  IF HasWork(buf) /\ ~aborted
  THEN SendNext(buf, limit) /\ UNCHANGED <<timer, aborted>>
  ELSE StopFlush(buf, limit, FALSE)

FlushMayStart == pc = "idle" /\ HasWork(buffer) /\ ~tripped

StartFlush ==
  /\ FlushMayStart
  /\ IF spilled
     THEN pc' = "mark" /\ UNCHANGED <<buffer, batch, rangeVars, windowVars, splitLimit>>
     ELSE SendNext(buffer, splitLimit)

FlushFrame == UNCHANGED <<serverVars, outboxVars, idVars, writeLast, failing, breakerVars, spilled,
                          evidenceVars, historyVars>>

\* The batch timer: it finds nothing to do when a flush is running.
TimerFires ==
  /\ timer
  /\ timer' = FALSE
  /\ \/ StartFlush
     \/ ~FlushMayStart /\ UNCHANGED <<buffer, batch, rangeVars, pc, windowVars, splitLimit>>
  /\ UNCHANGED <<aborted, closeVars>>
  /\ FlushFrame

\* flush() by the runner, before a gate for instance.
Flush ==
  /\ ~closed
  /\ StartFlush
  /\ UNCHANGED <<timer, aborted, closeVars>>
  /\ FlushFrame

\* The durability boundary that owns the flush expires.
AbortFlush ==
  /\ pc # "idle" /\ ~aborted
  /\ aborted' = TRUE
  /\ UNCHANGED <<buffer, batch, rangeVars, pc, windowVars, splitLimit, timer, closeVars>>
  /\ FlushFrame

Sent == Range(batch)
PostFrame == UNCHANGED <<outboxVars, idVars, writeLast, spilled, journalVars, closeVars, forgotten, shadowed>>

PostOk ==
  /\ pc = "post"
  /\ Accepts(Sent, generation) /\ AppendMessages(Sent, generation)
  /\ failing' = FALSE
  /\ NextTurn(buffer, 0)
  /\ PostFrame /\ UNCHANGED <<breakerVars, tombstoneVars, discarded>>

PostAborted ==
  /\ pc = "post" /\ aborted
  /\ TransientFailure(Sent, generation)
  /\ StopFlush(batch \o buffer, splitLimit, FALSE)
  /\ PostFrame /\ UNCHANGED <<failing, breakerVars, tombstoneVars, discarded>>

\* noteTransientFailure: the clock starts, or has run out and the batcher spills or trips.
NoteTransientFailure(buf, s) ==
  /\ failing' = TRUE
  /\ \/ StopFlush(buf, splitLimit, FALSE) /\ UNCHANGED breakerVars
     \/ /\ failing /\ OutboxUsable
        /\ pc' = "enterSpill"
        /\ buffer' = buf
        /\ batch' = <<>>
        /\ NoWindow
        /\ UNCHANGED <<rangeVars, splitLimit, timer, aborted, breakerVars>>
     \/ failing /\ ~OutboxUsable /\ Trip(s) /\ StopFlush(buf, splitLimit, TRUE)

\* mutant: the failed batch goes back behind the newer messages
PostTransientReorders ==
  /\ pc = "post" /\ ~aborted
  /\ TransientFailure(Sent, generation)
  /\ NoteTransientFailure(buffer \o batch, batch[1].seq)
  /\ PostFrame /\ UNCHANGED <<tombstoneVars, discarded>>

PostTransient ==
  /\ pc = "post" /\ ~aborted
  /\ TransientFailure(Sent, generation)
  /\ NoteTransientFailure(batch \o buffer, batch[1].seq)
  /\ PostFrame /\ UNCHANGED <<tombstoneVars, discarded>>

SaysRefused(S) == SaysOversize(S) \/ SaysPermanent(S) \/ SaysFatal(S, generation)

\* mutant: a marker is not told from a message
NoMarker == FALSE

\* A message that is a marker already is not replaced by another.
LoneMarker == Len(batch) = 1 /\ batch[1].tombstoned

\* The api refuses a lone marker: the one true drop.
PostMarkerRefused ==
  /\ pc = "post" /\ ~aborted /\ LoneMarker
  /\ SaysRefused(Sent)
  /\ Trip(batch[1].seq)
  /\ discarded' = discarded \cup SeqsOf(Sent)
  /\ StopFlush(buffer, splitLimit, TRUE)
  /\ PostFrame /\ UNCHANGED <<serverVars, failing, tombstoneVars>>

\* mutant: the report names the last seq of the batch instead of the first
PostFatalMisreports ==
  /\ pc = "post" /\ ~aborted /\ ~LoneMarker
  /\ SaysFatal(Sent, generation)
  /\ Trip(batch[Len(batch)].seq)
  /\ StopFlush(batch \o buffer, splitLimit, TRUE)
  /\ PostFrame /\ UNCHANGED <<serverVars, failing, tombstoneVars, discarded>>

PostFatal ==
  /\ pc = "post" /\ ~aborted /\ ~LoneMarker
  /\ SaysFatal(Sent, generation)
  /\ Trip(batch[1].seq)
  /\ StopFlush(batch \o buffer, splitLimit, TRUE)
  /\ PostFrame /\ UNCHANGED <<serverVars, failing, tombstoneVars, discarded>>

\* A 413 splits and retries at once; it is never counted as a failure.
PostOversizeSplit ==
  /\ pc = "post" /\ ~aborted
  /\ Len(batch) > 1
  /\ SaysOversize(Sent)
  /\ failing' = FALSE
  /\ NextTurn(batch \o buffer, Len(batch) \div 2)
  /\ PostFrame /\ UNCHANGED <<serverVars, breakerVars, tombstoneVars, discarded>>

PostOversizeOne ==
  /\ pc = "post" /\ ~aborted
  /\ Len(batch) = 1 /\ ~LoneMarker
  /\ SaysOversize(Sent)
  /\ RecordTombstone(batch[1].seq)
  /\ NextTurn(<<Tombstone(batch[1])>> \o buffer, 0)
  /\ PostFrame /\ UNCHANGED <<serverVars, failing, breakerVars, discarded>>

PostPermanentOne ==
  /\ pc = "post" /\ ~aborted
  /\ Len(batch) = 1 /\ ~LoneMarker
  /\ SaysPermanent(Sent)
  /\ RecordTombstone(batch[1].seq)
  /\ NextTurn(<<Tombstone(batch[1])>> \o buffer, splitLimit)
  /\ PostFrame /\ UNCHANGED <<serverVars, failing, breakerVars, discarded>>

-----------------------------------------------------------------------------
(* bisect: batch[lo+1 .. hi] holds a message the api refuses                *)

Mid == lo + (hi - lo) \div 2
Half == Range(Slice(batch, lo, Mid))

\* The head of bisect's loop with the window [l, h): give up, post a half, or
\* tombstone the message the search ended on and post its marker.
NarrowTo(l, h, moved) ==
  \/ /\ h - l > 1 /\ posts >= MaxBisectPosts
     /\ Trip(batch[l + 1].seq)
     /\ discarded' = discarded \cup SeqsOf(Range(From(batch, l)))
     /\ StopFlush(buffer, splitLimit, TRUE)
     /\ UNCHANGED <<failing, tombstoneVars>>
  \/ /\ h - l > 1 /\ posts < MaxBisectPosts
     /\ lo' = l /\ hi' = h /\ posts' = posts + 1 /\ progressed' = moved
     /\ UNCHANGED <<buffer, batch, rangeVars, pc, splitLimit, timer, aborted, failing, breakerVars,
                    tombstoneVars, discarded>>
  \/ /\ h - l = 1
     /\ lo' = l /\ hi' = h /\ posts' = posts /\ progressed' = moved
     /\ pc' = "marker"
     /\ batch' = [batch EXCEPT ![l + 1] = Tombstone(batch[l + 1])]
     /\ RecordTombstone(batch[l + 1].seq)
     /\ UNCHANGED <<buffer, rangeVars, splitLimit, timer, aborted, failing, breakerVars, discarded>>

\* A batch of several is refused: the search starts.
PostPermanentMany ==
  /\ pc = "post" /\ ~aborted
  /\ Len(batch) > 1
  /\ SaysPermanent(Sent)
  /\ pc' = "bisect"
  /\ lo' = 0 /\ hi' = Len(batch) /\ posts' = 1 /\ progressed' = FALSE
  /\ UNCHANGED <<buffer, batch, rangeVars, splitLimit, timer, aborted>>
  /\ PostFrame /\ UNCHANGED <<serverVars, failing, breakerVars, tombstoneVars, discarded>>

\* mutant: an abandoned search is retried at once even when it got nowhere
AfterBisectRetries(rest, moved) ==
  failing' = FALSE /\ NextTurn(rest \o buffer, splitLimit) /\ UNCHANGED breakerVars

\* handleFailure after bisect handed back what is left of the batch.
AfterBisect(rest, moved) ==
  IF moved
  THEN failing' = FALSE /\ NextTurn(rest \o buffer, splitLimit) /\ UNCHANGED breakerVars
  ELSE NoteTransientFailure(rest \o buffer, batch[1].seq)

BisectOk ==
  /\ pc = "bisect"
  /\ Accepts(Half, generation) /\ AppendMessages(Half, generation)
  /\ NarrowTo(Mid, hi, TRUE)
  /\ PostFrame

BisectPermanent ==
  /\ pc = "bisect"
  /\ SaysPermanent(Half)
  /\ NarrowTo(lo, Mid, progressed)
  /\ PostFrame /\ UNCHANGED serverVars

\* mutant: a 413 narrows the search as a refusal of the payload does
BisectOversizeNarrows ==
  /\ pc = "bisect"
  /\ \/ /\ TransientFailure(Half, generation)
        /\ AfterBisect(From(batch, lo), progressed)
        /\ UNCHANGED <<tombstoneVars, discarded>>
     \/ SaysOversize(Half) /\ NarrowTo(lo, Mid, progressed) /\ UNCHANGED serverVars
  /\ PostFrame

\* A transient failure or a 413 says nothing about the payload: the search is abandoned.
BisectAbandoned ==
  /\ pc = "bisect"
  /\ TransientFailure(Half, generation) \/ (SaysOversize(Half) /\ UNCHANGED serverVars)
  /\ AfterBisect(From(batch, lo), progressed)
  /\ PostFrame /\ UNCHANGED <<tombstoneVars, discarded>>

BisectFatal ==
  /\ pc = "bisect"
  /\ SaysFatal(Half, generation)
  /\ Trip(batch[lo + 1].seq)
  /\ discarded' = discarded \cup SeqsOf(Range(From(batch, lo)))
  /\ StopFlush(buffer, splitLimit, TRUE)
  /\ PostFrame /\ UNCHANGED <<serverVars, failing, tombstoneVars>>

MarkerOk ==
  /\ pc = "marker"
  /\ Accepts({batch[lo + 1]}, generation) /\ AppendMessages({batch[lo + 1]}, generation)
  /\ AfterBisect(From(batch, lo + 1), TRUE)
  /\ PostFrame /\ UNCHANGED <<tombstoneVars, discarded>>

MarkerTransient ==
  /\ pc = "marker"
  /\ TransientFailure({batch[lo + 1]}, generation)
  /\ AfterBisect(From(batch, lo), progressed)
  /\ PostFrame /\ UNCHANGED <<tombstoneVars, discarded>>

MarkerRefused ==
  /\ pc = "marker"
  /\ SaysRefused({batch[lo + 1]})
  /\ Trip(batch[lo + 1].seq)
  /\ discarded' = discarded \cup SeqsOf(Range(From(batch, lo)))
  /\ StopFlush(buffer, splitLimit, TRUE)
  /\ PostFrame /\ UNCHANGED <<serverVars, failing, tombstoneVars>>

-----------------------------------------------------------------------------
(* Spilling: enterSpill and doSpillFlush                                    *)

SpillFrame == UNCHANGED <<serverVars, idVars, draining, drainSet, tombstoneVars, closeVars, discarded, shadowed>>

EnterSpill ==
  /\ pc = "enterSpill"
  /\ MarkSpillUnclean
  /\ spilled' = TRUE
  /\ failing' = FALSE
  /\ StopFlush(buffer, splitLimit, FALSE)
  /\ SpillFrame /\ UNCHANGED <<writeLast, breakerVars, journalVars, forgotten>>

EnterSpillFails ==
  /\ pc = "enterSpill"
  /\ \/ aborted /\ StopFlush(buffer, splitLimit, FALSE) /\ UNCHANGED breakerVars
     \/ ~aborted /\ Trip(buffer[1].seq) /\ StopFlush(buffer, splitLimit, TRUE)
  /\ SpillFrame /\ UNCHANGED <<manifestVars, writeLast, failing, spilled, journalVars, forgotten>>

\* doSpillFlush's finally block: it reschedules whether or not the breaker tripped.
StopSpillFlush(buf) == StopFlush(buf, splitLimit, FALSE)

\* The segment loop's head, and what follows the loop.
NextSegment(first) ==
  IF buffer # <<>> /\ ~closed /\ spilled
  THEN /\ TakePrefix(buffer, splitLimit)
       /\ pc' = "segment"
       /\ UNCHANGED <<windowVars, splitLimit, timer, aborted, failing>>
  ELSE IF buffer = <<>> /\ first = 0
  THEN /\ pc' = "clear"
       /\ failing' = FALSE
       /\ batch' = <<>>
       /\ UNCHANGED <<buffer, windowVars, splitLimit, timer, aborted>>
  ELSE /\ pc' = "idle"
       /\ timer' = (timer \/ ~closed)
       /\ aborted' = FALSE
       /\ batch' = <<>>
       /\ UNCHANGED <<buffer, windowVars, splitLimit, failing>>

\* mutant: the flag is set on entering spill mode only
SpillUnmarked ==
  /\ pc = "mark"
  /\ LockFree /\ UNCHANGED manifestVars
  /\ \/ /\ rangeFirst # 0
        /\ pc' = "range"
        /\ writeLast' = rangeLast
        /\ UNCHANGED <<buffer, batch, windowVars, splitLimit, timer, aborted, failing>>
     \/ rangeFirst = 0 /\ NextSegment(0) /\ UNCHANGED writeLast
  /\ SpillFrame /\ UNCHANGED <<rangeVars, breakerVars, spilled, journalVars, forgotten>>

SpillMark ==
  /\ pc = "mark"
  /\ MarkSpillUnclean
  /\ \/ /\ rangeFirst # 0
        /\ pc' = "range"
        /\ writeLast' = rangeLast
        /\ UNCHANGED <<buffer, batch, windowVars, splitLimit, timer, aborted, failing>>
     \/ rangeFirst = 0 /\ NextSegment(0) /\ UNCHANGED writeLast
  /\ SpillFrame /\ UNCHANGED <<rangeVars, breakerVars, spilled, journalVars, forgotten>>

SpillRange ==
  /\ pc = "range"
  /\ AppendRangeRecord(rangeFirst, writeLast, generation)
  /\ rangeFirst' = 0 /\ rangeLast' = 0
  /\ writeLast' = 0
  /\ forgotten' = forgotten \cup (writeLast + 1 .. rangeLast)
  /\ NextSegment(0)
  /\ SpillFrame /\ UNCHANGED <<breakerVars, spilled, journalVars>>

SpillSegment ==
  /\ pc = "segment"
  /\ AppendSegment(Sent, batch[1].seq, batch[Len(batch)].seq, generation)
  /\ RecordJournalOnly(batch)
  /\ NextSegment(rangeFirst)
  /\ SpillFrame /\ UNCHANGED <<rangeVars, writeLast, breakerVars, spilled, forgotten>>

\* mutant: a failed segment write does not put its batch back
SpillWriteLoses ==
  /\ pc \in {"mark", "range", "segment"} /\ UNCHANGED manifestVars /\ StopSpillFlush(buffer)
  /\ failing' = (failing \/ spilled)
  /\ writeLast' = 0
  /\ SpillFrame /\ UNCHANGED <<breakerVars, spilled, journalVars, forgotten>>

\* mutant: a segment that could not be written is tried again at once
SpillWriteRetries ==
  /\ pc = "segment" /\ AppendSegmentFails
  /\ UNCHANGED <<flushVars, writeLast, failing>>
  /\ SpillFrame /\ UNCHANGED <<breakerVars, spilled, journalVars, forgotten>>

\* Any of the three writes fails, or is cancelled while it waits for the lock.
SpillWriteFails ==
  /\ \/ pc \in {"mark", "range"} /\ UNCHANGED manifestVars /\ StopSpillFlush(buffer)
     \/ pc = "segment" /\ AppendSegmentFails /\ StopSpillFlush(batch \o buffer)
  /\ failing' = (failing \/ spilled)
  /\ writeLast' = 0
  /\ SpillFrame /\ UNCHANGED <<breakerVars, spilled, journalVars, forgotten>>

SpillClear ==
  /\ pc = "clear"
  /\ ClearSpillUnclean \/ UNCHANGED manifestVars
  /\ StopSpillFlush(buffer)
  /\ SpillFrame /\ UNCHANGED <<writeLast, failing, breakerVars, spilled, journalVars, forgotten>>

-----------------------------------------------------------------------------
(* The drainer, and the re-arm it triggers when the run is fully retired    *)

BatcherVars == <<idVars, flushVars, writeLast, failing, breakerVars, spilled, evidenceVars,
                 closeVars, historyVars>>

DrainProceeds == (DrainStart \/ DrainRecord) /\ UNCHANGED BatcherVars
DrainFails == DrainStops /\ UNCHANGED BatcherVars
Eviction == OtherRunEvicts /\ UNCHANGED BatcherVars

Rearm ==
  /\ spilled' = FALSE
  /\ failing' = FALSE
  /\ timer' = (timer \/ HasWork(buffer))

\* mutant: the re-arm is skipped while a flush is in flight
DrainFinishedSkipsRearm ==
  /\ DrainEnd
  /\ IF DrainRetired /\ spilled /\ ~closed /\ pc = "idle"
     THEN Rearm
     ELSE UNCHANGED <<spilled, failing, timer>>
  /\ UNCHANGED <<idVars, buffer, batch, rangeVars, pc, windowVars, splitLimit, aborted, writeLast,
                 breakerVars, evidenceVars, closeVars, historyVars>>

DrainFinished ==
  /\ DrainEnd
  /\ IF DrainRetired /\ spilled /\ ~closed
     THEN Rearm
     ELSE UNCHANGED <<spilled, failing, timer>>
  /\ UNCHANGED <<idVars, buffer, batch, rangeVars, pc, windowVars, splitLimit, aborted, writeLast,
                 breakerVars, evidenceVars, closeVars, historyVars>>

-----------------------------------------------------------------------------
(* close and preserveOwnedTail                                              *)

CloseFrame == UNCHANGED <<serverVars, idVars, batch, pc, windowVars, splitLimit, draining, drainSet, writeLast,
                          failing, breakerVars, spilled, tombstoneVars, historyVars>>
CloseSame == UNCHANGED <<manifestVars, buffer, rangeVars, timer, aborted, journalVars>>

CloseStart ==
  /\ closePc = "open"
  /\ closed' = TRUE
  /\ closePc' = "usage"
  /\ UNCHANGED <<failed, before>>
  /\ CloseSame /\ CloseFrame

\* Usage is drained; only now is the batch timer cleared.
CloseClearsTimer ==
  /\ closePc = "usage"
  /\ closePc' = "join"
  /\ timer' = FALSE
  /\ UNCHANGED <<closed, failed, before, manifestVars, buffer, rangeVars, aborted, journalVars>>
  /\ CloseFrame

\* mutant: close() does not await the flush in flight
CloseDoesNotJoin ==
  /\ closePc = "join"
  /\ closePc' = IF spilled THEN IF HasWork(buffer) THEN "fMark" ELSE "fClear"
                ELSE IF tripped THEN "tripped" ELSE "drain"
  /\ UNCHANGED <<closed, failed, before>>
  /\ CloseSame /\ CloseFrame

\* mutant: with an empty buffer there is nothing to spill, whatever the pending range
CloseJoinsForgetsRange ==
  /\ closePc = "join" /\ pc = "idle"
  /\ closePc' = IF spilled THEN IF buffer # <<>> THEN "fMark" ELSE "fClear"
                ELSE IF tripped THEN "tripped" ELSE "drain"
  /\ UNCHANGED <<closed, failed, before>>
  /\ CloseSame /\ CloseFrame

\* The flush in flight has settled: close to the outbox, give up, or drain.
CloseJoins ==
  /\ closePc = "join" /\ pc = "idle"
  /\ closePc' = IF spilled THEN IF HasWork(buffer) THEN "fMark" ELSE "fClear"
                ELSE IF tripped THEN "tripped" ELSE "drain"
  /\ UNCHANGED <<closed, failed, before>>
  /\ CloseSame /\ CloseFrame

CloseExpires ==
  /\ closePc \in {"join", "drain", "preserve"} /\ pc = "idle"
  /\ closePc' = "expired"
  /\ UNCHANGED <<closed, failed, before>>
  /\ CloseSame /\ CloseFrame

\* An attempt: flushMessages, which does nothing once the breaker has tripped.
CloseAttempt ==
  /\ closePc = "drain"
  /\ failed < CloseMaxFailed /\ HasWork(buffer)
  /\ before' = Left(buffer)
  /\ closePc' = "attempt"
  /\ \/ StartFlush /\ UNCHANGED <<timer, aborted>>
     \/ ~FlushMayStart /\ UNCHANGED flushVars
  /\ UNCHANGED <<closed, failed>>
  /\ FlushFrame

CloseAttemptReturns ==
  /\ closePc = "attempt" /\ pc = "idle"
  /\ \/ Left(buffer) = 0 /\ closePc' = "delivered" /\ UNCHANGED failed
     \/ Left(buffer) > 0 /\ closePc' = "drain"
        /\ failed' = IF Left(buffer) < before THEN failed ELSE failed + 1
  /\ UNCHANGED <<closed, before>>
  /\ CloseSame /\ CloseFrame

CloseGivesUp ==
  /\ closePc = "drain"
  /\ failed >= CloseMaxFailed \/ ~HasWork(buffer)
  /\ closePc' = IF HasWork(buffer) THEN "undelivered" ELSE "delivered"
  /\ UNCHANGED <<closed, failed, before>>
  /\ CloseSame /\ CloseFrame

\* finalSpillOnClose
FinalMark ==
  /\ closePc = "fMark"
  /\ MarkSpillUnclean
  /\ closePc' = IF rangeFirst # 0 THEN "fRange" ELSE "fSegment"
  /\ UNCHANGED <<closed, failed, before, buffer, rangeVars, timer, aborted, journalVars>>
  /\ CloseFrame

FinalRange ==
  /\ closePc = "fRange"
  /\ AppendRangeRecord(rangeFirst, rangeLast, generation)
  /\ rangeFirst' = 0 /\ rangeLast' = 0
  /\ closePc' = IF buffer = <<>> THEN "fClear" ELSE "fSegment"
  /\ UNCHANGED <<closed, failed, before, buffer, timer, aborted, journalVars>>
  /\ CloseFrame

FinalSegment ==
  /\ closePc = "fSegment"
  /\ \E n \in PrefixLengths(buffer, splitLimit) :
       /\ AppendSegment(Range(SubSeq(buffer, 1, n)), buffer[1].seq, buffer[n].seq, generation)
       /\ RecordJournalOnly(SubSeq(buffer, 1, n))
       /\ buffer' = From(buffer, n)
       /\ closePc' = IF n = Len(buffer) THEN "fClear" ELSE "fSegment"
  /\ UNCHANGED <<closed, failed, before, rangeVars, timer, aborted>>
  /\ CloseFrame

FinalClear ==
  /\ closePc = "fClear"
  /\ ClearSpillUnclean
  /\ closePc' = "spilled"
  /\ UNCHANGED <<closed, failed, before, buffer, rangeVars, timer, aborted, journalVars>>
  /\ CloseFrame

FinalSpillFails ==
  /\ \/ closePc \in {"fMark", "fRange", "fClear"} /\ UNCHANGED manifestVars
     \/ closePc = "fSegment" /\ AppendSegmentFails
  /\ closePc' = "spillFailed"
  /\ UNCHANGED <<closed, failed, before, buffer, rangeVars, timer, aborted, journalVars>>
  /\ CloseFrame

PreserveStart ==
  /\ closePc = "open"
  /\ closed' = TRUE
  /\ closePc' = "preserve"
  /\ timer' = FALSE
  /\ aborted' = (pc # "idle")
  /\ UNCHANGED <<failed, before, manifestVars, buffer, rangeVars, journalVars>>
  /\ CloseFrame

PreserveJoins ==
  /\ closePc = "preserve" /\ pc = "idle"
  /\ closePc' = IF ~OutboxUsable THEN "spillFailed"
                ELSE IF HasWork(buffer) THEN "fMark" ELSE "fClear"
  /\ UNCHANGED <<closed, failed, before>>
  /\ CloseSame /\ CloseFrame

-----------------------------------------------------------------------------
ClaimMovesOn == claimGen < MaxGen /\ LoseClaim /\ UNCHANGED <<outboxVars, BatcherVars>>

Init ==
  /\ rows = {} /\ lastSeq = 0 /\ claimGen = 1
  /\ records = {} /\ cursor = 0 /\ unclean = FALSE /\ draining = FALSE /\ drainSet = {}
  /\ seq = 0 /\ base = 0 /\ generation = 1
  /\ buffer = <<>> /\ batch = <<>> /\ rangeFirst = 0 /\ rangeLast = 0 /\ writeLast = 0
  /\ pc = "idle" /\ lo = 0 /\ hi = 0 /\ posts = 0 /\ progressed = FALSE /\ splitLimit = 0
  /\ failing = FALSE /\ tripped = FALSE /\ tripSeq = 0 /\ spilled = FALSE
  /\ timer = FALSE /\ aborted = FALSE
  /\ tombstoned = {} /\ tombstoneOverflow = FALSE
  /\ journalOnly = {} /\ journalOnlyOverflow = FALSE
  /\ closed = FALSE /\ closePc = "open" /\ failed = 0 /\ before = 0
  /\ discarded = {} /\ forgotten = {} /\ shadowed = {}

Emit == EmitKept \/ EmitFolded
NetworkStep == PostOk \/ PostAborted \/ PostTransient \/ PostMarkerRefused \/ PostFatal
               \/ PostOversizeSplit \/ PostOversizeOne \/ PostPermanentOne \/ PostPermanentMany
               \/ BisectOk \/ BisectPermanent \/ BisectAbandoned \/ BisectFatal
               \/ MarkerOk \/ MarkerTransient \/ MarkerRefused
SpillStep == EnterSpill \/ EnterSpillFails \/ SpillMark \/ SpillRange \/ SpillSegment
             \/ SpillWriteFails \/ SpillClear
DrainStep == DrainProceeds \/ DrainFails \/ Eviction \/ DrainFinished
CloseStep == CloseStart \/ CloseClearsTimer \/ CloseJoins \/ CloseExpires \/ CloseAttempt
             \/ CloseAttemptReturns \/ CloseGivesUp \/ FinalMark \/ FinalRange \/ FinalSegment
             \/ FinalClear \/ FinalSpillFails \/ PreserveStart \/ PreserveJoins
Next == Emit \/ TimerFires \/ Flush \/ AbortFlush \/ NetworkStep \/ SpillStep \/ DrainStep
        \/ CloseStep \/ ClaimMovesOn

Spec == Init /\ [][Next]_vars

-----------------------------------------------------------------------------
(* Fairness. A suspended flush is resumed: every request and every outbox   *)
(* call has a timeout or settles. The batch timer fires. The drainer runs   *)
(* on every heartbeat. That the network, the disk or the drain's requests   *)
(* come back is assumed only where a Heals formula says so.                 *)

AwaitsSettle == WF_vars(NetworkStep \/ SpillStep)
DrainRuns == WF_vars(DrainProceeds \/ DrainFails) /\ WF_vars(DrainFinished)

NetworkHeals ==
  /\ SF_vars(PostOk)
  /\ SF_vars(PostOversizeSplit)
  /\ SF_vars(PostOversizeOne \/ PostPermanentOne \/ PostPermanentMany \/ PostMarkerRefused)
  /\ SF_vars(BisectOk \/ BisectPermanent)
  /\ SF_vars(MarkerOk \/ MarkerRefused)
DiskHeals == SF_vars(SpillMark) /\ SF_vars(SpillRange \/ SpillSegment)
DrainHeals == SF_vars(DrainRecord /\ UNCHANGED BatcherVars)

HealingSpec == Spec /\ AwaitsSettle /\ WF_vars(TimerFires)
OutageSpec == HealingSpec /\ DrainRuns
DrainSpec == Spec /\ DrainRuns

-----------------------------------------------------------------------------
(* Safety                                                                   *)

\* Every variable has its type, and a drain only holds records of the manifest.
TypeOK ==
  /\ rows \subseteq Row /\ lastSeq \in Nat /\ claimGen \in Nat
  /\ records \subseteq Record /\ cursor \in Nat /\ unclean \in BOOLEAN
  /\ draining \in BOOLEAN /\ drainSet \subseteq records
  /\ seq \in Nat /\ base \in Nat /\ generation \in Nat
  /\ buffer \in Seq(Item) /\ batch \in Seq(Item)
  /\ rangeFirst \in Nat /\ rangeLast \in Nat /\ writeLast \in Nat
  /\ pc \in FlushPc /\ lo \in Nat /\ hi \in Nat /\ posts \in Nat /\ progressed \in BOOLEAN
  /\ splitLimit \in Nat /\ failing \in BOOLEAN /\ tripped \in BOOLEAN /\ tripSeq \in Nat
  /\ spilled \in BOOLEAN /\ timer \in BOOLEAN /\ aborted \in BOOLEAN
  /\ tombstoned \subseteq Nat /\ tombstoneOverflow \in BOOLEAN
  /\ journalOnly \subseteq Nat /\ journalOnlyOverflow \in BOOLEAN
  /\ closed \in BOOLEAN /\ closePc \in ClosePc /\ failed \in Nat /\ before \in Nat
  /\ discarded \subseteq Nat /\ forgotten \subseteq Nat /\ shadowed \subseteq Nat

Assigned == base + 1 .. seq
OwnRecords == {rec \in records : rec.gen = generation}
JournaledSeqs == UNION {RecordSeqs(rec) : rec \in OwnRecords}
InMemory == BufferedSeqs \cup SeqsOf(Range(From(batch, lo))) \cup RangeSeqs

\* A seq emit() has given out is never in no store at all: it is a row of the
\* api, in a record of the outbox, in the batcher's memory, or one a tripped
\* breaker discarded. The one exception is a message folded into the pending
\* range while doSpillFlush is writing that range (see NoSeqVanishesAtAll).
NoSeqVanishes ==
  Assigned \subseteq StoredSeqs \cup JournaledSeqs \cup InMemory \cup discarded \cup forgotten

\* The same without the exception: the pending range is "reset only on success"
\* and the next flush writes one record "covering it".
NoSeqVanishesAtAll == Assigned \subseteq StoredSeqs \cup JournaledSeqs \cup InMemory \cup discarded

\* What the runner may conclude from the batcher's accessors: a seq that is not
\* waiting (undeliveredFromSeq), not in tombstonedSeqs and not in
\* journalOnlySeqs is stored with its own content, as long as neither set has
\* overflowed and the breaker has not tripped. Seqs kept in the buffer but
\* covered by the pending range are excepted: the range's record stands for
\* [first .. last] and shadows what lies between two dropped messages.
EvidenceSound ==
  ~tripped /\ ~tombstoneOverflow /\ ~journalOnlyOverflow =>
    \A s \in Assigned \ (InMemory \cup tombstoned \cup journalOnly \cup shadowed) :
      \E r \in rows : r.seq = s /\ ~r.tombstoned

\* Only a message the api refuses, an over-cap one or a spilled-over one is ever
\* replaced by a marker: neither the bisection nor a 413 tombstones a clean seq.
OnlyRefusedTombstoned ==
  \A it \in Range(batch) \cup Range(buffer) \cup rows : it.tombstoned => it.class # "clean"

\* Through every re-buffering, split, bisection and refill, the messages in hand
\* followed by the buffer are in strictly ascending seq order.
Ascending == LET s == batch \o buffer IN \A i, j \in 1 .. Len(s) : i < j => s[i].seq < s[j].seq

\* Work is never stranded: while the batcher is open and has not tripped, a
\* waiting message or range has a timer armed or a flush under way.
NoLostWakeup == HasWork(buffer) /\ ~closed /\ ~tripped => timer \/ pc # "idle"

\* While a spill flush or a spilled close is part-way through its writes the
\* manifest says spilled_unclean, so a crash there is admitted at restart.
MidFlushUnclean == pc \in {"range", "segment"} \/ closePc \in {"fRange", "fSegment"} => unclean

\* When close() or preserveOwnedTail() has returned nothing is in flight and
\* nothing is scheduled.
QuietAfterClose == closePc \in CloseEnds => pc = "idle" /\ ~timer

\* A close that reports success (drained, or spilled to the outbox) has handed
\* over every message it was given.
CloseHandsOff ==
  closePc \in {"delivered", "spilled"} =>
    Assigned \subseteq StoredSeqs \cup JournaledSeqs \cup discarded \cup forgotten

\* The breaker's report says "Work up to seq lastSeq - 1 is persisted". It is, at
\* the api or in the outbox, except for messages the spill buffer dropped: after a
\* re-arm their markers wait in the pending range until the buffer is empty, so
\* the report can name a later seq while they are still in memory.
TripReportTrue ==
  tripped => (base + 1 .. tripSeq - 1) \subseteq StoredSeqs \cup JournaledSeqs \cup forgotten \cup RangeSeqs

\* Whenever no drain is running, every record still in the manifest is one the
\* next drain will visit: a drain that stops leaves the rest pending.
EveryRecordPending == ~draining => records = Pending

-----------------------------------------------------------------------------
(* Progress of a flush. What is ahead of it: the await it is at, then the   *)
(* messages it still has to hand over, then those that may yet be replaced  *)
(* by a marker, then whether the search it is in has moved, then the width  *)
(* of what it is posting.                                                   *)

Stage == CASE pc \in {"post", "bisect", "marker"} -> 4
           [] pc \in {"enterSpill", "mark"} -> 3
           [] pc = "range" -> 2
           [] pc = "segment" -> 1
           [] OTHER -> 0
Work == Len(From(batch, lo)) + Left(buffer)
Unmarked == SeqsOf({m \in Range(From(batch, lo)) \cup Range(buffer) : ~m.tombstoned})
Phase == IF pc = "post" THEN 1 ELSE IF progressed THEN 2 ELSE 0
Width == IF pc = "post" THEN Len(batch) ELSE hi - lo

\* Less is ahead after the step than before it.
Closer ==
  \/ Stage' < Stage
  \/ /\ Stage' = Stage
     /\ \/ Work' < Work
        \/ /\ Work' = Work
           /\ \/ Unmarked' \subseteq Unmarked /\ Unmarked' # Unmarked
              \/ Unmarked' = Unmarked /\ (Phase' < Phase \/ (Phase' = Phase /\ Width' < Width))

\* Whatever the api and the disk answer, every step of a flush ends it or brings it
\* closer to its end: no 413, refusal or failure leads back to where it was. Nothing
\* else but emit() gives a running flush more to do.
TurnsProgress ==
  [][pc # "idle" /\ pc' # "idle" =>
       IF NetworkStep \/ SpillStep THEN Closer
       ELSE Emit \/ UNCHANGED <<batch, buffer, rangeVars, pc, windowVars>>]_vars

\* An attempt of close() never leaves more to deliver than it found, so that the
\* drain loop, where an attempt that moved nothing is counted and one that moved
\* something is not, comes to its end.
AttemptNeverGrows == closePc = "attempt" => Work <= before

-----------------------------------------------------------------------------
(* Liveness                                                                 *)

\* Every flush ends, whatever the api and the disk answer: no sequence of
\* splits, bisections and tombstones goes on forever.
FlushTerminates == pc # "idle" ~> pc = "idle"


\* With a disk and a network that heal, a spilled batcher is re-armed, unless it
\* is closed or a record has dropped out of the drainer's sight (see
\* EveryRecordPending).
RearmsAfterOutage ==
  DiskHeals /\ DrainHeals => (spilled ~> (~spilled \/ closed \/ ~EveryRecordPending))

\* A record written under a claim that has been superseded is retired by the
\* drainer, which counts it in stale_retired.
StaleRecordsRetire ==
  (\E rec \in records : rec.gen # claimGen) ~> (\A rec \in records : rec.gen = claimGen)
=============================================================================
