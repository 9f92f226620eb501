-------------------------------- MODULE Outbox --------------------------------
(***************************************************************************)
(* The worker's durable outbox for one run (agent/src/outbox.ts): the       *)
(* manifest's records and cursor, the spilled_unclean flag, quota eviction, *)
(* and the per-worker drainer that replays the records (agent/src/worker.ts *)
(* drainOutbox with replaySegment of agent/src/batcher.ts).                 *)
(*                                                                         *)
(* Every mutation runs under the run's lock and takes effect when the next  *)
(* manifest generation is installed, so an append, an eviction or a mark is *)
(* one step that needs the lock free. A drain holds the lock from its first *)
(* record to its last and is a step per record.                             *)
(***************************************************************************)
EXTENDS RunMessages

CONSTANT
  QuotaBinds        \* TRUE: the run or worker quota may force evictions

ASSUME QuotaAssumption == QuotaBinds \in BOOLEAN

VARIABLES
  records,     \* the manifest's records
  cursor,      \* the manifest's cursor: highest lastSeq retired
  unclean,     \* the manifest's spilledUnclean
  draining,    \* drainRun holds the run's lock
  drainSet     \* the pending records drainRun captured and has not handled yet

outboxVars == <<records, cursor, unclean, draining, drainSet>>
manifestVars == <<records, cursor, unclean>>

Record == [kind : {"segment", "range"}, firstSeq : Nat \ {0}, lastSeq : Nat \ {0},
           gen : Nat, items : SUBSET Item]

Segment(items, first, last, gen) ==
  [kind |-> "segment", firstSeq |-> first, lastSeq |-> last, gen |-> gen, items |-> items]
RangeRecord(first, last, gen) ==
  [kind |-> "range", firstSeq |-> first, lastSeq |-> last, gen |-> gen, items |-> {}]

RecordSeqs(rec) == IF rec.kind = "segment" THEN SeqsOf(rec.items) ELSE rec.firstSeq .. rec.lastSeq

LockFree == ~draining

\* The records a drain would visit.
Pending == {rec \in records : rec.lastSeq > cursor}

-----------------------------------------------------------------------------
(* Quota: the oldest segments give way to range records over the same seqs. *)

Segments == {rec \in records : rec.kind = "segment"}

OldestFirst(E) == \A old \in E, kept \in Segments \ E : old.firstSeq <= kept.firstSeq

EvictSegments(E) ==
  (records \ E) \cup {RangeRecord(rec.firstSeq, rec.lastSeq, rec.gen) : rec \in E}

Evictable == {E \in SUBSET Segments : (QuotaBinds \/ E = {}) /\ OldestFirst(E)}

\* An append of another run finds this run's lock free and takes its oldest segment.
OtherRunEvicts ==
  /\ LockFree
  /\ \E E \in Evictable : Cardinality(E) = 1 /\ records' = EvictSegments(E)
  /\ UNCHANGED <<serverVars, cursor, unclean, draining, drainSet>>

-----------------------------------------------------------------------------
(* Writes. Quota eviction comes first and stands even if the write fails.   *)

AppendSegment(items, first, last, gen) ==
  /\ LockFree
  /\ \E E \in Evictable : records' = EvictSegments(E) \cup {Segment(items, first, last, gen)}
  /\ UNCHANGED <<cursor, unclean>>

AppendSegmentFails ==
  /\ \E E \in Evictable : (E # {} => LockFree) /\ records' = EvictSegments(E)
  /\ UNCHANGED <<cursor, unclean>>

AppendRangeRecord(first, last, gen) ==
  /\ LockFree
  /\ records' = records \cup {RangeRecord(first, last, gen)}
  /\ UNCHANGED <<cursor, unclean>>

MarkSpillUnclean == LockFree /\ unclean' = TRUE /\ UNCHANGED <<records, cursor>>
ClearSpillUnclean == LockFree /\ unclean' = FALSE /\ UNCHANGED <<records, cursor>>

-----------------------------------------------------------------------------
(* drainRun, one record at a time in ascending firstSeq.                    *)

DrainStart ==
  /\ ~draining
  /\ Pending # {}
  /\ draining' = TRUE
  /\ drainSet' = Pending
  /\ UNCHANGED <<serverVars, manifestVars>>

NextToDrain(rec) == rec \in drainSet /\ \A other \in drainSet : rec.firstSeq <= other.firstSeq

\* replaySegment tombstones what the api refuses alone; a range is all markers.
GapTombstones(first, last) == [seq : first .. last, class : {"dropped"}, tombstoned : {TRUE}]
Replayed(it) == IF TooLargeAlone(it) \/ Unstorable(it) THEN [it EXCEPT !.tombstoned = TRUE] ELSE it
ReplayItems(rec) ==
  IF rec.kind = "segment" THEN {Replayed(it) : it \in rec.items}
  ELSE GapTombstones(rec.firstSeq, rec.lastSeq)

Replayable(rec) == GenerationLive(rec.gen) /\ \A it \in ReplayItems(rec) : ~Unstorable(it)

\* replayRecord succeeds and retireRecord installs the manifest without the record.
DrainRecord ==
  /\ draining
  /\ \E rec \in drainSet :
       /\ NextToDrain(rec)
       /\ Replayable(rec)
       /\ AppendMessages(ReplayItems(rec), rec.gen)
       /\ records' = records \ {rec}
       /\ cursor' = IF rec.lastSeq > cursor THEN rec.lastSeq ELSE cursor
       /\ drainSet' = drainSet \ {rec}
  /\ UNCHANGED <<unclean, draining>>

\* A send throws part-way, or the retiring manifest write does: the drain stops,
\* what was sent stays sent, and no record leaves the manifest.
DrainStops ==
  /\ draining
  /\ \E rec \in drainSet :
       /\ NextToDrain(rec)
       /\ \/ UNCHANGED serverVars
          \/ /\ GenerationLive(rec.gen)
             /\ \E upTo \in SeqsOf(ReplayItems(rec)) :
                  LET sent == {it \in ReplayItems(rec) : it.seq <= upTo}
                  IN  /\ \A it \in sent : ~Unstorable(it)
                      /\ AppendMessages(sent, rec.gen)
  /\ draining' = FALSE
  /\ drainSet' = {}
  /\ UNCHANGED manifestVars

\* The drain has handled every record it captured.
DrainDone == draining /\ drainSet = {}
DrainRetired == records = {}
DrainEnd ==
  /\ DrainDone
  /\ draining' = FALSE
  /\ UNCHANGED <<serverVars, manifestVars, drainSet>>
=============================================================================
