------------------------------ MODULE MessagePath ------------------------------
(***************************************************************************)
(* The message path across the lives of a worker: the batcher, its outbox   *)
(* and the api, with a crash of the worker at any step and the re-claims    *)
(* that follow a crash or a close. The outbox's manifest and the api's      *)
(* tables survive; everything else the worker held is gone.                 *)
(***************************************************************************)
EXTENDS MessageBatcher

\* A batcher as its constructor leaves it, for a claim whose last_seq is s.
FreshBatcher(s, gen) ==
  /\ seq' = s /\ base' = s /\ generation' = gen
  /\ buffer' = <<>> /\ batch' = <<>> /\ rangeFirst' = 0 /\ rangeLast' = 0 /\ writeLast' = 0
  /\ pc' = "idle" /\ NoWindow /\ splitLimit' = 0
  /\ failing' = FALSE /\ tripped' = FALSE /\ tripSeq' = 0 /\ spilled' = FALSE
  /\ timer' = FALSE /\ aborted' = FALSE
  /\ tombstoned' = {} /\ tombstoneOverflow' = FALSE
  /\ journalOnly' = {} /\ journalOnlyOverflow' = FALSE
  /\ failed' = 0 /\ before' = 0
  /\ discarded' = {} /\ forgotten' = {} /\ shadowed' = {}

\* The worker dies: a drain in progress dies with it, and with it the lock.
Crash ==
  /\ closePc \notin CloseEnds
  /\ FreshBatcher(base, generation)
  /\ closed' = TRUE /\ closePc' = "expired"
  /\ draining' = FALSE /\ drainSet' = {}
  /\ UNCHANGED <<serverVars, manifestVars>>

\* The run is claimed again: a new generation, numbering on from the api's last_seq.
Reclaim ==
  /\ closePc \in CloseEnds
  /\ claimGen < MaxGen
  /\ claimGen' = claimGen + 1
  /\ FreshBatcher(lastSeq, claimGen + 1)
  /\ closed' = FALSE /\ closePc' = "open"
  /\ UNCHANGED <<rows, lastSeq, outboxVars>>

PathNext == Next \/ Crash \/ Reclaim
PathSpec == Init /\ [][PathNext]_vars

-----------------------------------------------------------------------------
(* Properties                                                               *)

\* Every row above the seq a claim started from was written by that claim: the
\* generation fence keeps a crashed worker's records, still in the outbox and
\* still drained, from taking seqs the new claim is about to use.
FenceSound == \A r \in rows : r.seq > base => r.gen = generation

\* The transcript this path writes to is a RunLog: the floor is the seq the live
\* claim started from, or what the api holds while nobody has resumed the run.
Transcript ==
  INSTANCE RunLog WITH log <- rows, live <- claimGen,
                       floor <- IF generation = claimGen THEN base ELSE lastSeq

\* Whatever is retried, split, spilled, drained twice or interrupted by a crash,
\* the transcript only grows, one row per seq, written by the live claim above
\* everything earlier claims stored.
ImplementsRunLog == Transcript!LogSpec
=============================================================================
