-------------------------------- MODULE RunLog --------------------------------
(***************************************************************************)
(* What the message path promises about a run's transcript, with nothing    *)
(* said of batches, retries, disks or crashes. A transcript is a set of     *)
(* rows. The claim that is live may add rows under seqs that are free and   *)
(* lie above everything stored when it was claimed; nobody else may add     *)
(* any, and no row is ever changed or removed. Rows need not arrive in the  *)
(* order of their seqs.                                                     *)
(*                                                                         *)
(* MessagePath implements this module; RunStream reads a transcript of      *)
(* which it assumes no more than this.                                      *)
(***************************************************************************)
EXTENDS Naturals

VARIABLES
  log,     \* the rows: records with at least a seq and the gen that wrote them
  live,    \* the generation of the live claim
  floor    \* the highest seq stored when the live claim was made, 0 if none

logVars == <<log, live, floor>>

LogInit == log = {} /\ live = 1 /\ floor = 0

LogSeqs == {r.seq : r \in log}

\* The live claim stores the rows of new, all of them or none.
Write(new) ==
  /\ \A r \in new : r.gen = live /\ r.seq > floor /\ r.seq \notin LogSeqs
  /\ \A r, s \in new : r.seq = s.seq => r = s
  /\ log' = log \cup new
  /\ UNCHANGED <<live, floor>>

\* The run is claimed anew.
Claim ==
  /\ live' = live + 1
  /\ floor' \in LogSeqs \cup {0}
  /\ \A s \in LogSeqs : s <= floor'
  /\ UNCHANGED log

LogNext == Write(log' \ log) \/ Claim
LogSpec == LogInit /\ [][LogNext]_logVars
=============================================================================
