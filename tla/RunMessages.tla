----------------------------- MODULE RunMessages -----------------------------
(***************************************************************************)
(* The api's side of the message path, for one run: the rows of            *)
(* run_messages, runs.last_seq, and the claim generation that fences        *)
(* writers (api/internal/workersvc/usage_fold.go, the worker-protocol       *)
(* handler and the InsertRunMessage / UpdateRunLastSeq queries).            *)
(*                                                                         *)
(* A message is abstracted to its seq, to what the api will say of its      *)
(* payload, and to whether the worker has replaced the payload by a marker: *)
(*   clean    stored as it is                                               *)
(*   poison   refused permanently (400) until it is replaced by a marker    *)
(*   big      refused as too large (413) even alone, until replaced         *)
(*   cursed   refused permanently, and so is its marker (the cause is not   *)
(*            the payload: a seq outside int32, for one)                    *)
(*   huge     above the worker's own cap, replaced by a marker at emit      *)
(*   dropped  never kept: the marker stands for a spilled-over message      *)
(***************************************************************************)
EXTENDS Naturals, Sequences, FiniteSets, Functions

CONSTANT
  BodyCapBinds      \* TRUE: a body of several messages may be over the api's byte cap

ASSUME BodyCapAssumption == BodyCapBinds \in BOOLEAN

VARIABLES
  rows,        \* run_messages: at most one row per seq
  lastSeq,     \* runs.last_seq
  claimGen     \* the claim generation the api holds live for the run

serverVars == <<rows, lastSeq, claimGen>>

Class == {"clean", "poison", "big", "cursed", "huge", "dropped"}
Item == [seq : Nat \ {0}, class : Class, tombstoned : BOOLEAN]
Row == [seq : Nat \ {0}, class : Class, tombstoned : BOOLEAN, gen : Nat]

SeqsOf(S) == {it.seq : it \in S}
StoredSeqs == SeqsOf(rows)

\* One row per (run_id, seq): a seq that is already stored keeps its first row.
InsertRunMessage(S, gen) ==
  rows \cup {[seq |-> it.seq, class |-> it.class, tombstoned |-> it.tombstoned, gen |-> gen] :
               it \in {i \in S : i.seq \notin StoredSeqs}}

\* The high-water mark advances to the highest seq of the batch and never regresses.
UpdateRunLastSeq(S) ==
  lastSeq' \in {n \in {lastSeq} \cup SeqsOf(S) : \A m \in {lastSeq} \cup SeqsOf(S) : m <= n}

\* The transaction of appendMessages: every message of the batch or none.
AppendMessages(S, gen) ==
  /\ rows' = InsertRunMessage(S, gen)
  /\ UpdateRunLastSeq(S)
  /\ UNCHANGED claimGen

\* What the api says of one message whatever batch it is in.
TooLargeAlone(it) == it.class = "big" /\ ~it.tombstoned
Unstorable(it) == \/ it.class = "poison" /\ ~it.tombstoned
                  \/ it.class = "cursed"

TooLarge(S) == \E it \in S : TooLargeAlone(it)

\* mutant: the fence of InsertRunMessage is missing
GenerationUnchecked(gen) == TRUE

GenerationLive(gen) == gen = claimGen

(***************************************************************************)
(* The answers a batch can get, as the worker's classify() reads them.      *)
(* A body over the cap is refused before anything else is looked at; bytes  *)
(* are not modelled, so any body of several messages may be over it. An     *)
(* unstorable message and a lost claim can each be what the transaction     *)
(* meets first. A worker whose token is refused (401, 403) is left out: for *)
(* the batcher that is as fatal as a lost claim.                            *)
(***************************************************************************)
Accepts(S, gen) == ~TooLarge(S) /\ GenerationLive(gen) /\ \A it \in S : ~Unstorable(it)
SaysOversize(S) == TooLarge(S) \/ (BodyCapBinds /\ \E a, b \in S : a # b)
SaysPermanent(S) == ~TooLarge(S) /\ \E it \in S : Unstorable(it)
SaysFatal(S, gen) == ~TooLarge(S) /\ ~GenerationLive(gen)

\* A request that fails in transport, or whose answer is a 5xx: the batch may
\* have been committed all the same, and the worker cannot tell.
TransientFailure(S, gen) ==
  \/ UNCHANGED serverVars
  \/ Accepts(S, gen) /\ AppendMessages(S, gen)

\* The run is re-claimed, or its claim released: the generation moves on.
LoseClaim == claimGen' = claimGen + 1 /\ UNCHANGED <<rows, lastSeq>>
=============================================================================
