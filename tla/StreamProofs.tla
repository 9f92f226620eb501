----------------------------- MODULE StreamProofs -----------------------------
(***************************************************************************)
(* Proofs about the live view of a run, for any number of runs, rows,       *)
(* versions, replays and visits and any buffer: the list on display is a    *)
(* prefix of the transcript, evidence that is declared complete is, and the *)
(* status on display never goes back.                                       *)
(***************************************************************************)
EXTENDS RunStream, SequenceTheorems, TLAPS

-----------------------------------------------------------------------------
(* Reads in flight                                                          *)

\* p is q, fenced by nothing less.
Lowered(p, q) ==
  /\ p.kind = q.kind /\ p.how = q.how /\ p.run = q.run /\ p.after = q.after
  /\ p.answered = q.answered /\ p.batch = q.batch /\ p.version = q.version
  /\ (p.genOk => q.genOk) /\ (p.epochOk => q.epochOk) /\ (p.ticketOk => q.ticketOk)

\* A read of run r just started, for what lies above n.
Fresh(p, r, n) == p.run = r /\ p.after = n /\ ~p.answered /\ p.batch = {} /\ p.version = 0

OneRunRead(R) == \A p, q \in R : p.kind = "run" /\ q.kind = "run" => p = q

LEMMA NewReadOK ==
  ASSUME NEW kind \in {"replay", "run"}, NEW how \in {"plain", "onKinds"}, NEW r \in Runs, NEW n \in Nat
  PROVE  /\ NewRead(kind, how, r, n) \subseteq Read
         /\ \A p \in NewRead(kind, how, r, n) : Fresh(p, r, n) /\ p.kind = kind /\ p.genOk
         /\ \A p, q \in NewRead(kind, how, r, n) : p = q
BY DEF NewRead, Read, Fresh

\* Fencing takes reads to reads of which nothing but the fences has changed.
LEMMA StaleEpochOK ==
  ASSUME NEW R \in SUBSET Read
  PROVE  /\ StaleEpoch(R) \subseteq Read
         /\ \A p \in StaleEpoch(R) : ~p.epochOk /\ \E q \in R : Lowered(p, q)
         /\ OneRunRead(R) => OneRunRead(StaleEpoch(R))
<1>1. \A q \in R : /\ [q EXCEPT !.epochOk = FALSE] \in Read
                   /\ ~[q EXCEPT !.epochOk = FALSE].epochOk
                   /\ Lowered([q EXCEPT !.epochOk = FALSE], q)
  BY Zenon DEF Read, Lowered
<1>2. \A p \in StaleEpoch(R) : \E q \in R : p = [q EXCEPT !.epochOk = FALSE] /\ p.kind = q.kind
  BY <1>1, Zenon DEF StaleEpoch, Lowered
<1>3. ASSUME NEW p \in StaleEpoch(R)
      PROVE  p \in Read /\ ~p.epochOk /\ \E q \in R : Lowered(p, q)
  <2>1. PICK q \in R : p = [q EXCEPT !.epochOk = FALSE]
    BY <1>2
  <2> QED BY <1>1, <2>1
<1>4. ASSUME OneRunRead(R), NEW p \in StaleEpoch(R), NEW s \in StaleEpoch(R), p.kind = "run", s.kind = "run"
      PROVE  p = s
  <2>1. PICK q \in R : p = [q EXCEPT !.epochOk = FALSE] /\ q.kind = "run"
    BY <1>2, <1>4
  <2>2. PICK t \in R : s = [t EXCEPT !.epochOk = FALSE] /\ t.kind = "run"
    BY <1>2, <1>4
  <2>3. q = t
    BY <1>4, <2>1, <2>2 DEF OneRunRead
  <2> QED BY <2>1, <2>2, <2>3
<1> QED BY <1>3, <1>4 DEF OneRunRead

LEMMA StaleGenerationOK ==
  ASSUME NEW R \in SUBSET Read
  PROVE  /\ StaleGeneration(R) \subseteq Read
         /\ \A p \in StaleGeneration(R) : ~p.genOk /\ \E q \in R : Lowered(p, q)
<1>1. \A q \in R : /\ [q EXCEPT !.genOk = FALSE, !.epochOk = FALSE] \in Read
                   /\ ~[q EXCEPT !.genOk = FALSE, !.epochOk = FALSE].genOk
                   /\ Lowered([q EXCEPT !.genOk = FALSE, !.epochOk = FALSE], q)
  BY Zenon DEF Read, Lowered
<1>2. \A p \in StaleGeneration(R) : \E q \in R : p = [q EXCEPT !.genOk = FALSE, !.epochOk = FALSE]
  BY Zenon DEF StaleGeneration
<1>3. ASSUME NEW p \in StaleGeneration(R)
      PROVE  p \in Read /\ ~p.genOk /\ \E q \in R : Lowered(p, q)
  <2>1. PICK q \in R : p = [q EXCEPT !.genOk = FALSE, !.epochOk = FALSE]
    BY <1>2, Zenon
  <2> QED BY <1>1, <2>1, Zenon
<1> QED BY <1>3

LEMMA StaleReplaysOK ==
  ASSUME NEW R \in SUBSET Read
  PROVE  /\ StaleReplays(R) \subseteq Read
         /\ \A p \in StaleReplays(R) : /\ p.kind = "replay" => ~p.ticketOk
                                       /\ \E q \in R : Lowered(p, q) /\ (p.kind = "run" => p = q)
         /\ OneRunRead(R) => OneRunRead(StaleReplays(R))
<1>1. \A q \in R : /\ [q EXCEPT !.ticketOk = FALSE] \in Read
                   /\ ~[q EXCEPT !.ticketOk = FALSE].ticketOk
                   /\ [q EXCEPT !.ticketOk = FALSE].kind = q.kind
                   /\ Lowered([q EXCEPT !.ticketOk = FALSE], q) /\ Lowered(q, q)
  BY Zenon DEF Read, Lowered
<1>2. \A p \in StaleReplays(R) : \E q \in R : p = IF q.kind = "replay" THEN [q EXCEPT !.ticketOk = FALSE] ELSE q
  BY DEF StaleReplays
<1>3. ASSUME NEW p \in StaleReplays(R)
      PROVE  /\ p \in Read /\ (p.kind = "replay" => ~p.ticketOk)
             /\ \E q \in R : Lowered(p, q) /\ (p.kind = "run" => p = q)
  <2>1. PICK q \in R : p = IF q.kind = "replay" THEN [q EXCEPT !.ticketOk = FALSE] ELSE q
    BY <1>2
  <2>2. CASE q.kind = "replay"
    BY <1>1, <2>1, <2>2
  <2>3. CASE q.kind # "replay"
    BY <1>1, <2>1, <2>3, Zenon
  <2> QED BY <2>2, <2>3
<1>4. OneRunRead(R) => OneRunRead(StaleReplays(R))
  BY <1>3 DEF OneRunRead
<1> QED BY <1>3, <1>4

\* A read of the run supersedes every other one.
LEMMA ReadRunOK ==
  ASSUME NEW R \in SUBSET Read, NEW r \in Runs
  PROVE  /\ ReadRun(R, r) \subseteq Read /\ OneRunRead(ReadRun(R, r))
         /\ \A p \in ReadRun(R, r) : \/ p.kind = "run" /\ p.genOk /\ Fresh(p, r, 0)
                                     \/ p \in R /\ p.kind = "replay"
<1>1. \A p \in NewRead("run", "plain", r, 0) : Fresh(p, r, 0) /\ p.kind = "run" /\ p \in Read /\ p.genOk
  BY NewReadOK
<1>2. \A p \in StaleRunReads(R) : p \in R /\ p.kind = "replay"
  BY DEF StaleRunReads
<1>3. \A p, q \in NewRead("run", "plain", r, 0) : p = q
  BY Zenon DEF NewRead
<1> QED BY <1>1, <1>2, <1>3 DEF ReadRun, OneRunRead

\* A replay takes the ticket from every other one.
LEMMA ReplayReadsOK ==
  ASSUME NEW R \in SUBSET Read, NEW how \in {"plain", "onKinds"}, NEW r \in Runs, NEW n \in Nat
  PROVE  /\ Replay(R, how, r, n) \subseteq Read
         /\ \A p \in Replay(R, how, r, n) :
              \/ p.kind = "replay" /\ p.genOk /\ Fresh(p, r, n)
              \/ (p.kind = "replay" => ~p.ticketOk) /\ \E q \in R : Lowered(p, q) /\ (p.kind = "run" => p = q)
         /\ OneRunRead(R) => OneRunRead(Replay(R, how, r, n))
<1>1. \A p \in NewRead("replay", how, r, n) : Fresh(p, r, n) /\ p.kind = "replay" /\ p \in Read /\ p.genOk
  BY NewReadOK
<1>2. \A p \in StaleReplays(R) : /\ p \in Read /\ (p.kind = "replay" => ~p.ticketOk)
                                 /\ \E q \in R : Lowered(p, q) /\ (p.kind = "run" => p = q)
  BY StaleReplaysOK
<1>3. OneRunRead(R) => OneRunRead(StaleReplays(R))
  BY StaleReplaysOK
<1>4. OneRunRead(R) => OneRunRead(Replay(R, how, r, n))
  BY <1>1, <1>3 DEF Replay, OneRunRead
<1> QED BY <1>1, <1>2, <1>4 DEF Replay

-----------------------------------------------------------------------------
(* The merge                                                                *)

Row(r, s) == [run |-> r, seq |-> s]
Rows(r) == {Row(r, s) : s \in log[r]}
Prefix(r, n) == [i \in 1 .. n |-> Row(r, i)]

\* A prefix and what follows it make a longer prefix.
LEMMA PrefixGrows ==
  ASSUME NEW r, NEW k \in Nat, NEW d \in Nat
  PROVE  Prefix(r, k) \o [i \in 1 .. d |-> Row(r, k + i)] = Prefix(r, k + d)
<1> DEFINE M == Prefix(r, k)
           D == [i \in 1 .. d |-> Row(r, k + i)]
           All == {Row(r, i) : i \in Nat}
<1>1. M \in Seq(All) /\ Len(M) = k /\ \A i \in 1 .. k : M[i] = Row(r, i)
  BY DEF Prefix
<1>2. D \in Seq(All) /\ Len(D) = d /\ \A i \in 1 .. d : D[i] = Row(r, k + i)
  OBVIOUS
<1> HIDE DEF M, D, All
<1>3. /\ M \o D \in Seq(All) /\ Len(M \o D) = k + d
      /\ \A i \in 1 .. k + d : (M \o D)[i] = IF i <= k THEN M[i] ELSE D[i - k]
  BY <1>1, <1>2, ConcatProperties, Zenon
<1>4. ASSUME NEW i \in 1 .. k + d
      PROVE  (M \o D)[i] = Row(r, i)
  <2>1. CASE i <= k
    BY <1>1, <1>3, <2>1
  <2>2. CASE i > k
    <3>1. i - k \in 1 .. d /\ k + (i - k) = i
      BY <2>2
    <3>2. (M \o D)[i] = D[i - k]
      BY <1>3, <2>2
    <3>3. D[i - k] = Row(r, k + (i - k))
      BY <1>2, <3>1
    <3> QED BY <3>1, <3>2, <3>3, Zenon
  <2>3. i <= k \/ i > k
    OBVIOUS
  <2> QED BY <2>1, <2>2, <2>3, Zenon
<1>5. Prefix(r, k + d) \in Seq(All) /\ Len(Prefix(r, k + d)) = k + d
      /\ \A i \in 1 .. k + d : Prefix(r, k + d)[i] = Row(r, i)
  BY DEF Prefix, All
<1>6. M \o D = Prefix(r, k + d)
  BY <1>3, <1>4, <1>5, SeqEqual, Zenon
<1> QED BY <1>6, Zenon DEF M, D

\* What the list shows and what waits are rows of the run on display.
Merged ==
  /\ lastSeq \in Nat /\ log[cur] \subseteq Nat \ {0}
  /\ messages = Prefix(cur, lastSeq) /\ 1 .. lastSeq \subseteq log[cur]
  /\ pending \subseteq Rows(cur) /\ \A m \in pending : m.seq > lastSeq

\* The seqs the view has.
Have == 1 .. lastSeq \cup SeqsIn(pending)

\* Ingesting rows of the run keeps it so, and adds their seqs.
LEMMA IngestMerges ==
  ASSUME Merged, NEW B \in SUBSET Rows(cur), Ingest(B), UNCHANGED <<log, cur>>
  PROVE  /\ Merged' /\ lastSeq <= lastSeq'
         /\ Have \cup SeqsIn(B) \subseteq Have'
<1> DEFINE avail == pending \cup {m \in B : m.seq > lastSeq /\ m.seq \notin SeqsIn(pending)}
<1>1. PICK n \in lastSeq .. lastSeq + Cardinality(avail) :
        /\ \A s \in lastSeq + 1 .. n : s \in SeqsIn(avail)
        /\ messages' = messages \o [i \in 1 .. n - lastSeq |-> CHOOSE m \in avail : m.seq = lastSeq + i]
        /\ lastSeq' = n
        /\ pending' = {m \in avail : m.seq > n}
  BY Zenon DEF Ingest
<1>2. lastSeq \in Nat /\ n \in Nat /\ lastSeq <= n
  BY <1>1 DEF Merged
<1>3. \A m \in Rows(cur) : m = Row(cur, m.seq) /\ m.seq \in log[cur] /\ m.seq \in Nat \ {0}
  BY DEF Rows, Row, Merged
<1>4. avail \subseteq Rows(cur)
  BY DEF Merged
<1>5. \A s \in SeqsIn(pending) \cup SeqsIn(B) : s \in SeqsIn(avail) \/ s <= lastSeq
  <2>1. \A m \in B : m.seq \in Nat
    BY <1>3
  <2> QED BY <1>2, <2>1 DEF SeqsIn
<1> HIDE DEF avail
<1>6. \A i \in 1 .. n - lastSeq : (CHOOSE m \in avail : m.seq = lastSeq + i) = Row(cur, lastSeq + i)
  <2> SUFFICES ASSUME NEW i \in 1 .. n - lastSeq
               PROVE  (CHOOSE m \in avail : m.seq = lastSeq + i) = Row(cur, lastSeq + i)
    OBVIOUS
  <2>1. lastSeq + i \in lastSeq + 1 .. n
    BY <1>2
  <2>2. \E m \in avail : m.seq = lastSeq + i
    BY <1>1, <2>1 DEF SeqsIn
  <2> DEFINE c == CHOOSE m \in avail : m.seq = lastSeq + i
  <2>3. c \in avail /\ c.seq = lastSeq + i
    BY <2>2
  <2> QED BY <1>3, <1>4, <2>3
<1>7. messages' = Prefix(cur, n)
  <2>1. n - lastSeq \in Nat /\ lastSeq + (n - lastSeq) = n
    BY <1>2
  <2>2. [i \in 1 .. n - lastSeq |-> CHOOSE m \in avail : m.seq = lastSeq + i]
        = [i \in 1 .. n - lastSeq |-> Row(cur, lastSeq + i)]
    BY <1>6
  <2>3. messages' = Prefix(cur, lastSeq) \o [i \in 1 .. n - lastSeq |-> Row(cur, lastSeq + i)]
    BY <1>1, <2>2, Zenon DEF Merged
  <2> QED BY <1>2, <2>1, <2>3, PrefixGrows, Zenon
<1>8. \A s \in SeqsIn(avail) : s \in log[cur]
  BY <1>3, <1>4 DEF SeqsIn
<1>9. 1 .. n \subseteq log[cur]
  <2>1. \A s \in 1 .. n : s \in 1 .. lastSeq \/ s \in lastSeq + 1 .. n
    BY <1>2
  <2> QED BY <1>1, <1>8, <2>1 DEF Merged
<1>10. Merged'
  <2>1. pending' \subseteq Rows(cur) /\ \A m \in pending' : m.seq > n
    BY <1>1, <1>4
  <2>2. Rows(cur)' = Rows(cur)
    BY DEF Rows
  <2> QED BY <1>1, <1>2, <1>7, <1>9, <2>1, <2>2, Zenon DEF Merged
<1>11. SeqsIn(avail) \subseteq 1 .. n \cup SeqsIn(pending')
  <2>1. \A m \in avail : m.seq \in Nat \ {0}
    BY <1>3, <1>4
  <2>2. \A m \in avail : m.seq \in 1 .. n \/ m \in pending'
    BY <1>1, <1>2, <2>1
  <2> QED BY <2>2 DEF SeqsIn
<1>12. \A s \in SeqsIn(pending) \cup SeqsIn(B) : s \in Nat \ {0}
  BY <1>3 DEF SeqsIn, Merged
<1>13. \A s \in Have \cup SeqsIn(B) : s \in 1 .. lastSeq \/ s \in SeqsIn(avail)
  BY <1>2, <1>5, <1>12 DEF Have
<1>14. 1 .. lastSeq \subseteq 1 .. n
  BY <1>2
<1> QED BY <1>1, <1>2, <1>10, <1>11, <1>13, <1>14, Zenon DEF Have

-----------------------------------------------------------------------------
(* Where what is in flight comes from                                       *)

\* A frame of the socket in use is about the run on display; a message frame tells
\* of a row that is stored.
FrameOK(f, L) == f \in Frame /\ (f.type = "message" => f.seq \in L[f.run])
FramesOK ==
  /\ \A f \in unpublished : FrameOK(f, log)
  /\ queue \in Seq(Frame)
  /\ \A i \in 1 .. Len(queue) : FrameOK(queue[i], log) /\ (queue[i].active => queue[i].run = cur)

\* A read of this visit is about the run on display, and has brought rows of its run.
ReadOK(q) ==
  /\ q \in Read /\ (q.genOk => q.run = cur)
  /\ \A m \in q.batch : m \in Rows(q.run)
ReadsOK == \A q \in reads : ReadOK(q)

ViewOK ==
  /\ version \in [Runs -> Nat] /\ visits \in Nat
  /\ server \in {"none", "accepted", "subscribed"} /\ shown \in Nat
  /\ metadata \in BOOLEAN /\ replayed \in BOOLEAN /\ metaVersion \in Nat
  /\ socket \in {"none", "connecting", "open"} /\ reconnect \in BOOLEAN /\ catchup \in BOOLEAN
  /\ due \subseteq Nat \ {0}
LogOK == cur \in Runs /\ log \in [Runs -> SUBSET (Nat \ {0})]

SInv == LogOK /\ ViewOK /\ Merged /\ FramesOK /\ ReadsOK

\* One run read at most is in flight; what it has brought is no older than what is
\* on display.
StatusInv ==
  /\ OneRunRead(reads) /\ shown <= version[cur]
  /\ \A q \in reads : q.kind = "run" /\ q.genOk /\ q.answered => shown <= q.version /\ q.version <= version[cur]

\* What a replay that may certify has brought, or will bring, covers what was due
\* when the view last had reason to look, with what the view has already.
CompleteInv ==
  /\ due \subseteq log[cur] /\ (replayed => due \subseteq Have)
  /\ \A q \in reads : q.kind = "replay" /\ Current(q) =>
       IF q.answered THEN due \subseteq Have \cup SeqsIn(q.batch) ELSE q.after <= lastSeq

-----------------------------------------------------------------------------
(* What a step may do to the reads in flight, but for answering one: start  *)
(* reads of the run on display, fence or drop others. Where the view gets a *)
(* new reason to look, no replay stays current but one started there.       *)

ReadsStep ==
  /\ reads' \subseteq Read /\ (OneRunRead(reads) => OneRunRead(reads'))
  /\ \A p \in reads' : \/ p.kind = "run" /\ p.genOk /\ Fresh(p, cur', 0)
                       \/ p.kind = "replay" /\ Fresh(p, cur', lastSeq')
                       \/ \E q \in reads : Lowered(p, q) /\ (cur' = cur \/ (p.kind = "replay" /\ ~p.genOk))

LooksAgain == \A p \in reads' : p.kind = "replay" /\ Current(p) => Fresh(p, cur', lastSeq')

LEMMA LoweredSelf ==
  ASSUME NEW p
  PROVE  Lowered(p, p)
BY DEF Lowered

LEMMA LoweredTwice ==
  ASSUME NEW p, NEW q, NEW s, Lowered(p, q), Lowered(q, s)
  PROVE  Lowered(p, s)
BY DEF Lowered

LEMMA DropsReads ==
  ASSUME reads \subseteq Read, reads' \subseteq reads, cur' = cur
  PROVE  ReadsStep
BY LoweredSelf DEF ReadsStep, OneRunRead

\* The run is read again, after replays may have been fenced.
LEMMA ReadsRunAgain ==
  ASSUME LogOK, NEW R \in SUBSET Read, reads' = ReadRun(R, cur), cur' = cur,
         \A p \in R : \E q \in reads : Lowered(p, q)
  PROVE  ReadsStep
<1>1. /\ reads' \subseteq Read /\ OneRunRead(reads')
      /\ \A p \in reads' : (p.kind = "run" /\ p.genOk /\ Fresh(p, cur, 0)) \/ p \in R
  BY ReadRunOK DEF LogOK
<1> QED BY <1>1 DEF ReadsStep

LEMMA CloseReads ==
  ASSUME reads \subseteq Read, reads' = StaleEpoch(reads), cur' = cur
  PROVE  ReadsStep
BY StaleEpochOK DEF ReadsStep

LEMMA GapReads ==
  ASSUME reads \subseteq Read, reads' = StaleReplays(reads), cur' = cur
  PROVE  ReadsStep /\ LooksAgain
<1>1. /\ reads' \subseteq Read /\ (OneRunRead(reads) => OneRunRead(reads'))
      /\ \A p \in reads' : (p.kind = "replay" => ~p.ticketOk) /\ \E q \in reads : Lowered(p, q)
  BY StaleReplaysOK
<1> QED BY <1>1 DEF ReadsStep, LooksAgain, Current

LEMMA GapRefreshReads ==
  ASSUME LogOK, reads \subseteq Read, reads' = ReadRun(StaleReplays(reads), cur), cur' = cur
  PROVE  ReadsStep /\ LooksAgain
<1>1. /\ StaleReplays(reads) \subseteq Read
      /\ \A p \in StaleReplays(reads) : (p.kind = "replay" => ~p.ticketOk) /\ \E q \in reads : Lowered(p, q)
  BY StaleReplaysOK
<1>2. \A p \in reads' : p.kind = "run" \/ p \in StaleReplays(reads)
  BY <1>1, ReadRunOK DEF LogOK
<1>3. LooksAgain
  BY <1>1, <1>2 DEF LooksAgain, Current
<1> QED BY <1>1, <1>3, ReadsRunAgain

LEMMA StateReads ==
  ASSUME LogOK, reads \subseteq Read, reads' = ReadRun(StaleReplays(StaleEpoch(reads)), cur), cur' = cur
  PROVE  ReadsStep /\ LooksAgain
<1> DEFINE E == StaleEpoch(reads)
           R == StaleReplays(E)
<1>1. E \subseteq Read /\ \A p \in E : \E q \in reads : Lowered(p, q)
  BY StaleEpochOK
<1> HIDE DEF E
<1>2. R \subseteq Read /\ \A p \in R : (p.kind = "replay" => ~p.ticketOk) /\ \E q \in E : Lowered(p, q)
  BY <1>1, StaleReplaysOK
<1> HIDE DEF R
<1>3. \A p \in R : \E q \in reads : Lowered(p, q)
  BY <1>1, <1>2, LoweredTwice
<1>4. reads' = ReadRun(R, cur)
  BY DEF R, E
<1>5. \A p \in reads' : p.kind = "run" \/ p \in R
  BY <1>2, <1>4, ReadRunOK DEF LogOK
<1>6. LooksAgain
  BY <1>2, <1>5 DEF LooksAgain, Current
<1> QED BY <1>2, <1>3, <1>4, <1>6, ReadsRunAgain

LEMMA CatchupReads ==
  ASSUME LogOK, reads \subseteq Read, reads' = Replay(reads, "onKinds", cur, lastSeq), lastSeq \in Nat,
         UNCHANGED <<cur, lastSeq>>
  PROVE  ReadsStep
<1>1. /\ reads' \subseteq Read /\ (OneRunRead(reads) => OneRunRead(reads'))
      /\ \A p \in reads' : \/ p.kind = "replay" /\ Fresh(p, cur, lastSeq)
                           \/ \E q \in reads : Lowered(p, q)
  BY ReplayReadsOK DEF LogOK
<1> QED BY <1>1 DEF ReadsStep

LEMMA OpenReads ==
  ASSUME LogOK, reads \subseteq Read, lastSeq \in Nat, UNCHANGED <<cur, lastSeq>>,
         reads' = ReadRun(Replay(StaleEpoch(reads), "plain", cur, lastSeq), cur)
  PROVE  ReadsStep /\ LooksAgain
<1> DEFINE E == StaleEpoch(reads)
           R == Replay(E, "plain", cur, lastSeq)
<1>1. E \subseteq Read /\ \A p \in E : \E q \in reads : Lowered(p, q)
  BY StaleEpochOK
<1> HIDE DEF E
<1>2. /\ R \subseteq Read
      /\ \A p \in R : \/ p.kind = "replay" /\ Fresh(p, cur, lastSeq)
                      \/ (p.kind = "replay" => ~p.ticketOk) /\ \E q \in E : Lowered(p, q)
  <2>1. "plain" \in {"plain", "onKinds"} /\ cur \in Runs
    BY DEF LogOK
  <2> QED BY <1>1, <2>1, ReplayReadsOK, Zenon
<1> HIDE DEF R
<1>3. reads' = ReadRun(R, cur)
  BY DEF R, E
<1>4. /\ reads' \subseteq Read /\ OneRunRead(reads')
      /\ \A p \in reads' : (p.kind = "run" /\ p.genOk /\ Fresh(p, cur, 0)) \/ (p \in R /\ p.kind = "replay")
  BY <1>2, <1>3, ReadRunOK DEF LogOK
<1>5. ASSUME NEW p \in reads', p.kind = "replay"
      PROVE  Fresh(p, cur, lastSeq) \/ (~p.ticketOk /\ \E q \in reads : Lowered(p, q))
  <2>1. p \in R
    BY <1>4, <1>5
  <2> QED BY <1>1, <1>2, <1>5, <2>1, LoweredTwice
<1>6. LooksAgain
  BY <1>5 DEF LooksAgain, Current
<1> QED BY <1>4, <1>5, <1>6 DEF ReadsStep

LEMMA NavigateReads ==
  ASSUME reads \subseteq Read, cur' \in Runs, lastSeq' = 0,
         reads' = Replay(ReadRun(StaleGeneration(reads), cur'), "plain", cur', 0)
  PROVE  ReadsStep /\ LooksAgain /\ OneRunRead(reads')
<1> DEFINE G == StaleGeneration(reads)
           R == ReadRun(G, cur')
<1>1. G \subseteq Read /\ \A p \in G : ~p.genOk /\ \E q \in reads : Lowered(p, q)
  BY StaleGenerationOK
<1> HIDE DEF G
<1>2. /\ R \subseteq Read /\ OneRunRead(R)
      /\ \A p \in R : (p.kind = "run" /\ p.genOk /\ Fresh(p, cur', 0)) \/ (p \in G /\ p.kind = "replay")
  BY <1>1, ReadRunOK
<1> HIDE DEF R
<1>3. reads' = Replay(R, "plain", cur', 0)
  BY DEF R, G
<1>4. /\ reads' \subseteq Read /\ OneRunRead(reads')
      /\ \A p \in reads' :
           \/ p.kind = "replay" /\ Fresh(p, cur', 0)
           \/ (p.kind = "replay" => ~p.ticketOk) /\ \E q \in R : Lowered(p, q) /\ (p.kind = "run" => p = q)
  BY <1>2, <1>3, ReplayReadsOK
<1>5. LooksAgain
  BY <1>4 DEF LooksAgain, Current
<1>6. ASSUME NEW p \in reads', ~(p.kind = "replay" /\ Fresh(p, cur', 0))
      PROVE  \/ p.kind = "run" /\ p.genOk /\ Fresh(p, cur', 0)
             \/ \E s \in reads : Lowered(p, s) /\ p.kind = "replay" /\ ~p.genOk
  <2>1. PICK q \in R : Lowered(p, q) /\ (p.kind = "run" => p = q)
    BY <1>4, <1>6
  <2>2. CASE q.kind = "run" /\ q.genOk /\ Fresh(q, cur', 0)
    BY <2>1, <2>2 DEF Lowered
  <2>3. CASE q \in G /\ q.kind = "replay"
    <3>1. PICK s \in reads : Lowered(q, s)
      BY <1>1, <2>3
    <3>2. p.kind = "replay" /\ ~p.genOk
      BY <1>1, <2>1, <2>3 DEF Lowered
    <3> QED BY <2>1, <3>1, <3>2, LoweredTwice
  <2> QED BY <1>2, <2>2, <2>3
<1> QED BY <1>4, <1>5, <1>6 DEF ReadsStep


-----------------------------------------------------------------------------
(* What each part of the invariant needs of a step                          *)

\* Transcripts and status versions only grow.
ApiGrows ==
  /\ log' \in [Runs -> SUBSET (Nat \ {0})] /\ \A r \in Runs : log[r] \subseteq log'[r]
  /\ version' \in [Runs -> Nat] /\ \A r \in Runs : version[r] <= version'[r]

LEMMA ApiStays ==
  ASSUME LogOK, ViewOK, UNCHANGED <<log, version>>
  PROVE  ApiGrows
BY DEF ApiGrows, LogOK, ViewOK

LEMMA RowsGrow ==
  ASSUME ApiGrows, NEW r \in Runs
  PROVE  Rows(r) \subseteq Rows(r)'
BY DEF ApiGrows, Rows

LEMMA ReadsKept ==
  ASSUME LogOK, ReadsOK, ApiGrows, cur' \in Runs, ReadsStep
  PROVE  ReadsOK'
<1> SUFFICES ASSUME NEW p \in reads'
             PROVE  ReadOK(p)'
  BY DEF ReadsOK
<1>1. p \in Read /\ p.run \in Runs
  BY DEF ReadsStep, Read
<1>2. CASE p.run = cur' /\ p.batch = {}
  BY <1>1, <1>2 DEF ReadOK
<1>3. CASE \E q \in reads : Lowered(p, q) /\ (cur' = cur \/ ~p.genOk)
  <2>1. PICK q \in reads : Lowered(p, q) /\ (cur' = cur \/ ~p.genOk)
    BY <1>3
  <2>2. /\ q \in Read /\ (q.genOk => q.run = cur) /\ \A m \in q.batch : m \in Rows(q.run)
        /\ p.run = q.run /\ p.batch = q.batch /\ (p.genOk => q.genOk)
    BY <2>1 DEF ReadsOK, ReadOK, Lowered
  <2>3. \A m \in p.batch : m \in Rows(p.run)'
    BY <1>1, <2>2, RowsGrow
  <2> QED BY <1>1, <2>1, <2>2, <2>3 DEF ReadOK
<1> QED BY <1>2, <1>3 DEF ReadsStep, Fresh

LEMMA FrameKept ==
  ASSUME ApiGrows, NEW f, FrameOK(f, log)
  PROVE  FrameOK(f, log')
<1>1. f \in Frame /\ f.run \in Runs
  BY DEF FrameOK, Frame
<1> QED BY <1>1 DEF FrameOK, ApiGrows

LEMMA FramesKept ==
  ASSUME FramesOK, ApiGrows, cur' = cur, unpublished' \subseteq unpublished,
         queue' \in {queue, <<>>} \/ (queue # <<>> /\ queue' = Tail(queue))
  PROVE  FramesOK'
<1>1. \A f \in unpublished' : FrameOK(f, log')
  BY FrameKept DEF FramesOK
<1>2. \A i \in 1 .. Len(queue) : FrameOK(queue[i], log') /\ (queue[i].active => queue[i].run = cur')
  BY FrameKept DEF FramesOK
<1>3. /\ queue' \in Seq(Frame)
      /\ \A i \in 1 .. Len(queue') : \E j \in 1 .. Len(queue) : queue'[i] = queue[j]
  <2>1. CASE queue' = <<>>
    BY <2>1
  <2>2. CASE queue' = queue
    BY <2>2 DEF FramesOK
  <2>3. CASE queue # <<>> /\ queue' = Tail(queue)
    <3>1. queue \in Seq(Frame)
      BY DEF FramesOK
    <3>2. /\ Tail(queue) \in Seq(Frame) /\ Len(Tail(queue)) = Len(queue) - 1 /\ Len(queue) \in Nat
          /\ \A i \in 1 .. Len(Tail(queue)) : Tail(queue)[i] = queue[i + 1]
      BY <2>3, <3>1
    <3>3. \A i \in 1 .. Len(Tail(queue)) : i + 1 \in 1 .. Len(queue)
      BY <3>2
    <3> QED BY <2>3, <3>2, <3>3, Zenon
  <2> QED BY <2>1, <2>2, <2>3
<1>4. ASSUME NEW i \in 1 .. Len(queue')
      PROVE  FrameOK(queue'[i], log') /\ (queue'[i].active => queue'[i].run = cur')
  <2>1. PICK j \in 1 .. Len(queue) : queue'[i] = queue[j]
    BY <1>3
  <2> QED BY <1>2, <2>1, Zenon
<1> QED BY <1>1, <1>3, <1>4, Zenon DEF FramesOK

LEMMA MergedKept ==
  ASSUME LogOK, Merged, ApiGrows, UNCHANGED <<cur, streamVars>>
  PROVE  Merged' /\ Have' = Have /\ lastSeq' = lastSeq
<1>1. pending \subseteq Rows(cur)'
  BY RowsGrow DEF LogOK, Merged
<1>2. log'[cur] \subseteq Nat \ {0} /\ log[cur] \subseteq log'[cur]
  BY DEF ApiGrows, LogOK
<1>3. Rows(cur)' = {Row(cur, s) : s \in log'[cur]} /\ Prefix(cur, lastSeq)' = Prefix(cur, lastSeq)
  BY DEF Rows, Row, Prefix, streamVars
<1>4. Merged'
  BY <1>1, <1>2, <1>3 DEF Merged, streamVars, Rows
<1> QED BY <1>4 DEF Have, streamVars

LEMMA StatusKept ==
  ASSUME LogOK, ViewOK, StatusInv, ApiGrows, ReadsStep, cur' \in Runs,
         \/ cur' = cur /\ shown' = shown
         \/ shown' = 0
  PROVE  StatusInv'
<1>1. /\ shown' \in Nat /\ version[cur] \in Nat /\ version'[cur] \in Nat /\ version[cur] <= version'[cur]
      /\ version'[cur'] \in Nat
  BY DEF ViewOK, LogOK, ApiGrows
<1>2. shown' <= version'[cur']
  BY <1>1 DEF StatusInv, ViewOK
<1>3. ASSUME NEW p \in reads', p.kind = "run", p.genOk, p.answered
      PROVE  shown' <= p.version /\ p.version <= version'[cur']
  <2>1. PICK q \in reads : Lowered(p, q) /\ cur' = cur
    BY <1>3 DEF ReadsStep, Fresh
  <2>2. p.version \in Nat
    BY DEF ReadsStep, Read
  <2>3. shown <= p.version /\ p.version <= version[cur]
    BY <1>3, <2>1 DEF StatusInv, Lowered
  <2>4. shown \in Nat
    BY DEF ViewOK
  <2> QED BY <1>1, <2>1, <2>2, <2>3, <2>4
<1>4. OneRunRead(reads')
  BY DEF StatusInv, ReadsStep
<1> QED BY <1>2, <1>3, <1>4 DEF StatusInv, OneRunRead

LEMMA CompleteKept ==
  ASSUME LogOK, Merged, CompleteInv, ApiGrows, ReadsStep, cur' = cur, due' = due, lastSeq' \in Nat,
         Have \subseteq Have', lastSeq <= lastSeq', replayed' => replayed \/ due \subseteq Have'
  PROVE  CompleteInv'
<1>1. due' \subseteq log'[cur'] /\ (replayed' => due' \subseteq Have')
  BY DEF CompleteInv, ApiGrows, LogOK
<1>2. ASSUME NEW p \in reads', p.kind = "replay", Current(p)
      PROVE  IF p.answered THEN due \subseteq Have' \cup SeqsIn(p.batch) ELSE p.after <= lastSeq'
  <2>1. CASE Fresh(p, cur', lastSeq')
    BY <2>1 DEF Fresh
  <2>2. CASE \E q \in reads : Lowered(p, q)
    <3>1. PICK q \in reads : Lowered(p, q)
      BY <2>2
    <3>2. IF p.answered THEN due \subseteq Have \cup SeqsIn(p.batch) ELSE p.after <= lastSeq
      BY <1>2, <3>1 DEF CompleteInv, Lowered, Current
    <3>3. p.after \in Nat /\ lastSeq \in Nat
      BY DEF ReadsStep, Read, Merged
    <3> QED BY <3>2, <3>3
  <2> QED BY <1>2, <2>1, <2>2 DEF ReadsStep
<1> QED BY <1>1, <1>2 DEF CompleteInv, Current, SeqsIn

LEMMA CompleteAnew ==
  ASSUME LogOK, ApiGrows, cur' \in Runs, due' = log[cur'], LooksAgain, ~replayed', lastSeq' \in Nat
  PROVE  CompleteInv'
<1>1. due' \subseteq log'[cur']
  BY DEF ApiGrows
<1>2. \A p \in reads' : p.kind = "replay" /\ Current(p) => ~p.answered /\ p.after <= lastSeq'
  BY DEF LooksAgain, Fresh
<1> QED BY <1>1, <1>2 DEF CompleteInv, Current


-----------------------------------------------------------------------------
(* Every step keeps the invariant                                           *)

VInv == SInv /\ StatusInv /\ CompleteInv

\* A frame at the head of the queue is consumed, lost with its socket, or left.
QueueShrinks == queue' \in {queue, <<>>} \/ (queue # <<>> /\ queue' = Tail(queue))

\* Steps that leave the list alone: no evidence is gained, or the view looks again.
LEMMA ListStays ==
  ASSUME VInv, UNCHANGED <<log, version, cur, streamVars, shown>>, unpublished' \subseteq unpublished,
         QueueShrinks, ViewOK', ReadsStep,
         \/ due' = due /\ (replayed' => replayed)
         \/ due' = log[cur] /\ LooksAgain /\ ~replayed'
  PROVE  VInv'
<1>1. LogOK /\ ViewOK /\ Merged /\ FramesOK /\ ReadsOK /\ StatusInv /\ CompleteInv
  BY DEF VInv, SInv
<1>2. ApiGrows /\ cur' \in Runs
  BY <1>1, ApiStays DEF LogOK
<1>3. Merged' /\ Have' = Have /\ lastSeq' = lastSeq /\ lastSeq \in Nat
  BY <1>1, <1>2, MergedKept DEF Merged
<1>4. LogOK'
  BY <1>1 DEF LogOK
<1>5. FramesOK'
  BY <1>1, <1>2, FramesKept DEF QueueShrinks
<1>6. ReadsOK' /\ StatusInv'
  BY <1>1, <1>2, ReadsKept, StatusKept
<1>7. CompleteInv'
  <2>1. CASE due' = due /\ (replayed' => replayed)
    <3>1. Have \subseteq Have' /\ lastSeq <= lastSeq' /\ lastSeq' \in Nat
      BY <1>3
    <3> QED BY <1>1, <1>2, <2>1, <3>1, CompleteKept
  <2>2. CASE due' = log[cur] /\ LooksAgain /\ ~replayed'
    BY <1>1, <1>2, <1>3, <2>2, CompleteAnew
  <2> QED BY <2>1, <2>2
<1> QED BY <1>3, <1>4, <1>5, <1>6, <1>7 DEF VInv, SInv

LEMMA SocketStepsOK ==
  ASSUME VInv, Accept \/ Subscribe \/ Reconnects
  PROVE  VInv'
<1>1. ViewOK /\ reads \subseteq Read
  BY DEF VInv, SInv, ReadsOK, ReadOK
<1>2. /\ UNCHANGED <<log, version, cur, streamVars, shown, reads, due, replayed, unpublished, queue, visits, metadata, metaVersion, catchup>>
      /\ server' \in {"none", "accepted", "subscribed"} /\ socket' \in {"none", "connecting", "open"}
      /\ reconnect' \in BOOLEAN
  BY <1>1, Zenon DEF Accept, Subscribe, Reconnects, apiVars, hubVars, evidenceVars, timerVars, ViewOK
<1>3. ViewOK'
  BY <1>1, <1>2, Zenon DEF ViewOK
<1> QED BY <1>1, <1>2, <1>3, ListStays, DropsReads DEF QueueShrinks

LEMMA OnStaleFrameOK ==
  ASSUME VInv, OnStaleFrame
  PROVE  VInv'
<1>1. ViewOK /\ reads \subseteq Read
  BY DEF VInv, SInv, ReadsOK, ReadOK
<1>2. UNCHANGED <<log, version, cur, streamVars, shown, reads, due, replayed, unpublished, server, visits,
                  metadata, metaVersion, socket, reconnect, catchup>>
  BY DEF OnStaleFrame, FrameFrame, apiVars, evidenceVars
<1>3. ViewOK'
  BY <1>1, <1>2, Zenon DEF ViewOK
<1>4. QueueShrinks
  BY DEF OnStaleFrame, FrameArrives, QueueShrinks
<1> QED BY <1>1, <1>2, <1>3, <1>4, ListStays, DropsReads

LEMMA OnRefreshFrameOK ==
  ASSUME VInv, OnRefreshFrame
  PROVE  VInv'
<1>1. LogOK /\ ViewOK /\ reads \subseteq Read
  BY DEF VInv, SInv, ReadsOK, ReadOK
<1>2. /\ UNCHANGED <<log, version, cur, streamVars, shown, due, replayed, unpublished, server, visits,
                     metaVersion, socket, reconnect, catchup>>
      /\ metadata' = FALSE
  BY DEF OnRefreshFrame, FrameFrame, apiVars
<1>3. ViewOK'
  BY <1>1, <1>2, Zenon DEF ViewOK
<1>4. QueueShrinks
  BY DEF OnRefreshFrame, FrameArrives, QueueShrinks
<1>5. ReadsStep
  BY <1>1, <1>2, ReadsRunAgain, LoweredSelf DEF OnRefreshFrame
<1> QED BY <1>2, <1>3, <1>4, <1>5, ListStays

LEMMA PollRunOK ==
  ASSUME VInv, PollRun
  PROVE  VInv'
<1>1. LogOK /\ ViewOK /\ reads \subseteq Read
  BY DEF VInv, SInv, ReadsOK, ReadOK
<1>2. /\ UNCHANGED <<log, version, cur, streamVars, shown, due, replayed, unpublished, server, queue, visits,
                     metaVersion, socket, reconnect, catchup>>
      /\ metadata' = FALSE
  BY DEF PollRun, apiVars, hubVars, timerVars
<1>3. ViewOK'
  BY <1>1, <1>2, Zenon DEF ViewOK
<1>4. ReadsStep
  BY <1>1, <1>2, ReadsRunAgain, LoweredSelf DEF PollRun
<1> QED BY <1>2, <1>3, <1>4, ListStays DEF QueueShrinks

LEMMA OnCloseOK ==
  ASSUME VInv, OnClose
  PROVE  VInv'
<1>1. ViewOK /\ reads \subseteq Read
  BY DEF VInv, SInv, ReadsOK, ReadOK
<1>2. /\ UNCHANGED <<log, version, cur, streamVars, shown, due, unpublished, visits, catchup>>
      /\ metaVersion' = 0 /\ socket' = "none" /\ server' = "none" /\ queue' = <<>>
  BY DEF OnClose, apiVars, InvalidateEvidence
<1>3. metadata' = FALSE /\ replayed' = FALSE /\ reconnect' \in BOOLEAN
  BY Zenon DEF OnClose, InvalidateEvidence
<1>4. ViewOK'
  <2>1. metaVersion' \in Nat
    BY <1>2
  <2> QED BY <1>1, <1>2, <1>3, <2>1, Zenon DEF ViewOK
<1>5. ReadsStep
  BY <1>1, <1>2, CloseReads DEF OnClose
<1> QED BY <1>2, <1>3, <1>4, <1>5, ListStays DEF QueueShrinks

LEMMA CatchupFiresOK ==
  ASSUME VInv, CatchupFires
  PROVE  VInv'
<1>1. LogOK /\ ViewOK /\ reads \subseteq Read /\ lastSeq \in Nat
  BY DEF VInv, SInv, ReadsOK, ReadOK, Merged
<1>2. UNCHANGED <<log, version, cur, streamVars, shown, due, unpublished, server, queue, visits,
                  metadata, metaVersion, socket, reconnect>>
  BY DEF CatchupFires, apiVars, hubVars
<1>3. catchup' = FALSE /\ replayed' = FALSE
  BY DEF CatchupFires
<1>4. ViewOK'
  BY <1>1, <1>2, <1>3, Zenon DEF ViewOK
<1>5. ReadsStep
  <2>1. lastSeq' = lastSeq
    BY <1>2 DEF streamVars
  <2> QED BY <1>1, <1>2, <2>1, CatchupReads DEF CatchupFires
<1> QED BY <1>2, <1>3, <1>4, <1>5, ListStays DEF QueueShrinks

LEMMA OnOpenOK ==
  ASSUME VInv, OnOpen
  PROVE  VInv'
<1>1. LogOK /\ ViewOK /\ reads \subseteq Read /\ lastSeq \in Nat
  BY DEF VInv, SInv, ReadsOK, ReadOK, Merged
<1>2. /\ UNCHANGED <<log, version, cur, streamVars, shown, unpublished, server, queue, visits, reconnect, catchup>>
      /\ metaVersion' = 0 /\ socket' = "open" /\ due' = log[cur] /\ lastSeq' = lastSeq
  BY DEF OnOpen, apiVars, hubVars, InvalidateEvidence, streamVars
<1>3. metadata' = FALSE /\ replayed' = FALSE
  BY DEF OnOpen, InvalidateEvidence
<1>4. ViewOK'
  <2>1. metaVersion' \in Nat /\ due' \subseteq Nat \ {0}
    BY <1>1, <1>2 DEF LogOK
  <2> QED BY <1>1, <1>2, <1>3, <2>1, Zenon DEF ViewOK
<1>5. ReadsStep /\ LooksAgain
  BY <1>1, <1>2, OpenReads DEF OnOpen
<1> QED BY <1>2, <1>3, <1>4, <1>5, ListStays DEF QueueShrinks

LEMMA OnStateFrameOK ==
  ASSUME VInv, OnStateFrame
  PROVE  VInv'
<1>1. LogOK /\ ViewOK /\ reads \subseteq Read
  BY DEF VInv, SInv, ReadsOK, ReadOK
<1>2. /\ UNCHANGED <<log, version, cur, streamVars, shown, unpublished, server, visits, socket, reconnect>>
      /\ metaVersion' = 0 /\ due' = log[cur]
  BY DEF OnStateFrame, FrameFrame, apiVars, InvalidateEvidence
<1>3. metadata' = FALSE /\ replayed' = FALSE /\ catchup' = TRUE
  BY DEF OnStateFrame, InvalidateEvidence
<1>4. ViewOK'
  <2>1. metaVersion' \in Nat /\ due' \subseteq Nat \ {0}
    BY <1>1, <1>2 DEF LogOK
  <2> QED BY <1>1, <1>2, <1>3, <2>1, Zenon DEF ViewOK
<1>5. ReadsStep /\ LooksAgain
  BY <1>1, <1>2, StateReads DEF OnStateFrame
<1>6. QueueShrinks
  BY DEF OnStateFrame, FrameArrives, QueueShrinks
<1> QED BY <1>2, <1>3, <1>4, <1>5, <1>6, ListStays

\* A read that comes back with nothing to merge.
LEMMA ReadFailsOK ==
  ASSUME VInv, NEW q, ReplayFails(q) \/ ReadRunFails(q) \/ ReplayDropped(q)
  PROVE  VInv'
<1>1. ViewOK /\ reads \subseteq Read
  BY DEF VInv, SInv, ReadsOK, ReadOK
<1>2. /\ UNCHANGED <<log, version, cur, streamVars, shown, due, unpublished, server, queue, visits,
                     metaVersion, socket, reconnect, catchup>>
      /\ reads' \subseteq reads
  BY DEF ReplayFails, ReadRunFails, ReplayDropped, ReadFrame, apiVars, hubVars, timerVars, evidenceVars
<1>3. metadata' \in BOOLEAN /\ replayed' \in BOOLEAN /\ (replayed' => replayed)
  <2>1. CASE ReplayFails(q)
    BY <1>1, <2>1, Zenon DEF ReplayFails, ViewOK
  <2>2. CASE ReadRunFails(q)
    BY <1>1, <2>2, Zenon DEF ReadRunFails, ViewOK
  <2>3. CASE ReplayDropped(q)
    <3>1. UNCHANGED <<metadata, replayed>>
      BY <2>3 DEF ReplayDropped, evidenceVars
    <3> QED BY <1>1, <3>1, Zenon DEF ViewOK
  <2> QED BY <2>1, <2>2, <2>3
<1>4. ViewOK'
  BY <1>1, <1>2, <1>3, Zenon DEF ViewOK
<1>5. ReadsStep
  BY <1>1, <1>2, DropsReads
<1> QED BY <1>2, <1>3, <1>4, <1>5, ListStays DEF QueueShrinks


\* A row or a status version is committed: what is in flight stays true of it.
LEMMA ApiStepKeeps ==
  ASSUME VInv, ApiGrows, unpublished' \subseteq Frame,
         \A f \in unpublished' : f \in unpublished \/ FrameOK(f, log'),
         UNCHANGED <<hubVars, cur, visits, streamVars, shown, evidenceVars, timerVars, reads, due>>
  PROVE  VInv'
<1>1. LogOK /\ ViewOK /\ Merged /\ FramesOK /\ ReadsOK /\ StatusInv /\ CompleteInv
  BY DEF VInv, SInv
<1>2. /\ UNCHANGED <<queue, server, cur, visits, streamVars, shown, metadata, replayed, metaVersion>>
      /\ UNCHANGED <<socket, reconnect, catchup, reads, due>>
  BY DEF hubVars, evidenceVars, timerVars
<1>3. LogOK'
  BY <1>1, <1>2 DEF LogOK, ApiGrows
<1>4. ViewOK'
  <2>1. version' \in [Runs -> Nat]
    BY DEF ApiGrows
  <2> QED BY <1>1, <1>2, <2>1, Zenon DEF ViewOK
<1>5. Merged' /\ Have' = Have /\ lastSeq' = lastSeq /\ lastSeq \in Nat
  BY <1>1, <1>2, MergedKept DEF Merged
<1>6. FramesOK'
  <2>1. \A f \in unpublished' : FrameOK(f, log')
    BY <1>1, FrameKept DEF FramesOK
  <2>2. \A i \in 1 .. Len(queue) : FrameOK(queue[i], log') /\ (queue[i].active => queue[i].run = cur)
    BY <1>1, FrameKept DEF FramesOK
  <2> QED BY <1>1, <1>2, <2>1, <2>2 DEF FramesOK
<1>7. ReadsStep
  BY <1>1, <1>2, DropsReads DEF ReadsOK, ReadOK
<1>8. ReadsOK' /\ StatusInv'
  BY <1>1, <1>2, <1>3, <1>7, ReadsKept, StatusKept DEF LogOK
<1>9. CompleteInv'
  <2>1. Have \subseteq Have' /\ lastSeq <= lastSeq' /\ lastSeq' \in Nat
    BY <1>5
  <2> QED BY <1>1, <1>2, <1>7, <2>1, CompleteKept
<1> QED BY <1>3, <1>4, <1>5, <1>6, <1>8, <1>9 DEF VInv, SInv

LEMMA StoreOK ==
  ASSUME VInv, NEW r \in Runs, Store(r)
  PROVE  VInv'
<1>1. LogOK /\ ViewOK /\ FramesOK
  BY DEF VInv, SInv
<1>2. PICK s \in 1 .. MaxSeq \ log[r] :
        /\ log' = [log EXCEPT ![r] = @ \cup {s}]
        /\ unpublished' = unpublished \cup {[type |-> "message", run |-> r, seq |-> s, active |-> TRUE]}
  BY Zenon DEF Store
<1>3. s \in Nat \ {0}
  BY StreamAssumption
<1>4. version' = version
  BY DEF Store
<1>5. ApiGrows
  BY <1>1, <1>2, <1>3, <1>4 DEF ApiGrows, LogOK, ViewOK
<1> DEFINE f == [type |-> "message", run |-> r, seq |-> s, active |-> TRUE]
<1>6. f \in Frame /\ FrameOK(f, log')
  BY <1>1, <1>2, <1>3 DEF Frame, FrameOK, LogOK
<1>7. unpublished \subseteq Frame
  BY <1>1 DEF FramesOK, FrameOK
<1> HIDE DEF f
<1>8. unpublished' = unpublished \cup {f}
  BY <1>2 DEF f
<1> QED BY <1>5, <1>6, <1>7, <1>8, ApiStepKeeps, Zenon DEF Store

LEMMA SetStateOK ==
  ASSUME VInv, NEW r \in Runs, SetState(r)
  PROVE  VInv'
<1>1. LogOK /\ ViewOK /\ FramesOK
  BY DEF VInv, SInv
<1>2. version' = [version EXCEPT ![r] = version[r] + 1] /\ log' = log
  BY DEF SetState
<1>3. ApiGrows
  BY <1>1, <1>2 DEF ApiGrows, LogOK, ViewOK
<1> DEFINE f == [type |-> "state", run |-> r, seq |-> version[r] + 1, active |-> TRUE]
<1>4. f \in Frame /\ FrameOK(f, log')
  BY <1>1 DEF Frame, FrameOK, ViewOK
<1>5. unpublished \subseteq Frame
  BY <1>1 DEF FramesOK, FrameOK
<1> HIDE DEF f
<1>6. unpublished' = unpublished \cup {f}
  BY DEF f, SetState
<1> QED BY <1>3, <1>4, <1>5, <1>6, ApiStepKeeps DEF SetState

\* A frame the hub accepts is about the run the socket was opened for.
LEMMA BroadcastOK ==
  ASSUME VInv, NEW f, FrameOK(f, log), Broadcast(f), unpublished' \subseteq unpublished,
         UNCHANGED <<log, version, server, cur, visits, streamVars, shown, evidenceVars, timerVars, reads, due>>
  PROVE  VInv'
<1>1. LogOK /\ ViewOK /\ Merged /\ FramesOK /\ ReadsOK /\ StatusInv /\ CompleteInv
  BY DEF VInv, SInv
<1>2. /\ UNCHANGED <<log, version, server, cur, visits, streamVars, shown, metadata, replayed, metaVersion>>
      /\ UNCHANGED <<socket, reconnect, catchup, reads, due>>
  BY DEF evidenceVars, timerVars
<1>3. FramesOK'
  <2>1. CASE queue' = queue
    BY <1>1, <1>2, <2>1 DEF FramesOK
  <2>2. CASE queue' = Append(queue, f) /\ f.run = cur
    <3>1. queue \in Seq(Frame) /\ f \in Frame
      BY <1>1 DEF FramesOK, FrameOK
    <3>2. /\ Append(queue, f) \in Seq(Frame) /\ Len(Append(queue, f)) = Len(queue) + 1 /\ Len(queue) \in Nat
          /\ \A i \in 1 .. Len(queue) : Append(queue, f)[i] = queue[i]
          /\ Append(queue, f)[Len(queue) + 1] = f
      BY <3>1
    <3>3. \A i \in 1 .. Len(queue) + 1 : i \in 1 .. Len(queue) \/ i = Len(queue) + 1
      BY <3>2
    <3>4. \A i \in 1 .. Len(queue) : FrameOK(queue[i], log) /\ (queue[i].active => queue[i].run = cur)
      BY <1>1 DEF FramesOK
    <3>5. ASSUME NEW i \in 1 .. Len(queue')
          PROVE  FrameOK(queue'[i], log) /\ (queue'[i].active => queue'[i].run = cur)
      <4>1. i \in 1 .. Len(queue) \/ i = Len(queue) + 1
        BY <2>2, <3>2, <3>3, Zenon
      <4>2. CASE i \in 1 .. Len(queue)
        BY <2>2, <3>2, <3>4, <4>2, Zenon
      <4>3. CASE i = Len(queue) + 1
        BY <2>2, <3>2, <4>3, Zenon
      <4> QED BY <4>1, <4>2, <4>3
    <3>6. \A g \in unpublished' : FrameOK(g, log)
      BY <1>1 DEF FramesOK
    <3>7. queue' \in Seq(Frame) /\ log' = log /\ cur' = cur
      BY <1>2, <2>2, <3>2, Zenon
    <3> QED BY <3>5, <3>6, <3>7, Zenon DEF FramesOK
  <2> QED BY <2>1, <2>2, Zenon DEF Broadcast
<1>4. ApiGrows /\ cur' \in Runs
  BY <1>1, <1>2, ApiStays DEF LogOK
<1>5. Merged' /\ Have' = Have /\ lastSeq' = lastSeq /\ lastSeq \in Nat
  BY <1>1, <1>2, <1>4, MergedKept, Zenon DEF Merged
<1>6. ReadsStep
  BY <1>1, <1>2, DropsReads DEF ReadsOK, ReadOK
<1>7. LogOK' /\ ReadsOK' /\ StatusInv'
  BY <1>1, <1>2, <1>4, <1>6, ReadsKept, StatusKept DEF LogOK
<1>8. CompleteInv'
  <2>1. Have \subseteq Have' /\ lastSeq <= lastSeq' /\ lastSeq' \in Nat
    BY <1>5
  <2> QED BY <1>1, <1>2, <1>4, <1>6, <2>1, CompleteKept
<1>9. ViewOK'
  BY <1>1, <1>2, Zenon DEF ViewOK
<1> QED BY <1>3, <1>5, <1>7, <1>8, <1>9 DEF VInv, SInv

LEMMA PublishOK ==
  ASSUME VInv, (\E f \in unpublished : Publish(f)) \/ (\E r \in Runs : PublishRefresh(r))
  PROVE  VInv'
<1>1. CASE \E f \in unpublished : Publish(f)
  <2>1. PICK f \in unpublished : Publish(f)
    BY <1>1
  <2>2. FrameOK(f, log)
    BY DEF VInv, SInv, FramesOK
  <2>3. Broadcast(f) /\ unpublished' \subseteq unpublished
    BY <2>1 DEF Publish
  <2>4. UNCHANGED <<log, version, server, cur, visits, streamVars, shown, evidenceVars, timerVars, reads, due>>
    BY <2>1 DEF Publish
  <2> QED BY <2>2, <2>3, <2>4, BroadcastOK
<1>2. CASE \E r \in Runs : PublishRefresh(r)
  <2>1. PICK r \in Runs : PublishRefresh(r)
    BY <1>2
  <2> DEFINE f == [type |-> "refresh", run |-> r, seq |-> 0, active |-> TRUE]
  <2>2. FrameOK(f, log)
    BY DEF FrameOK, Frame
  <2>3. Broadcast(f) /\ unpublished' \subseteq unpublished
    BY <2>1 DEF PublishRefresh, apiVars
  <2>4. UNCHANGED <<log, version, server, cur, visits, streamVars, shown, evidenceVars, timerVars, reads, due>>
    BY <2>1 DEF PublishRefresh, apiVars
  <2> HIDE DEF f
  <2> QED BY <2>2, <2>3, <2>4, BroadcastOK
<1> QED BY <1>1, <1>2


LEMMA NavigateOK ==
  ASSUME VInv, NEW r \in Runs, Navigate(r)
  PROVE  VInv'
<1>1. LogOK /\ ViewOK /\ FramesOK /\ ReadsOK /\ StatusInv /\ reads \subseteq Read
  BY DEF VInv, SInv, ReadsOK, ReadOK
<1>2. /\ cur' = r /\ visits' = visits + 1 /\ messages' = <<>> /\ lastSeq' = 0 /\ pending' = {} /\ shown' = 0
      /\ metaVersion' = 0 /\ server' = "none" /\ socket' = "connecting" /\ due' = log[r]
      /\ UNCHANGED <<log, version, unpublished>>
  BY DEF Navigate, apiVars, InvalidateEvidence
<1>3. metadata' = FALSE /\ replayed' = FALSE /\ reconnect' = FALSE /\ catchup' = FALSE
  BY DEF Navigate, InvalidateEvidence
<1>4. LogOK' /\ cur' \in Runs
  BY <1>1, <1>2 DEF LogOK
<1>5. ViewOK'
  <2>1. /\ version' \in [Runs -> Nat] /\ visits' \in Nat /\ shown' \in Nat /\ metaVersion' \in Nat
        /\ server' \in {"none", "accepted", "subscribed"} /\ socket' \in {"none", "connecting", "open"}
        /\ due' \subseteq Nat \ {0}
    BY <1>1, <1>2 DEF ViewOK, LogOK
  <2> QED BY <1>3, <2>1, Zenon DEF ViewOK
<1>6. Merged'
  <2>1. log'[cur'] \subseteq Nat \ {0} /\ 1 .. 0 = {} /\ 0 \in Nat
    BY <1>4 DEF LogOK
  <2>2. Prefix(cur', 0) = <<>>
    BY <2>1 DEF Prefix
  <2>3. Prefix(cur', lastSeq') = <<>> /\ 1 .. lastSeq' = {}
    BY <1>2, <2>1, <2>2, Zenon
  <2>4. messages' = Prefix(cur', lastSeq') /\ 1 .. lastSeq' \subseteq log'[cur']
    BY <1>2, <2>3
  <2> QED BY <1>2, <2>1, <2>4 DEF Merged
<1>7. FramesOK'
  <2>1. \A f \in unpublished' : FrameOK(f, log')
    BY <1>1, <1>2 DEF FramesOK
  <2>2. queue' = [i \in 1 .. Len(queue) |-> [queue[i] EXCEPT !.active = FALSE]]
    BY DEF Navigate
  <2>3. queue \in Seq(Frame) /\ Len(queue) \in Nat /\ \A i \in 1 .. Len(queue) : queue[i] \in Frame /\ FrameOK(queue[i], log)
    BY <1>1 DEF FramesOK, FrameOK
  <2>4. ASSUME NEW i \in 1 .. Len(queue)
        PROVE  LET g == [queue[i] EXCEPT !.active = FALSE]
               IN  g \in Frame /\ FrameOK(g, log) /\ ~g.active
    BY <2>3, Zenon DEF Frame, FrameOK
  <2>5. queue' \in Seq(Frame) /\ Len(queue') = Len(queue)
    BY <2>2, <2>3, <2>4
  <2>6. ASSUME NEW i \in 1 .. Len(queue')
        PROVE  FrameOK(queue'[i], log') /\ ~queue'[i].active
    <3>1. i \in 1 .. Len(queue) /\ log' = log
      BY <1>2, <2>5
    <3>2. queue'[i] = [queue[i] EXCEPT !.active = FALSE]
      BY <2>2, <3>1
    <3> QED BY <2>4, <3>1, <3>2
  <2> QED BY <2>1, <2>5, <2>6, Zenon DEF FramesOK
<1>8. ApiGrows
  BY <1>1, <1>2, ApiStays
<1>9. ReadsStep /\ LooksAgain
  BY <1>1, <1>2, NavigateReads DEF Navigate
<1>10. ReadsOK' /\ StatusInv'
  BY <1>1, <1>2, <1>4, <1>8, <1>9, ReadsKept, StatusKept
<1>11. CompleteInv'
  BY <1>1, <1>2, <1>3, <1>4, <1>8, <1>9, CompleteAnew
<1> QED BY <1>4, <1>5, <1>6, <1>7, <1>10, <1>11 DEF VInv, SInv

\* Steps that merge rows of the run on display.
LEMMA MergeKeeps ==
  ASSUME VInv, NEW B \in SUBSET Rows(cur), Ingest(B), ReadsStep, ViewOK', QueueShrinks,
         UNCHANGED <<log, version, unpublished, cur, shown>>
  PROVE  /\ SInv' /\ StatusInv' /\ Have \cup SeqsIn(B) \subseteq Have'
         /\ due' = due /\ (replayed' => replayed \/ due \subseteq Have') => CompleteInv'
         /\ due' = log[cur] /\ LooksAgain /\ ~replayed' => CompleteInv'
<1>1. LogOK /\ ViewOK /\ Merged /\ FramesOK /\ ReadsOK /\ StatusInv /\ CompleteInv
  BY DEF VInv, SInv
<1>2. ApiGrows /\ cur' \in Runs /\ LogOK'
  BY <1>1, ApiStays DEF LogOK
<1>3. Merged' /\ lastSeq <= lastSeq' /\ Have \cup SeqsIn(B) \subseteq Have'
  BY <1>1, IngestMerges
<1>4. lastSeq' \in Nat
  BY <1>3 DEF Merged
<1>5. FramesOK'
  BY <1>1, <1>2, FramesKept DEF QueueShrinks
<1>6. ReadsOK' /\ StatusInv'
  BY <1>1, <1>2, ReadsKept, StatusKept
<1>7. ASSUME due' = due, replayed' => replayed \/ due \subseteq Have'
      PROVE  CompleteInv'
  BY <1>1, <1>2, <1>3, <1>4, <1>7, CompleteKept
<1>8. ASSUME due' = log[cur], LooksAgain, ~replayed'
      PROVE  CompleteInv'
  BY <1>1, <1>2, <1>4, <1>8, CompleteAnew
<1>9. SInv'
  BY <1>2, <1>3, <1>5, <1>6 DEF SInv
<1> QED BY <1>3, <1>6, <1>7, <1>8, <1>9, Zenon

LEMMA OnMessageFrameOK ==
  ASSUME VInv, OnMessageFrame
  PROVE  VInv'
<1> DEFINE f == Head(queue)
           m == [run |-> f.run, seq |-> f.seq]
           refreshes == f.seq \in RefreshSeqs
<1>1. LogOK /\ ViewOK /\ FramesOK /\ reads \subseteq Read
  BY DEF VInv, SInv, ReadsOK, ReadOK
<1>2. QueueShrinks /\ queue # <<>>
  BY DEF OnMessageFrame, FrameArrives, QueueShrinks
<1>3. FrameOK(f, log) /\ (f.active => f.run = cur)
  <2>1. queue \in Seq(Frame) /\ f = queue[1] /\ 1 \in 1 .. Len(queue)
    BY <1>1, <1>2 DEF FramesOK
  <2> QED BY <1>1, <2>1, Zenon DEF FramesOK
<1>4. /\ f.type = "message" /\ f.active /\ Ingest({m})
      /\ due' = IF Gap(f.seq) THEN log[cur] ELSE due
      /\ reads' = IF refreshes THEN ReadRun(IF Gap(f.seq) THEN StaleReplays(reads) ELSE reads, cur)
                  ELSE IF Gap(f.seq) THEN StaleReplays(reads) ELSE reads
  BY Zenon DEF OnMessageFrame
<1>5. /\ replayed' = (replayed /\ ~Gap(f.seq)) /\ catchup' = (catchup \/ Gap(f.seq))
      /\ metadata' = (metadata /\ ~refreshes)
  BY Zenon DEF OnMessageFrame
<1>6. UNCHANGED <<log, version, unpublished, server, cur, visits, shown, socket, reconnect, metaVersion>>
  BY DEF OnMessageFrame, FrameFrame, apiVars
<1>7. {m} \in SUBSET Rows(cur)
  BY <1>3, <1>4 DEF FrameOK, Rows, Row
<1> HIDE DEF f, m, refreshes
<1>8. replayed' \in BOOLEAN /\ catchup' \in BOOLEAN /\ metadata' \in BOOLEAN /\ (replayed' => replayed)
  BY <1>5, Zenon
<1>9. ViewOK'
  <2>1. due' \subseteq Nat \ {0}
    BY <1>1, <1>4, Zenon DEF LogOK, ViewOK
  <2> QED BY <1>1, <1>6, <1>8, <2>1, Zenon DEF ViewOK
<1>10. ReadsStep /\ (Gap(f.seq) => LooksAgain)
  <2>1. CASE Gap(f.seq) /\ refreshes
    BY <1>1, <1>4, <1>6, <2>1, GapRefreshReads
  <2>2. CASE Gap(f.seq) /\ ~refreshes
    BY <1>1, <1>4, <1>6, <2>2, GapReads
  <2>3. CASE ~Gap(f.seq) /\ refreshes
    BY <1>1, <1>4, <1>6, <2>3, ReadsRunAgain, LoweredSelf
  <2>4. CASE ~Gap(f.seq) /\ ~refreshes
    BY <1>1, <1>4, <1>6, <2>4, DropsReads
  <2> QED BY <2>1, <2>2, <2>3, <2>4
<1>11. (due' = due /\ (replayed' => replayed)) \/ (due' = log[cur] /\ LooksAgain /\ ~replayed')
  BY <1>4, <1>5, <1>8, <1>10, Zenon
<1>12. SInv' /\ StatusInv' /\ CompleteInv'
  BY <1>2, <1>4, <1>6, <1>7, <1>9, <1>10, <1>11, MergeKeeps
<1> QED BY <1>12 DEF VInv


LEMMA ReplayOkOK ==
  ASSUME VInv, NEW q, ReplayOk(q)
  PROVE  VInv'
<1>1. LogOK /\ ViewOK /\ ReadsOK /\ CompleteInv /\ reads \subseteq Read
  BY DEF VInv, SInv, ReadsOK, ReadOK
<1>2. q \in reads /\ q.kind = "replay" /\ q.answered /\ q.genOk /\ Ingest(q.batch)
  BY DEF ReplayOk
<1>3. UNCHANGED <<log, version, unpublished, server, queue, cur, visits, shown, socket, reconnect, catchup, metaVersion, due>>
  BY DEF ReplayOk, ReadFrame, apiVars, hubVars, timerVars
<1>4. q.batch \in SUBSET Rows(cur)
  BY <1>1, <1>2 DEF ReadsOK, ReadOK
<1>5. metadata' \in BOOLEAN /\ replayed' \in BOOLEAN /\ (replayed' => replayed \/ Current(q))
  BY Zenon DEF ReplayOk
<1>6. ViewOK'
  BY <1>1, <1>3, <1>5, Zenon DEF ViewOK
<1>7. reads' = ReadRun(reads \ {q}, cur) \/ reads' = reads \ {q}
  BY Zenon DEF ReplayOk
<1>8. ReadsStep
  <2>1. CASE reads' = ReadRun(reads \ {q}, cur)
    <3>1. reads \ {q} \in SUBSET Read /\ \A p \in reads \ {q} : \E s \in reads : Lowered(p, s)
      BY <1>1, LoweredSelf
    <3> QED BY <1>1, <1>3, <2>1, <3>1, ReadsRunAgain
  <2>2. CASE reads' = reads \ {q}
    BY <1>1, <1>3, <2>2, DropsReads
  <2> QED BY <1>7, <2>1, <2>2
<1>9. QueueShrinks
  BY <1>3 DEF QueueShrinks
<1>10. SInv' /\ StatusInv' /\ Have \cup SeqsIn(q.batch) \subseteq Have'
       /\ (due' = due /\ (replayed' => replayed \/ due \subseteq Have') => CompleteInv')
  BY <1>2, <1>3, <1>4, <1>6, <1>8, <1>9, MergeKeeps
<1>11. Current(q) => due \subseteq Have \cup SeqsIn(q.batch)
  BY <1>1, <1>2 DEF CompleteInv
<1>12. CompleteInv'
  BY <1>3, <1>5, <1>10, <1>11
<1> QED BY <1>10, <1>12 DEF VInv

\* The answer to a read: a read like it, with what is stored now.
LEMMA AnswerOK ==
  ASSUME VInv, NEW q, Answer(q)
  PROVE  VInv'
<1> DEFINE p == [q EXCEPT !.answered = TRUE,
                          !.after = 0,
                          !.batch = IF q.kind = "replay" THEN RowsAfter(q.run, q.after) ELSE {},
                          !.version = IF q.kind = "run" THEN version[q.run] ELSE 0]
<1>1. LogOK /\ ViewOK /\ Merged /\ FramesOK /\ ReadsOK /\ StatusInv /\ CompleteInv
  BY DEF VInv, SInv
<1>2. q \in reads /\ ~q.answered /\ reads' = (reads \ {q}) \cup {p}
  BY DEF Answer
<1>3. /\ UNCHANGED <<log, version, unpublished, server, queue, cur, visits, messages, lastSeq, pending>>
      /\ UNCHANGED <<shown, metadata, replayed, metaVersion, socket, reconnect, catchup, due>>
  BY DEF Answer, apiVars, hubVars, streamVars, evidenceVars, timerVars
<1>4. q \in Read /\ (q.genOk => q.run = cur) /\ q.run \in Runs /\ q.after \in Nat
  BY <1>1, <1>2 DEF ReadsOK, ReadOK, Read
<1>5. RowsAfter(q.run, q.after) \subseteq Rows(q.run) /\ RowsAfter(q.run, q.after) \subseteq Message
  <2>1. log[q.run] \subseteq Nat \ {0}
    BY <1>1, <1>4 DEF LogOK
  <2>2. ASSUME NEW m \in RowsAfter(q.run, q.after)
        PROVE  m \in Rows(q.run) /\ m \in Message
    <3>1. PICK s \in log[q.run] : m = [run |-> q.run, seq |-> s]
      BY Zenon DEF RowsAfter
    <3> QED BY <1>4, <2>1, <3>1 DEF Rows, Row, Message
  <2> QED BY <2>2
<1>6. /\ p \in Read /\ p.kind = q.kind /\ p.run = q.run /\ p.answered
      /\ p.genOk = q.genOk /\ p.epochOk = q.epochOk /\ p.ticketOk = q.ticketOk
      /\ p.batch = (IF q.kind = "replay" THEN RowsAfter(q.run, q.after) ELSE {})
      /\ p.version = IF q.kind = "run" THEN version[q.run] ELSE 0
  BY <1>1, <1>4, <1>5, Zenon DEF Read, ViewOK
<1> HIDE DEF p
<1>7. ReadOK(p)
  BY <1>4, <1>5, <1>6 DEF ReadOK
<1>8. Rows(cur)' = Rows(cur) /\ Have' = Have
  BY <1>3 DEF Rows, Have
<1>9. LogOK' /\ ViewOK' /\ FramesOK'
  BY <1>1, <1>3, Zenon DEF LogOK, ViewOK, FramesOK
<1>10. Merged'
  BY <1>1, <1>3, <1>8, Zenon DEF Merged
<1>11. ReadsOK'
  <2>1. \A s \in reads' : ReadOK(s)
    BY <1>1, <1>2, <1>7 DEF ReadsOK
  <2>2. \A s \in reads' : ReadOK(s)'
    BY <1>3, <2>1 DEF ReadOK, Rows
  <2> QED BY <2>2 DEF ReadsOK
<1>12. StatusInv'
  <2>1. OneRunRead(reads')
    BY <1>1, <1>2, <1>6 DEF StatusInv, OneRunRead
  <2>2. p.kind = "run" /\ p.genOk => p.version = version[cur]
    BY <1>4, <1>6
  <2>3. version[cur] \in Nat /\ shown <= version[cur]
    BY <1>1 DEF ViewOK, LogOK, StatusInv
  <2>4. \A s \in reads' : s.kind = "run" /\ s.genOk /\ s.answered => shown <= s.version /\ s.version <= version[cur]
    BY <1>1, <1>2, <2>2, <2>3 DEF StatusInv
  <2> QED BY <1>3, <2>1, <2>3, <2>4 DEF StatusInv, OneRunRead
<1>13. CompleteInv'
  <2>1. ASSUME p.kind = "replay", Current(p)
        PROVE  due \subseteq Have \cup SeqsIn(p.batch)
    <3>1. q.run = cur /\ q.after <= lastSeq /\ p.batch = RowsAfter(cur, q.after)
      BY <1>1, <1>2, <1>4, <1>6, <2>1, Zenon DEF CompleteInv, Current
    <3>2. due \subseteq log[cur] /\ log[cur] \subseteq Nat \ {0} /\ lastSeq \in Nat
      BY <1>1 DEF CompleteInv, Merged
    <3>3. ASSUME NEW s \in due, s > q.after
          PROVE  s \in SeqsIn(p.batch)
      <4>1. [run |-> cur, seq |-> s] \in p.batch
        BY <3>1, <3>2, <3>3 DEF RowsAfter
      <4>2. [run |-> cur, seq |-> s].seq = s
        OBVIOUS
      <4> QED BY <4>1, <4>2, Zenon DEF SeqsIn
    <3>4. \A s \in due : s > q.after \/ s \in 1 .. lastSeq
      BY <1>4, <3>1, <3>2
    <3> QED BY <3>3, <3>4 DEF Have
  <2>2. \A s \in reads' : s.kind = "replay" /\ Current(s) =>
          IF s.answered THEN due \subseteq Have \cup SeqsIn(s.batch) ELSE s.after <= lastSeq
    BY <1>1, <1>2, <1>6, <2>1 DEF CompleteInv
  <2> QED BY <1>1, <1>3, <1>8, <2>2, Zenon DEF CompleteInv, Current, SeqsIn
<1> QED BY <1>9, <1>10, <1>11, <1>12, <1>13 DEF VInv, SInv

\* The newest read of the run comes back; it is the only one.
LEMMA ReadRunOkOK ==
  ASSUME VInv, NEW q, ReadRunOk(q)
  PROVE  VInv' /\ shown <= shown'
<1>1. LogOK /\ ViewOK /\ Merged /\ FramesOK /\ ReadsOK /\ StatusInv /\ CompleteInv /\ reads \subseteq Read
  BY DEF VInv, SInv, ReadsOK, ReadOK
<1>2. q \in reads /\ q.kind = "run" /\ q.answered /\ q.genOk /\ reads' = reads \ {q} /\ shown' = q.version
  BY DEF ReadRunOk
<1>3. UNCHANGED <<log, version, unpublished, server, queue, cur, visits, streamVars, socket, reconnect, catchup, due>>
  BY DEF ReadRunOk, ReadFrame, apiVars, hubVars, timerVars
<1>4. q.version \in Nat /\ shown <= q.version /\ q.version <= version[cur]
  BY <1>1, <1>2 DEF StatusInv, Read
<1>5. metadata' \in BOOLEAN /\ replayed' \in BOOLEAN /\ metaVersion' \in Nat /\ (replayed' => replayed)
  <2>1. CASE q.epochOk
    <3>1. /\ replayed' = (replayed /\ metaVersion \in {0, q.version})
          /\ metaVersion' = q.version /\ metadata' = TRUE
      BY <2>1, Zenon DEF ReadRunOk
    <3> QED BY <1>4, <3>1, Zenon
  <2>2. CASE ~q.epochOk
    <3>1. UNCHANGED <<metadata, replayed, metaVersion>>
      BY <2>2, Zenon DEF ReadRunOk, evidenceVars
    <3> QED BY <1>1, <3>1, Zenon DEF ViewOK
  <2> QED BY <2>1, <2>2
<1>6. ApiGrows /\ LogOK' /\ cur' \in Runs
  BY <1>1, <1>3, ApiStays DEF LogOK
<1>7. ViewOK'
  <2>1. shown' \in Nat
    BY <1>2, <1>4
  <2> QED BY <1>1, <1>3, <1>5, <2>1, Zenon DEF ViewOK
<1>8. Merged' /\ Have' = Have /\ lastSeq' = lastSeq /\ lastSeq \in Nat
  BY <1>1, <1>3, <1>6, MergedKept DEF Merged
<1>9. ReadsStep
  BY <1>1, <1>2, <1>3, DropsReads
<1>10. ReadsOK'
  BY <1>1, <1>6, <1>9, ReadsKept
<1>11. FramesOK'
  BY <1>1, <1>3, <1>6, FramesKept
<1>12. StatusInv'
  <2>1. \A p \in reads' : p.kind # "run"
    BY <1>1, <1>2 DEF StatusInv, OneRunRead
  <2> QED BY <1>2, <1>3, <1>4, <2>1 DEF StatusInv, OneRunRead
<1>13. CompleteInv'
  <2>1. Have \subseteq Have' /\ lastSeq <= lastSeq' /\ lastSeq' \in Nat
    BY <1>8
  <2> QED BY <1>1, <1>3, <1>5, <1>6, <1>9, <2>1, CompleteKept
<1> QED BY <1>2, <1>4, <1>6, <1>7, <1>8, <1>10, <1>11, <1>12, <1>13 DEF VInv, SInv


-----------------------------------------------------------------------------
(* The theorems                                                             *)

LEMMA InitOK == Init => VInv
<1> SUFFICES ASSUME Init
             PROVE  VInv
  OBVIOUS
<1>1. /\ log = [r \in Runs |-> {}] /\ version = [r \in Runs |-> 1] /\ unpublished = {} /\ server = "none"
      /\ queue = <<>> /\ cur \in Runs /\ visits = 1 /\ messages = <<>> /\ lastSeq = 0 /\ pending = {}
      /\ shown = 0 /\ metaVersion = 0 /\ socket = "connecting" /\ due = {}
  BY StreamAssumption DEF Init
<1>2. metadata = FALSE /\ replayed = FALSE /\ reconnect = FALSE /\ catchup = FALSE
  BY DEF Init
<1>3. LogOK /\ log[cur] = {} /\ version[cur] = 1
  BY <1>1 DEF LogOK
<1>4. ViewOK
  <2>1. version \in [Runs -> Nat] /\ visits \in Nat /\ shown \in Nat /\ metaVersion \in Nat
    BY <1>1
  <2>2. /\ server \in {"none", "accepted", "subscribed"} /\ socket \in {"none", "connecting", "open"}
        /\ due \subseteq Nat \ {0}
    BY <1>1
  <2> QED BY <1>2, <2>1, <2>2, Zenon DEF ViewOK
<1>5. Merged
  <2>1. 1 .. 0 = {} /\ 0 \in Nat
    OBVIOUS
  <2>2. Prefix(cur, 0) = <<>>
    BY <2>1 DEF Prefix
  <2> QED BY <1>1, <1>3, <2>1, <2>2 DEF Merged
<1>6. FramesOK
  BY <1>1 DEF FramesOK
<1> DEFINE R == ReadRun({}, cur)
<1>7. R \subseteq Read /\ OneRunRead(R) /\ \A p \in R : p.kind = "run" /\ p.genOk /\ Fresh(p, cur, 0)
  <2>1. {} \in SUBSET Read
    OBVIOUS
  <2>2. /\ R \subseteq Read /\ OneRunRead(R)
        /\ \A p \in R : (p.kind = "run" /\ p.genOk /\ Fresh(p, cur, 0)) \/ p \in {}
    BY <1>3, <2>1, ReadRunOK, Zenon DEF LogOK
  <2> QED BY <2>2, Zenon
<1> HIDE DEF R
<1>8. reads = Replay(R, "plain", cur, 0)
  BY DEF Init, R
<1>9. /\ reads \subseteq Read /\ OneRunRead(reads)
      /\ \A p \in reads : Fresh(p, cur, 0)
  <2>1. "plain" \in {"plain", "onKinds"} /\ cur \in Runs /\ 0 \in Nat
    BY <1>1
  <2>2. /\ reads \subseteq Read /\ OneRunRead(reads)
        /\ \A p \in reads : Fresh(p, cur, 0) \/ \E q \in R : Lowered(p, q)
    BY <1>7, <1>8, <2>1, ReplayReadsOK, Zenon
  <2> QED BY <1>7, <2>2 DEF Fresh, Lowered
<1>10. ReadsOK
  BY <1>9 DEF ReadsOK, ReadOK, Fresh
<1>11. StatusInv
  BY <1>1, <1>3, <1>9 DEF StatusInv, Fresh
<1>12. CompleteInv
  BY <1>1, <1>2, <1>9 DEF CompleteInv, Fresh
<1> QED BY <1>3, <1>4, <1>5, <1>6, <1>10, <1>11, <1>12 DEF VInv, SInv

LEMMA StutterOK ==
  ASSUME VInv, UNCHANGED vars
  PROVE  VInv'
<1>1. LogOK /\ ViewOK /\ FramesOK /\ reads \subseteq Read
  BY DEF VInv, SInv, ReadsOK, ReadOK
<1>2. /\ UNCHANGED <<log, version, cur, streamVars, shown, reads, due, replayed, unpublished, queue>>
      /\ UNCHANGED <<server, visits, metadata, metaVersion, socket, reconnect, catchup>>
  BY DEF vars, apiVars, hubVars, evidenceVars, timerVars
<1>3. ViewOK'
  BY <1>1, <1>2, Zenon DEF ViewOK
<1> QED BY <1>1, <1>2, <1>3, ListStays, DropsReads DEF QueueShrinks

LEMMA StepOK ==
  ASSUME VInv, Next
  PROVE  VInv'
<1>1. CASE \E r \in LiveRuns : Store(r) \/ SetState(r)
  BY <1>1, StreamAssumption, StoreOK, SetStateOK
<1>2. CASE \E r \in RefreshRuns : PublishRefresh(r)
  BY <1>2, StreamAssumption, PublishOK
<1>3. CASE \E r \in Runs : Navigate(r)
  BY <1>3, NavigateOK
<1>4. CASE HubStep
  BY <1>4, PublishOK, SocketStepsOK DEF HubStep
<1>5. CASE FrameStep
  BY <1>5, OnMessageFrameOK, OnStateFrameOK, OnRefreshFrameOK, OnStaleFrameOK DEF FrameStep
<1>6. CASE TimerStep
  BY <1>6, SocketStepsOK, CatchupFiresOK DEF TimerStep
<1>7. CASE OnOpen \/ OnClose \/ PollRun
  BY <1>7, OnOpenOK, OnCloseOK, PollRunOK
<1>8. CASE \E q \in reads : Answer(q)
  BY <1>8, AnswerOK
<1>9. CASE \E q \in reads : Settles(q)
  BY <1>9, ReplayOkOK, ReadRunOkOK, ReadFailsOK DEF Settles
<1> QED BY <1>1, <1>2, <1>3, <1>4, <1>5, <1>6, <1>7, <1>8, <1>9 DEF Next

\* The invariant of the live view: what is on display and in flight belongs to the
\* run on display or is fenced, one run read at most is in flight, and a replay that
\* may certify covers what was due.
THEOREM StreamInvariance == Spec => []VInv
<1>1. Init => VInv
  BY InitOK
<1>2. VInv /\ [Next]_vars => VInv'
  BY StepOK, StutterOK
<1> QED BY <1>1, <1>2, PTL DEF Spec

\* The live view is well typed: rows are numbered from 1, and the list, what waits and
\* what reads have brought are rows (StreamState of runStream.ts).
THEOREM TypeCorrect == Spec => []TypeOK
<1>1. VInv => TypeOK
  <2> SUFFICES ASSUME VInv
               PROVE  TypeOK
    OBVIOUS
  <2>1. LogOK /\ ViewOK /\ Merged /\ FramesOK /\ ReadsOK
    BY DEF VInv, SInv
  <2>2. unpublished \subseteq Frame /\ queue \in Seq(Frame) /\ reads \subseteq Read
    BY <2>1 DEF FramesOK, FrameOK, ReadsOK, ReadOK
  <2>3. Rows(cur) \subseteq Message
    BY <2>1 DEF Rows, Row, Message, LogOK
  <2>4. pending \subseteq Message /\ lastSeq \in Nat
    BY <2>1, <2>3 DEF Merged
  <2>5. messages \in Seq(Message)
    <3>1. \A i \in 1 .. lastSeq : Row(cur, i) \in Message
      BY <2>1, <2>4 DEF Row, Message, LogOK
    <3>2. messages = [i \in 1 .. lastSeq |-> Row(cur, i)]
      BY <2>1 DEF Merged, Prefix
    <3> QED BY <2>4, <3>1, <3>2
  <2>6. log \in [Runs -> SUBSET (Nat \ {0})] /\ cur \in Runs
    BY <2>1 DEF LogOK
  <2> QED BY <2>1, <2>2, <2>4, <2>5, <2>6, Zenon DEF TypeOK, ViewOK
<1> QED BY <1>1, StreamInvariance, PTL

\* The list on display is the transcript of the run on display from 1 to lastSeq, for
\* every interleaving of frames, reads, reconnects and navigation (ingest and
\* ingestMany behind the fences of useRunStream).
THEOREM AlwaysRendersPrefix == Spec => []RendersPrefix
<1>1. VInv => RendersPrefix
  BY DEF VInv, SInv, Merged, RendersPrefix, Prefix, Row
<1> QED BY <1>1, StreamInvariance, PTL

\* Evidence declared complete covers every row that was stored when the view last had
\* reason to look (the epoch and the replay ticket of useRunStream).
THEOREM ReadyAlwaysComplete == Spec => []ReadyIsComplete
<1>1. VInv => ReadyIsComplete
  BY DEF VInv, CompleteInv, ReadyIsComplete, Ready, Have, SeqsIn
<1> QED BY <1>1, StreamInvariance, PTL

\* Within a visit the status on display never goes back (the run-read ticket).
THEOREM StatusOnlyAdvances == Spec => StatusNeverRegresses
<1>1. ASSUME VInv, [Next]_vars
      PROVE  [visits' = visits => shown' >= shown]_vars
  <2>1. shown \in Nat /\ visits \in Nat
    BY <1>1 DEF VInv, SInv, ViewOK
  <2>2. CASE \E r \in Runs : Navigate(r)
    <3>1. visits' = visits + 1
      BY <2>2 DEF Navigate
    <3> QED BY <2>1, <3>1
  <2>3. CASE \E q \in reads : ReadRunOk(q)
    <3>1. PICK q \in reads : ReadRunOk(q)
      BY <2>3
    <3>2. VInv' /\ shown <= shown'
      BY <1>1, <3>1, ReadRunOkOK
    <3>3. shown' \in Nat
      BY <3>2 DEF VInv, SInv, ViewOK
    <3> QED BY <2>1, <3>2, <3>3
  <2>4. CASE shown' = shown
    BY <2>1, <2>4
  <2>5. CASE UNCHANGED vars
    BY <2>5
  <2>6. \/ \E r \in Runs : Navigate(r)
        \/ \E q \in reads : ReadRunOk(q)
        \/ shown' = shown
        \/ UNCHANGED vars
    BY <1>1, Zenon DEF Next, HubStep, FrameStep, TimerStep, Settles, Store, SetState, PublishRefresh, Publish, Accept, Subscribe,
       OnOpen, OnMessageFrame, OnStateFrame, OnRefreshFrame, OnStaleFrame, FrameFrame, OnClose, Reconnects,
       CatchupFires, PollRun, Answer, ReplayOk, ReplayFails, ReadRunFails, ReplayDropped
  <2> QED BY <2>2, <2>3, <2>4, <2>5, <2>6
<1>2. VInv /\ [Next]_vars => [visits' = visits => shown' >= shown]_vars
  BY <1>1
<1> QED BY <1>2, StreamInvariance, PTL DEF Spec, StatusNeverRegresses
-----------------------------------------------------------------------------
(* The live view implements RunView.                                        *)

LEMMA InitIsViewInit ==
  ASSUME Init
  PROVE  View!ViewInit
BY StreamAssumption DEF Init, View!ViewInit

\* The rows on display after a step that merges, and the status after a run read:
\* the invariant says what they are.
LEMMA MergeShowsMore ==
  ASSUME VInv, VInv', lastSeq <= lastSeq', UNCHANGED <<log, version, cur, shown>>
  PROVE  [View!ViewNext]_View!viewVars
<1>1. /\ lastSeq \in Nat /\ messages = Prefix(cur, lastSeq)
      /\ lastSeq' \in Nat /\ messages' = Prefix(cur, lastSeq') /\ 1 .. lastSeq' \subseteq log[cur]
  BY DEF VInv, SInv, Merged
<1>2. Len(messages) = lastSeq /\ Len(messages') = lastSeq'
  BY <1>1 DEF Prefix
<1>3. messages' = View!FirstRows(cur, lastSeq')
  BY <1>1 DEF Prefix, Row, View!FirstRows
<1>4. CASE lastSeq' = lastSeq
  BY <1>1, <1>4 DEF View!viewVars
<1>5. CASE lastSeq < lastSeq'
  BY <1>1, <1>2, <1>3, <1>5 DEF View!ViewNext, View!ShowMore
<1> QED BY <1>1, <1>4, <1>5

LEMMA ReadShowsStatus ==
  ASSUME VInv, VInv', shown <= shown', UNCHANGED <<log, version, cur, messages>>
  PROVE  View!ViewNext
<1>1. shown \in Nat /\ shown' \in Nat /\ cur \in Runs /\ version[cur] \in Nat
  BY DEF VInv, SInv, ViewOK, LogOK
<1>2. shown' <= version[cur]
  BY DEF VInv, StatusInv
<1>3. shown' \in shown .. version[cur]
  BY <1>1, <1>2
<1> QED BY <1>3 DEF View!ViewNext, View!ShowStatus

LEMMA StoreGrows ==
  ASSUME VInv, NEW r \in LiveRuns, Store(r) \/ SetState(r)
  PROVE  View!ViewNext
<1>1. r \in Runs /\ log \in [Runs -> SUBSET (Nat \ {0})] /\ version \in [Runs -> Nat]
  BY StreamAssumption DEF VInv, SInv, LogOK, ViewOK
<1>2. UNCHANGED <<cur, messages, shown>>
  BY DEF Store, SetState, streamVars
<1>3. CASE Store(r)
  <2>1. PICK s : log' = [log EXCEPT ![r] = @ \cup {s}]
    BY <1>3 DEF Store
  <2>2. log' = [log EXCEPT ![r] = log'[r]] /\ log[r] \subseteq log'[r]
    BY <1>1, <2>1
  <2>3. version' = version
    BY <1>3 DEF Store
  <2>4. version' = [version EXCEPT ![r] = version'[r]] /\ version[r] <= version'[r]
    BY <1>1, <2>3
  <2> QED BY <1>1, <1>2, <2>2, <2>4 DEF View!ViewNext, View!RunGrows
<1>4. CASE SetState(r)
  <2>1. version' = [version EXCEPT ![r] = @ + 1] /\ log' = log
    BY <1>4 DEF SetState
  <2>2. version' = [version EXCEPT ![r] = version'[r]] /\ version[r] <= version'[r]
    BY <1>1, <2>1
  <2>3. log' = [log EXCEPT ![r] = log'[r]] /\ log[r] \subseteq log'[r]
    BY <1>1, <2>1
  <2> QED BY <1>1, <1>2, <2>2, <2>3 DEF View!ViewNext, View!RunGrows
<1> QED BY <1>3, <1>4

LEMMA NavigateOpens ==
  ASSUME NEW r \in Runs, Navigate(r)
  PROVE  View!ViewNext
BY DEF Navigate, apiVars, View!ViewNext, View!Open

\* What a message frame or a replay brings makes the list no shorter.
LEMMA MergeGrows ==
  ASSUME VInv, OnMessageFrame \/ \E q \in reads : ReplayOk(q)
  PROVE  lastSeq <= lastSeq' /\ UNCHANGED <<log, version, cur, shown>>
<1>1. PICK B : Ingest(B)
  BY DEF OnMessageFrame, ReplayOk
<1>2. lastSeq \in Nat
  BY DEF VInv, SInv, Merged
<1>3. lastSeq <= lastSeq'
  <2> DEFINE avail == pending \cup {m \in B : m.seq > lastSeq /\ m.seq \notin SeqsIn(pending)}
  <2>1. lastSeq' \in lastSeq .. lastSeq + Cardinality(avail)
    BY <1>1, Zenon DEF Ingest
  <2> HIDE DEF avail
  <2> QED BY <1>2, <2>1
<1>4. UNCHANGED <<log, version, cur, shown>>
  BY Zenon DEF OnMessageFrame, FrameFrame, ReplayOk, ReadFrame, apiVars
<1> QED BY <1>3, <1>4

\* The live view implements RunView: it shows a growing prefix of the transcript of
\* the run it is open on and an ever newer status of it, and only opening another run
\* takes them away (useRunStream with the merge of runStream.ts).
THEOREM ViewIsRunView == Spec => ImplementsRunView
<1>1. Init => View!ViewInit
  BY InitIsViewInit
<1>2. ASSUME VInv, VInv', [Next]_vars
      PROVE  [View!ViewNext]_View!viewVars
  <2>1. CASE \E r \in LiveRuns : Store(r) \/ SetState(r)
    BY <1>2, <2>1, StoreGrows
  <2>2. CASE \E r \in Runs : Navigate(r)
    BY <2>2, NavigateOpens
  <2>3. CASE OnMessageFrame \/ \E q \in reads : ReplayOk(q)
    BY <1>2, <2>3, MergeGrows, MergeShowsMore
  <2>4. CASE \E q \in reads : ReadRunOk(q)
    <3>1. PICK q \in reads : ReadRunOk(q)
      BY <2>4
    <3>2. shown <= shown'
      BY <1>2, <3>1, ReadRunOkOK
    <3>3. UNCHANGED <<log, version, cur, messages>>
      BY <3>1, Zenon DEF ReadRunOk, ReadFrame, apiVars, streamVars
    <3> QED BY <1>2, <3>2, <3>3, ReadShowsStatus
  <2>5. CASE UNCHANGED <<log, version, cur, messages, shown>>
    BY <2>5 DEF View!viewVars
  <2>6. CASE UNCHANGED vars
    BY <2>6 DEF vars, apiVars, streamVars, View!viewVars
  <2>7. \/ \E r \in LiveRuns : Store(r) \/ SetState(r)
        \/ \E r \in Runs : Navigate(r)
        \/ OnMessageFrame \/ \E q \in reads : ReplayOk(q)
        \/ \E q \in reads : ReadRunOk(q)
        \/ UNCHANGED <<log, version, cur, messages, shown>>
        \/ UNCHANGED vars
    BY <1>2, Zenon DEF Next, HubStep, FrameStep, TimerStep, Settles, PublishRefresh, Publish, Accept, Subscribe,
       OnOpen, OnStateFrame, OnRefreshFrame, OnStaleFrame, FrameFrame, OnClose, Reconnects,
       CatchupFires, PollRun, Answer, ReplayFails, ReadRunFails, ReplayDropped, ReadFrame, apiVars, streamVars
  <2> QED BY <2>1, <2>2, <2>3, <2>4, <2>5, <2>6, <2>7
<1>3. VInv /\ VInv' /\ [Next]_vars => [View!ViewNext]_View!viewVars
  BY <1>2
<1> QED BY <1>1, <1>3, StreamInvariance, PTL DEF Spec, ImplementsRunView, View!ViewSpec
=============================================================================
