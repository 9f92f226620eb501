------------------------------- MODULE RunStream -------------------------------
(***************************************************************************)
(* The live view of a run in the browser: the hook web/src/lib/useRunStream *)
(* with the merge of runStream.ts, the in-process hub it is fed from        *)
(* (api/internal/hub), the socket (handler/ws.go) and the two REST reads.   *)
(*                                                                         *)
(* A transcript is what RunLog promises and no more: a set of seqs that     *)
(* grows in any order, and may have holes. A run's status is a version      *)
(* number; the last version is terminal. A row or a version is committed    *)
(* first and published to the hub later, in any order.                      *)
(*                                                                         *)
(* The hook fences what comes back late with counters it captures before an *)
(* await and compares after it: the generation, the evidence epoch, a       *)
(* ticket per kind of read, the identity of the socket. Such a counter only *)
(* ever tells "has it moved since"; the model keeps that bit in the read    *)
(* (genOk, epochOk, ticketOk) or in the frame (active) and clears it where  *)
(* the code advances the counter.                                           *)
(***************************************************************************)
EXTENDS Naturals, Sequences, FiniteSets

CONSTANTS
  Runs,           \* the runs the user may look at
  LiveRuns,       \* bound: those that get rows and states while they look
  MaxSeq,         \* bound: rows per run
  MaxVersion,     \* bound: status versions per run, the last one terminal
  SubBuffer,      \* subBuffer, with what the wire holds
  MaxUnpublished, \* bound: frames whose row is committed and that the hub has not seen
  MaxReplays,     \* bound: replays in flight
  MaxVisits,      \* bound: runs opened one after the other
  RefreshRuns,    \* bound: those for which health and refresh frames are published
  PageVisible,    \* the page is in view, so that it polls
  RefreshSeqs     \* seqs of the messages of a kind in REFRESH_KINDS

ASSUME StreamAssumption ==
  /\ LiveRuns \subseteq Runs
  /\ MaxSeq \in Nat /\ MaxVersion \in Nat \ {0} /\ MaxReplays \in Nat /\ MaxVisits \in Nat
  /\ RefreshRuns \subseteq Runs /\ PageVisible \in BOOLEAN
  /\ SubBuffer \in Nat \ {0} /\ RefreshSeqs \subseteq Nat /\ MaxUnpublished \in Nat

VARIABLES
  log, version,            \* per run: seqs stored, status version
  unpublished,             \* frames whose row is committed and that the hub has not seen
  server, queue,           \* the socket at the api; frames the hub has accepted, oldest first
  cur, visits,             \* activeRunIdRef; how many runs have been opened
  messages, lastSeq, pending,       \* streamRef: StreamState
  shown,                   \* version of the run on display (run, statusRef), 0 when null
  metadata, replayed, metaVersion,  \* evidenceRef's two flags, metadataEpochRef
  socket, reconnect, catchup,       \* ws and the two timers
  reads,                   \* REST reads in flight
  due                      \* history: the rows stored when the view last had reason to look

apiVars == <<log, version, unpublished>>
hubVars == <<server, queue>>
streamVars == <<messages, lastSeq, pending>>
evidenceVars == <<metadata, replayed, metaVersion>>
timerVars == <<socket, reconnect, catchup>>
vars == <<apiVars, hubVars, cur, visits, streamVars, shown, evidenceVars, timerVars, reads, due>>

Message == [run : Runs, seq : Nat \ {0}]
Frame == [type : {"message", "state", "refresh"}, run : Runs, seq : Nat, active : BOOLEAN]
Read == [kind : {"replay", "run"}, how : {"plain", "onKinds"}, run : Runs, after : Nat,
         answered : BOOLEAN, batch : SUBSET Message, version : Nat,
         genOk : BOOLEAN, epochOk : BOOLEAN, ticketOk : BOOLEAN]

Terminal(v) == v = MaxVersion
SeqsIn(S) == {m.seq : m \in S}
RowsAfter(r, n) == {[run |-> r, seq |-> s] : s \in {t \in log[r] : t > n}}

-----------------------------------------------------------------------------
(* The api and the hub                                                      *)

\* mutant: rows are numbered from 0
StoreFromZero(r) ==
  /\ Cardinality(unpublished) < MaxUnpublished
  /\ \E s \in 0 .. MaxSeq \ log[r] :
       /\ log' = [log EXCEPT ![r] = @ \cup {s}]
       /\ unpublished' = unpublished \cup {[type |-> "message", run |-> r, seq |-> s, active |-> TRUE]}
  /\ UNCHANGED <<version, hubVars, cur, visits, streamVars, shown, evidenceVars, timerVars, reads, due>>

\* A row of run r is committed; the hub is poked afterwards.
Store(r) ==
  /\ Cardinality(unpublished) < MaxUnpublished
  /\ \E s \in 1 .. MaxSeq \ log[r] :
       /\ log' = [log EXCEPT ![r] = @ \cup {s}]
       /\ unpublished' = unpublished \cup {[type |-> "message", run |-> r, seq |-> s, active |-> TRUE]}
  /\ UNCHANGED <<version, hubVars, cur, visits, streamVars, shown, evidenceVars, timerVars, reads, due>>

SetState(r) ==
  /\ Cardinality(unpublished) < MaxUnpublished
  /\ ~Terminal(version[r])
  /\ version' = [version EXCEPT ![r] = @ + 1]
  /\ unpublished' = unpublished \cup {[type |-> "state", run |-> r, seq |-> version[r] + 1, active |-> TRUE]}
  /\ UNCHANGED <<log, hubVars, cur, visits, streamVars, shown, evidenceVars, timerVars, reads, due>>

IsActive(f) == f.active
QueueFull == Len(SelectSeq(queue, IsActive)) >= SubBuffer

\* The hub never waits: a frame that finds no subscriber, or a full buffer, is gone.
Broadcast(f) ==
  queue' = IF server = "subscribed" /\ f.run = cur /\ ~QueueFull THEN Append(queue, f) ELSE queue

\* PublishHealth and PublishRefresh: a frame that only asks for a run re-read.
PublishRefresh(r) ==
  /\ Broadcast([type |-> "refresh", run |-> r, seq |-> 0, active |-> TRUE])
  /\ UNCHANGED <<apiVars, server, cur, visits, streamVars, shown, evidenceVars, timerVars, reads, due>>

\* PublishMessage and PublishState
Publish(f) ==
  /\ f \in unpublished
  /\ unpublished' = unpublished \ {f}
  /\ Broadcast(f)
  /\ UNCHANGED <<log, version, server, cur, visits, streamVars, shown, evidenceVars, timerVars, reads,
                 due>>

\* ServeWS: the handshake completes before the handler subscribes.
Accept ==
  /\ socket = "connecting" /\ server = "none"
  /\ server' = "accepted"
  /\ UNCHANGED <<apiVars, queue, cur, visits, streamVars, shown, evidenceVars, timerVars, reads, due>>

Subscribe ==
  /\ server = "accepted"
  /\ server' = "subscribed"
  /\ UNCHANGED <<apiVars, queue, cur, visits, streamVars, shown, evidenceVars, timerVars, reads, due>>

\* The api answers a read from what is stored at that moment.
Answer(q) ==
  /\ q \in reads /\ ~q.answered
  /\ reads' = (reads \ {q}) \cup
       {[q EXCEPT !.answered = TRUE,
                  !.after = 0,
                  !.batch = IF q.kind = "replay" THEN RowsAfter(q.run, q.after) ELSE {},
                  !.version = IF q.kind = "run" THEN version[q.run] ELSE 0]}
  /\ UNCHANGED <<apiVars, hubVars, cur, visits, streamVars, shown, evidenceVars, timerVars, due>>

-----------------------------------------------------------------------------
(* runStream.ts                                                             *)

\* ingest and ingestMany: what is at or below lastSeq is a duplicate; from
\* lastSeq + 1 on everything contiguous is appended, with what was pending; the
\* rest waits in pending.
Ingest(batch) ==
  LET avail == pending \cup {m \in batch : m.seq > lastSeq /\ m.seq \notin SeqsIn(pending)}
  IN  \E n \in lastSeq .. lastSeq + Cardinality(avail) :
        /\ \A s \in lastSeq + 1 .. n : s \in SeqsIn(avail)
        /\ n + 1 \notin SeqsIn(avail)
        /\ messages' = messages \o [i \in 1 .. n - lastSeq |-> CHOOSE m \in avail : m.seq = lastSeq + i]
        /\ lastSeq' = n
        /\ pending' = {m \in avail : m.seq > n}

\* A live message ahead of the stream that was not already waiting.
Gap(s) == s > lastSeq + 1 /\ s \notin SeqsIn(pending)

-----------------------------------------------------------------------------
(* useRunStream.ts: starting reads and fencing them                         *)

\* ++replayTicketRef: a replay in flight may still merge, but not certify.
StaleReplays(R) == {IF q.kind = "replay" THEN [q EXCEPT !.ticketOk = FALSE] ELSE q : q \in R}

\* mutant: a run read that was overtaken is applied all the same
RunReadsKeepTickets(R) == R

\* ++runReadTicketRef: the answer of a run read in flight will be ignored, so
\* the read is forgotten.
StaleRunReads(R) == {q \in R : q.kind = "replay"}

\* invalidateEvidence advances the epoch, an opened run the generation too.
StaleEpoch(R) == {[q EXCEPT !.epochOk = FALSE] : q \in R}

\* mutant: opening a run does not advance the generation
GenerationStays(R) == StaleEpoch(R)

StaleGeneration(R) == {[q EXCEPT !.genOk = FALSE, !.epochOk = FALSE] : q \in R}

\* bound: two superseded replays that are alike count as one
Room(n) == Cardinality({q \in reads : q.kind = "replay"}) + n <= MaxReplays

NewRead(kind, how, run, after) ==
  {[kind |-> kind, how |-> how, run |-> run, after |-> after, answered |-> FALSE, batch |-> {},
    version |-> 0, genOk |-> TRUE, epochOk |-> TRUE, ticketOk |-> TRUE]}
ReadRun(R, run) == StaleRunReads(R) \cup NewRead("run", "plain", run, 0)
Replay(R, how, run, after) == StaleReplays(R) \cup NewRead("replay", how, run, after)

InvalidateEvidence == metaVersion' = 0 /\ metadata' = FALSE /\ replayed' = FALSE

\* publishReadiness: pauseOriginReady as the page sees it.
Ready == metadata /\ replayed /\ pending = {}

-----------------------------------------------------------------------------
(* useRunStream.ts: the effect, the socket's callbacks and the timers       *)

\* mutant: the status of the run that is left stays on display
NavigateKeepsStatus(r) ==
  /\ r # cur /\ visits < MaxVisits /\ Room(1)
  /\ cur' = r /\ visits' = visits + 1
  /\ messages' = <<>> /\ lastSeq' = 0 /\ pending' = {}
  /\ InvalidateEvidence
  /\ reads' = Replay(ReadRun(StaleGeneration(reads), r), "plain", r, 0)
  /\ queue' = [i \in 1 .. Len(queue) |-> [queue[i] EXCEPT !.active = FALSE]]
  /\ server' = "none" /\ socket' = "connecting"
  /\ reconnect' = FALSE /\ catchup' = FALSE
  /\ due' = log[r]
  /\ UNCHANGED <<apiVars, shown>>

\* The cleanup of the old effect and the new effect, in one commit: nothing of
\* the old run survives but its reads in flight and the frames of its socket.
Navigate(r) ==
  /\ r # cur /\ visits < MaxVisits /\ Room(1)
  /\ cur' = r /\ visits' = visits + 1
  /\ messages' = <<>> /\ lastSeq' = 0 /\ pending' = {}
  /\ shown' = 0
  /\ InvalidateEvidence
  /\ reads' = Replay(ReadRun(StaleGeneration(reads), r), "plain", r, 0)
  /\ queue' = [i \in 1 .. Len(queue) |-> [queue[i] EXCEPT !.active = FALSE]]
  /\ server' = "none" /\ socket' = "connecting"
  /\ reconnect' = FALSE /\ catchup' = FALSE
  /\ due' = log[r]
  /\ UNCHANGED apiVars

OnOpen ==
  /\ socket = "connecting" /\ server # "none" /\ Room(1)
  /\ socket' = "open"
  /\ InvalidateEvidence
  /\ reads' = ReadRun(Replay(StaleEpoch(reads), "plain", cur, lastSeq), cur)
  /\ due' = log[cur]
  /\ UNCHANGED <<apiVars, hubVars, cur, visits, streamVars, shown, reconnect, catchup>>

FrameArrives == queue # <<>> /\ queue' = Tail(queue)
FrameFrame == UNCHANGED <<apiVars, server, cur, visits, shown, socket, reconnect>>

\* A message is merged; if it is ahead of the stream a catch-up is scheduled.
OnMessageFrame ==
  /\ FrameArrives /\ socket = "open"
  /\ LET f == Head(queue)
         refreshes == f.seq \in RefreshSeqs
         R == IF Gap(f.seq) THEN StaleReplays(reads) ELSE reads
     IN  /\ f.type = "message" /\ f.active
         /\ Ingest({[run |-> f.run, seq |-> f.seq]})
         /\ replayed' = (replayed /\ ~Gap(f.seq))
         /\ catchup' = (catchup \/ Gap(f.seq))
         /\ due' = IF Gap(f.seq) THEN log[cur] ELSE due
         /\ metadata' = (metadata /\ ~refreshes)
         /\ reads' = IF refreshes THEN ReadRun(R, cur) ELSE R
  /\ UNCHANGED metaVersion
  /\ FrameFrame

\* A state frame invalidates the evidence, fences replays in flight, schedules
\* a catch-up and re-reads the run.
OnStateFrame ==
  /\ FrameArrives /\ socket = "open"
  /\ Head(queue).type = "state" /\ Head(queue).active
  /\ InvalidateEvidence
  /\ catchup' = TRUE
  /\ due' = log[cur]
  /\ reads' = ReadRun(StaleReplays(StaleEpoch(reads)), cur)
  /\ UNCHANGED streamVars
  /\ FrameFrame

OnRefreshFrame ==
  /\ FrameArrives /\ socket = "open"
  /\ Head(queue).type = "refresh" /\ Head(queue).active
  /\ metadata' = FALSE
  /\ reads' = ReadRun(reads, cur)
  /\ UNCHANGED <<streamVars, replayed, metaVersion, catchup, due>>
  /\ FrameFrame

\* isActive: a callback of a socket the view has left changes nothing.
OnStaleFrame ==
  /\ FrameArrives /\ ~Head(queue).active
  /\ UNCHANGED <<streamVars, evidenceVars, catchup, reads, due>>
  /\ FrameFrame

\* The connection is lost, or was never made; a terminal run is not reconnected.
\* With it go its frames, and those of sockets left earlier, which change nothing.
OnClose ==
  /\ socket # "none"
  /\ socket' = "none" /\ server' = "none"
  /\ queue' = <<>>
  /\ InvalidateEvidence
  /\ reads' = StaleEpoch(reads)
  /\ reconnect' = ~Terminal(shown)
  /\ UNCHANGED <<apiVars, cur, visits, streamVars, shown, catchup, due>>

Reconnects ==
  /\ reconnect
  /\ reconnect' = FALSE /\ socket' = "connecting"
  /\ UNCHANGED <<apiVars, hubVars, cur, visits, streamVars, shown, evidenceVars, catchup, reads, due>>

CatchupFires ==
  /\ catchup /\ Room(1)
  /\ catchup' = FALSE
  /\ replayed' = FALSE
  /\ reads' = Replay(reads, "onKinds", cur, lastSeq)
  /\ UNCHANGED <<apiVars, hubVars, cur, visits, streamVars, shown, metadata, metaVersion, socket, reconnect,
                 due>>

\* usePollWhileVisible: a quiet read of the run while it is live. A poll that finds
\* the previous one outstanding waits for it; here it may also overtake it.
PollRun ==
  /\ PageVisible /\ shown # 0 /\ ~Terminal(shown)
  /\ metadata' = FALSE
  /\ reads' = ReadRun(reads, cur)
  /\ UNCHANGED <<apiVars, hubVars, cur, visits, streamVars, shown, replayed, metaVersion, timerVars,
                 due>>

-----------------------------------------------------------------------------
(* useRunStream.ts: what follows the await of a read                        *)

\* mutant: every replay of this visit certifies
CurrentVisit(q) == q.genOk

\* Nothing has called for a newer read since this one was started.
Current(q) == q.genOk /\ q.epochOk /\ q.ticketOk

ReadFrame == UNCHANGED <<apiVars, hubVars, cur, visits, timerVars, due>>

\* A replay is merged whatever has happened since in this visit, but only the
\* current one certifies; a superseded one that adds something revokes.
ReplayOk(q) ==
  /\ q \in reads /\ q.kind = "replay" /\ q.answered /\ q.genOk
  /\ Ingest(q.batch)
  /\ replayed' = (Current(q) \/ (replayed /\ UNCHANGED streamVars))
  /\ LET refreshes == q.how = "onKinds" /\ SeqsIn(q.batch) \cap RefreshSeqs # {}
     IN  /\ metadata' = (metadata /\ ~refreshes)
         /\ reads' = IF refreshes THEN ReadRun(reads \ {q}, cur) ELSE reads \ {q}
  /\ UNCHANGED <<shown, metaVersion>>
  /\ ReadFrame

ReplayFails(q) ==
  /\ q \in reads /\ q.kind = "replay" /\ q.genOk
  /\ reads' = reads \ {q}
  /\ replayed' = (replayed /\ ~Current(q))
  /\ UNCHANGED <<streamVars, shown, metadata, metaVersion>>
  /\ ReadFrame

\* The run on display is replaced by the newest read only; a status that moved
\* under the replay revokes it.
ReadRunOk(q) ==
  /\ q \in reads /\ q.kind = "run" /\ q.answered /\ q.genOk
  /\ reads' = reads \ {q}
  /\ shown' = q.version
  /\ IF q.epochOk
     THEN /\ replayed' = (replayed /\ metaVersion \in {0, q.version})
          /\ metaVersion' = q.version
          /\ metadata' = TRUE
     ELSE UNCHANGED evidenceVars
  /\ UNCHANGED <<streamVars>>
  /\ ReadFrame

ReadRunFails(q) ==
  /\ q \in reads /\ q.kind = "run" /\ q.genOk
  /\ reads' = reads \ {q}
  /\ metadata' = (metadata /\ ~q.epochOk)
  /\ UNCHANGED <<streamVars, shown, replayed, metaVersion>>
  /\ ReadFrame

\* A replay of an earlier visit comes back, or fails.
ReplayDropped(q) ==
  /\ q \in reads /\ ~q.genOk
  /\ reads' = reads \ {q}
  /\ UNCHANGED <<streamVars, shown, evidenceVars>>
  /\ ReadFrame

-----------------------------------------------------------------------------
\* The first run has just been opened.
Init ==
  /\ log = [r \in Runs |-> {}] /\ version = [r \in Runs |-> 1] /\ unpublished = {}
  /\ server = "none" /\ queue = <<>>
  /\ cur \in LiveRuns /\ visits = 1
  /\ messages = <<>> /\ lastSeq = 0 /\ pending = {}
  /\ shown = 0 /\ metadata = FALSE /\ replayed = FALSE /\ metaVersion = 0
  /\ socket = "connecting" /\ reconnect = FALSE /\ catchup = FALSE
  /\ reads = Replay(ReadRun({}, cur), "plain", cur, 0)
  /\ due = {}

HubStep == (\E f \in unpublished : Publish(f)) \/ Accept \/ Subscribe
FrameStep == OnMessageFrame \/ OnStateFrame \/ OnRefreshFrame \/ OnStaleFrame
TimerStep == Reconnects \/ CatchupFires
Settles(q) == ReplayOk(q) \/ ReplayFails(q) \/ ReadRunOk(q) \/ ReadRunFails(q) \/ ReplayDropped(q)
Next ==
  \/ \E r \in LiveRuns : Store(r) \/ SetState(r)
  \/ \E r \in RefreshRuns : PublishRefresh(r)
  \/ \E r \in Runs : Navigate(r)
  \/ HubStep \/ OnOpen \/ FrameStep \/ OnClose \/ TimerStep \/ PollRun
  \/ \E q \in reads : Answer(q) \/ Settles(q)

Spec == Init /\ [][Next]_vars

\* In the end connections stay up and reads succeed.
Heals == <>[][~OnClose /\ \A q \in reads : ~ReplayFails(q) /\ ~ReadRunFails(q)]_vars

\* What is published reaches the hub, connections are set up, callbacks and timers
\* run, reads settle; a run that has started reaches its end.
FairSpec ==
  /\ Spec
  /\ WF_vars(HubStep) /\ WF_vars(OnOpen) /\ WF_vars(FrameStep) /\ WF_vars(Reconnects) /\ WF_vars(CatchupFires)
  /\ WF_vars(\E q \in reads : Answer(q)) /\ WF_vars(\E q \in reads : q.answered /\ Settles(q))
  /\ \A r \in LiveRuns : WF_vars(SetState(r))
  /\ Heals

-----------------------------------------------------------------------------
(* Properties                                                               *)

\* Every variable has its type.
TypeOK ==
  /\ log \in [Runs -> SUBSET (Nat \ {0})] /\ version \in [Runs -> Nat] /\ unpublished \subseteq Frame
  /\ server \in {"none", "accepted", "subscribed"} /\ queue \in Seq(Frame)
  /\ cur \in Runs /\ visits \in Nat
  /\ messages \in Seq(Message) /\ lastSeq \in Nat /\ pending \subseteq Message
  /\ shown \in Nat /\ metadata \in BOOLEAN /\ replayed \in BOOLEAN /\ metaVersion \in Nat
  /\ socket \in {"none", "connecting", "open"} /\ reconnect \in BOOLEAN /\ catchup \in BOOLEAN
  /\ reads \subseteq Read
  /\ due \subseteq Nat \ {0}

\* The list on display is the transcript of the run on display from 1 to lastSeq:
\* nothing twice, nothing skipped, nothing out of order, nothing of another run,
\* whatever frames are dropped or repeated and however late a read comes back.
RendersPrefix ==
  /\ messages = [i \in 1 .. lastSeq |-> [run |-> cur, seq |-> i]]
  /\ 1 .. lastSeq \subseteq log[cur]

\* When the page is told that its evidence is complete, it shows every row that
\* was stored when it last had reason to look: when it opened the run, opened
\* the socket, saw a gap or was told of a state change. No read that was already
\* under way then can have certified it.
ReadyIsComplete == Ready => due \subseteq 1 .. lastSeq

\* Within a visit the run on display never goes back to an older status, although
\* reads of it overlap and come back in any order.
StatusNeverRegresses == [][visits' = visits => shown' >= shown]_vars

\* The live view does what RunView says and no more: what it shows grows, is about
\* the run it is open on, and is taken away by opening another run only, although
\* frames are dropped, reads of this visit and of earlier ones come back late, and
\* the socket comes and goes.
View == INSTANCE RunView WITH view <- messages, status <- shown
ImplementsRunView == View!ViewSpec

\* "A dropped or missed frame is recovered by the client's REST replay": a row that
\* is stored, with all before it, is shown in the end if the user stays and the
\* network heals.
LosslessView ==
  \A r \in Runs, s \in 1 .. MaxSeq :
    (cur = r /\ 1 .. s \subseteq log[r]) ~> (cur # r \/ lastSeq >= s)
=============================================================================
