------------------------------ MODULE BoardProofs ------------------------------
(***************************************************************************)
(* Proofs about the board automation, for any number of notifiers, any      *)
(* origins, drags and overlapping polls: the one terminal comment, that     *)
(* drags win, and that no run is put up for review before it has completed. *)
(***************************************************************************)
EXTENDS RunLifecycle, TLAPS

-----------------------------------------------------------------------------
(* Types                                                                    *)

Column == Columns \cup {Open}
Pc == {"idle", "context", "card", "forge", "cache", "record", "clear", "claim"}
MoverState == [pc : Pc, status : Statuses, target : Column, baseline : Column \cup {NULL},
               labels : SUBSET Columns, overtaken : BOOLEAN]
Card == [state : {"open", "closed", "absent"}, labels : SUBSET Columns]
Polled == Card \cup {NotPolling}
DragPc == {"idle", "forge", "cache", "clear"}

MoversOK == mover \in [Movers -> MoverState] /\ mover[Drag].pc \in DragPc
RunOK ==
  /\ status \in Statuses
  /\ originColumn \in Column \cup {NULL} /\ boardColumn \in Column \cup {NULL}
  /\ pending \in BOOLEAN /\ gaveUp \in BOOLEAN /\ commented \in BOOLEAN
IssueOK ==
  /\ forge \in SUBSET Columns /\ forgeState \in {"open", "closed", "gone"} /\ cache \in Card
  /\ fetched \in [Pollers -> Polled]
HistoryOK ==
  /\ notes \in 0 .. 2 /\ placedBy \in {"person", "machine"} /\ touches \in 0 .. MaxTouches

BoardOK == MoversOK /\ RunOK /\ IssueOK /\ HistoryOK

\* Labels are told from the other values of a column.
LEMMA ColumnFacts ==
  /\ Open \notin Columns /\ NULL \notin Column /\ Open # NULL
  /\ Drag \in Movers /\ Reconciler \in Automation /\ Drag \notin Automation
  /\ Automation \subseteq Movers /\ Notifiers \subseteq Automation
  /\ Movers = Automation \cup {Drag} /\ Reconciler \notin Notifiers
BY LifecycleAssumption, Zenon DEF Columns, Open, NULL, Column, Drag, Movers, Automation, Reconciler

LEMMA IdleOK == Idle \in MoverState
BY DEF Idle, MoverState, Pc, Statuses, Column

\* What a mover becomes after apply, or before it clears the marker, is well-formed.
LEMMA AfterApplyOK ==
  ASSUME NEW m \in Movers, NEW s \in Statuses
  PROVE  /\ AfterApply(m, s) \in MoverState /\ AfterApply(m, s).pc \in {"idle", "claim"}
         /\ m = Drag => AfterApply(m, s).pc = "idle"
         /\ Clearing(s) \in MoverState /\ Clearing(s).pc = "clear"
<1>1. Idle.pc = "idle"
  BY DEF Idle
<1>2. /\ [Idle EXCEPT !.pc = "claim", !.status = s] \in MoverState
      /\ [Idle EXCEPT !.pc = "claim", !.status = s].pc = "claim"
  BY IdleOK, Zenon DEF Idle, MoverState, Pc
<1>3. Clearing(s) \in MoverState /\ Clearing(s).pc = "clear"
  BY IdleOK, Zenon DEF Clearing, Idle, MoverState, Pc
<1> QED BY <1>1, <1>2, <1>3, IdleOK DEF AfterApply

\* The reconcile loop's decision and the notifier's agree but for a running run, and
\* name a column.
LEMMA Decisions ==
  ASSUME RunOK, NEW s \in Statuses
  PROVE  /\ reconcilerDecision(s).target \in Column /\ notifierDecision(s).target \in Column
         /\ reconcilerDecision(s).act \in BOOLEAN /\ notifierDecision(s).act \in BOOLEAN
         /\ originColumn # NULL => reconcilerDecision(s).act
         /\ s # "running" => notifierDecision(s) = reconcilerDecision(s)
         /\ reconcilerDecision("queued") = reconcilerDecision("running")
         /\ notifierDecision("running") = Skip
<1>1. MoveTo("In Progress").target \in Column /\ MoveTo("Human Review").target \in Column
      /\ MoveTo("In Progress").act /\ MoveTo("Human Review").act
  BY DEF MoveTo, Column, Columns
<1>2. Skip.target \in Column /\ Skip.act = FALSE
  BY DEF Skip, Column
<1>3. /\ restoreDecision.target \in Column /\ restoreDecision.act \in BOOLEAN
      /\ originColumn # NULL => restoreDecision.act
  <2>1. CASE originColumn = NULL
    BY <2>1, <1>2 DEF restoreDecision, Skip
  <2>2. CASE originColumn # NULL
    BY <2>2 DEF restoreDecision, MoveTo, RunOK
  <2> QED BY <2>1, <2>2
<1>4. CASE s = "queued"
  BY <1>1, <1>4, Zenon DEF reconcilerDecision, notifierDecision
<1>5. CASE s = "running"
  BY <1>1, <1>2, <1>5, Zenon DEF reconcilerDecision, notifierDecision
<1>6. CASE s = "completed"
  BY <1>1, <1>6, Zenon DEF reconcilerDecision, notifierDecision
<1>7. CASE s \in {"failed", "cancelled"}
  BY <1>3, <1>7 DEF reconcilerDecision, notifierDecision
<1>8. reconcilerDecision("queued") = reconcilerDecision("running") /\ notifierDecision("running") = Skip
  BY DEF reconcilerDecision, notifierDecision
<1> QED BY <1>4, <1>5, <1>6, <1>7, <1>8 DEF Statuses

\* A mover that becomes a well-formed one leaves the others as they are.
LEMMA BecomeOK ==
  ASSUME MoversOK, NEW m \in Movers, NEW state \in MoverState, m = Drag => state.pc \in DragPc,
         Become(m, state)
  PROVE  MoversOK' /\ mover'[m] = state /\ \A n \in Movers \ {m} : mover'[n] = mover[n]
<1>1. mover' = [mover EXCEPT ![m] = state] /\ Drag \in Movers
  BY ColumnFacts DEF Become
<1> QED BY <1>1 DEF MoversOK

\* A mover that only goes on to its next await.
LEMMA ProceedOK ==
  ASSUME MoversOK, NEW m \in Movers, NEW pc \in Pc, m = Drag => pc \in DragPc, Proceed(m, pc)
  PROVE  /\ MoversOK' /\ \A n \in Movers \ {m} : mover'[n] = mover[n]
         /\ mover'[m] = [mover[m] EXCEPT !.pc = pc]
<1>1. mover[m] \in MoverState
  BY DEF MoversOK
<1>2. [mover[m] EXCEPT !.pc = pc] \in MoverState /\ [mover[m] EXCEPT !.pc = pc].pc = pc
  BY <1>1 DEF MoverState
<1> QED BY <1>2, BecomeOK, Zenon DEF Proceed

\* A mover that has ended apply is idle, or about to claim the comment.
LEMMA EndApplyOK ==
  ASSUME MoversOK, NEW m \in Movers, EndApply(m)
  PROVE  /\ MoversOK' /\ \A n \in Movers \ {m} : mover'[n] = mover[n]
         /\ mover'[m].pc \in {"idle", "claim"}
<1>1. mover[m].status \in Statuses
  BY DEF MoversOK, MoverState
<1>2. /\ AfterApply(m, mover[m].status) \in MoverState
      /\ AfterApply(m, mover[m].status).pc \in {"idle", "claim"}
      /\ m = Drag => AfterApply(m, mover[m].status).pc \in DragPc
  BY <1>1, AfterApplyOK DEF DragPc
<1> QED BY <1>2, BecomeOK DEF EndApply

\* Notify starts a goroutine for a status in an idle slot.
LEMMA NotifyOK ==
  ASSUME MoversOK, NEW g \in Notifiers, NEW s \in Statuses, Notify(g, s)
  PROVE  /\ MoversOK' /\ \A n \in Movers \ {g} : mover'[n] = mover[n]
         /\ mover'[g].pc = "context" /\ mover'[g].status = s
<1> DEFINE st == [Idle EXCEPT !.pc = "context", !.status = s]
<1>1. st \in MoverState /\ st.pc = "context" /\ st.status = s
  BY IdleOK, Zenon DEF MoverState, Pc, Idle
<1>2. g \in Movers /\ g # Drag
  BY ColumnFacts
<1> HIDE DEF st
<1>3. Become(g, st)
  BY DEF Notify, st
<1> QED BY <1>1, <1>2, <1>3, BecomeOK

\* The status a mover goes by, and what it decides.
ReadStatus(m) == IF m = Reconciler THEN status ELSE mover[m].status
Decision(m) == IF m = Reconciler THEN reconcilerDecision(ReadStatus(m)) ELSE notifierDecision(ReadStatus(m))
Carded(m) == [mover[m] EXCEPT !.pc = "card", !.status = ReadStatus(m), !.target = Decision(m).target,
                              !.baseline = coalesceColumn]

\* What a mover is after it has read the run's context: done, or clearing, or on its
\* way to the card with the decision's target.
LEMMA ReadContextOK ==
  ASSUME MoversOK, RunOK, NEW m \in Movers, ReadContext(m)
  PROVE  /\ MoversOK' /\ \A n \in Movers \ {m} : mover'[n] = mover[n]
         /\ m \in Automation /\ mover[m] \in MoverState
         /\ ReadStatus(m) \in Statuses /\ Decision(m).target \in Column
         /\ \/ mover'[m].pc \in {"idle", "claim"}
            \/ mover'[m].pc = "clear" /\ ~Decision(m).act
            \/ Decision(m).act /\ mover'[m] = Carded(m)
<1> DEFINE state == IF m = Reconciler /\ ~pending THEN Idle
                    ELSE IF Decision(m).act THEN Carded(m)
                    ELSE IF Decision(m).clear THEN Clearing(ReadStatus(m)) ELSE AfterApply(m, ReadStatus(m))
<1>1. Become(m, state) /\ mover[m].pc = "context" /\ mover[m] \in MoverState /\ m \in Automation
  BY ColumnFacts DEF ReadContext, At, MoversOK, DragPc, ReadStatus, Decision, Carded
<1>2. ReadStatus(m) \in Statuses
  BY <1>1 DEF MoversOK, MoverState, RunOK, ReadStatus
<1>3. Decision(m).target \in Column /\ Decision(m).act \in BOOLEAN
  BY <1>2, Decisions DEF Decision
<1>4. coalesceColumn \in Column \cup {NULL}
  BY DEF coalesceColumn, RunOK
<1>5. m # Drag
  BY <1>1, ColumnFacts
<1>6. Carded(m) \in MoverState
  BY <1>1, <1>2, <1>3, <1>4, Zenon DEF MoverState, Pc, Carded
<1>7. state \in MoverState /\ \/ state.pc \in {"idle", "claim"}
                              \/ state.pc = "clear" /\ ~Decision(m).act
                              \/ Decision(m).act /\ state = Carded(m)
  <2>1. CASE m = Reconciler /\ ~pending
    BY <2>1, IdleOK DEF Idle
  <2>2. CASE ~(m = Reconciler /\ ~pending) /\ Decision(m).act
    BY <2>2, <1>6
  <2>3. CASE ~(m = Reconciler /\ ~pending) /\ ~Decision(m).act
    BY <2>3, <1>2, AfterApplyOK
  <2> QED BY <1>3, <2>1, <2>2, <2>3
<1> HIDE DEF state
<1>8. MoversOK' /\ mover'[m] = state /\ \A n \in Movers \ {m} : mover'[n] = mover[n]
  BY <1>1, <1>5, <1>7, BecomeOK
<1> QED BY <1>1, <1>2, <1>3, <1>7, <1>8

\* A drag overtakes the movers that have read their context, and nothing else of them changes.
Overtake(n) == [mover[n] EXCEPT !.overtaken = @ \/ mover[n].pc \in {"card", "forge", "cache"}]

LEMMA DragInCacheOK ==
  ASSUME MoversOK, MoveInCache(Drag)
  PROVE  /\ MoversOK' /\ mover'[Drag].pc = "clear"
         /\ \A n \in Automation : /\ mover'[n] = Overtake(n)
                                  /\ mover'[n].pc = mover[n].pc
                                  /\ mover'[n].overtaken = (mover[n].overtaken
                                                            \/ mover[n].pc \in {"card", "forge", "cache"})
         /\ placedBy' = "person"
<1>1. /\ mover' = [n \in Movers |-> IF n = Drag THEN Clearing(mover[n].status) ELSE Overtake(n)]
      /\ placedBy' = "person"
  BY DEF MoveInCache, Overtake
<1>2. \A n \in Movers : mover[n] \in MoverState /\ mover[n].status \in Statuses
  BY DEF MoversOK, MoverState
<1>3. \A n \in Movers : /\ Overtake(n) \in MoverState
                        /\ Overtake(n).pc = mover[n].pc
                        /\ Overtake(n).overtaken = (mover[n].overtaken
                                                    \/ mover[n].pc \in {"card", "forge", "cache"})
  BY <1>2, Zenon DEF Overtake, MoverState
<1>4. Clearing(mover[Drag].status) \in MoverState /\ Clearing(mover[Drag].status).pc = "clear"
  BY <1>2, AfterApplyOK, ColumnFacts
<1>5. mover'[Drag].pc = "clear" /\ \A n \in Automation : mover'[n] = Overtake(n)
  BY <1>1, <1>4, ColumnFacts
<1>6. mover' \in [Movers -> MoverState]
  BY <1>1, <1>2, <1>3, <1>4, SMTT(30)
<1> QED BY <1>1, <1>3, <1>5, <1>6, ColumnFacts DEF MoversOK, DragPc

\* A mover of the automation has written the cache and goes on to record the column.
LEMMA AutoInCacheOK ==
  ASSUME MoversOK, NEW m \in Automation, MoveInCache(m)
  PROVE  /\ MoversOK' /\ \A n \in Movers \ {m} : mover'[n] = mover[n]
         /\ mover'[m].pc = "record" /\ mover'[m].target = mover[m].target
         /\ placedBy' = "machine"
<1> DEFINE st == [Idle EXCEPT !.pc = "record", !.status = mover[m].status, !.target = mover[m].target]
<1>1. m \in Movers /\ m # Drag
  BY ColumnFacts
<1>2. mover[m].status \in Statuses /\ mover[m].target \in Column
  BY <1>1 DEF MoversOK, MoverState
<1>3. st \in MoverState /\ st.pc = "record" /\ st.target = mover[m].target
  BY <1>2, IdleOK, Zenon DEF MoverState, Pc, Idle
<1> HIDE DEF st
<1>4. Become(m, st) /\ placedBy' = "machine"
  BY <1>1 DEF MoveInCache, st
<1> QED BY <1>1, <1>3, <1>4, BecomeOK

\* A mover that reads the card has done with it, or leaves it alone, or will move it.
LEMMA ReadCardOK ==
  ASSUME MoversOK, IssueOK, NEW m \in Movers, ReadCard(m)
  PROVE  /\ MoversOK' /\ \A n \in Movers \ {m} : mover'[n] = mover[n]
         /\ m \in Automation /\ mover[m].pc = "card"
         /\ \/ mover'[m].pc \in {"idle", "claim"}
            \/ mover'[m].pc = "clear" /\ cache.state # "absent" /\ LeavesAlone(m)
            \/ /\ ~LeavesAlone(m) /\ cache.state # "absent"
               /\ mover'[m] = [mover[m] EXCEPT !.pc = "forge", !.labels = cache.labels]
<1>1. mover[m] \in MoverState /\ mover[m].status \in Statuses /\ m \in Automation /\ m # Drag /\ mover[m].pc = "card"
  BY ColumnFacts DEF MoversOK, MoverState, ReadCard, At
<1>2. CASE cache.state = "absent"
  <2>1. EndApply(m)
    BY <1>2 DEF ReadCard
  <2> QED BY <1>1, <2>1, EndApplyOK
<1>3. CASE cache.state # "absent" /\ LeavesAlone(m)
  <2>1. Become(m, Clearing(mover[m].status))
    BY <1>3 DEF ReadCard
  <2>2. Clearing(mover[m].status) \in MoverState /\ Clearing(mover[m].status).pc = "clear"
    BY <1>1, AfterApplyOK
  <2> QED BY <1>1, <1>3, <2>1, <2>2, BecomeOK
<1>4. CASE cache.state # "absent" /\ ~LeavesAlone(m)
  <2> DEFINE st == [mover[m] EXCEPT !.pc = "forge", !.labels = cache.labels]
  <2>1. st \in MoverState
    BY <1>1, Zenon DEF MoverState, Pc, IssueOK, Card
  <2> HIDE DEF st
  <2>2. Become(m, st)
    BY <1>4 DEF ReadCard, st
  <2> QED BY <1>1, <1>4, <2>1, <2>2, BecomeOK DEF st
<1> QED BY <1>2, <1>3, <1>4

\* A person picks the card up.
LEMMA MoveIssueOK ==
  ASSUME MoversOK, IssueOK, NEW target \in DragTargets, MoveIssue(target)
  PROVE  /\ MoversOK' /\ \A n \in Automation : mover'[n] = mover[n]
         /\ mover'[Drag].pc = "forge"
<1> DEFINE st == [Idle EXCEPT !.pc = "forge", !.target = target, !.labels = cache.labels]
<1>1. target \in Column
  BY LifecycleAssumption DEF Column
<1>2. st \in MoverState /\ st.pc = "forge"
  BY <1>1, IdleOK, Zenon DEF MoverState, Pc, Idle, IssueOK, Card
<1> HIDE DEF st
<1>3. Become(Drag, st)
  BY DEF MoveIssue, st
<1> QED BY <1>2, <1>3, BecomeOK, ColumnFacts DEF DragPc

\* The labels a move plans for are column labels.
LEMMA PlanOK ==
  ASSUME NEW L \in SUBSET Columns, NEW M \in SUBSET Columns, NEW target \in Column,
         NEW add \in SUBSET PlanAdd(M, target), NEW remove
  PROVE  Relabel(L, add, remove) \in SUBSET Columns
BY DEF PlanAdd, Relabel

\* What a poll reads is a card.
LEMMA ListedOK ==
  ASSUME IssueOK
  PROVE  Listed \in Card
BY DEF IssueOK, Listed, Absent, Card

\* A step of a mover preserves the types.
LEMMA StepOK ==
  ASSUME BoardOK, NEW m \in Movers, Step(m)
  PROVE  BoardOK'
<1>1. /\ MoversOK /\ RunOK /\ IssueOK /\ HistoryOK
      /\ mover[m] \in MoverState /\ mover[m].labels \in SUBSET Columns /\ mover[m].target \in Column
  BY DEF BoardOK, MoversOK, MoverState
<1>2. CASE ReadContext(m) \/ ContextFails(m) \/ ReadCard(m) \/ CardFails(m)
  <2>1. MoversOK'
    <3>1. ContextFails(m) => Idle \in MoverState /\ Idle.pc \in DragPc /\ Become(m, Idle)
      BY IdleOK DEF ContextFails, Idle, DragPc
    <3> QED BY <1>1, <1>2, <3>1, ReadContextOK, ReadCardOK, EndApplyOK, BecomeOK, Zenon DEF CardFails
  <2>2. UNCHANGED <<run, issue, notes, history>>
    BY <1>2 DEF ReadContext, ContextFails, ReadCard, CardFails
  <2> QED BY <1>1, <2>1, <2>2 DEF BoardOK, RunOK, IssueOK, HistoryOK, run, issue, history
<1>3. CASE MoveOnForge(m)
  <2>1. MoversOK'
    BY <1>1, <1>3, ProceedOK, Zenon DEF MoveOnForge, Pc, DragPc
  <2>2. forge' \in SUBSET Columns
    BY <1>1, <1>3, PlanOK DEF MoveOnForge, IssueOK
  <2> QED BY <1>1, <1>3, <2>1, <2>2 DEF MoveOnForge, BoardOK, RunOK, IssueOK, HistoryOK, run, history
<1>4. CASE ForgeFails(m)
  <2>1. MoversOK'
    BY <1>1, <1>4, EndApplyOK DEF ForgeFails
  <2>2. forge' \in SUBSET Columns
    BY <1>1, <1>4, PlanOK DEF ForgeFails, IssueOK
  <2> QED BY <1>1, <1>4, <2>1, <2>2 DEF ForgeFails, BoardOK, RunOK, IssueOK, HistoryOK, run, history
<1>5. CASE MoveInCache(m)
  <2>1. MoversOK' /\ placedBy' \in {"person", "machine"}
    BY <1>1, <1>5, DragInCacheOK, AutoInCacheOK, ColumnFacts
  <2>2. cache' \in Card
    <3> DEFINE L == IF cache.state = "absent" THEN mover[m].labels ELSE cache.labels
    <3>1. L \in SUBSET Columns
      BY <1>1 DEF IssueOK, Card
    <3>2. cache' = [state |-> "open",
                    labels |-> Relabel(L, PlanAdd(mover[m].labels, mover[m].target),
                                       PlanRemove(mover[m].labels, mover[m].target))]
      BY <1>5 DEF MoveInCache
    <3> HIDE DEF L
    <3>3. cache'.labels \in SUBSET Columns /\ cache' = [state |-> "open", labels |-> cache'.labels]
      BY <1>1, <3>1, <3>2, PlanOK
    <3> QED BY <3>3 DEF Card
  <2> QED BY <1>1, <1>5, <2>1, <2>2 DEF MoveInCache, BoardOK, RunOK, IssueOK, HistoryOK, run
<1>6. CASE CacheFails(m) \/ RecordFails(m)
  <2>1. MoversOK'
    BY <1>1, <1>6, EndApplyOK DEF CacheFails, RecordFails
  <2>2. UNCHANGED <<run, issue, notes, history>>
    BY <1>6 DEF CacheFails, RecordFails
  <2> QED BY <1>1, <2>1, <2>2 DEF BoardOK, RunOK, IssueOK, HistoryOK, run, issue, history
<1>7. CASE RecordRunColumnMove(m) \/ ClearRunMovePending(m)
  <2>1. MoversOK'
    BY <1>1, <1>7, EndApplyOK DEF RecordRunColumnMove, ClearRunMovePending
  <2>2. /\ boardColumn' \in Column \cup {NULL} /\ pending' = FALSE /\ gaveUp' = FALSE
        /\ UNCHANGED <<status, originColumn, commented, issue, notes, history>>
    BY <1>1, <1>7 DEF RecordRunColumnMove, ClearRunMovePending, RunOK
  <2> QED BY <1>1, <2>1, <2>2, Zenon DEF BoardOK, RunOK, IssueOK, HistoryOK, issue, history
<1>8. CASE ClearFails(m)
  <2>1. MoversOK'
    BY <1>1, <1>8, EndApplyOK DEF ClearFails
  <2> QED BY <1>1, <1>8, <2>1 DEF ClearFails, BoardOK, RunOK, IssueOK, HistoryOK, run, issue, history
<1>9. CASE ClaimAutopilotTerminalComment(m) \/ ClaimFails(m)
  <2>1. Become(m, Idle) /\ Idle.pc \in DragPc
    BY <1>9 DEF ClaimAutopilotTerminalComment, ClaimFails, Idle, DragPc
  <2>2. MoversOK'
    BY <1>1, <2>1, IdleOK, BecomeOK
  <2>3. notes' \in 0 .. 2 /\ commented' \in BOOLEAN
    <3>1. notes \in 0 .. 2 /\ Posted \in 0 .. 2
      BY <1>1 DEF HistoryOK, Posted
    <3>2. CASE ClaimAutopilotTerminalComment(m)
      BY <3>1, <3>2 DEF ClaimAutopilotTerminalComment
    <3>3. CASE ClaimFails(m)
      BY <1>1, <3>1, <3>3 DEF ClaimFails, RunOK, run
    <3> QED BY <1>9, <3>2, <3>3
  <2>4. UNCHANGED <<status, originColumn, boardColumn, pending, gaveUp, issue, history>>
    BY <1>9 DEF ClaimAutopilotTerminalComment, ClaimFails, run
  <2> QED BY <1>1, <2>2, <2>3, <2>4 DEF BoardOK, RunOK, IssueOK, HistoryOK, issue, history
<1> QED BY <1>2, <1>3, <1>4, <1>5, <1>6, <1>7, <1>8, <1>9 DEF Step

\* Every step preserves the types.
LEMMA NextOK ==
  ASSUME BoardOK, [Next]_vars
  PROVE  BoardOK'
<1>1. MoversOK /\ RunOK /\ IssueOK /\ HistoryOK
  BY DEF BoardOK
<1>2. CASE SetRunRunning \/ GiveUp
  BY <1>1, <1>2, Zenon DEF SetRunRunning, GiveUp, BoardOK, MoversOK, RunOK, IssueOK, HistoryOK, issue, history, Statuses
<1>3. ASSUME NEW g \in Notifiers, RequeueRun(g) \/ \E s \in Statuses : SetRunTerminal(g, s)
      PROVE  BoardOK'
  <2>1. PICK s \in Statuses : Notify(g, s) /\ status' = s
    BY <1>3 DEF RequeueRun, SetRunTerminal, Statuses
  <2>2. MoversOK'
    BY <1>1, <2>1, NotifyOK
  <2>3. RunOK'
    BY <1>1, <1>3, <2>1, Zenon DEF RequeueRun, SetRunTerminal, StampMarker, RunOK
  <2>4. UNCHANGED <<issue, notes, history>>
    BY <1>3 DEF RequeueRun, SetRunTerminal
  <2> QED BY <1>1, <2>2, <2>3, <2>4 DEF BoardOK, IssueOK, HistoryOK, issue, history
<1>4. CASE Reconcile
  <2>1. MoversOK'
    BY <1>1, <1>4, ProceedOK, ColumnFacts, Zenon DEF Reconcile, Pc
  <2> QED BY <1>1, <1>4, <2>1 DEF Reconcile, BoardOK, RunOK, IssueOK, HistoryOK, run, issue, history
<1>5. CASE \E m \in Movers : Step(m)
  BY <1>5, StepOK
<1>6. CASE \E target \in DragTargets : MoveIssue(target)
  <2>1. MoversOK'
    BY <1>1, <1>6, MoveIssueOK
  <2>2. touches' \in 0 .. MaxTouches
    BY <1>1, <1>6, LifecycleAssumption DEF MoveIssue, Touch, HistoryOK
  <2> QED BY <1>1, <1>6, <2>1, <2>2 DEF MoveIssue, BoardOK, RunOK, IssueOK, HistoryOK, run, issue
<1>7. ASSUME NEW p \in Pollers, ListIssues(p) \/ UpsertIssue(p) \/ PollFails(p)
      PROVE  BoardOK'
  <2>1. NotPolling \in Polled /\ Listed \in Polled
    BY <1>1, ListedOK DEF Polled
  <2>2. fetched' \in [Pollers -> Polled]
    BY <1>1, <1>7, <2>1 DEF ListIssues, UpsertIssue, PollFails, IssueOK
  <2>3. cache' \in Card /\ placedBy' \in {"person", "machine"}
    BY <1>1, <1>7 DEF ListIssues, UpsertIssue, PollFails, IssueOK, HistoryOK, Polled, history
  <2>4. UNCHANGED <<run, forge, forgeState, mover, notes, touches>>
    BY <1>7 DEF ListIssues, UpsertIssue, PollFails, history
  <2> QED BY <1>1, <2>2, <2>3, <2>4 DEF BoardOK, MoversOK, RunOK, IssueOK, HistoryOK, run
<1>8. CASE CloseIssue
  <2>1. touches' \in 0 .. MaxTouches
    BY <1>1, <1>8, LifecycleAssumption DEF CloseIssue, Touch, HistoryOK
  <2> QED BY <1>1, <1>8, <2>1 DEF CloseIssue, BoardOK, MoversOK, RunOK, IssueOK, HistoryOK, run
<1>9. CASE Crash
  <2>1. MoversOK' /\ fetched' \in [Pollers -> Polled]
    BY <1>9, IdleOK, ColumnFacts DEF Crash, MoversOK, DragPc, Idle, Polled
  <2> QED BY <1>1, <1>9, <2>1 DEF Crash, BoardOK, RunOK, IssueOK, HistoryOK, run, history
<1>10. CASE UNCHANGED vars
  BY <1>1, <1>10 DEF vars, run, issue, history, BoardOK, MoversOK, RunOK, IssueOK, HistoryOK
<1> QED BY <1>2, <1>3, <1>4, <1>5, <1>6, <1>7, <1>8, <1>9, <1>10 DEF Next

\* The types hold of a run that was just created, with one notifier on its way.
LEMMA InitOK ==
  ASSUME Init
  PROVE  BoardOK /\ \A m \in Movers : mover[m].pc \in {"idle", "context"}
<1>1. PICK g \in Notifiers :
        mover = [m \in Movers |-> IF m = g THEN [Idle EXCEPT !.pc = "context"] ELSE Idle]
  BY DEF Init
<1>2. [Idle EXCEPT !.pc = "context"] \in MoverState /\ [Idle EXCEPT !.pc = "context"].pc = "context"
  BY IdleOK, Zenon DEF Idle, MoverState, Pc
<1>3. mover \in [Movers -> MoverState] /\ \A m \in Movers : mover[m].pc \in {"idle", "context"}
  BY <1>1, <1>2, IdleOK DEF Idle
<1>4. mover[Drag].pc = "idle"
  BY <1>1, ColumnFacts DEF Idle
<1>5. RunOK
  <2>1. originColumn \in Column \cup {NULL}
    BY LifecycleAssumption DEF Init, Column
  <2> QED BY <2>1, Zenon DEF Init, RunOK, Statuses
<1>6. IssueOK
  <2>1. forge \in SUBSET Columns
    BY DEF Init
  <2>2. fetched \in [Pollers -> Polled]
    BY DEF Init, Polled
  <2> QED BY <2>1, <2>2 DEF Init, IssueOK, Card
<1>7. HistoryOK
  <2>1. notes = 0 /\ placedBy = "person" /\ touches = 0 /\ MaxTouches \in Nat
    BY LifecycleAssumption DEF Init
  <2> QED BY <2>1 DEF HistoryOK
<1> QED BY <1>3, <1>4, <1>5, <1>6, <1>7 DEF BoardOK, MoversOK, DragPc

\* Every variable keeps its type, and only a mover of the automation reads a run,
\* records a column or claims the comment.
THEOREM TypeCorrect == Spec => []TypeOK
<1>1. Init => BoardOK
  BY InitOK
<1>2. BoardOK /\ [Next]_vars => BoardOK'
  BY NextOK
<1>3. BoardOK => TypeOK
  BY ColumnFacts DEF BoardOK, MoversOK, RunOK, IssueOK, HistoryOK, Card, Polled, MoverState, Pc, DragPc, Column, TypeOK
<1> QED BY <1>1, <1>2, <1>3, PTL DEF Spec

-----------------------------------------------------------------------------
(* The terminal comment                                                     *)

\* A comment is posted only by whoever set the mark.
CommentInv == notes <= 1 /\ (~commented => notes = 0)

LEMMA NextComments ==
  ASSUME BoardOK, CommentInv, [Next]_vars
  PROVE  CommentInv'
<1>1. CASE \E m \in Movers : ClaimAutopilotTerminalComment(m)
  <2>1. notes \in 0 .. 2 /\ commented \in BOOLEAN
    BY DEF BoardOK, HistoryOK, RunOK
  <2>2. commented' /\ (commented => notes' = notes) /\ (~commented => notes' \in {notes, Posted})
    BY <1>1, <2>1 DEF ClaimAutopilotTerminalComment
  <2>3. notes' <= 1
    <3>1. CASE commented
      BY <2>2, <3>1 DEF CommentInv
    <3>2. CASE ~commented
      <4>1. notes = 0 /\ Posted = 1
        BY <3>2 DEF CommentInv, Posted
      <4> QED BY <2>2, <3>2, <4>1
    <3> QED BY <3>1, <3>2
  <2> QED BY <2>2, <2>3 DEF CommentInv
<1>2. CASE ~\E m \in Movers : ClaimAutopilotTerminalComment(m)
  <2>1. UNCHANGED <<notes, commented>>
    BY <1>2, Zenon DEF Next, Step, vars, run, SetRunRunning, RequeueRun, SetRunTerminal, Reconcile, GiveUp, ReadContext,
       ContextFails, ReadCard, CardFails, MoveOnForge, ForgeFails, MoveInCache, CacheFails,
       RecordRunColumnMove, RecordFails, ClearRunMovePending, ClearFails, ClaimFails, MoveIssue, ListIssues,
       UpsertIssue, PollFails, CloseIssue, Crash
  <2> QED BY <2>1 DEF CommentInv
<1> QED BY <1>1, <1>2

\* An autopilot run gets at most one terminal comment, however many notifiers and
\* reconcile passes race to post it and wherever the api restarts.
THEOREM CommentedOnce == Spec => []OneTerminalComment
<1>1. Init => BoardOK /\ CommentInv
  <2>1. Init => notes = 0
    BY DEF Init
  <2> QED BY <2>1, InitOK DEF CommentInv
<1>2. BoardOK /\ CommentInv /\ [Next]_vars => (BoardOK /\ CommentInv)'
  BY NextOK, NextComments
<1>3. CommentInv => OneTerminalComment
  BY DEF CommentInv, OneTerminalComment
<1> QED BY <1>1, <1>2, <1>3, PTL DEF Spec

-----------------------------------------------------------------------------
(* Drags                                                                    *)

\* While a drag is what the board shows, a mover that has passed apply's guards and
\* was not overtaken by the drag found the card where its baseline says.
Deciding(m) == mover[m].pc \in {"forge", "cache"}
DragInv ==
  \A m \in Automation :
    (Deciding(m) /\ ~mover[m].overtaken /\ placedBy = "person") => Shown = mover[m].baseline

\* Most steps take no mover past the guards and leave the cache alone.
LEMMA DragFrame ==
  ASSUME DragInv, UNCHANGED <<cache, placedBy>>,
         \A m \in Automation : mover'[m] = mover[m] \/ mover'[m].pc \notin {"forge", "cache"}
  PROVE  DragInv'
BY DEF DragInv, Deciding, Shown

LEMMA StepDrags ==
  ASSUME BoardOK, DragInv, NEW m \in Movers, Step(m)
  PROVE  DragInv'
<1>1. MoversOK /\ RunOK /\ IssueOK /\ mover[m] \in MoverState /\ Automation \subseteq Movers
  BY ColumnFacts DEF BoardOK, MoversOK
<1>2. CASE ReadContext(m)
  <2>1. UNCHANGED <<cache, placedBy>>
    BY <1>2 DEF ReadContext, issue, history
  <2>2. mover'[m].pc \notin {"forge", "cache"}
    <3>1. mover[m] \in MoverState => Carded(m).pc = "card"
      BY DEF Carded, MoverState
    <3> QED BY <1>1, <1>2, <3>1, ReadContextOK
  <2> QED BY <1>1, <1>2, <2>1, <2>2, ReadContextOK, DragFrame
<1>3. CASE ContextFails(m) \/ ClaimAutopilotTerminalComment(m) \/ ClaimFails(m)
  <2>1. Become(m, Idle) /\ UNCHANGED <<cache, placedBy>> /\ Idle.pc = "idle"
    BY <1>3 DEF ContextFails, ClaimAutopilotTerminalComment, ClaimFails, issue, history, Idle
  <2>2. mover'[m] = Idle /\ \A n \in Movers \ {m} : mover'[n] = mover[n]
    BY <1>1, <2>1, IdleOK, BecomeOK DEF DragPc
  <2> QED BY <1>1, <2>1, <2>2, DragFrame
<1>4. CASE CardFails(m) \/ ForgeFails(m) \/ CacheFails(m) \/ RecordRunColumnMove(m) \/ RecordFails(m)
           \/ ClearRunMovePending(m) \/ ClearFails(m)
  <2>1. EndApply(m) /\ UNCHANGED <<cache, placedBy>>
    BY <1>4 DEF CardFails, ForgeFails, CacheFails, RecordRunColumnMove, RecordFails, ClearRunMovePending, ClearFails,
       issue, history
  <2> QED BY <1>1, <2>1, EndApplyOK, DragFrame
<1>5. CASE ReadCard(m)
  <2>1. UNCHANGED <<cache, placedBy>>
    BY <1>5 DEF ReadCard, issue, history
  <2>2. CASE mover'[m].pc \notin {"forge", "cache"}
    BY <1>1, <1>5, <2>1, <2>2, ReadCardOK, DragFrame, Zenon
  <2>3. CASE mover'[m].pc \in {"forge", "cache"}
    <3>1. ~LeavesAlone(m) /\ mover'[m] = [mover[m] EXCEPT !.pc = "forge", !.labels = cache.labels]
      BY <1>1, <1>5, <2>3, ReadCardOK, Zenon
    <3>2. Shown = mover'[m].baseline
      BY <1>1, <3>1 DEF LeavesAlone, Shown, MoverState
    <3>3. Shown' = Shown /\ \A n \in Automation \ {m} : mover'[n] = mover[n]
      BY <1>1, <1>5, <2>1, ReadCardOK, Zenon DEF Shown
    <3> QED BY <2>1, <3>2, <3>3 DEF DragInv, Deciding
  <2> QED BY <2>2, <2>3
<1>6. CASE MoveOnForge(m)
  <2>1. Proceed(m, "cache") /\ mover[m].pc = "forge" /\ UNCHANGED <<cache, placedBy>>
    BY <1>6 DEF MoveOnForge, At, history
  <2>2. mover'[m] = [mover[m] EXCEPT !.pc = "cache"] /\ \A n \in Movers \ {m} : mover'[n] = mover[n]
    BY <1>1, <2>1, ProceedOK, Zenon DEF Pc, DragPc
  <2>3. mover'[m].baseline = mover[m].baseline /\ mover'[m].overtaken = mover[m].overtaken
    BY <1>1, <2>2 DEF MoverState
  <2> QED BY <1>1, <2>1, <2>2, <2>3, Zenon DEF DragInv, Deciding, Shown
<1>7. CASE MoveInCache(m)
  <2>1. CASE m = Drag
    BY <1>1, <1>7, <2>1, DragInCacheOK, Zenon DEF DragInv, Deciding
  <2>2. CASE m \in Automation
    BY <1>1, <1>7, <2>2, AutoInCacheOK DEF DragInv
  <2> QED BY <2>1, <2>2, ColumnFacts
<1> QED BY <1>2, <1>3, <1>4, <1>5, <1>6, <1>7 DEF Step

LEMMA NextDrags ==
  ASSUME BoardOK, DragInv, [Next]_vars
  PROVE  DragInv'
<1>1. MoversOK /\ RunOK /\ IssueOK /\ Automation \subseteq Movers
  BY ColumnFacts DEF BoardOK
<1>2. CASE SetRunRunning \/ GiveUp \/ CloseIssue \/ UNCHANGED vars
  <2>1. UNCHANGED <<mover, cache, placedBy>>
    BY <1>2 DEF SetRunRunning, GiveUp, CloseIssue, vars, issue, history
  <2> QED BY <2>1, DragFrame
<1>3. ASSUME NEW g \in Notifiers, RequeueRun(g) \/ \E s \in Statuses : SetRunTerminal(g, s)
      PROVE  DragInv'
  <2>1. PICK s \in Statuses : Notify(g, s)
    BY <1>3 DEF RequeueRun, SetRunTerminal, Statuses
  <2>2. UNCHANGED <<cache, placedBy>>
    BY <1>3 DEF RequeueRun, SetRunTerminal, issue, history
  <2> QED BY <1>1, <2>1, <2>2, NotifyOK, DragFrame
<1>4. CASE Reconcile
  <2>1. Proceed(Reconciler, "context") /\ UNCHANGED <<cache, placedBy>>
    BY <1>4 DEF Reconcile, issue, history
  <2>2. Reconciler \in Movers /\ Reconciler # Drag /\ mover[Reconciler] \in MoverState
    BY <1>1, ColumnFacts DEF MoversOK
  <2>3. mover'[Reconciler] = [mover[Reconciler] EXCEPT !.pc = "context"]
        /\ \A n \in Movers \ {Reconciler} : mover'[n] = mover[n]
    BY <1>1, <2>1, <2>2, ProceedOK, Zenon DEF Pc
  <2>4. mover'[Reconciler].pc = "context"
    BY <2>2, <2>3 DEF MoverState
  <2> QED BY <1>1, <2>1, <2>3, <2>4, DragFrame, Zenon
<1>5. CASE \E m \in Movers : Step(m)
  BY <1>5, StepDrags
<1>6. CASE \E target \in DragTargets : MoveIssue(target)
  <2>1. UNCHANGED <<cache, placedBy>>
    BY <1>6 DEF MoveIssue, issue
  <2> QED BY <1>1, <1>6, <2>1, MoveIssueOK, DragFrame
<1>7. CASE \E p \in Pollers : ListIssues(p) \/ UpsertIssue(p) \/ PollFails(p)
  <2>1. mover' = mover /\ (cache'.labels = cache.labels \/ placedBy' = "machine")
        /\ (placedBy' = placedBy \/ placedBy' = "machine")
    BY <1>7 DEF ListIssues, UpsertIssue, PollFails, history
  <2> QED BY <2>1 DEF DragInv, Deciding, Shown
<1>8. CASE Crash
  <2>1. UNCHANGED <<cache, placedBy>> /\ \A m \in Automation : mover'[m].pc = "idle"
    BY <1>1, <1>8 DEF Crash, history, Idle
  <2> QED BY <2>1, DragFrame
<1> QED BY <1>2, <1>3, <1>4, <1>5, <1>6, <1>7, <1>8 DEF Next

\* Manual drags win: a mover that reads the run's context once a drag is in the
\* cache moves the card only from where the automation had last left it.
THEOREM DragsAlwaysWin == Spec => DragsWin
<1>1. Init => BoardOK /\ DragInv
  BY InitOK, ColumnFacts DEF DragInv, Deciding
<1>2. BoardOK /\ DragInv /\ [Next]_vars => (BoardOK /\ DragInv)'
  BY NextOK, NextDrags
<1>3. DragInv => [\A m \in Automation :
                     (MoveInCache(m) /\ placedBy = "person" /\ ~mover[m].overtaken /\ cache.state = "open")
                        => Shown = mover[m].baseline]_vars
  BY Zenon DEF DragInv, Deciding, MoveInCache, At
<1> QED BY <1>1, <1>2, <1>3, PTL DEF Spec, DragsWin

-----------------------------------------------------------------------------
(* No review before completion                                              *)

\* Nothing that the forge, the cache, a poll or a mover holds is about a review.
Review == "Human Review"
CalmMover(st) == st.target # Review /\ Review \notin st.labels /\ st.status # "completed"
CalmMovers == \A m \in Movers : CalmMover(mover[m])
CalmIssue ==
  /\ Review \notin forge /\ Review \notin cache.labels
  /\ \A p \in Pollers : Review \notin fetched[p].labels
Calm == CalmIssue /\ CalmMovers

\* The run has not completed, came from another column, and nobody has touched the card.
Unfinished == touches = 0 /\ originColumn \notin {NULL, Review} /\ status # "completed"
ReviewInv == Unfinished => Calm

\* What a mover is before, between and after its passes.
LEMMA CalmIdle ==
  ASSUME NEW m \in Movers, NEW s \in Statuses, s # "completed"
  PROVE  CalmMover(Idle) /\ CalmMover(Clearing(s)) /\ CalmMover(AfterApply(m, s))
<1>1. CalmMover(Idle)
  BY DEF CalmMover, Idle, Review, Open
<1>2. CalmMover([Idle EXCEPT !.pc = "claim", !.status = s]) /\ CalmMover(Clearing(s))
  BY DEF CalmMover, Clearing, Idle, Review, Open
<1> QED BY <1>1, <1>2 DEF AfterApply

\* One mover goes on and the others are as they were.
LEMMA CalmBecome ==
  ASSUME CalmMovers, NEW m \in Movers, CalmMover(mover'[m]), \A n \in Movers \ {m} : mover'[n] = mover[n]
  PROVE  CalmMovers'
BY DEF CalmMovers, CalmMover

\* A mover that ends apply holds nothing about a review.
LEMMA CalmEnd ==
  ASSUME MoversOK, CalmMovers, NEW m \in Movers, EndApply(m)
  PROVE  CalmMovers'
<1>1. mover[m].status \in Statuses /\ mover[m].status # "completed"
  BY DEF MoversOK, MoverState, CalmMovers, CalmMover
<1>2. mover' = [mover EXCEPT ![m] = AfterApply(m, mover[m].status)] /\ m \in DOMAIN mover
  BY DEF EndApply, Become, MoversOK
<1>3. CalmMover(AfterApply(m, mover[m].status))
  BY <1>1, CalmIdle
<1> QED BY <1>2, <1>3, CalmBecome

\* Only the decision for a completed run is Human Review.
LEMMA CalmDecision ==
  ASSUME NEW s \in Statuses, s # "completed", originColumn # Review
  PROVE  reconcilerDecision(s).target # Review /\ notifierDecision(s).target # Review
<1>1. MoveTo("In Progress").target # Review /\ Skip.target # Review
  BY DEF MoveTo, Skip, Review, Open
<1>2. restoreDecision.target # Review
  <2>1. [Skip EXCEPT !.clear = TRUE].target # Review /\ MoveTo(originColumn).target # Review
    BY DEF Skip, MoveTo, Review, Open
  <2> QED BY <2>1 DEF restoreDecision
<1>3. CASE s = "queued"
  BY <1>1, <1>3, Zenon DEF reconcilerDecision, notifierDecision
<1>4. CASE s = "running"
  BY <1>1, <1>4, Zenon DEF reconcilerDecision, notifierDecision
<1>5. CASE s \in {"failed", "cancelled"}
  BY <1>2, <1>5 DEF reconcilerDecision, notifierDecision
<1> QED BY <1>3, <1>4, <1>5 DEF Statuses

\* Moving a card by a plan that is not about a review does not put it there.
LEMMA CalmRelabel ==
  ASSUME NEW L, Review \notin L, NEW M, NEW target, target # Review, NEW remove
  PROVE  Review \notin Relabel(L, PlanAdd(M, target), remove)
BY DEF Relabel, PlanAdd

\* A step of a mover keeps the calm while the run is unfinished.
LEMMA StepCalm ==
  ASSUME BoardOK, Unfinished, Calm, NEW m \in Movers, Step(m)
  PROVE  Calm'
<1>1. /\ MoversOK /\ RunOK /\ IssueOK /\ CalmIssue /\ CalmMovers /\ CalmMover(mover[m])
      /\ mover[m] \in MoverState /\ mover[m].status \in Statuses
  BY DEF BoardOK, MoversOK, MoverState, Calm, CalmMovers
<1>2. CASE ReadContext(m)
  <2>1. ReadStatus(m) \in Statuses /\ ReadStatus(m) # "completed"
    BY <1>1, <1>2, ReadContextOK DEF ReadStatus, CalmMover, Unfinished
  <2>2. Decision(m).target # Review
    BY <2>1, CalmDecision DEF Decision, Unfinished
  <2>3. CalmMover(Carded(m))
    BY <1>1, <2>1, <2>2, Zenon DEF Carded, CalmMover, MoverState
  <2>4. /\ CalmMover(Idle) /\ CalmMover(Clearing(ReadStatus(m))) /\ CalmMover(AfterApply(m, ReadStatus(m)))
    BY <2>1, CalmIdle
  <2>5. mover'[m] \in {Idle, Carded(m), Clearing(ReadStatus(m)), AfterApply(m, ReadStatus(m))}
    BY <1>1, <1>2 DEF ReadContext, Become, MoversOK, ReadStatus, Decision, Carded
  <2>6. CalmMovers'
    BY <1>1, <1>2, <2>3, <2>4, <2>5, ReadContextOK, CalmBecome
  <2> QED BY <1>1, <1>2, <2>6 DEF ReadContext, Calm, CalmIssue, issue
<1>3. CASE ContextFails(m) \/ ClaimAutopilotTerminalComment(m) \/ ClaimFails(m)
  <2>1. Become(m, Idle) /\ UNCHANGED issue
    BY <1>3 DEF ContextFails, ClaimAutopilotTerminalComment, ClaimFails
  <2>2. mover'[m] = Idle /\ \A n \in Movers \ {m} : mover'[n] = mover[n]
    BY <1>1, <2>1 DEF Become, MoversOK
  <2>3. CalmMovers'
    BY <1>1, <2>2, CalmIdle, CalmBecome DEF CalmMover
  <2> QED BY <1>1, <2>1, <2>3 DEF Calm, CalmIssue, issue
<1>4. CASE CardFails(m) \/ CacheFails(m) \/ RecordRunColumnMove(m) \/ RecordFails(m)
           \/ ClearRunMovePending(m) \/ ClearFails(m)
  <2>1. EndApply(m) /\ UNCHANGED issue
    BY <1>4 DEF CardFails, CacheFails, RecordRunColumnMove, RecordFails, ClearRunMovePending, ClearFails
  <2>2. CalmMovers'
    BY <1>1, <2>1, CalmEnd
  <2> QED BY <1>1, <2>1, <2>2 DEF Calm, CalmIssue, issue
<1>5. CASE ReadCard(m)
  <2>1. UNCHANGED issue
    BY <1>5 DEF ReadCard
  <2>2. CASE EndApply(m)
    BY <1>1, <2>1, <2>2, CalmEnd DEF Calm, CalmIssue, issue
  <2>3. CASE ~EndApply(m)
    <3>1. \/ Become(m, Clearing(mover[m].status))
          \/ Become(m, [mover[m] EXCEPT !.pc = "forge", !.labels = cache.labels])
      BY <1>5, <2>3 DEF ReadCard
    <3>2. CalmMover(Clearing(mover[m].status))
      BY <1>1, CalmIdle DEF CalmMover
    <3>3. CalmMover([mover[m] EXCEPT !.pc = "forge", !.labels = cache.labels])
      BY <1>1 DEF CalmMover, CalmIssue, MoverState
    <3>4. CalmMover(mover'[m]) /\ \A n \in Movers \ {m} : mover'[n] = mover[n]
      BY <1>1, <3>1, <3>2, <3>3 DEF Become, MoversOK
    <3>5. CalmMovers'
      BY <1>1, <3>4, CalmBecome
    <3> QED BY <1>1, <2>1, <3>5 DEF Calm, CalmIssue, issue
  <2> QED BY <2>2, <2>3
<1>6. CASE MoveOnForge(m)
  <2>1. Review \notin forge'
    BY <1>1, <1>6, CalmRelabel DEF MoveOnForge, CalmIssue, CalmMover
  <2>2. Proceed(m, "cache") /\ UNCHANGED <<cache, fetched>>
    BY <1>6 DEF MoveOnForge
  <2>3. CalmMover([mover[m] EXCEPT !.pc = "cache"])
    BY <1>1 DEF CalmMover, MoverState
  <2>4. CalmMover(mover'[m]) /\ \A n \in Movers \ {m} : mover'[n] = mover[n]
    BY <1>1, <2>2, <2>3 DEF Proceed, Become, MoversOK
  <2>5. CalmMovers'
    BY <1>1, <2>4, CalmBecome
  <2> QED BY <1>1, <2>1, <2>2, <2>5 DEF Calm, CalmIssue
<1>7. CASE ForgeFails(m)
  <2>1. Review \notin forge'
    BY <1>1, <1>7, CalmRelabel DEF ForgeFails, CalmIssue, CalmMover
  <2>2. EndApply(m) /\ UNCHANGED <<cache, fetched>>
    BY <1>7 DEF ForgeFails
  <2>3. CalmMovers'
    BY <1>1, <2>2, CalmEnd
  <2> QED BY <1>1, <2>1, <2>2, <2>3 DEF Calm, CalmIssue
<1>8. CASE MoveInCache(m)
  <2>1. Review \notin cache'.labels
    <3> DEFINE L == IF cache.state = "absent" THEN mover[m].labels ELSE cache.labels
    <3>1. Review \notin L
      BY <1>1 DEF CalmIssue, CalmMover
    <3>2. cache'.labels = Relabel(L, PlanAdd(mover[m].labels, mover[m].target),
                                  PlanRemove(mover[m].labels, mover[m].target))
      BY <1>8 DEF MoveInCache
    <3> HIDE DEF L
    <3> QED BY <1>1, <3>1, <3>2, CalmRelabel DEF CalmMover
  <2>2. UNCHANGED <<forge, fetched>>
    BY <1>8 DEF MoveInCache
  <2>3. CalmMovers'
    <3>1. CASE m = Drag
      <4>1. mover'[Drag] = Clearing(mover[Drag].status)
        BY <1>1, <1>8, <3>1 DEF MoveInCache
      <4>2. CalmMover(mover'[Drag])
        BY <1>1, <3>1, <4>1, CalmIdle DEF CalmMover
      <4>3. \A n \in Automation : CalmMover(Overtake(n))
        <5>1. \A n \in Automation : mover[n] \in MoverState /\ CalmMover(mover[n])
          BY <1>1, ColumnFacts DEF MoversOK, CalmMovers
        <5> QED BY <5>1, Zenon DEF Overtake, CalmMover, MoverState
      <4>4. \A n \in Automation : CalmMover(mover'[n])
        BY <1>1, <1>8, <3>1, <4>3, DragInCacheOK
      <4> QED BY <4>2, <4>4, ColumnFacts DEF CalmMovers, CalmMover
    <3>2. CASE m # Drag
      <4>1. mover' = [mover EXCEPT ![m] = [Idle EXCEPT !.pc = "record", !.status = mover[m].status,
                                                       !.target = mover[m].target]]
        BY <1>8, <3>2 DEF MoveInCache, Become
      <4>2. CalmMover([Idle EXCEPT !.pc = "record", !.status = mover[m].status, !.target = mover[m].target])
        BY <1>1 DEF CalmMover, Idle
      <4>3. CalmMover(mover'[m]) /\ \A n \in Movers \ {m} : mover'[n] = mover[n]
        BY <1>1, <4>1, <4>2 DEF MoversOK
      <4> QED BY <1>1, <4>3, CalmBecome
    <3> QED BY <3>1, <3>2
  <2> QED BY <1>1, <2>1, <2>2, <2>3 DEF Calm, CalmIssue
<1> QED BY <1>2, <1>3, <1>4, <1>5, <1>6, <1>7, <1>8 DEF Step

\* A completed run stays completed, and a touched card stays touched.
LEMMA UnfinishedBefore ==
  ASSUME BoardOK, [Next]_vars, Unfinished'
  PROVE  Unfinished
<1>1. touches \in Nat
  BY LifecycleAssumption DEF BoardOK, HistoryOK
<1>2. originColumn' = originColumn /\ (status' = status \/ status \in {"queued", "running"})
  BY Zenon DEF Next, Step, vars, run, SetRunRunning, RequeueRun, SetRunTerminal, Reconcile, GiveUp, ReadContext,
     ContextFails, ReadCard, CardFails, MoveOnForge, ForgeFails, MoveInCache, CacheFails, RecordRunColumnMove,
     RecordFails, ClearRunMovePending, ClearFails, ClaimAutopilotTerminalComment, ClaimFails, MoveIssue, ListIssues,
     UpsertIssue, PollFails, CloseIssue, Crash
<1>3. touches' = touches \/ touches' = touches + 1
  BY Zenon DEF Next, Step, vars, history, SetRunRunning, RequeueRun, SetRunTerminal, Reconcile, GiveUp, ReadContext,
     ContextFails, ReadCard, CardFails, MoveOnForge, ForgeFails, MoveInCache, CacheFails, RecordRunColumnMove,
     RecordFails, ClearRunMovePending, ClearFails, ClaimAutopilotTerminalComment, ClaimFails, MoveIssue, ListIssues,
     UpsertIssue, PollFails, CloseIssue, Crash, Touch
<1>4. touches = 0
  BY <1>1, <1>3 DEF Unfinished
<1> QED BY <1>2, <1>4 DEF Unfinished

LEMMA NextCalm ==
  ASSUME BoardOK, ReviewInv, [Next]_vars
  PROVE  ReviewInv'
<1> SUFFICES ASSUME Unfinished'
             PROVE  Calm'
  BY DEF ReviewInv
<1>1. Unfinished /\ Calm /\ CalmIssue /\ CalmMovers /\ MoversOK /\ IssueOK
  BY UnfinishedBefore DEF ReviewInv, Calm, BoardOK
<1>2. CASE SetRunRunning \/ GiveUp \/ CloseIssue \/ UNCHANGED vars
  BY <1>1, <1>2 DEF SetRunRunning, GiveUp, CloseIssue, vars, issue, Calm, CalmIssue, CalmMovers
<1>3. ASSUME NEW g \in Notifiers, RequeueRun(g) \/ \E s \in Statuses : SetRunTerminal(g, s)
      PROVE  Calm'
  <2>1. PICK s \in Statuses : Notify(g, s) /\ status' = s
    BY <1>3 DEF RequeueRun, SetRunTerminal, Statuses
  <2>2. CalmMover([Idle EXCEPT !.pc = "context", !.status = s])
    BY <2>1 DEF Unfinished, CalmMover, Idle, Review, Open
  <2>3. g \in Movers /\ mover' = [mover EXCEPT ![g] = [Idle EXCEPT !.pc = "context", !.status = s]]
    BY <2>1, ColumnFacts DEF Notify, Become
  <2>4. CalmMover(mover'[g]) /\ \A n \in Movers \ {g} : mover'[n] = mover[n]
    BY <1>1, <2>2, <2>3 DEF MoversOK
  <2>5. CalmMovers' /\ UNCHANGED issue
    BY <1>1, <1>3, <2>3, <2>4, CalmBecome DEF RequeueRun, SetRunTerminal
  <2> QED BY <1>1, <2>5 DEF Calm, CalmIssue, issue
<1>4. CASE Reconcile
  <2>1. Reconciler \in Movers /\ mover[Reconciler] \in MoverState /\ CalmMover(mover[Reconciler])
    BY <1>1, ColumnFacts DEF MoversOK, CalmMovers
  <2>2. CalmMover([mover[Reconciler] EXCEPT !.pc = "context"])
    BY <2>1 DEF CalmMover, MoverState
  <2>3. CalmMover(mover'[Reconciler]) /\ \A n \in Movers \ {Reconciler} : mover'[n] = mover[n]
    BY <1>1, <1>4, <2>1, <2>2 DEF Reconcile, Proceed, Become, MoversOK
  <2>4. CalmMovers' /\ UNCHANGED issue
    BY <1>1, <1>4, <2>1, <2>3, CalmBecome DEF Reconcile
  <2> QED BY <1>1, <2>4 DEF Calm, CalmIssue, issue
<1>5. CASE \E m \in Movers : Step(m)
  BY <1>1, <1>5, StepCalm
<1>6. CASE \E target \in DragTargets : MoveIssue(target)
  <2>1. touches \in Nat /\ touches' = touches + 1
    BY <1>6, LifecycleAssumption DEF MoveIssue, Touch, BoardOK, HistoryOK
  <2> QED BY <2>1 DEF Unfinished
<1>7. ASSUME NEW p \in Pollers, ListIssues(p) \/ UpsertIssue(p) \/ PollFails(p)
      PROVE  Calm'
  <2>1. Review \notin Listed.labels /\ Review \notin NotPolling.labels
    BY <1>1 DEF Listed, Absent, NotPolling, CalmIssue
  <2>2. fetched' \in {[fetched EXCEPT ![p] = Listed], [fetched EXCEPT ![p] = NotPolling]}
    BY <1>7 DEF ListIssues, UpsertIssue, PollFails
  <2>3. \A q \in Pollers : Review \notin fetched'[q].labels
    BY <1>1, <2>1, <2>2 DEF IssueOK, CalmIssue
  <2>4. cache' \in {cache, fetched[p]} /\ UNCHANGED <<forge, mover>>
    BY <1>7 DEF ListIssues, UpsertIssue, PollFails
  <2> QED BY <1>1, <2>3, <2>4 DEF Calm, CalmIssue, CalmMovers
<1>8. CASE Crash
  <2>1. CalmMovers'
    BY <1>8 DEF Crash, CalmMovers, CalmMover, Idle, Review, Open
  <2>2. \A q \in Pollers : Review \notin fetched'[q].labels
    BY <1>8 DEF Crash, NotPolling
  <2> QED BY <1>1, <1>8, <2>1, <2>2 DEF Crash, Calm, CalmIssue
<1> QED BY <1>2, <1>3, <1>4, <1>5, <1>6, <1>7, <1>8 DEF Next

\* Whatever fails, overlaps or is written late, no run is put up for review that has
\* not completed, by any number of notifiers and of overlapping polls.
THEOREM ReviewOnlyCompleted == Spec => []ReviewMeansCompleted
<1>1. Init => BoardOK /\ ReviewInv
  <2> SUFFICES ASSUME Init, Unfinished
               PROVE  Calm
    BY InitOK DEF ReviewInv
  <2>1. Review \notin forge /\ cache.labels = forge
    BY DEF Init, Unfinished
  <2>2. \A p \in Pollers : Review \notin fetched[p].labels
    BY DEF Init, NotPolling
  <2>3. CalmMover(Idle) /\ CalmMover([Idle EXCEPT !.pc = "context"])
    BY DEF CalmMover, Idle, Review, Open
  <2>4. \A m \in Movers : mover[m] \in {Idle, [Idle EXCEPT !.pc = "context"]}
    BY DEF Init
  <2>5. CalmMovers
    BY <2>3, <2>4 DEF CalmMovers
  <2> QED BY <2>1, <2>2, <2>5 DEF Calm, CalmIssue
<1>2. BoardOK /\ ReviewInv /\ [Next]_vars => (BoardOK /\ ReviewInv)'
  BY NextOK, NextCalm
<1>3. ReviewInv => ReviewMeansCompleted
  BY DEF ReviewInv, Unfinished, Calm, CalmIssue, Review, ReviewMeansCompleted
<1> QED BY <1>1, <1>2, <1>3, PTL DEF Spec
=============================================================================
