---------------------------- MODULE RunLifecycle ----------------------------
(* The board automation for one issue run: the status writes that stamp the  *)
(* "move owed" marker, the notifier goroutines and the reconcile loop of     *)
(* api/internal/runlifecycle that move the card, the drag a person makes in  *)
(* the web board (handler.MoveIssue), and the autopilot's terminal comment.  *)
(* A mover is a goroutine of this kind.  It is suspended before each         *)
(* database statement and each forge call, and any other may run there.      *)
(*                                                                           *)
(* A poll (forgesvc.FullSync, IncrementalSync) reads the forge's issues over *)
(* the network and writes what it read into the cache later, whatever has    *)
(* happened to either in between.                                            *)
(*                                                                           *)
(* The forge (GitLab, GitHub) is external.  The projection onto GitHub       *)
(* Projects, which nothing reads back, and closing a card by a drag, are     *)
(* left out: an issue is closed on the forge.                                *)
EXTENDS Naturals, FiniteSets

CONSTANTS
    Notifiers,    \* bound: slots for notifier goroutines that are alive at once
    Origins,      \* columns the card may be in when the run is created, or NULL
    DragTargets,  \* columns a person may drop the card in
    Pollers,      \* bound: polls of the repository that are under way at once
    WindowEnds,   \* whether the retry window of a marker may pass
    AutoApprove,  \* whether the run is an autopilot run
    MaxTouches    \* bound: drags, and closings on the forge, by people

Columns == {"Planned", "In Progress", "Human Review"}
Open == "Open"
NULL == "NULL"
Position == [c \in Columns |-> IF c = "Planned" THEN 0 ELSE IF c = "In Progress" THEN 1 ELSE 2]

Reconciler == "reconciler"
Drag == "drag"
Automation == Notifiers \cup {Reconciler}
Movers == Automation \cup {Drag}

ASSUME LifecycleAssumption ==
    /\ Origins \subseteq Columns \cup {Open, NULL}
    /\ DragTargets \subseteq Columns \cup {Open}
    /\ AutoApprove \in BOOLEAN /\ WindowEnds \in BOOLEAN
    /\ MaxTouches \in Nat
    /\ {Reconciler, Drag} \cap Notifiers = {}

VARIABLES
    status,        \* runs.status
    originColumn,  \* runs.origin_column
    boardColumn,   \* runs.board_column
    pending,       \* runs.move_pending_since is set
    gaveUp,        \* ... and older than the retry window
    commented,     \* runs.autopilot_commented_at is set
    forge,         \* the column labels on the forge
    forgeState,    \* the state of the issue on the forge
    cache,         \* the cached issue: its labels and its state, or absent
    fetched,       \* the issue as each poll has read it
    mover,         \* the movers
    notes,         \* comments posted, counted up to 2
    placedBy,      \* history: who last put the card where the board shows it
    touches        \* drags and closings so far

run == <<status, originColumn, boardColumn, pending, gaveUp, commented>>
issue == <<forge, forgeState, cache, fetched>>
history == <<placedBy, touches>>
vars == <<run, issue, mover, notes, history>>

Statuses == {"queued", "running", "completed", "failed", "cancelled"}

-----------------------------------------------------------------------------
(* Columns and labels.                                                       *)

\* The column of a card with these labels: the highest one.
ResolveColumn(labels) ==
    IF labels = {} THEN Open
    ELSE CHOOSE c \in labels : \A d \in labels : Position[d] <= Position[c]

\* mutant: Open is added as a label
AddsOpenLabel(labels, target) == {target} \ labels

\* The labels that a move to the target adds and removes.
PlanAdd(labels, target) == ({target} \cap Columns) \ labels
PlanRemove(labels, target) == labels \ {target}

Skip == [act |-> FALSE, clear |-> FALSE, target |-> Open]
MoveTo(column) == [act |-> TRUE, clear |-> FALSE, target |-> column]

restoreDecision ==
    IF originColumn = NULL THEN [Skip EXCEPT !.clear = TRUE] ELSE MoveTo(originColumn)

notifierDecision(s) ==
    CASE s = "queued" -> MoveTo("In Progress")
      [] s = "completed" -> MoveTo("Human Review")
      [] s \in {"failed", "cancelled"} -> restoreDecision
      [] OTHER -> Skip

\* mutant: a run that failed is put up for review like one that completed
ReviewsFailedRuns(s) ==
    CASE s \in {"queued", "running"} -> MoveTo("In Progress")
      [] s \in {"completed", "failed"} -> MoveTo("Human Review")
      [] s = "cancelled" -> restoreDecision

\* mutant: the reconcile loop uses the notifier's partial map
ReconcilesByPartialMap(s) == notifierDecision(s)

reconcilerDecision(s) ==
    CASE s \in {"queued", "running"} -> MoveTo("In Progress")
      [] s = "completed" -> MoveTo("Human Review")
      [] s \in {"failed", "cancelled"} -> restoreDecision

coalesceColumn == IF boardColumn # NULL THEN boardColumn ELSE originColumn

-----------------------------------------------------------------------------
(* The movers.                                                               *)

Idle == [pc |-> "idle", status |-> "queued", target |-> Open, baseline |-> NULL,
         labels |-> {}, overtaken |-> FALSE]

\* A mover between its first read and its last write.
Moving(m) == mover[m].pc \in {"context", "card", "forge", "cache", "record", "clear"}

At(m, pc) == mover[m].pc = pc
Become(m, state) == mover' = [mover EXCEPT ![m] = state]
Proceed(m, pc) == Become(m, [mover[m] EXCEPT !.pc = pc])

\* What a mover does after apply: maybeTerminalComment, up to its claim.
AfterApply(m, s) ==
    IF m # Drag /\ s \in {"completed", "failed"} /\ AutoApprove
    THEN [Idle EXCEPT !.pc = "claim", !.status = s]
    ELSE Idle
Clearing(s) == [Idle EXCEPT !.pc = "clear", !.status = s]
EndApply(m) == Become(m, AfterApply(m, mover[m].status))

\* The status write has committed; Notify starts a goroutine for the new status.
Notify(g, s) ==
    /\ At(g, "idle")
    /\ Become(g, [Idle EXCEPT !.pc = "context", !.status = s])

\* The stamp of move_pending_since in the statement of a status write.
StampMarker == pending' = TRUE /\ gaveUp' = FALSE

\* The run starts.  Notify drops this status without a goroutine.
SetRunRunning ==
    /\ status = "queued"
    /\ status' = "running"
    /\ UNCHANGED <<originColumn, boardColumn, pending, gaveUp, commented, issue, mover,
                   notes, history>>

\* The sweeper takes the run from a lost worker.
RequeueRun(g) ==
    /\ status = "running"
    /\ status' = "queued"
    /\ Notify(g, "queued")
    /\ UNCHANGED <<originColumn, boardColumn, pending, gaveUp, commented, issue, notes, history>>

\* The run ends: SetRunCompleted, SetRunFailed (and the sweeper's failures),
\* CancelRunServerSide.  A worker whose run was requeued still owns it until the
\* next claim, so its report may end a queued run.
SetRunTerminal(g, s) ==
    /\ status \in {"queued", "running"}
    /\ s \in {"completed", "failed", "cancelled"}
    /\ status' = s
    /\ StampMarker
    /\ Notify(g, s)
    /\ UNCHANGED <<originColumn, boardColumn, commented, issue, notes, history>>

\* A pass of the reconcile loop picks the run up.
Reconcile ==
    /\ pending /\ ~gaveUp
    /\ At(Reconciler, "idle")
    /\ Proceed(Reconciler, "context")
    /\ UNCHANGED <<run, issue, notes, history>>

\* The marker grows older than the retry window, and is left set.
GiveUp ==
    /\ WindowEnds /\ pending /\ ~gaveUp
    /\ gaveUp' = TRUE
    /\ UNCHANGED <<status, originColumn, boardColumn, pending, commented, issue, mover,
                   notes, history>>

\* GetRunMoveContext, and the decision made from it.
ReadContext(m) ==
    /\ At(m, "context")
    /\ LET s == IF m = Reconciler THEN status ELSE mover[m].status
           dec == IF m = Reconciler THEN reconcilerDecision(s) ELSE notifierDecision(s)
       IN Become(m,
            IF m = Reconciler /\ ~pending THEN Idle
            ELSE IF dec.act
                 THEN [mover[m] EXCEPT !.pc = "card", !.status = s, !.target = dec.target,
                                       !.baseline = coalesceColumn]
                 ELSE IF dec.clear THEN Clearing(s)
                 ELSE AfterApply(m, s))
    /\ UNCHANGED <<run, issue, notes, history>>

ContextFails(m) ==
    /\ At(m, "context")
    /\ Become(m, Idle)
    /\ UNCHANGED <<run, issue, notes, history>>

\* mutant: the guard against a manual drag is missing
DragNotNoticed(m) == cache.state = "closed" \/ mover[m].baseline = NULL

\* The guards of apply: a card that is closed, has no known baseline, or is not
\* where the automation last left it, is not moved, and the marker is cleared.
LeavesAlone(m) ==
    \/ cache.state = "closed"
    \/ mover[m].baseline = NULL
    \/ ResolveColumn(cache.labels) # mover[m].baseline

\* GetIssueByIID and ListBoardColumns, and the guards.
ReadCard(m) ==
    /\ m \in Automation
    /\ At(m, "card")
    /\ IF cache.state = "absent" THEN EndApply(m)
       ELSE IF LeavesAlone(m) THEN Become(m, Clearing(mover[m].status))
       ELSE Become(m, [mover[m] EXCEPT !.pc = "forge", !.labels = cache.labels])
    /\ UNCHANGED <<run, issue, notes, history>>

\* One of the reads fails, or no forge client can be built.
CardFails(m) ==
    /\ m \in Automation
    /\ At(m, "card")
    /\ EndApply(m)
    /\ UNCHANGED <<run, issue, notes, history>>

Touch == touches < MaxTouches /\ touches' = touches + 1

\* A person drops the card in a column: MoveIssue, up to its move.
MoveIssue(target) ==
    /\ At(Drag, "idle")
    /\ cache.state = "open"
    /\ Touch
    /\ Become(Drag, [Idle EXCEPT !.pc = "forge", !.target = target, !.labels = cache.labels])
    /\ UNCHANGED <<run, issue, notes, placedBy>>

Relabel(labels, add, remove) == (labels \ remove) \cup add

\* AutoMove: the labels on the forge.
MoveOnForge(m) ==
    /\ At(m, "forge")
    /\ forge' = Relabel(forge, PlanAdd(mover[m].labels, mover[m].target),
                        PlanRemove(mover[m].labels, mover[m].target))
    /\ Proceed(m, "cache")
    /\ UNCHANGED <<run, forgeState, cache, fetched, notes, history>>

\* The forge call fails: some of the removals, which come first, or all of the
\* change may have been made.
ForgeFails(m) ==
    /\ At(m, "forge")
    /\ LET add == PlanAdd(mover[m].labels, mover[m].target)
           remove == PlanRemove(mover[m].labels, mover[m].target)
       IN forge' \in {Relabel(forge, add, remove)} \cup {forge \ part : part \in SUBSET remove}
    /\ EndApply(m)
    /\ UNCHANGED <<run, forgeState, cache, fetched, notes, history>>

\* AutoMove: UpsertIssueLabels.  A drag is then in force, and overtakes every mover
\* that has read its context.
MoveInCache(m) ==
    /\ At(m, "cache")
    /\ LET add == PlanAdd(mover[m].labels, mover[m].target)
           remove == PlanRemove(mover[m].labels, mover[m].target)
       IN cache' = [state |-> "open",
                    labels |-> Relabel(IF cache.state = "absent" THEN mover[m].labels
                                       ELSE cache.labels, add, remove)]
    /\ IF m = Drag
       THEN /\ mover' = [n \in Movers |->
                 IF n = Drag THEN Clearing(mover[n].status)
                 ELSE [mover[n] EXCEPT !.overtaken = @ \/ mover[n].pc \in
                                         {"card", "forge", "cache"}]]
            /\ placedBy' = "person"
       ELSE /\ Become(m, [Idle EXCEPT !.pc = "record", !.status = mover[m].status,
                                       !.target = mover[m].target])
            /\ placedBy' = "machine"
    /\ UNCHANGED <<run, forge, forgeState, fetched, notes, touches>>

CacheFails(m) ==
    /\ At(m, "cache")
    /\ EndApply(m)
    /\ UNCHANGED <<run, issue, notes, history>>

\* The column is recorded and the marker cleared in one statement, whoever stamped it.
RecordRunColumnMove(m) ==
    /\ At(m, "record")
    /\ boardColumn' = mover[m].target
    /\ pending' = FALSE /\ gaveUp' = FALSE
    /\ EndApply(m)
    /\ UNCHANGED <<status, originColumn, commented, issue, notes, history>>

RecordFails(m) ==
    /\ At(m, "record")
    /\ EndApply(m)
    /\ UNCHANGED <<run, issue, notes, history>>

\* ClearRunMovePending of a mover, ClearIssueRunsMovePending of a drag.
ClearRunMovePending(m) ==
    /\ At(m, "clear")
    /\ pending' = FALSE /\ gaveUp' = FALSE
    /\ EndApply(m)
    /\ UNCHANGED <<status, originColumn, boardColumn, commented, issue, notes, history>>

ClearFails(m) ==
    /\ At(m, "clear")
    /\ EndApply(m)
    /\ UNCHANGED <<run, issue, notes, history>>

\* One comment more; two are too many.
Posted == IF notes < 2 THEN notes + 1 ELSE notes

\* mutant: the claim does not look at the mark
ClaimsTwice(m) ==
    /\ At(m, "claim")
    /\ commented' = TRUE
    /\ notes' \in {notes, Posted}
    /\ Become(m, Idle)
    /\ UNCHANGED <<status, originColumn, boardColumn, pending, gaveUp, issue, history>>

\* ClaimAutopilotTerminalComment, and CreateIssueNote by the one who set the mark.
\* A failed call, and a restart between the two, may or may not leave a comment.
ClaimAutopilotTerminalComment(m) ==
    /\ At(m, "claim")
    /\ commented' = TRUE
    /\ notes' \in IF commented THEN {notes} ELSE {notes, Posted}
    /\ Become(m, Idle)
    /\ UNCHANGED <<status, originColumn, boardColumn, pending, gaveUp, issue, history>>

ClaimFails(m) ==
    /\ At(m, "claim")
    /\ Become(m, Idle)
    /\ UNCHANGED <<run, issue, notes, history>>

-----------------------------------------------------------------------------
(* The polls and the environment.                                            *)

Absent == [state |-> "absent", labels |-> {}]
NotPolling == [state |-> "none", labels |-> {}]

\* The issue as the forge lists it.  A full sync that does not see it will drop it.
Listed == IF forgeState = "gone" THEN Absent ELSE [state |-> forgeState, labels |-> forge]

\* FullSync and IncrementalSync: ListIssues answers with the issue as it is now.  An
\* incremental poll that does not list the issue leaves its row alone, and is no step.
ListIssues(p) ==
    /\ fetched[p] = NotPolling
    /\ fetched' = [fetched EXCEPT ![p] = Listed]
    /\ UNCHANGED <<run, forge, forgeState, cache, mover, notes, history>>

\* mutant: a row that exists is kept
UpsertKeepsRow(p) ==
    /\ fetched[p] # NotPolling
    /\ cache' = IF cache.state = "absent" \/ fetched[p] = Absent THEN fetched[p] ELSE cache
    /\ fetched' = [fetched EXCEPT ![p] = NotPolling]
    /\ placedBy' = IF cache'.labels = cache.labels THEN placedBy ELSE "machine"
    /\ UNCHANGED <<run, forge, forgeState, mover, notes, touches>>

\* upsertIssues and DeleteIssuesNotIn: what the poll has read goes into the cache,
\* also over a row that was written since.
UpsertIssue(p) ==
    /\ fetched[p] # NotPolling
    /\ cache' = fetched[p]
    /\ fetched' = [fetched EXCEPT ![p] = NotPolling]
    /\ placedBy' = IF cache'.labels = cache.labels THEN placedBy ELSE "machine"
    /\ UNCHANGED <<run, forge, forgeState, mover, notes, touches>>

\* Another list of the poll fails, or a statement does.
PollFails(p) ==
    /\ fetched[p] # NotPolling
    /\ fetched' = [fetched EXCEPT ![p] = NotPolling]
    /\ UNCHANGED <<run, forge, forgeState, cache, mover, notes, history>>

\* A person closes the issue on the forge, maybe taking uzi's label off as well; then
\* no list of a poll shows it.
CloseIssue ==
    /\ forgeState = "open"
    /\ forgeState' \in {"closed", "gone"}
    /\ Touch
    /\ UNCHANGED <<run, forge, cache, fetched, mover, notes, placedBy>>

\* The api restarts.
Crash ==
    /\ mover' = [m \in Movers |-> Idle]
    /\ fetched' = [p \in Pollers |-> NotPolling]
    /\ UNCHANGED <<run, forge, forgeState, cache, notes, history>>

-----------------------------------------------------------------------------

\* CreateRun has stored the run with its marker, and notified.
Init ==
    /\ status = "queued" /\ boardColumn = NULL /\ pending = TRUE /\ gaveUp = FALSE
    /\ commented = FALSE /\ notes = 0
    /\ \E column \in (Columns \cup {Open}) :
        /\ originColumn \in Origins \cap {column, NULL}
        /\ forge = {column} \cap Columns
    /\ forgeState = "open"
    /\ cache = [state |-> "open", labels |-> forge]
    /\ \E g \in Notifiers :
        mover = [m \in Movers |-> IF m = g THEN [Idle EXCEPT !.pc = "context"] ELSE Idle]
    /\ fetched = [p \in Pollers |-> NotPolling]
    /\ placedBy = "person" /\ touches = 0

Step(m) ==
    \/ ReadContext(m) \/ ContextFails(m)
    \/ ReadCard(m) \/ CardFails(m)
    \/ MoveOnForge(m) \/ ForgeFails(m)
    \/ MoveInCache(m) \/ CacheFails(m)
    \/ RecordRunColumnMove(m) \/ RecordFails(m)
    \/ ClearRunMovePending(m) \/ ClearFails(m)
    \/ ClaimAutopilotTerminalComment(m) \/ ClaimFails(m)

Next ==
    \/ SetRunRunning
    \/ \E g \in Notifiers : RequeueRun(g) \/ \E s \in Statuses : SetRunTerminal(g, s)
    \/ Reconcile \/ GiveUp
    \/ \E m \in Movers : Step(m)
    \/ \E target \in DragTargets : MoveIssue(target)
    \/ \E p \in Pollers : ListIssues(p) \/ UpsertIssue(p) \/ PollFails(p)
    \/ CloseIssue \/ Crash

Spec == Init /\ [][Next]_vars

\* Goroutines run to their end: every statement and call has a timeout.  The loop
\* ticks, and so does the poll loop.  And, the reader's assumption, the database and
\* the forge heal: a step which the reconcile loop, or the poll, tries over and over
\* succeeds at some time.
FairSpec ==
    /\ Spec
    /\ \A m \in Movers : WF_vars(Step(m))
    /\ WF_vars(Reconcile)
    /\ SF_vars(ReadContext(Reconciler)) /\ SF_vars(ReadCard(Reconciler))
    /\ SF_vars(MoveOnForge(Reconciler)) /\ SF_vars(MoveInCache(Reconciler))
    /\ SF_vars(RecordRunColumnMove(Reconciler)) /\ SF_vars(ClearRunMovePending(Reconciler))
    /\ \A p \in Pollers : WF_vars(ListIssues(p)) /\ SF_vars(UpsertIssue(p))

-----------------------------------------------------------------------------
(* Properties.                                                               *)

\* Types, and that only a mover of the automation reads a run, records or claims.
TypeOK ==
    /\ status \in Statuses
    /\ originColumn \in Columns \cup {Open, NULL}
    /\ boardColumn \in Columns \cup {Open, NULL}
    /\ {pending, gaveUp, commented} \subseteq BOOLEAN
    /\ forge \subseteq Columns /\ forgeState \in {"open", "closed", "gone"}
    /\ LET Card == [state : {"open", "closed", "absent"}, labels : SUBSET Columns]
       IN cache \in Card /\ fetched \in [Pollers -> Card \cup {NotPolling}]
    /\ notes \in 0 .. 2 /\ placedBy \in {"person", "machine"} /\ touches \in 0 .. MaxTouches
    /\ DOMAIN mover = Movers
    /\ \A m \in Movers :
        mover[m].pc \in {"idle", "forge", "cache", "clear"} \cup
            IF m = Drag THEN {} ELSE {"context", "card", "record", "claim"}

\* The column the board shows, and that nothing of the automation is under way.
Shown == ResolveColumn(cache.labels)
Quiet == \A m \in Automation : ~Moving(m)
Untouched == touches = 0 /\ originColumn # NULL /\ cache.state = "open"

\* The card follows the run, as the package comment of runlifecycle has it: a status
\* write leaves a durable marker of the move it owes.  So when no marker is set, no
\* mover is at work and no person has touched the card, the forge has it in the
\* column of the run's status.
CardFollowsRun ==
    (Quiet /\ ~pending /\ Untouched) => ResolveColumn(forge) = reconcilerDecision(status).target

\* Whatever move is lost, late or half made, the automation and the polls put no run
\* up for review that has not completed: neither the forge nor the cache has the card
\* in Human Review before that, unless it came from there or a person touched it.
ReviewMeansCompleted ==
    (touches = 0 /\ originColumn \notin {NULL, "Human Review"} /\ "Human Review" \in forge \cup cache.labels)
       => status = "completed"

\* Manual drags win.  Once a drag is in the cache, a mover that reads the run's
\* context afterwards moves the card only from the column where the automation had
\* last left it.
DragsWin ==
    [][\A m \in Automation :
         (MoveInCache(m) /\ placedBy = "person" /\ ~mover[m].overtaken /\ cache.state = "open")
            => Shown = mover[m].baseline]_vars

\* An autopilot run gets at most one terminal comment, although inline notifiers
\* and the reconcile loop race to post it, and restarts repeat their work.
OneTerminalComment == notes <= 1

\* A move that is owed is settled: the marker is cleared in the end, unless the
\* retry window passes first or there is no card to move.
MarkerSettles == []<>(~pending \/ gaveUp \/ cache.state = "absent")

\* The cache catches up with the forge.  A poll may write what it read before a move,
\* a move may reach the forge and not the cache, and two movers may write the two in
\* different orders; a later poll puts the cache right each time.
CacheCatchesUp == []<>(cache = Listed)
=============================================================================
