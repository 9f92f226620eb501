------------------------------- MODULE RunView -------------------------------
(***************************************************************************)
(* What the live view of a run promises, with nothing said of frames,       *)
(* sockets, reads, fences or timers. Runs get rows, in any order, and newer *)
(* statuses. The view is open on one run at a time. It shows the rows of    *)
(* that run from the first on, and the list only ever gets longer; it shows *)
(* a status the run has or has had, and that only ever gets newer. Opening  *)
(* another run is the one thing that takes either away.                     *)
(*                                                                         *)
(* RunStream implements this module.                                        *)
(***************************************************************************)
EXTENDS Naturals, Sequences

CONSTANT Runs

VARIABLES
  log, version,   \* per run: seqs stored, the newest status
  cur,            \* the run the view is open on
  view, status    \* the rows on display; the status on display, 0 for none

viewVars == <<log, version, cur, view, status>>

FirstRows(r, n) == [i \in 1 .. n |-> [run |-> r, seq |-> i]]

ViewInit ==
  /\ log = [r \in Runs |-> {}] /\ version = [r \in Runs |-> 1]
  /\ cur \in Runs /\ view = <<>> /\ status = 0

\* A run gets rows or newer statuses, whether the view is open on it or not.
RunGrows(r) ==
  /\ log[r] \subseteq log'[r] /\ log' = [log EXCEPT ![r] = log'[r]]
  /\ version[r] <= version'[r] /\ version' = [version EXCEPT ![r] = version'[r]]
  /\ UNCHANGED <<cur, view, status>>

Open(r) ==
  /\ r # cur /\ cur' = r
  /\ view' = <<>> /\ status' = 0
  /\ UNCHANGED <<log, version>>

\* More rows are shown, all that the list now reaches being stored.
ShowMore ==
  /\ Len(view) < Len(view') /\ 1 .. Len(view') \subseteq log[cur]
  /\ view' = FirstRows(cur, Len(view'))
  /\ UNCHANGED <<log, version, cur, status>>

ShowStatus ==
  /\ status' \in status .. version[cur]
  /\ UNCHANGED <<log, version, cur, view>>

ViewNext == ShowStatus \/ ShowMore \/ \E r \in Runs : RunGrows(r) \/ Open(r)
ViewSpec == ViewInit /\ [][ViewNext]_viewVars
=============================================================================
