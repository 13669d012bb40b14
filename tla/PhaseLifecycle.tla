--------------------------- MODULE PhaseLifecycle ---------------------------
(***************************************************************************)
(* What the phase table of one challenge promises to everybody who reads   *)
(* it: the life of each challenge-phase row.  A row is created waiting or  *)
(* already open, is opened at most once and ends at most once; a row can   *)
(* be deleted at any time and its id never comes back.  Only Post-Mortem   *)
(* rows may be opened again after they ended (createPostMortemPhase reuses *)
(* them).  PhaseStore shows that the code keeps this promise.              *)
(***************************************************************************)

CONSTANTS
    Phases,        \* every challenge-phase id, including ids not yet used
    Scheduled,     \* the rows the challenge was launched with
    PostMortems    \* the ids of rows whose name is Post-Mortem

VARIABLE life      \* life[p]: the stage of row p

Stage == {"unborn", "waiting", "open", "ended", "deleted"}

\* The stages a row may go to from stage s in one step.
Moves(s) ==
    CASE s = "unborn"  -> {"waiting", "open"}
      [] s = "waiting" -> {"open", "ended", "deleted"}
      [] s = "open"    -> {"ended", "deleted"}
      [] s = "ended"   -> {"deleted"}
      [] s = "deleted" -> {}

\* A transaction may move several rows; each makes at most one legal move.
Step(p) ==
    \/ life'[p] = life[p]
    \/ life'[p] \in Moves(life[p])
    \/ p \in PostMortems /\ life[p] = "ended" /\ life'[p] = "open"

Init == life = [p \in Phases |-> IF p \in Scheduled THEN "waiting" ELSE "unborn"]

Next == life' \in [Phases -> Stage] /\ \A p \in Phases : Step(p)

Spec == Init /\ [][Next]_life

=============================================================================
