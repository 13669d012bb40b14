---------------------------- MODULE MCPhaseStore ----------------------------
(***************************************************************************)
(* A small challenge: the launched rows are given by the configuration,    *)
(* with unused ids for two Post-Mortems and one Final Fix.                 *)
(***************************************************************************)
EXTENDS PhaseStore

CONSTANTS registration, submission, review, approval, pm1, pm2, fix

MCPhases == {registration, submission, review, approval, pm1, pm2, fix}
MCNames == {"Registration", "Submission", "Review", "Approval", "Post-Mortem", "Final Fix"}

MCNameOf == [p \in MCPhases |->
    CASE p = registration -> "Registration"
      [] p = submission -> "Submission"
      [] p = review -> "Review"
      [] p = approval -> "Approval"
      [] p \in {pm1, pm2} -> "Post-Mortem"
      [] p = fix -> "Final Fix"]

MCOrder == [p \in MCPhases |->
    CASE p = registration -> 0 [] p = submission -> 1 [] p = review -> 2
      [] p = approval -> 3 [] OTHER -> 4]

=============================================================================
