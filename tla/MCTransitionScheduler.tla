------------------------ MODULE MCTransitionScheduler ------------------------
(***************************************************************************)
(* A challenge with a Submission phase followed by a Review, and one with  *)
(* either phase alone.                                                     *)
(***************************************************************************)
EXTENDS TransitionScheduler

CONSTANTS submission, review

MCPred == [p \in Phases |-> IF p = review /\ submission \in Phases THEN submission ELSE None]
MCStartOf == [p \in Phases |-> IF Cardinality(Phases) = 2 /\ p = review THEN 2 ELSE 1]
MCEarlyStart == [p \in Phases |-> IF Cardinality(Phases) = 2 /\ p = review THEN 1 ELSE 0]
=============================================================================
