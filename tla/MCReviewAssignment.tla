------------------------- MODULE MCReviewAssignment -------------------------
(* The Review phase of two reviewers, for TLC.  At first one of them or both *)
(* are assigned; they are alike, so that it does not matter which.           *)
EXTENDS ReviewAssignment

MCInit == Init /\ (CHOOSE r \in Reviewers : TRUE) \in Assigned

MCSpec == MCInit /\ [][Next]_vars /\ Fairness
=============================================================================
