SPECIFICATION FairSpec
CONSTANTS
    NumSubs = 2
    MaxPhases = 2
    Background = {"b1"}
    Repeated = {"completed"}
INVARIANTS TypeOK WinnerPassed
PROPERTIES OutcomeIsFinal EveryReviewed
CHECK_DEADLOCK FALSE
