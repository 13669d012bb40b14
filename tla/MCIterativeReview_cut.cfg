SPECIFICATION Spec
CONSTANTS
    NumSubs = 2
    MaxPhases = 2
    Background = {"b1"}
    Repeated = {"completed"}
PROPERTIES FailsOnlyWhenReviewed
CHECK_DEADLOCK FALSE
