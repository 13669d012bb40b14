SPECIFICATION MCSpec
CONSTANTS
 Reviewers = {r1, r2}
 Required = 1
 MaxChanges = 3
 MaxMishaps = 1
INVARIANTS TypeOK
PROPERTIES OpensWhenStaffed EveryReviewerServed ClosesUnlessHeld PollingEnds
CHECK_DEADLOCK FALSE
