SPECIFICATION FairSpec
CONSTANTS
 Approvers = {r1}
 NumSubs = 2
 MaxPhases = 4
 MaxMishaps = 1
INVARIANTS TypeOK OneOpenApproval EndedWithVerdict
PROPERTIES VerdictsKept WaitsUnlessAbandoned
CHECK_DEADLOCK FALSE
