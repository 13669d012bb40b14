SPECIFICATION Spec
CONSTANTS
 Approvers = {r1}
 NumSubs = 2
 MaxPhases = 4
 MaxMishaps = 1
INVARIANTS RejectionOpensFix
CHECK_DEADLOCK FALSE
