SPECIFICATION FairSpec
CONSTANTS
  Handlers = {h1, h2}
  MaxAttempts = 2
  MaxMishaps = 2
CHECK_DEADLOCK FALSE
INVARIANTS
  TypeOK
  QueuedHasOwner
  OutcomeIsEarned
PROPERTIES
  OutcomeIsFinal
  EndsUnlessAbandoned
  PaidUnlessCallFailed
