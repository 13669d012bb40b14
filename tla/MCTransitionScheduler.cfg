SPECIFICATION Spec
CONSTANTS
  submission = submission
  review = review
  None = None
  Callers = {"consumer", "chain", "sync", "recovery"}
  Pred <- MCPred
  Phases = {submission, review}
  Guarded = {review}
  Immediate = {submission}
  StartOf <- MCStartOf
  Duration = 1
  Delay = 1
  Horizon = 3
  MaxBacklog = 1
  MaxFaults = 0
  MaxEdits = 0
INVARIANTS TypeOK
PROPERTY OpenedInOrder
