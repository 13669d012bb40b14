SPECIFICATION Spec
CONSTANTS
  submission = submission
  review = review
  None = None
  Callers = {"consumer", "chain", "sync", "recovery"}
  Pred <- MCPred
  Phases = {review}
  Guarded = {review}
  Immediate = {}
  StartOf <- MCEarlyStart
  Duration = 1
  Delay = 1
  Horizon = 2
  MaxBacklog = 1
  MaxFaults = 1
  MaxEdits = 0
PROPERTY EventuallyCloses
