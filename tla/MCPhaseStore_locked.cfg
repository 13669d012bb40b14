SPECIFICATION Spec
CONSTANTS
  registration = registration
  submission = submission
  review = review
  approval = approval
  pm1 = pm1
  pm2 = pm2
  fix = fix
  Phases <- MCPhases
  Scheduled = {registration, submission, review}
  Names <- MCNames
  NameOf <- MCNameOf
  Order <- MCOrder
  PostMortem = "Post-Mortem"
  Approval = "Approval"
  Continuations = {"Final Fix"}
  Bases = {"Registration", "Submission"}
  Workers = {w1, w2}
  Operations = {"advance", "postMortem", "continue", "finish"}
  MaxCalls = 6
INVARIANT
  AtMostOnePostMortem
