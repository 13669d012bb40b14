SPECIFICATION Spec
CONSTANTS
  registration = registration
  submission = submission
  review = review
  approval = approval
  pm1 = pm1
  pm2 = pm2
  fix = fix
  Phases <- MCPhases
  Scheduled = {submission, review, approval}
  Names <- MCNames
  NameOf <- MCNameOf
  Order <- MCOrder
  PostMortem = "Post-Mortem"
  Approval = "Approval"
  Continuations = {"Final Fix"}
  Bases = {"Registration", "Submission"}
  Workers = {w1, w2}
  Operations = {"advance", "postMortem", "preserve", "continue", "finish"}
  MaxCalls = 5
INVARIANTS
  TypeOK
  DatesAgree
  OneWinner
PROPERTIES
  ImplementsLifecycle
