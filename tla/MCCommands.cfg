CONSTANTS
  N = 3
  MaxTouch = 1
  final = final
  Flight = {final}
  None = None
  Plans <- MCPlans
  Start <- MCStart
  Others <- MCOthers
  Batches = {TRUE, FALSE}
  ProofAge = 1
  PreviewTime = 0
  Backoff = 1
  MaxJobs = 2
  Touched <- MCTouched
  MaxLampTurns = 1
  Kinds <- MCKinds
  Legacy <- MCLegacy
  MaxCommands = 2
  MaxTurns = 1
  MaxMoves = 1
SPECIFICATION WorldSpec
INVARIANTS NeverReplayed AnswersAreTrue OnceAtMost
PROPERTIES ReadsAreHonest PlanIsCarriedOut
\* A command that has been answered does nothing more.
CHECK_DEADLOCK FALSE
