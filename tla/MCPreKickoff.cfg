SPECIFICATION Spec
CONSTANTS
  soon = soon
  later = later
  friendly = friendly
  Sessions = {"pre_kickoff", "daily_job"}
  Fixtures = {soon, later, friendly}
  Supported = {soon, later}
  Kickoff <- Kickoffs
  Moves <- HalfAnHour
  Step = 20
  Horizon = 40
  Inputs = {0}
  MaxMoves = 1
  MaxFailures = 1
INVARIANTS
  TypeOK
  CompletedIsNotRepeated
  CompletedIsRecorded
PROPERTY CheckpointsInOrder
