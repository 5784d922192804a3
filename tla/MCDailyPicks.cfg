SPECIFICATION LiveSpec
CONSTANTS
  early = early
  late = late
  night = night
  Sessions = {"daily_job", "api"}
  Slate <- ThreeFixtures
  EV <- ExpectedValues
  MaxVersion = 1
  MaxRefreshes = 1
  MaxPicks = 2
  MaxCrashes = 1
INVARIANTS
  TypeOK
  SecondReviewNeedsOverlapOrLoss
  BetsAreExplained
  ReportedReviewsAreStored
  BestAreReviewedFirst
PROPERTY RunsEnd
