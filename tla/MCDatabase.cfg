SPECIFICATION DatabaseLiveSpec
CONSTANTS
  Null = Null
  ServiceError = ServiceError
  b1 = b1
  b2 = b2
  b3 = b3
  f1 = f1
  f2 = f2
  Workers = {w1, w2}
  Bets = {b1, b2}
  Fixtures = {f1, f2}
  Known = {f1, f2}
  FixtureOf <- TwoFixtures
  SelectionOf <- SelectionsOfBets
  StakeOf <- StakesOfBets
  OddsOf <- OddsOfBets
  Opening = 10000
  Answers <- FinalOrDown
  VoidEvidence = {"none"}
  MaxFailures = 0
  hosts = hosts
  guests = guests
  game = game
  player = player
  Syncs = {s1, s2}
  Places = {hosts, guests}
  Games = {game}
  Players = {player}
  Sides <- SquadsOfGame
  Facts <- FactsByVersion
  Misnamed <- LastMisnamed
  Batches <- ListingOrders
  MaxVersion = 2
  MaxDeaths = 1
  NoRow = NoRow
  Nobody = Nobody
  league = league
  cup = cup
  Runners = {r1, r2}
  DatedPlans <- ThreeDaysOrTwo
  GridPlans <- BothOrOne
  MaxStarts = 3
  MaxInterrupts = 2
  Missing = Missing
  Torn = Torn
INVARIANTS
  DatabaseTypeOK
  FreshestAnswerStays
  CheckpointNeverSkips
PROPERTIES
  FinalBetsSettle
  WaitingRunGetsLock
  SyncsEnd
