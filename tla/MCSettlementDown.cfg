SPECIFICATION LiveSpec
CONSTANTS
  Null = Null
  ServiceError = ServiceError
  b1 = b1
  b2 = b2
  b3 = b3
  f1 = f1
  f2 = f2
  Workers = {w1}
  Bets = {b1, b2}
  Fixtures = {f1, f2}
  Known = {f1, f2}
  FixtureOf <- TwoFixtures
  SelectionOf <- SelectionsOfBets
  StakeOf <- StakesOfBets
  OddsOf <- OddsOfBets
  Opening = 10000
  Answers <- FinalOrDown
  VoidEvidence = {"none"}
  MaxFailures = 0
PROPERTIES
  FailsClosedPerFixture
