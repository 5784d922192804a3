SPECIFICATION LiveSpec
CONSTANTS
  Null = Null
  Callers = {"fixtures", "odds"}
  Minute = 3
  MinInterval = 1
  Cooldown = 2
  MinuteBudget = 2
  DailyBudget = 3
  RunBudget = 5
  MaxRetries = 2
  BackoffBase = 1
  Headers <- QuotaHeaders
  RetryDelays = {Null, 0, 4}
INVARIANTS
  TypeOK
  MinuteBudgetHeld
  DailyBudgetHeld
  ServerDayHeld
PROPERTIES
  PausesHeld
  EveryCallEnds
