SPECIFICATION RunnerLiveSpec
CONSTANTS
  Null = Null
  Unrecorded = Unrecorded
  scheduled = scheduled
  settling = settling
  manual = manual
  Locks = {"pre_kickoff", "settlement"}
  LocksOf <- CommandLocks
  dailyTask = dailyTask
  dailyByHand = dailyByHand
  recoveryTask = recoveryTask
  recoveryByHand = recoveryByHand
  CommandOf <- CommandOfSlot
  FailureReason = "unknown"
  MaxDay = 2
  Processes = {scheduled, settling, manual}
  RemovesOpen = TRUE
  MaxCrashes = 2
  Slots = {dailyTask, dailyByHand, recoveryTask, recoveryByHand}
  Interruptible = {dailyByHand, recoveryByHand}
  MaxKills = 1
INVARIANTS
  RunnerTypeOK
  OneHolderUntilStolen
  DailySuccessIsReal
  ClearFailedDayIsRetried
  RetriedOnce
PROPERTY DeadLockIsBroken
