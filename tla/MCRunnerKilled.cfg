SPECIFICATION RunnerSpec
CONSTANTS
  Null = Null
  Unrecorded = Unrecorded
  scheduled = scheduled
  settling = settling
  manual = manual
  Locks = {"pre_kickoff", "settlement"}
  LocksOf <- CommandLocks
  dailyTask = dailyTask
  dailyByHand = dailyByHand
  recoveryTask = recoveryTask
  recoveryByHand = recoveryByHand
  CommandOf <- CommandOfSlot
  FailureReason = "unknown"
  MaxDay = 2
  Processes = {scheduled, settling}
  RemovesOpen = FALSE
  MaxCrashes = 0
  Slots = {dailyTask, recoveryTask}
  Interruptible = {}
  MaxKills = 1
INVARIANT FailedDayIsRetried
