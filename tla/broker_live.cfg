SPECIFICATION FairSpec
CONSTANTS
  NWorkers = 1
  Guests = {g1, g2}
  Resources = {r1}
  Tasks = {"card1"}
  TaskOf <- SameTask
  Accounts = {"a1"}
  Pools = {"pool"}
  PoolOf <- OnePool
  MaxWorkers <- RoomForOne
  MaxAttempts = 2
  NoAccount = NoAccount
  Trust = {"retry_free", "retry_task", "retry_exited", "prompt_start"}
PROPERTIES StopEnds ReservedLaunches ClaimServed
CHECK_DEADLOCK FALSE
