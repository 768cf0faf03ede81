SPECIFICATION Spec
CONSTANTS
  NWorkers = 2
  Guests = {}
  Resources = {r1}
  Tasks = {"card1"}
  TaskOf <- SameTask
  Accounts = {"a1", "a2", "a3"}
  Pools = {"p1", "p2"}
  PoolOf <- TwoPools
  MaxWorkers <- RoomForOne
  MaxAttempts = 2
  NoAccount = NoAccount
  Trust = {"retry_free", "retry_task", "retry_exited", "prompt_start"}
INVARIANTS OneWorkerPerTask SingleOwner NoLeakedSession PoolWithinLimit
CHECK_DEADLOCK FALSE
