SPECIFICATION Spec
CONSTANTS
  NWorkers = 1
  Guests = {g1, g2}
  Resources = {r1, r2}
  Tasks = {"card1"}
  TaskOf <- SameTask
  Accounts = {"a1"}
  Pools = {"pool"}
  PoolOf <- OnePool
  MaxWorkers <- RoomForTwo
  MaxAttempts = 2
  NoAccount = NoAccount
  Trust = {"retry_free", "retry_task", "retry_exited", "prompt_start"}
INVARIANTS TypeOK Exclusive NoCircularWait
PROPERTIES NoOvertaking ImplementsLending
CHECK_DEADLOCK FALSE
