SPECIFICATION FairSpec
CONSTANTS
  h1 = h1
  h2 = h2
  once = once
  e1 = e1
  e2 = e2
  v1 = v1
  Hubs = {h1}
  Clis = {}
  Events = {e1, e2}
  Outputs = {v1}
  Kinds = {"poll"}
  Budgets = {"total"}
  MaxFailures = 1
  MaxAsks = 1
  Nothing = Nothing
INVARIANTS
  HandledInOrder
PROPERTIES
  EventsFiled
  MarkerFreed
  OutputTried
  RunNowAnswered
