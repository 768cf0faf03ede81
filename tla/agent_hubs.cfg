SPECIFICATION Spec
CONSTANTS
  h1 = h1
  h2 = h2
  once = once
  e1 = e1
  e2 = e2
  v1 = v1
  Hubs = {h1, h2}
  Clis = {once}
  Events = {e1}
  Outputs = {v1}
  Kinds = {"interval"}
  Budgets = {"daily"}
  MaxFailures = 2
  MaxAsks = 0
  Nothing = Nothing
INVARIANTS
  TypeOK
  FiledAsRun
  OneLateTick
SYMMETRY Alike
