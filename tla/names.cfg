SPECIFICATION Spec
CONSTANTS
  x1 = x1
  x2 = x2
  Spawns = {x1, x2}
  Names = {"a", "b"}
  AutoTitle = "auto"
  None = None
INVARIANTS TypeOK  
PROPERTY CursorStays
