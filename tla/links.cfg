SPECIFICATION FairSpec
CONSTANTS
  None = None
  c1 = c1
  Cards = {c1}
  MaxOpen = 2
  Roles = {"verification"}
  Dirs = {here, there}
  here = here
  there = there
  MaxPlaces = 3
INVARIANTS TypeOK ChoreBound
PROPERTIES ClosesReplaced IdleIsServed
