SPECIFICATION FairSpec
CONSTANTS
  None = None
  Entries = {"other", "user", "question", "end"}
  FirstTail = 2
  MaxLines = 3
INVARIANTS TypeOK CountMatches
PROPERTIES RowSettles
