SPECIFICATION FairSpec
CONSTANTS
  Cards = {own, managed}
  Managed = {managed}
  own = own
  managed = managed
  MaxPlaces = 3
  MaxIds = 2
INVARIANTS TypeOK OwnSession 
 
