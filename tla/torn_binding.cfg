SPECIFICATION Spec
CONSTANTS
  Cards = {managed}
  Managed = {managed}
  managed = managed
  MaxPlaces = 3
  MaxIds = 2
INVARIANT OneSessionManaged
