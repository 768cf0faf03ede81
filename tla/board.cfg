SPECIFICATION Spec
CONSTANTS
  c1 = c1
  t1 = t1
  k1 = k1
  Cards = {c1}
  Tuis = {t1}
  Clis = {k1}
  Notes = {"wait", "pr"}
  CaptionOf <- Captions
  MaxNotes = 2
  Absent = Absent
  Nobody = Nobody
INVARIANTS TypeOK DoneStamped LockedIsFresh
PROPERTIES ImplementsCardStore ShowsWhatLanded
