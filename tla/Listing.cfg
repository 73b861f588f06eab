CONSTANTS
  Ids = {i1, i2, i3}
  Keys = {1, 2, 3, 4}
  Limits = {1, 2}
  MaxWrites = 2
  Unborn = Unborn
  Gone = Gone
  NotYet = NotYet
SPECIFICATION Spec
INVARIANTS TypeOK MissesOnlyByWrites RepeatsOnlyByWrites TotalFitsPage
