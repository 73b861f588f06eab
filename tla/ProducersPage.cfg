CONSTANTS
  ProducerIds = {p1, p2}
  FarmIds = {f1}
  Unborn = Unborn
  Gone = Gone
  Nobody = Nobody
  FarmFetches = {g1, g2}
  Loads = {l1}
  NewDrafts = 1
  MaxFailures = 1
  Stored <- OneProducer
SPECIFICATION FairSpec
INVARIANTS TypeOK FormShowsSelectedOtherwise SavesItsOwnFarms ListIsTheServers ListOnlyLags
PROPERTIES EditingSpinnerEnds
