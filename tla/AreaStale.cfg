CONSTANTS
  Outages = FALSE
  TxMayExpire = FALSE
  ProducerIds = {p1}
  Documents = {d1}
  FarmIds = {f1}
  SeasonIds = {s1}
  Years = {y1}
  CropIds = {c1}
  Names = {n1}
  PlantedIds = {l1}
  ProducerRequests = {}
  FarmRequests = {fr1, fr2}
  SeasonRequests = {}
  CropRequests = {}
  Batches = {}
  MaxArea = 990
  Seed <- OneFarmSeed
  FarmBodies <- Nothing
  FarmPatches <- RacingPatches
  ItemLists <- Nothing
  Unborn = Unborn
  Gone = Gone
  Committed = Committed
  Omitted = Omitted
SPECIFICATION Spec
INVARIANTS AreaRule
