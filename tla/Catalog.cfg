CONSTANTS
  Outages = TRUE
  TxMayExpire = FALSE
  ProducerIds = {p1}
  Documents = {d1}
  FarmIds = {f1}
  SeasonIds = {s1, s2}
  Years = {y1, y2}
  CropIds = {c1, c2}
  Names = {n1, n2}
  PlantedIds = {l1, l2}
  ProducerRequests = {}
  FarmRequests = {}
  SeasonRequests = {sr1}
  CropRequests = {cr1}
  Batches = {b1}
  MaxArea = 990
  Seed <- OneFarmSeed
  FarmBodies <- Nothing
  FarmPatches <- Nothing
  ItemLists <- OneItem
  Unborn = Unborn
  Gone = Gone
  Committed = Committed
  Omitted = Omitted
SPECIFICATION Spec
INVARIANTS TypeOK PlantedCropsHaveParents
PROPERTIES HistoryKept InternalErrorsAreKnown
SYMMETRY BatchSymmetry
