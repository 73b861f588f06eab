CONSTANTS
  Outages = FALSE
  TxMayExpire = FALSE
  ProducerIds = {p1}
  Documents = {d1}
  FarmIds = {f1}
  SeasonIds = {s1, s2}
  Years = {y1, y2}
  CropIds = {c1}
  Names = {n1}
  PlantedIds = {l1}
  ProducerRequests = {}
  FarmRequests = {}
  SeasonRequests = {sr1, sr2}
  CropRequests = {}
  Batches = {}
  MaxArea = 990
  Seed <- OneFarmSeed
  FarmBodies <- Nothing
  FarmPatches <- Nothing
  ItemLists <- Nothing
  Unborn = Unborn
  Gone = Gone
  Committed = Committed
  Omitted = Omitted
SPECIFICATION Spec
PROPERTIES DuplicateKeyIs409
