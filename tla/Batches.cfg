CONSTANTS
  Outages = TRUE
  TxMayExpire = TRUE
  ProducerIds = {p1}
  Documents = {d1}
  FarmIds = {f1}
  SeasonIds = {s1, s2}
  Years = {y1, y2}
  CropIds = {c1}
  Names = {n1}
  PlantedIds = {l1, l2, l3, l4}
  ProducerRequests = {}
  FarmRequests = {fr1}
  SeasonRequests = {}
  CropRequests = {}
  Batches = {b1, b2}
  MaxArea = 990
  Seed <- FullSeed
  FarmBodies <- Nothing
  FarmPatches <- Nothing
  ItemLists <- UpToTwoItems
  Unborn = Unborn
  Gone = Gone
  Committed = Committed
  Omitted = Omitted
SPECIFICATION FairSpec
INVARIANTS PlantedCropsHaveParents OnePlantingPerSeasonAndCrop OpenTransactionsOwnTheirRows
PROPERTIES BatchIsAtomic ErrorsChangeNothing WaitsEnd ImplementsRegistry InternalErrorsAreKnown
