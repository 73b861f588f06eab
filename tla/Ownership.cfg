CONSTANTS
  Outages = TRUE
  TxMayExpire = FALSE
  ProducerIds = {p1, p2}
  Documents = {d1, d2}
  FarmIds = {f1, f2}
  SeasonIds = {s1}
  Years = {y1}
  CropIds = {c1}
  Names = {n1}
  PlantedIds = {l1}
  ProducerRequests = {pr1, pr2}
  FarmRequests = {fr1}
  SeasonRequests = {}
  CropRequests = {}
  Batches = {}
  MaxArea = 990
  Seed <- OneFarmSeed
  FarmBodies <- FittingBodies
  FarmPatches <- MovePatches
  ItemLists <- Nothing
  Unborn = Unborn
  Gone = Gone
  Committed = Committed
  Omitted = Omitted
SPECIFICATION Spec
INVARIANTS FarmsHaveProducers UniqueKeys
PROPERTIES ImplementsRegistry InternalErrorsAreKnown
