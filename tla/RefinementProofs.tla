--------------------------- MODULE RefinementProofs -------------------------
(***************************************************************************)
(* Api implements Registry: every step of every request, whatever other    *)
(* requests did between its awaits, is one operation of Registry on what   *)
(* statements see, or none at all.                                         *)
(***************************************************************************)
EXTENDS RegistryProofs

(* What the refinement rests on: each step is an operation of Registry     *)
(* only in states that satisfy the constraints of the schema.              *)
Sound == TypeOK /\ References /\ OnePlantingPerSeasonAndCrop

(* What a statement reads in a committed row.                              *)
Triple(p) == [farmId |-> planted[p].farmId, seasonId |-> planted[p].seasonId,
              cropId |-> planted[p].cropId]

-----------------------------------------------------------------------------

(* Registry's rows are those of the three catalogues and of farms, and the *)
(* planted crops that statements see.                                      *)
LEMMA PromisedRows ==
    ASSUME NEW table
    PROVE  Promised!Live(table) = Live(table)
BY DEF Promised!Live, Live, NoRow

LEMMA TripleIsPlanting ==
    ASSUME TypeOK, NEW p \in Live(planted)
    PROVE  /\ Triple(p) \in Promised!Planting
           /\ Triple(p) \notin NoRow
BY SeenAssumption DEF Triple, Promised!Planting, Live, PlantedRow, TypeOK, StoreTypeOK

LEMMA SeenRow ==
    ASSUME TypeOK, NEW p \in PlantedIds
    PROVE  Seen(planted)[p] = IF p \in Visible THEN Triple(p)
                              ELSE IF planted[p] = Gone THEN Gone ELSE Unborn
BY RowsAssumption DEF Seen, Visible, Live, NoRow, Triple, TypeOK, StoreTypeOK

LEMMA SeenKeys ==
    ASSUME TypeOK, NEW p \in Visible
    PROVE  /\ Seen(planted)[p].farmId = planted[p].farmId
           /\ Seen(planted)[p].seasonId = planted[p].seasonId
           /\ Seen(planted)[p].cropId = planted[p].cropId
<1>1. p \in PlantedIds
  BY DEF Visible, Live, TypeOK, StoreTypeOK
<1>2. Seen(planted)[p] = Triple(p)
  BY <1>1, SeenRow
<1> QED BY <1>2 DEF Triple

LEMMA SeenLive ==
    ASSUME TypeOK
    PROVE  Promised!Live(Seen(planted)) = Visible
<1>1. DOMAIN Seen(planted) = PlantedIds /\ Visible \subseteq PlantedIds
  BY DEF Seen, Visible, Live, TypeOK, StoreTypeOK
<1>2. \A p \in Visible : Triple(p) \notin NoRow
  BY TripleIsPlanting DEF Visible
<1> QED BY <1>1, <1>2, SeenRow DEF Promised!Live, NoRow

(* What is seen changes with planted only.                                 *)
LEMMA SeenUnchanged == UNCHANGED planted => Seen(planted)' = Seen(planted)
BY DEF Seen

-----------------------------------------------------------------------------

(* A DELETE that cascades takes what Registry takes: it waits for the      *)
(* batches whose rows it could not see.                                    *)
LEMMA CascadeRemovesFarms ==
    ASSUME TypeOK, TypeOK', NEW F, CascadeFarms(F)
    PROVE  Promised!RemoveFarms(F)
<1>1. ASSUME NEW p \in PlantedIds
      PROVE  Seen(planted)'[p] =
                IF p \in Promised!Live(Seen(planted)) /\ Seen(planted)[p].farmId \in F
                THEN Gone ELSE Seen(planted)[p]
  <2>1. Promised!Live(Seen(planted)) = Visible
    BY SeenLive
  <2>2. planted'[p] = IF p \in Visible /\ planted[p].farmId \in F THEN Gone ELSE planted[p]
    BY DEF CascadeFarms
  <2>3. Seen(planted)'[p] =
           IF planted'[p] \in NoRow THEN planted'[p]
           ELSE IF planted'[p].xmin # Committed THEN Unborn
           ELSE [farmId |-> planted'[p].farmId, seasonId |-> planted'[p].seasonId,
                 cropId |-> planted'[p].cropId]
    BY DEF Seen
  <2>4. CASE p \in Visible
    <3>1. Seen(planted)[p].farmId = planted[p].farmId
      BY <2>4, SeenKeys
    <3> QED BY <2>1, <2>2, <2>3, <2>4, <3>1 DEF NoRow, Seen
  <2>5. CASE p \notin Visible
    BY <2>1, <2>2, <2>3, <2>5 DEF Seen
  <2> QED BY <2>4, <2>5
<1>2. Seen(planted)' = [p \in PlantedIds |->
         IF p \in Promised!Live(Seen(planted)) /\ Seen(planted)[p].farmId \in F
         THEN Gone ELSE Seen(planted)[p]]
  BY <1>1 DEF Seen
<1> QED BY <1>2 DEF CascadeFarms, Promised!RemoveFarms

(* A step of /producers but for a DELETE changes a key or nothing.         *)
LEMMA ProducersImplement ==
    ASSUME Sound, TypeOK', ProducersNext
    PROVE  [Promised!Next]_Promised!tables
<1> PICK r \in ProducerRequests :
        \/ PostProducer(r) \/ PatchProducer(r) \/ RequestProducerDelete(r)
        \/ HandleProducer(r) \/ LoseProducerRequest(r)
  BY DEF ProducersNext
<1> USE DEF Sound
<1>1. CASE UNCHANGED otherThanProducers /\ ~Producer!DeleteRow(r)
  <2>1. UNCHANGED <<farms, seasons, crops, Seen(planted)>>
    BY <1>1, SeenUnchanged DEF otherThanProducers
  <2>2. DOMAIN producers = ProducerIds
    BY DEF TypeOK, StoreTypeOK
  <2>3. \/ UNCHANGED producers
        \/ \E id \in ProducerIds, key \in Documents :
              /\ producers[id] = Unborn /\ ~Producer!IsTaken(key)
              /\ producers' = [producers EXCEPT ![id] = key]
        \/ \E id \in Producer!Rows, key \in Documents :
              /\ ~Producer!IsTakenByOther(key, id)
              /\ producers' = [producers EXCEPT ![id] = key]
    BY <1>1, ProducersStep, ProducerRows, Producer!StepKinds, OutagesAssumption
  <2>4. UNCHANGED producers \/ Promised!ChangeProducers
    BY <2>1, <2>2, <2>3, ProducerRows, PromisedRows
       DEF Promised!ChangeProducers, Promised!Add, Promised!Rename, Promised!Taken,
           Producer!IsTaken, Producer!IsTakenByOther
  <2> QED BY <2>1, <2>4 DEF Promised!Next, Promised!tables
<1>2. CASE /\ Producer!DeleteRow(r)
           /\ CascadeFarms(FarmsOf(producerCall[r].id))
           /\ UNCHANGED <<seasons, crops>>
  <2>1. /\ producerCall[r].id \in Live(producers)
        /\ producers' = [producers EXCEPT ![producerCall[r].id] = Gone]
    <3>1. producerCall[r].id \in ProducerIds
      BY <1>2 DEF Producer!DeleteRow, Producer!Writes, TypeOK, Producer!CallTypeOK,
                  Producer!Creating, Producer!Updating, Producer!Deleting, Producer!Idle
    <3> QED
      BY <1>2, <3>1 DEF Producer!DeleteRow, Producer!Exists, Live, NoRow, TypeOK, StoreTypeOK
  <2>2. Promised!RemoveFarms(FarmsOf(producerCall[r].id))
    BY <1>2, CascadeRemovesFarms
  <2>3. Promised!RemoveProducer
    BY <1>2, <2>1, <2>2, PromisedRows DEF Promised!RemoveProducer, FarmsOf
  <2> QED BY <2>3 DEF Promised!Next
<1> QED BY <1>1, <1>2, ProducersStepKinds

(* So does a step of /seasons; a season that goes is referenced by nothing *)
(* that is seen.                                                           *)
LEMMA SeasonsImplement ==
    ASSUME Sound, TypeOK', SeasonsNext
    PROVE  [Promised!Next]_Promised!tables
<1> PICK r \in SeasonRequests :
        \/ PostSeason(r) \/ PatchSeason(r) \/ RequestSeasonDelete(r)
        \/ HandleSeason(r) \/ LoseSeasonRequest(r)
  BY DEF SeasonsNext
<1> USE DEF Sound
<1>1. UNCHANGED <<producers, farms, crops, Seen(planted)>>
  BY SeasonsStep, SeenUnchanged DEF otherThanSeasons
<1>2. DOMAIN seasons = SeasonIds
  BY DEF TypeOK, StoreTypeOK
<1>3. CASE ~Season!DeleteRow(r)
  <2>1. \/ UNCHANGED seasons
        \/ \E id \in SeasonIds, key \in Years :
              /\ seasons[id] = Unborn /\ ~Season!IsTaken(key)
              /\ seasons' = [seasons EXCEPT ![id] = key]
        \/ \E id \in Season!Rows, key \in Years :
              /\ ~Season!IsTakenByOther(key, id)
              /\ seasons' = [seasons EXCEPT ![id] = key]
    BY <1>3, SeasonsStep, SeasonRows, Season!StepKinds, OutagesAssumption
  <2>2. UNCHANGED seasons \/ Promised!ChangeSeasons
    BY <1>1, <1>2, <2>1, SeasonRows, PromisedRows
       DEF Promised!ChangeSeasons, Promised!Add, Promised!Rename, Promised!Taken,
           Season!IsTaken, Season!IsTakenByOther
  <2> QED BY <1>1, <2>2 DEF Promised!Next, Promised!tables
<1>4. CASE Season!DeleteRow(r)
  <2> DEFINE id == seasonCall[r].id
  <2>1. id \in Live(seasons) /\ seasons' = [seasons EXCEPT ![id] = Gone]
    <3>1. id \in SeasonIds
      BY <1>4 DEF Season!DeleteRow, Season!Writes, TypeOK, Season!CallTypeOK,
                  Season!Creating, Season!Updating, Season!Deleting, Season!Idle
    <3> QED
      BY <1>4, <3>1 DEF Season!DeleteRow, Season!Exists, Live, NoRow, TypeOK, StoreTypeOK
  <2>2. \A p \in Visible : Seen(planted)[p].seasonId # id
    <3> SUFFICES ASSUME NEW p \in Visible PROVE Seen(planted)[p].seasonId # id
      OBVIOUS
    <3>1. planted[p].seasonId # id
      BY <1>4, SeasonsStepKinds DEF SeasonReferenced
    <3> QED BY <3>1, SeenKeys
  <2>3. Promised!RemoveSeason
    BY <1>1, <2>1, <2>2, SeenLive, PromisedRows DEF Promised!RemoveSeason
  <2> QED BY <2>3 DEF Promised!Next
<1> QED BY <1>3, <1>4

LEMMA CropsImplement ==
    ASSUME Sound, TypeOK', CropsNext
    PROVE  [Promised!Next]_Promised!tables
<1> PICK r \in CropRequests :
        \/ PostCrop(r) \/ PatchCrop(r) \/ RequestCropDelete(r)
        \/ HandleCrop(r) \/ LoseCropRequest(r)
  BY DEF CropsNext
<1> USE DEF Sound
<1>1. UNCHANGED <<producers, farms, seasons, Seen(planted)>>
  BY CropsStep, SeenUnchanged DEF otherThanCrops
<1>2. DOMAIN crops = CropIds
  BY DEF TypeOK, StoreTypeOK
<1>3. CASE ~Crop!DeleteRow(r)
  <2>1. \/ UNCHANGED crops
        \/ \E id \in CropIds, key \in Names :
              /\ crops[id] = Unborn /\ ~Crop!IsTaken(key)
              /\ crops' = [crops EXCEPT ![id] = key]
        \/ \E id \in Crop!Rows, key \in Names :
              /\ ~Crop!IsTakenByOther(key, id)
              /\ crops' = [crops EXCEPT ![id] = key]
    BY <1>3, CropsStep, CropRows, Crop!StepKinds, OutagesAssumption
  <2>2. UNCHANGED crops \/ Promised!ChangeCrops
    BY <1>1, <1>2, <2>1, CropRows, PromisedRows
       DEF Promised!ChangeCrops, Promised!Add, Promised!Rename, Promised!Taken,
           Crop!IsTaken, Crop!IsTakenByOther
  <2> QED BY <1>1, <2>2 DEF Promised!Next, Promised!tables
<1>4. CASE Crop!DeleteRow(r)
  <2> DEFINE id == cropCall[r].id
  <2>1. id \in Live(crops) /\ crops' = [crops EXCEPT ![id] = Gone]
    <3>1. id \in CropIds
      BY <1>4 DEF Crop!DeleteRow, Crop!Writes, TypeOK, Crop!CallTypeOK,
                  Crop!Creating, Crop!Updating, Crop!Deleting, Crop!Idle
    <3> QED
      BY <1>4, <3>1 DEF Crop!DeleteRow, Crop!Exists, Live, NoRow, TypeOK, StoreTypeOK
  <2>2. \A p \in Visible : Seen(planted)[p].cropId # id
    <3> SUFFICES ASSUME NEW p \in Visible PROVE Seen(planted)[p].cropId # id
      OBVIOUS
    <3>1. planted[p].cropId # id
      BY <1>4, CropsStepKinds DEF CropReferenced
    <3> QED BY <3>1, SeenKeys
  <2>3. Promised!RemoveCrop
    BY <1>1, <2>1, <2>2, SeenLive, PromisedRows DEF Promised!RemoveCrop
  <2> QED BY <2>3 DEF Promised!Next
<1> QED BY <1>3, <1>4

-----------------------------------------------------------------------------

(* A farm that is written is written whole, under a producer that is       *)
(* there, and never over a farm that is gone.                              *)
LEMMA FarmsImplement ==
    ASSUME Sound, TypeOK', FarmsNext
    PROVE  [Promised!Next]_Promised!tables
<1> PICK r \in FarmRequests :
        \/ PostFarm(r) \/ PatchFarm(r) \/ RequestFarmDelete(r)
        \/ HandleFarm(r) \/ LoseFarmRequest(r)
  BY DEF FarmsNext
<1> USE DEF Sound
<1>1. CASE UNCHANGED tables
  BY <1>1, SeenUnchanged DEF tables, Promised!tables
<1>2. ASSUME UNCHANGED otherThanFarms, NEW f \in FarmIds, farms[f] # Gone, NEW row \in FarmRow,
             row.producerId \in Live(producers), farms' = [farms EXCEPT ![f] = row]
      PROVE  Promised!PutFarm
  <2>1. farms'[f] = row
    BY <1>2 DEF TypeOK, StoreTypeOK
  <2> QED
    BY <1>2, <2>1, SeenUnchanged, PromisedRows
       DEF otherThanFarms, Promised!PutFarm, Promised!Farm, FarmRow
<1>3. CASE InsertFarm(r) /\ ~UNCHANGED tables
  <2>1. farmCall[r] \in CreatingFarm
    BY <1>3 DEF InsertFarm, FarmAt, TypeOK, FarmCallTypeOK, CreatingFarm, ReadingFarm,
                UpdatingFarm, DeletingFarm, FarmAnswered
  <2>2. PICK f \in FarmIds : /\ farms[f] = Unborn
                             /\ farms' = [farms EXCEPT ![f] = Inserted(farmCall[r].body)]
                             /\ ProducerExists(farmCall[r].body.producerId)
    BY <1>3 DEF InsertFarm, tables, otherThanFarms
  <2>3. /\ Inserted(farmCall[r].body) \in FarmRow
        /\ Inserted(farmCall[r].body).producerId \in Live(producers)
    BY <2>1, <2>2, InsertedIsRow DEF CreatingFarm, Inserted, ProducerExists
  <2>4. Promised!PutFarm
    BY <1>2, <1>3, <2>2, <2>3, RowsAssumption DEF InsertFarm
  <2> QED BY <2>4 DEF Promised!Next
<1>4. CASE UpdateFarm(r) /\ ~UNCHANGED tables
  <2> DEFINE id == farmCall[r].id
             row == Patched(farmCall[r].dto, farms[id])
  <2>1. farmCall[r] \in UpdatingFarm
    BY <1>4 DEF UpdateFarm, FarmAt, TypeOK, FarmCallTypeOK, CreatingFarm, ReadingFarm,
                UpdatingFarm, DeletingFarm, FarmAnswered
  <2>2. /\ FarmExists(id)
        /\ ProducerExists(row.producerId)
        /\ farms' = [farms EXCEPT ![id] = row]
    BY <1>4 DEF UpdateFarm, tables, otherThanFarms
  <2>3. id \in FarmIds /\ farms[id] \in FarmRow /\ farms[id] # Gone
    BY <2>2 DEF FarmExists, Live, NoRow, TypeOK, StoreTypeOK
  <2>4. row \in FarmRow
    BY <2>1, <2>3, PatchedIsRow DEF UpdatingFarm
  <2>5. Promised!PutFarm
    BY <1>2, <1>4, <2>2, <2>3, <2>4 DEF UpdateFarm, ProducerExists
  <2> QED BY <2>5 DEF Promised!Next
<1>5. CASE DeleteFarm(r) /\ ~UNCHANGED tables
  <2>1. /\ FarmExists(farmCall[r].id)
        /\ CascadeFarms({farmCall[r].id})
        /\ UNCHANGED <<producers, seasons, crops>>
    BY <1>5 DEF DeleteFarm, tables
  <2>2. Promised!RemoveFarm
    BY <2>1, CascadeRemovesFarms, PromisedRows DEF Promised!RemoveFarm, FarmExists
  <2> QED BY <2>2 DEF Promised!Next
<1> QED
  BY <1>1, <1>3, <1>4, <1>5
     DEF PostFarm, PatchFarm, RequestFarmDelete, AcceptFarm, HandleFarm, ReadFarm, FindFarm,
         LoseFarmRequest

-----------------------------------------------------------------------------

(* Nobody sees a batch insert an item or roll back.                        *)
LEMMA UncommittedIsUnseen ==
    ASSUME TypeOK, NEW r \in Batches, InsertItem(r) \/ Rollback(r)
    PROVE  Seen(planted)' = Seen(planted)
<1>1. r # Committed
  BY CommittedAssumption
<1>2. CASE Rollback(r)
  BY <1>1, <1>2 DEF Rollback, Seen, Own, Live, NoRow, TypeOK, StoreTypeOK
<1>3. CASE InsertItem(r) /\ ~Rollback(r)
  <2>1. plantedCall[r] \in CreatingPlanted /\ CurrentItem(r) \in Item
    BY <1>3, CurrentItemType DEF InsertItem, TypeOK
  <2>2. PICK p \in PlantedIds, row \in PlantedRow :
           /\ planted[p] = Unborn /\ row.xmin = r
           /\ planted' = [planted EXCEPT ![p] = row]
    BY <1>3, <2>1 DEF InsertItem, Abort, PlantedRow, CreatingPlanted, Item
  <2>3. row \notin NoRow
    BY RowsAssumption
  <2> QED BY <1>1, <2>2, <2>3 DEF Seen, NoRow, TypeOK, StoreTypeOK
<1> QED BY <1>2, <1>3

(* COMMIT plants the whole batch in one step.                              *)
LEMMA CommitPlants ==
    ASSUME Sound, TypeOK', NEW r \in Batches, Commit(r)
    PROVE  Promised!Plant
<1> USE DEF Sound
<1> DEFINE row == [p \in Own(r) |-> Triple(p)]
<1>1. UNCHANGED <<producers, farms, seasons, crops>>
  BY DEF Commit, otherThanPlanted
<1>2. Own(r) \in SUBSET PlantedIds /\ Own(r) \subseteq Live(planted) \ Visible
  BY CommittedAssumption DEF Own, Visible, Live, TypeOK, StoreTypeOK
<1>3. row \in [Own(r) -> Promised!Planting]
  BY <1>2, TripleIsPlanting
<1>4. ASSUME NEW p \in Own(r)
      PROVE  /\ Seen(planted)[p] = Unborn
             /\ row[p].farmId \in Promised!Live(farms)
             /\ row[p].seasonId \in Promised!Live(seasons)
             /\ row[p].cropId \in Promised!Live(crops)
             /\ \A q \in Promised!Live(Seen(planted)) : Seen(planted)[q] # row[p]
             /\ \A q \in Own(r) : row[q] = row[p] => q = p
  <2>1. p \in PlantedIds /\ p \in Live(planted) /\ p \notin Visible /\ row[p] = Triple(p)
    BY <1>2
  <2>2. Seen(planted)[p] = Unborn
    BY <2>1, SeenRow DEF Live, NoRow
  <2>3. /\ row[p].farmId \in Promised!Live(farms)
        /\ row[p].seasonId \in Promised!Live(seasons)
        /\ row[p].cropId \in Promised!Live(crops)
    BY <2>1, PromisedRows DEF Triple, References, PlantedCropsHaveParents
  <2>4. ASSUME NEW q \in Live(planted), Triple(q) = Triple(p)
        PROVE  q = p
    <3>1. /\ planted[q].farmId = planted[p].farmId
          /\ planted[q].seasonId = planted[p].seasonId
          /\ planted[q].cropId = planted[p].cropId
      BY <2>4 DEF Triple
    <3> QED BY <2>1, <3>1 DEF OnePlantingPerSeasonAndCrop
  <2>5. ASSUME NEW q \in Visible
        PROVE  Seen(planted)[q] # row[p]
    <3>1. q \in Live(planted) /\ q \in PlantedIds
      BY DEF Visible, Live, TypeOK, StoreTypeOK
    <3> QED BY <2>1, <2>4, <3>1, SeenRow
  <2>6. \A q \in Own(r) : row[q] = row[p] => q = p
    BY <1>2, <2>1, <2>4
  <2> QED BY <2>2, <2>3, <2>5, <2>6, SeenLive
<1>5. Seen(planted)' = [p \in PlantedIds |-> IF p \in Own(r) THEN row[p] ELSE Seen(planted)[p]]
  <2>1. ASSUME NEW p \in PlantedIds, p \in Own(r)
        PROVE  Seen(planted)'[p] = row[p]
    <3>1. planted[p] \in PlantedRow /\ planted'[p] = [planted[p] EXCEPT !.xmin = Committed]
      BY <2>1 DEF Commit, Own, Live, TypeOK, StoreTypeOK
    <3>2. planted'[p] \in PlantedRow
      BY <3>1 DEF PlantedRow
    <3>3. planted'[p] \notin NoRow
      BY <3>2, RowsAssumption
    <3>4. /\ planted'[p].xmin = Committed
          /\ planted'[p].farmId = planted[p].farmId
          /\ planted'[p].seasonId = planted[p].seasonId
          /\ planted'[p].cropId = planted[p].cropId
      BY <3>1 DEF PlantedRow
    <3> QED BY <2>1, <3>3, <3>4 DEF Seen, Triple
  <2>2. ASSUME NEW p \in PlantedIds, p \notin Own(r)
        PROVE  Seen(planted)'[p] = Seen(planted)[p]
    <3>1. planted'[p] = planted[p]
      BY <2>2 DEF Commit
    <3> QED BY <3>1 DEF Seen
  <2> QED BY <2>1, <2>2 DEF Seen
<1> QED BY <1>1, <1>2, <1>3, <1>4, <1>5 DEF Promised!Plant

LEMMA PlantedCropsImplement ==
    ASSUME Sound, TypeOK', PlantedCropsNext
    PROVE  [Promised!Next]_Promised!tables
<1> PICK r \in Batches :
        \/ PostBatch(r) \/ RequestPlantedDelete(r) \/ HandlePlanted(r)
        \/ Expire(r) \/ LosePlantedRequest(r)
  BY DEF PlantedCropsNext
<1> USE DEF Sound
<1>1. UNCHANGED <<producers, farms, seasons, crops>>
  BY PlantedStepKinds DEF otherThanPlanted
<1>2. CASE UNCHANGED planted
  BY <1>1, <1>2, SeenUnchanged DEF Promised!tables
<1>3. CASE InsertItem(r) \/ Rollback(r)
  BY <1>1, <1>3, UncommittedIsUnseen DEF Promised!tables
<1>4. CASE Commit(r)
  BY <1>4, CommitPlants DEF Promised!Next
<1>5. CASE DeletePlantedCrop(r) /\ ~UNCHANGED planted
  <2> DEFINE id == plantedCall[r].id
  <2>1. id \in Visible /\ planted' = [planted EXCEPT ![id] = Gone]
    BY <1>5 DEF DeletePlantedCrop
  <2>2. Seen(planted)' = [Seen(planted) EXCEPT ![id] = Gone]
    BY <2>1 DEF Seen, NoRow, Visible, Live, TypeOK, StoreTypeOK
  <2>3. Promised!Unplant
    BY <1>1, <2>1, <2>2, SeenLive DEF Promised!Unplant
  <2> QED BY <2>3 DEF Promised!Next
<1> QED
  BY <1>2, <1>3, <1>4, <1>5
     DEF PostBatch, RequestPlantedDelete, AcceptPlanted, tables, HandlePlanted,
         BreakDeadlock, Expire, LosePlantedRequest, Abort

-----------------------------------------------------------------------------

LEMMA InitImplements == Init => Promised!Init
BY DEF Init, StoreInit, Promised!Init, Promised!tables, Seen

LEMMA NextImplements == Sound /\ TypeOK' /\ [Next]_vars => [Promised!Next]_Promised!tables
<1> SUFFICES ASSUME Sound, TypeOK', [Next]_vars PROVE [Promised!Next]_Promised!tables
  OBVIOUS
<1>1. CASE Next
  BY <1>1, ProducersImplement, FarmsImplement, SeasonsImplement, CropsImplement,
     PlantedCropsImplement DEF Next
<1>2. CASE UNCHANGED vars
  BY <1>2, SeenUnchanged DEF vars, tables, Promised!tables
<1> QED BY <1>1, <1>2

(* ImplementsRegistry, for any number of rows, of requests in flight and   *)
(* of batches: what statements see changes by one whole operation of the   *)
(* README at a time.                                                       *)
THEOREM ApiImplementsRegistry == Spec => ImplementsRegistry
<1>1. Spec => []Sound
  <2>1. FarmsHaveProducers /\ PlantedCropsHaveParents => References
    BY DEF References
  <2>2. TypeOK /\ References /\ OnePlantingPerSeasonAndCrop => Sound
    BY DEF Sound
  <2> QED BY <2>1, <2>2, TypeCorrect, NoFarmIsOrphaned, NoPlantedCropIsOrphaned,
             OnePlantingOnly, PTL
<1> QED
  BY <1>1, InitImplements, NextImplements, TypeCorrect, PTL
     DEF Spec, ImplementsRegistry, Promised!Spec

=============================================================================
