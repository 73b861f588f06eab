--------------------------- MODULE RegistryProofs ---------------------------
(***************************************************************************)
(* The tables and the requests of the API keep their types; referential    *)
(* integrity and uniqueness of the registry, for every number of rows, of  *)
(* requests in flight and of batches.                                      *)
(***************************************************************************)
EXTENDS Api, TLAPS

(* Requests to one module leave the slots of the others alone.             *)
otherThanProducerCalls == <<farmCall, seasonCall, cropCall, plantedCall>>
otherThanFarmCalls == <<producerCall, seasonCall, cropCall, plantedCall>>
otherThanSeasonCalls == <<producerCall, farmCall, cropCall, plantedCall>>
otherThanCropCalls == <<producerCall, farmCall, seasonCall, plantedCall>>
otherThanPlantedCalls == <<producerCall, farmCall, seasonCall, cropCall>>

(* The CASCADE and the RESTRICT keep tables well typed.                    *)
LEMMA CascadeType ==
    ASSUME StoreTypeOK, NEW F, CascadeFarms(F)
    PROVE  /\ farms' \in [FarmIds -> FarmRow \cup NoRow]
           /\ planted' \in [PlantedIds -> PlantedRow \cup NoRow]
BY DEF StoreTypeOK, CascadeFarms, NoRow

(* A step of a request to /producers is a step of the protocol of Keyed.   *)
LEMMA ProducersStep ==
    ASSUME NEW r \in ProducerRequests,
           \/ PostProducer(r) \/ PatchProducer(r) \/ RequestProducerDelete(r)
           \/ HandleProducer(r) \/ LoseProducerRequest(r)
    PROVE  Producer!Step(r)
BY DEF PostProducer, PatchProducer, RequestProducerDelete, HandleProducer,
       LoseProducerRequest, FindProducerByDocument, InsertProducer, FindProducer,
       UpdateProducer, DeleteProducer, Producer!Step

LEMMA ProducersType ==
    ASSUME TypeOK, ProducersNext, UNCHANGED otherThanProducerCalls
    PROVE  TypeOK'
<1> PICK r \in ProducerRequests :
        \/ PostProducer(r) \/ PatchProducer(r) \/ RequestProducerDelete(r)
        \/ HandleProducer(r) \/ LoseProducerRequest(r)
  BY DEF ProducersNext
<1>1. Producer!CallTypeOK' /\ producers' \in [ProducerIds -> Documents \cup NoRow]
  <2>1. Producer!CallTypeOK /\ Producer!TableTypeOK
    BY DEF TypeOK, StoreTypeOK, Producer!TableTypeOK, NoRow
  <2>2. Producer!CallTypeOK' /\ Producer!TableTypeOK'
    BY <2>1, ProducersStep, Producer!StepType, OutagesAssumption
  <2> QED BY <2>2 DEF Producer!TableTypeOK, NoRow
<1>2. /\ farms' \in [FarmIds -> FarmRow \cup NoRow]
      /\ planted' \in [PlantedIds -> PlantedRow \cup NoRow]
      /\ UNCHANGED <<seasons, crops>>
  <2>1. CASE UNCHANGED otherThanProducers
    BY <2>1 DEF TypeOK, StoreTypeOK, otherThanProducers
  <2>2. CASE \E F : CascadeFarms(F) /\ UNCHANGED <<seasons, crops>>
    BY <2>2, CascadeType DEF TypeOK
  <2> QED
    BY <2>1, <2>2
       DEF PostProducer, PatchProducer, RequestProducerDelete, HandleProducer,
           LoseProducerRequest, FindProducerByDocument, InsertProducer, FindProducer,
           UpdateProducer, DeleteProducer
<1>3. /\ seasons' \in [SeasonIds -> Years \cup NoRow]
      /\ crops' \in [CropIds -> Names \cup NoRow]
  BY <1>2 DEF TypeOK, StoreTypeOK
<1>4. FarmCallTypeOK' /\ Season!CallTypeOK' /\ Crop!CallTypeOK' /\ PlantedCallTypeOK'
  BY DEF otherThanProducerCalls, TypeOK, FarmCallTypeOK, Season!CallTypeOK,
         Crop!CallTypeOK, PlantedCallTypeOK, InTransaction
<1> QED BY <1>1, <1>2, <1>3, <1>4 DEF TypeOK, StoreTypeOK

LEMMA SeasonsStep ==
    ASSUME NEW r \in SeasonRequests,
           \/ PostSeason(r) \/ PatchSeason(r) \/ RequestSeasonDelete(r)
           \/ HandleSeason(r) \/ LoseSeasonRequest(r)
    PROVE  Season!Step(r) /\ UNCHANGED otherThanSeasons
BY DEF PostSeason, PatchSeason, RequestSeasonDelete, HandleSeason, LoseSeasonRequest,
       FindSeasonByYear, InsertSeason, FindSeason, UpdateSeason, DeleteSeason, Season!Step

LEMMA SeasonsType ==
    ASSUME TypeOK, SeasonsNext, UNCHANGED otherThanSeasonCalls
    PROVE  TypeOK'
<1> PICK r \in SeasonRequests :
        \/ PostSeason(r) \/ PatchSeason(r) \/ RequestSeasonDelete(r)
        \/ HandleSeason(r) \/ LoseSeasonRequest(r)
  BY DEF SeasonsNext
<1>1. Season!CallTypeOK /\ Season!TableTypeOK
  BY DEF TypeOK, StoreTypeOK, Season!TableTypeOK, NoRow
<1>2. Season!CallTypeOK' /\ Season!TableTypeOK'
  BY <1>1, SeasonsStep, Season!StepType, OutagesAssumption
<1>3. StoreTypeOK'
  BY <1>2, SeasonsStep DEF TypeOK, StoreTypeOK, otherThanSeasons, Season!TableTypeOK, NoRow
<1>4. Producer!CallTypeOK' /\ FarmCallTypeOK' /\ Crop!CallTypeOK' /\ PlantedCallTypeOK'
  BY DEF otherThanSeasonCalls, TypeOK, FarmCallTypeOK, Producer!CallTypeOK,
         Crop!CallTypeOK, PlantedCallTypeOK
<1> QED BY <1>2, <1>3, <1>4 DEF TypeOK

LEMMA CropsStep ==
    ASSUME NEW r \in CropRequests,
           \/ PostCrop(r) \/ PatchCrop(r) \/ RequestCropDelete(r)
           \/ HandleCrop(r) \/ LoseCropRequest(r)
    PROVE  Crop!Step(r) /\ UNCHANGED otherThanCrops
BY DEF PostCrop, PatchCrop, RequestCropDelete, HandleCrop, LoseCropRequest,
       FindCropByName, InsertCrop, FindCrop, UpdateCrop, DeleteCrop, Crop!Step

LEMMA CropsType ==
    ASSUME TypeOK, CropsNext, UNCHANGED otherThanCropCalls
    PROVE  TypeOK'
<1> PICK r \in CropRequests :
        \/ PostCrop(r) \/ PatchCrop(r) \/ RequestCropDelete(r)
        \/ HandleCrop(r) \/ LoseCropRequest(r)
  BY DEF CropsNext
<1>1. Crop!CallTypeOK /\ Crop!TableTypeOK
  BY DEF TypeOK, StoreTypeOK, Crop!TableTypeOK, NoRow
<1>2. Crop!CallTypeOK' /\ Crop!TableTypeOK'
  BY <1>1, CropsStep, Crop!StepType, OutagesAssumption
<1>3. StoreTypeOK'
  BY <1>2, CropsStep DEF TypeOK, StoreTypeOK, otherThanCrops, Crop!TableTypeOK, NoRow
<1>4. Producer!CallTypeOK' /\ FarmCallTypeOK' /\ Season!CallTypeOK' /\ PlantedCallTypeOK'
  BY DEF otherThanCropCalls, TypeOK, FarmCallTypeOK, Producer!CallTypeOK,
         Season!CallTypeOK, PlantedCallTypeOK
<1> QED BY <1>2, <1>3, <1>4 DEF TypeOK

-----------------------------------------------------------------------------

(* PostgreSQL stores a natural number of thousandths.                      *)
LEMMA StoredIsNat == \A area \in Nat : Stored(area) \in Nat
BY DEF Stored

LEMMA InsertedIsRow == \A body \in FarmBodies : Inserted(body) \in FarmRow
BY StoredIsNat, FarmInputsAssumption DEF Inserted, FarmBody, FarmRow

LEMMA PatchedIsRow ==
    ASSUME NEW dto \in FarmPatches, NEW row \in FarmRow
    PROVE  Patched(dto, row) \in FarmRow
<1>1. dto \in FarmPatch
  BY FarmInputsAssumption
<1>2. Given(dto.producerId, row.producerId) \in ProducerIds
  BY <1>1 DEF FarmPatch, FarmRow, Given
<1> QED BY <1>1, <1>2, StoredIsNat DEF Patched, FarmPatch, FarmRow

LEMMA HttpStatuses == \A e : Caught(e) \in Status
BY DEF Caught, HttpException, Connectivity, Status

LEMMA ReplyStatuses == \A status \in Status : Replies(status) \subseteq Status
BY HttpStatuses DEF Replies

LEMMA AnswerFarmType ==
    ASSUME FarmCallTypeOK, NEW r \in FarmRequests, NEW status \in Status,
           NEW id \in ProducerIds \cup FarmIds \cup {Omitted},
           farmCall' = [farmCall EXCEPT ![r] = FarmAnswer(status, id)]
    PROVE  FarmCallTypeOK'
BY DEF FarmCallTypeOK, FarmAnswer, FarmAnswered

LEMMA ThrowFarmType ==
    ASSUME FarmCallTypeOK, NEW r \in FarmRequests, NEW e, ThrowFarm(r, e)
    PROVE  FarmCallTypeOK'
BY AnswerFarmType, HttpStatuses DEF ThrowFarm, AnswerFarm

LEMMA ReplyFarmType ==
    ASSUME FarmCallTypeOK, NEW r \in FarmRequests, NEW status \in Status,
           \E s \in Replies(status) : AnswerFarm(r, s)
    PROVE  FarmCallTypeOK'
BY AnswerFarmType, ReplyStatuses DEF AnswerFarm

LEMMA FarmsType ==
    ASSUME TypeOK, FarmsNext, UNCHANGED otherThanFarmCalls
    PROVE  TypeOK'
<1> USE DEF TypeOK
<1> PICK r \in FarmRequests :
        \/ PostFarm(r) \/ PatchFarm(r) \/ RequestFarmDelete(r)
        \/ HandleFarm(r) \/ LoseFarmRequest(r)
  BY DEF FarmsNext
<1>1. Producer!CallTypeOK' /\ Season!CallTypeOK' /\ Crop!CallTypeOK' /\ PlantedCallTypeOK'
  BY DEF otherThanFarmCalls, Producer!CallTypeOK, Season!CallTypeOK, Crop!CallTypeOK,
         PlantedCallTypeOK
<1>2. FarmCallTypeOK' /\ StoreTypeOK'
  <2>1. CASE PostFarm(r)
    <3>1. UNCHANGED tables
      BY <2>1 DEF PostFarm, AcceptFarm
    <3>2. FarmCallTypeOK'
      BY <2>1, HttpStatuses
         DEF PostFarm, AcceptFarm, FarmCallTypeOK, CreatingFarm, FarmAnswer, FarmAnswered
    <3> QED BY <3>1, <3>2 DEF tables, StoreTypeOK
  <2>2. CASE PatchFarm(r)
    BY <2>2, HttpStatuses
       DEF PatchFarm, AcceptFarm, FarmCallTypeOK, ReadingFarm, FarmAnswer, FarmAnswered,
           tables, StoreTypeOK
  <2>3. CASE RequestFarmDelete(r)
    BY <2>3 DEF RequestFarmDelete, AcceptFarm, FarmCallTypeOK, DeletingFarm, FarmSteps,
                tables, StoreTypeOK
  <2>4. CASE InsertFarm(r)
    <3>1. farmCall[r] \in CreatingFarm
      BY <2>4 DEF InsertFarm, FarmAt, FarmCallTypeOK, CreatingFarm, ReadingFarm,
                  UpdatingFarm, DeletingFarm, FarmAnswered
    <3>2. farmCall[r].body \in FarmBodies /\ farmCall[r].body.producerId \in ProducerIds
      BY <3>1, FarmInputsAssumption DEF CreatingFarm, FarmBody
    <3>3. FarmCallTypeOK'
      BY <2>4, <3>2, ThrowFarmType, ReplyFarmType, AnswerFarmType, HttpStatuses
         DEF InsertFarm, ThrowProducerNotFound, Status
    <3>4. farms' \in [FarmIds -> FarmRow \cup NoRow]
      BY <2>4, <3>2, InsertedIsRow DEF InsertFarm, StoreTypeOK
    <3> QED BY <2>4, <3>3, <3>4 DEF InsertFarm, otherThanFarms, StoreTypeOK
  <2>5. CASE ReadFarm(r)
    <3>1. farmCall[r] \in ReadingFarm
      BY <2>5 DEF ReadFarm, FarmAt, FarmCallTypeOK, CreatingFarm, ReadingFarm,
                  UpdatingFarm, DeletingFarm, FarmAnswered
    <3>2. CASE ThrowFarm(r, "NotFound") \/ ThrowFarm(r, "BadRequest")
      BY <2>5, <3>2, ThrowFarmType DEF ReadFarm, tables, StoreTypeOK
    <3>3. CASE /\ FarmExists(farmCall[r].id)
               /\ farmCall' = [farmCall EXCEPT ![r] =
                     [op |-> "update", at |-> "write", id |-> farmCall[r].id,
                      dto |-> farmCall[r].dto, existing |-> farms[farmCall[r].id]]]
      <4>1. farms[farmCall[r].id] \in FarmRow
        BY <3>1, <3>3 DEF FarmExists, Live, StoreTypeOK, ReadingFarm
      <4>2. FarmCallTypeOK'
        BY <3>1, <3>3, <4>1 DEF FarmCallTypeOK, ReadingFarm, UpdatingFarm
      <4> QED BY <2>5, <4>2 DEF ReadFarm, tables, StoreTypeOK
    <3> QED BY <2>5, <3>2, <3>3 DEF ReadFarm
  <2>6. CASE UpdateFarm(r)
    <3>1. farmCall[r] \in UpdatingFarm
      BY <2>6 DEF UpdateFarm, FarmAt, FarmCallTypeOK, CreatingFarm, ReadingFarm,
                  UpdatingFarm, DeletingFarm, FarmAnswered
    <3>2. FarmCallTypeOK'
      BY <2>6, <3>1, ThrowFarmType, ReplyFarmType, AnswerFarmType, HttpStatuses
         DEF UpdateFarm, UpdatingFarm, ThrowProducerNotFound, Status
    <3>3. farms' \in [FarmIds -> FarmRow \cup NoRow]
      BY <2>6, <3>1, PatchedIsRow
         DEF UpdateFarm, UpdatingFarm, FarmExists, Live, StoreTypeOK
    <3> QED BY <2>6, <3>2, <3>3 DEF UpdateFarm, otherThanFarms, StoreTypeOK
  <2>7. CASE FindFarm(r)
    <3>1. CASE farmCall' = [farmCall EXCEPT ![r].at = "write"]
      <4>1. farmCall[r] \in DeletingFarm
        BY <2>7 DEF FindFarm, FarmAt, FarmCallTypeOK, CreatingFarm, ReadingFarm,
                    UpdatingFarm, DeletingFarm, FarmAnswered
      <4>2. FarmCallTypeOK'
        BY <3>1, <4>1 DEF FarmCallTypeOK, DeletingFarm, FarmSteps
      <4> QED BY <2>7, <4>2 DEF FindFarm, tables, StoreTypeOK
    <3>2. CASE ThrowFarm(r, "NotFound")
      BY <2>7, <3>2, ThrowFarmType DEF FindFarm, tables, StoreTypeOK
    <3> QED BY <2>7, <3>1, <3>2 DEF FindFarm
  <2>8. CASE DeleteFarm(r)
    <3>1. FarmCallTypeOK'
      BY <2>8, ThrowFarmType, ReplyFarmType DEF DeleteFarm, Status
    <3>2. /\ farms' \in [FarmIds -> FarmRow \cup NoRow]
          /\ planted' \in [PlantedIds -> PlantedRow \cup NoRow]
      BY <2>8, CascadeType DEF DeleteFarm, StoreTypeOK
    <3> QED BY <2>8, <3>1, <3>2 DEF DeleteFarm, StoreTypeOK
  <2>9. CASE LoseFarmRequest(r)
    BY <2>9, ThrowFarmType DEF LoseFarmRequest, tables, StoreTypeOK
  <2> QED BY <2>1, <2>2, <2>3, <2>4, <2>5, <2>6, <2>7, <2>8, <2>9 DEF HandleFarm
<1> QED BY <1>1, <1>2

-----------------------------------------------------------------------------

(* The item a batch inserts next is an item.                               *)
LEMMA CurrentItemType ==
    ASSUME PlantedCallTypeOK, NEW r \in Batches, InTransaction(r), ~AllInserted(r)
    PROVE  /\ plantedCall[r] \in CreatingPlanted
           /\ CurrentItem(r) \in Item
           /\ plantedCall[r].done + 1 \in 0 .. Len(plantedCall[r].items)
<1>1. plantedCall[r] \in CreatingPlanted
  BY DEF PlantedCallTypeOK, InTransaction, CreatingPlanted, DeletingPlanted, PlantedAnswered
<1>2. plantedCall[r].items \in Seq(Item) /\ plantedCall[r].done \in Nat
  BY <1>1, ItemListsAssumption DEF CreatingPlanted
<1>3. Len(plantedCall[r].items) \in Nat
  BY <1>2
<1>4. plantedCall[r].done + 1 \in 1 .. Len(plantedCall[r].items)
  BY <1>2, <1>3 DEF PlantedCallTypeOK, InTransaction, AllInserted
<1>5. CurrentItem(r) \in Item
  BY <1>2, <1>4 DEF CurrentItem
<1> QED BY <1>1, <1>3, <1>4, <1>5

LEMMA AnswerPlantedType ==
    ASSUME PlantedCallTypeOK, NEW r \in Batches, NEW status \in Status,
           AnswerPlanted(r, status)
    PROVE  PlantedCallTypeOK'
<1>1. Answered(status) \in PlantedAnswered
  BY DEF Answered, PlantedAnswered
<1>2. plantedCall' \in [Batches -> CreatingPlanted \cup DeletingPlanted \cup PlantedAnswered]
  BY <1>1 DEF PlantedCallTypeOK, AnswerPlanted
<1>3. ASSUME NEW q \in Batches, plantedCall'[q].at = "insert"
      PROVE  plantedCall'[q].done \in 0 .. Len(plantedCall'[q].items)
  BY <1>3 DEF PlantedCallTypeOK, AnswerPlanted, Answered
<1> QED BY <1>2, <1>3 DEF PlantedCallTypeOK

LEMMA ThrowPlantedType ==
    ASSUME PlantedCallTypeOK, NEW r \in Batches, NEW e \in Exceptions, ThrowPlanted(r, e)
    PROVE  PlantedCallTypeOK'
<1>1. Logged(e) \in PlantedAnswered /\ Logged(e).at = "idle"
  <2>1. Caught(e) = 500 => e \in Refusals
    BY DEF Caught, Exceptions, Connectivity, HttpException
  <2> QED BY <2>1, HttpStatuses DEF Logged, Answered, PlantedAnswered
<1>2. plantedCall' \in [Batches -> CreatingPlanted \cup DeletingPlanted \cup PlantedAnswered]
  BY <1>1 DEF PlantedCallTypeOK, ThrowPlanted
<1>3. ASSUME NEW q \in Batches, plantedCall'[q].at = "insert"
      PROVE  plantedCall'[q].done \in 0 .. Len(plantedCall'[q].items)
  BY <1>1, <1>3 DEF PlantedCallTypeOK, ThrowPlanted
<1> QED BY <1>2, <1>3 DEF PlantedCallTypeOK

LEMMA ReplyPlantedType ==
    ASSUME PlantedCallTypeOK, NEW r \in Batches, NEW status \in Status,
           \E s \in Replies(status) : AnswerPlanted(r, s)
    PROVE  PlantedCallTypeOK'
BY AnswerPlantedType, ReplyStatuses

(* An aborted batch keeps the types, whatever it was aborted for.          *)
LEMMA AbortType ==
    ASSUME PlantedCallTypeOK, StoreTypeOK, NEW r \in Batches, NEW e \in Exceptions, Abort(r, e)
    PROVE  PlantedCallTypeOK' /\ StoreTypeOK'
<1>1. Translated(e) \in Exceptions
  BY DEF Translated, Exceptions, HttpException
<1>3. PlantedCallTypeOK'
  BY <1>1, ThrowPlantedType DEF Abort
<1>2. planted' \in [PlantedIds -> PlantedRow \cup NoRow]
  BY DEF Abort, Rollback, StoreTypeOK, NoRow
<1> QED BY <1>2, <1>3 DEF Abort, otherThanPlanted, StoreTypeOK

LEMMA PlantedCropsType ==
    ASSUME TypeOK, PlantedCropsNext, UNCHANGED otherThanPlantedCalls
    PROVE  TypeOK'
<1> USE DEF TypeOK
<1> PICK r \in Batches :
        \/ PostBatch(r) \/ RequestPlantedDelete(r) \/ HandlePlanted(r)
        \/ Expire(r) \/ LosePlantedRequest(r)
  BY DEF PlantedCropsNext
<1>1. Producer!CallTypeOK' /\ FarmCallTypeOK' /\ Season!CallTypeOK' /\ Crop!CallTypeOK'
  BY DEF otherThanPlantedCalls, Producer!CallTypeOK, FarmCallTypeOK, Season!CallTypeOK,
         Crop!CallTypeOK
<1>2. PlantedCallTypeOK' /\ StoreTypeOK'
  <2>1. CASE PostBatch(r)
    <3>1. UNCHANGED tables
      BY <2>1 DEF PostBatch, AcceptPlanted
    <3>2. PICK f \in FarmIds, items \in ItemLists :
            \/ plantedCall' = [plantedCall EXCEPT ![r] =
                  [op |-> "createMany", at |-> "insert", farmId |-> f,
                   items |-> items, done |-> 0]]
            \/ AnswerPlanted(r, Caught("BadRequest"))
      BY <2>1 DEF PostBatch, AcceptPlanted, AnswerPlanted
    <3>3. CASE AnswerPlanted(r, Caught("BadRequest"))
      BY <3>1, <3>3, AnswerPlantedType, HttpStatuses DEF tables, StoreTypeOK
    <3>4. CASE plantedCall' = [plantedCall EXCEPT ![r] =
                 [op |-> "createMany", at |-> "insert", farmId |-> f,
                  items |-> items, done |-> 0]]
      <4>1. Len(items) \in Nat
        BY ItemListsAssumption
      <4>2. PlantedCallTypeOK'
        BY <3>4, <4>1 DEF PlantedCallTypeOK, CreatingPlanted
      <4> QED BY <3>1, <4>2 DEF tables, StoreTypeOK
    <3> QED BY <3>2, <3>3, <3>4
  <2>2. CASE RequestPlantedDelete(r)
    BY <2>2 DEF RequestPlantedDelete, AcceptPlanted, PlantedCallTypeOK, DeletingPlanted,
                tables, StoreTypeOK
  <2>3. CASE InsertItem(r)
    <3>1. CASE \E e \in {"P2002", "P2003"} : Abort(r, e)
      BY <3>1, AbortType DEF Exceptions, Refusals
    <3>2. CASE /\ \E p \in PlantedIds :
                     /\ planted[p] = Unborn
                     /\ planted' = [planted EXCEPT ![p] =
                           [farmId |-> plantedCall[r].farmId,
                            seasonId |-> CurrentItem(r).seasonId,
                            cropId |-> CurrentItem(r).cropId, xmin |-> r]]
               /\ plantedCall' = [plantedCall EXCEPT ![r].done = @ + 1]
               /\ UNCHANGED otherThanPlanted
      <4>1. /\ plantedCall[r] \in CreatingPlanted
            /\ CurrentItem(r) \in Item
            /\ plantedCall[r].done + 1 \in 0 .. Len(plantedCall[r].items)
        BY <2>3, CurrentItemType DEF InsertItem
      <4>2. planted' \in [PlantedIds -> PlantedRow \cup NoRow]
        BY <3>2, <4>1 DEF CreatingPlanted, Item, PlantedRow, StoreTypeOK
      <4>3. plantedCall[r].done + 1 \in Nat
        BY <4>1 DEF CreatingPlanted
      <4>4. PlantedCallTypeOK'
        BY <3>2, <4>1, <4>3 DEF PlantedCallTypeOK, CreatingPlanted
      <4> QED BY <3>2, <4>2, <4>4 DEF otherThanPlanted, StoreTypeOK
    <3> QED BY <2>3, <3>1, <3>2 DEF InsertItem
  <2>4. CASE Commit(r)
    <3>1. PlantedCallTypeOK'
      BY <2>4, ReplyPlantedType DEF Commit, Status
    <3>2. planted' \in [PlantedIds -> PlantedRow \cup NoRow]
      BY <2>4 DEF Commit, Own, Live, StoreTypeOK, PlantedRow
    <3> QED BY <2>4, <3>1, <3>2 DEF Commit, otherThanPlanted, StoreTypeOK
  <2>5. CASE BreakDeadlock(r) \/ Expire(r) \/ LosePlantedRequest(r)
    BY <2>5, AbortType DEF BreakDeadlock, Expire, LosePlantedRequest, Exceptions, Refusals
  <2>6. CASE DeletePlantedCrop(r)
    <3>1. PlantedCallTypeOK'
      BY <2>6, ThrowPlantedType, ReplyPlantedType
         DEF DeletePlantedCrop, Exceptions, HttpException, Status
    <3>2. planted' \in [PlantedIds -> PlantedRow \cup NoRow]
      BY <2>6 DEF DeletePlantedCrop, StoreTypeOK, NoRow
    <3> QED BY <2>6, <3>1, <3>2 DEF DeletePlantedCrop, otherThanPlanted, StoreTypeOK
  <2> QED BY <2>1, <2>2, <2>3, <2>4, <2>5, <2>6 DEF HandlePlanted
<1> QED BY <1>1, <1>2

(* The API listens on a well-typed registry.                               *)
LEMMA InitType == Init => TypeOK
<1> SUFFICES ASSUME Init PROVE TypeOK
  OBVIOUS
<1>1. StoreTypeOK
  BY SeedAssumption DEF Init, StoreInit, StoreTypeOK, Schema
<1>2. Producer!CallTypeOK /\ Season!CallTypeOK /\ Crop!CallTypeOK
  BY DEF Init, Producer!CallInit, Producer!CallTypeOK, Producer!Answered, Producer!Idle,
         Producer!Status, Season!CallInit, Season!CallTypeOK, Season!Answered, Season!Idle,
         Season!Status, Crop!CallInit, Crop!CallTypeOK, Crop!Answered, Crop!Idle, Crop!Status
<1>3. FarmCallTypeOK
  BY DEF Init, FarmInit, FarmCallTypeOK, FarmAnswer, FarmAnswered, Status
<1>4. PlantedCallTypeOK
  BY DEF Init, PlantedInit, PlantedCallTypeOK, Answered, PlantedAnswered, Status
<1> QED BY <1>1, <1>2, <1>3, <1>4 DEF TypeOK

LEMMA NextType == TypeOK /\ [Next]_vars => TypeOK'
<1> SUFFICES ASSUME TypeOK, [Next]_vars PROVE TypeOK'
  OBVIOUS
<1>1. CASE Next
  BY <1>1, ProducersType, FarmsType, SeasonsType, CropsType, PlantedCropsType
     DEF Next, otherThanProducerCalls, otherThanFarmCalls, otherThanSeasonCalls,
         otherThanCropCalls, otherThanPlantedCalls
<1>2. CASE UNCHANGED vars
  BY <1>2 DEF vars, tables, calls, TypeOK, StoreTypeOK, Producer!CallTypeOK,
              FarmCallTypeOK, Season!CallTypeOK, Crop!CallTypeOK, PlantedCallTypeOK
<1> QED BY <1>1, <1>2

(* TypeOK, for any number of rows, requests and batches: no handler leaves *)
(* a slot or a table in a state the schema or the next handler cannot be   *)
(* in.                                                                     *)
THEOREM TypeCorrect == Spec => []TypeOK
BY InitType, NextType, PTL DEF Spec

-----------------------------------------------------------------------------

(* Every foreign key of the schema leads to a row, the keys of rows that   *)
(* open batches inserted included.                                         *)
References == FarmsHaveProducers /\ PlantedCropsHaveParents

(* What the steps below are checked against: a step is harmless to the     *)
(* references when no referenced table loses a row and no row is added or  *)
(* redirected.                                                             *)
LEMMA HarmlessStep ==
    ASSUME References, TypeOK,
           UNCHANGED <<farms, planted>>,
           Live(producers) \subseteq Live(producers)',
           Live(seasons) \subseteq Live(seasons)',
           Live(crops) \subseteq Live(crops)'
    PROVE  References'
BY DEF References, FarmsHaveProducers, PlantedCropsHaveParents, Live

(* A CASCADE leaves no planted crop behind: the rows it does not see are   *)
(* those of open batches, whose farms it waits for.                        *)
LEMMA CascadeKeepsReferences ==
    ASSUME TypeOK, PlantedCropsHaveParents, NEW F \in SUBSET FarmIds, CascadeFarms(F),
           UNCHANGED <<seasons, crops>>
    PROVE  PlantedCropsHaveParents'
<1>1. SUFFICES ASSUME NEW p \in PlantedIds, planted'[p] \notin NoRow
               PROVE  /\ planted'[p].farmId \in Live(farms)'
                      /\ planted'[p].seasonId \in Live(seasons)'
                      /\ planted'[p].cropId \in Live(crops)'
  BY DEF PlantedCropsHaveParents, Live, CascadeFarms
<1>2. /\ planted'[p] = planted[p]
      /\ p \in Live(planted)
      /\ ~(p \in Visible /\ planted[p].farmId \in F)
  BY <1>1 DEF CascadeFarms, Live, NoRow, TypeOK, StoreTypeOK
<1>3. planted[p].farmId \notin F
  BY <1>2 DEF CascadeFarms, FarmHeld, Uncommitted
<1>4. /\ planted[p].farmId \in Live(farms)
      /\ planted[p].seasonId \in Live(seasons)
      /\ planted[p].cropId \in Live(crops)
  BY <1>2 DEF PlantedCropsHaveParents
<1>5. planted[p].farmId \in Live(farms)'
  BY <1>3, <1>4 DEF CascadeFarms, Live, TypeOK, StoreTypeOK
<1> QED BY <1>2, <1>4, <1>5 DEF Live

(* Rows of the three catalogues are what Keyed calls rows.                 *)
LEMMA ProducerRows ==
    TypeOK => Live(producers) = Producer!Rows /\ Producer!CallTypeOK /\ Producer!TableTypeOK
BY DEF TypeOK, StoreTypeOK, Live, NoRow, Producer!Rows, Producer!Exists, Producer!TableTypeOK

LEMMA SeasonRows ==
    TypeOK => Live(seasons) = Season!Rows /\ Season!CallTypeOK /\ Season!TableTypeOK
BY DEF TypeOK, StoreTypeOK, Live, NoRow, Season!Rows, Season!Exists, Season!TableTypeOK

LEMMA CropRows ==
    TypeOK => Live(crops) = Crop!Rows /\ Crop!CallTypeOK /\ Crop!TableTypeOK
BY DEF TypeOK, StoreTypeOK, Live, NoRow, Crop!Rows, Crop!Exists, Crop!TableTypeOK

LEMMA NoRowIsNoKey ==
    /\ Unborn \notin Documents /\ Gone \notin Documents
    /\ Unborn \notin Years /\ Gone \notin Years
    /\ Unborn \notin Names /\ Gone \notin Names
BY RowsAssumption DEF NoRow

(* The one step of /producers that takes a row away takes its farms too.   *)
LEMMA ProducersStepKinds ==
    ASSUME TypeOK, NEW r \in ProducerRequests,
           \/ PostProducer(r) \/ PatchProducer(r) \/ RequestProducerDelete(r)
           \/ HandleProducer(r) \/ LoseProducerRequest(r)
    PROVE  \/ UNCHANGED otherThanProducers /\ ~Producer!DeleteRow(r)
           \/ /\ Producer!DeleteRow(r)
              /\ CascadeFarms(FarmsOf(producerCall[r].id))
              /\ UNCHANGED <<seasons, crops>>
<1>1. Producer!DeleteRow(r) =>
        /\ ~PostProducer(r) /\ ~PatchProducer(r) /\ ~RequestProducerDelete(r)
        /\ ~FindProducerByDocument(r) /\ ~InsertProducer(r) /\ ~FindProducer(r)
        /\ ~UpdateProducer(r) /\ ~Producer!DeleteNothing(r) /\ ~LoseProducerRequest(r)
  BY ProducerRows, Producer!DeleteRowIsNoOther, OutagesAssumption
     DEF PostProducer, PatchProducer, RequestProducerDelete, FindProducerByDocument,
         InsertProducer, FindProducer, UpdateProducer, LoseProducerRequest
<1> QED
  BY <1>1 DEF PostProducer, PatchProducer, RequestProducerDelete, HandleProducer,
              LoseProducerRequest, FindProducerByDocument, InsertProducer, FindProducer,
              UpdateProducer, DeleteProducer

LEMMA ProducersKeepReferences ==
    ASSUME References, TypeOK, TypeOK', ProducersNext
    PROVE  References'
<1> PICK r \in ProducerRequests :
        \/ PostProducer(r) \/ PatchProducer(r) \/ RequestProducerDelete(r)
        \/ HandleProducer(r) \/ LoseProducerRequest(r)
  BY DEF ProducersNext
<1>1. CASE UNCHANGED otherThanProducers /\ ~Producer!DeleteRow(r)
  <2>1. Producer!Rows \subseteq Producer!Rows'
    BY <1>1, ProducersStep, ProducerRows, NoRowIsNoKey, Producer!OnlyDeleteRemoves,
       OutagesAssumption
  <2>2. Live(producers) \subseteq Live(producers)'
    BY <2>1 DEF Live, Producer!Rows, Producer!Exists, NoRow, TypeOK, StoreTypeOK
  <2> QED BY <1>1, <2>2, HarmlessStep DEF otherThanProducers, Live
<1>2. CASE /\ Producer!DeleteRow(r)
           /\ CascadeFarms(FarmsOf(producerCall[r].id))
           /\ UNCHANGED <<seasons, crops>>
  <2> DEFINE id == producerCall[r].id
  <2>1. producers' = [producers EXCEPT ![id] = Gone]
    BY <1>2 DEF Producer!DeleteRow
  <2>2. PlantedCropsHaveParents'
    BY <1>2, CascadeKeepsReferences DEF References, FarmsOf, Live, TypeOK, StoreTypeOK
  <2>3. FarmsHaveProducers'
    <3> SUFFICES ASSUME NEW f \in FarmIds, farms'[f] \notin NoRow
                 PROVE  farms'[f].producerId \in Live(producers)'
      BY <1>2 DEF FarmsHaveProducers, Live, CascadeFarms
    <3>1. f \notin FarmsOf(id) /\ farms'[f] = farms[f] /\ f \in Live(farms)
      BY <1>2 DEF CascadeFarms, NoRow, Live, TypeOK, StoreTypeOK
    <3>2. farms[f].producerId # id /\ farms[f].producerId \in Live(producers)
      BY <3>1 DEF FarmsOf, References, FarmsHaveProducers
    <3> QED BY <2>1, <3>1, <3>2 DEF Live, TypeOK, StoreTypeOK
  <2> QED BY <2>2, <2>3 DEF References
<1> QED BY <1>1, <1>2, ProducersStepKinds

(* RESTRICT: a season goes only when no planted crop, visible or not,      *)
(* references it.                                                          *)
LEMMA SeasonsStepKinds ==
    ASSUME TypeOK, NEW r \in SeasonRequests,
           \/ PostSeason(r) \/ PatchSeason(r) \/ RequestSeasonDelete(r)
           \/ HandleSeason(r) \/ LoseSeasonRequest(r),
           Season!DeleteRow(r)
    PROVE  ~SeasonHeld(seasonCall[r].id) /\ ~SeasonReferenced(seasonCall[r].id)
<1>1. /\ ~PostSeason(r) /\ ~PatchSeason(r) /\ ~RequestSeasonDelete(r)
      /\ ~FindSeasonByYear(r) /\ ~InsertSeason(r) /\ ~FindSeason(r) /\ ~UpdateSeason(r)
      /\ ~Season!DeleteNothing(r) /\ ~Season!RefuseDelete(r) /\ ~LoseSeasonRequest(r)
  BY SeasonRows, Season!DeleteRowIsNoOther, OutagesAssumption
     DEF PostSeason, PatchSeason, RequestSeasonDelete, FindSeasonByYear,
         InsertSeason, FindSeason, UpdateSeason, LoseSeasonRequest
<1> QED BY <1>1 DEF HandleSeason, DeleteSeason

LEMMA SeasonsKeepReferences ==
    ASSUME References, TypeOK, TypeOK', SeasonsNext
    PROVE  References'
<1> PICK r \in SeasonRequests :
        \/ PostSeason(r) \/ PatchSeason(r) \/ RequestSeasonDelete(r)
        \/ HandleSeason(r) \/ LoseSeasonRequest(r)
  BY DEF SeasonsNext
<1>1. UNCHANGED otherThanSeasons
  BY SeasonsStep
<1>2. CASE ~Season!DeleteRow(r)
  <2>1. Season!Rows \subseteq Season!Rows'
    BY <1>2, SeasonsStep, SeasonRows, NoRowIsNoKey, Season!OnlyDeleteRemoves, OutagesAssumption
  <2>2. Live(seasons) \subseteq Live(seasons)'
    BY <2>1 DEF Live, Season!Rows, Season!Exists, NoRow, TypeOK, StoreTypeOK
  <2> QED BY <1>1, <2>2, HarmlessStep DEF otherThanSeasons, Live
<1>3. CASE Season!DeleteRow(r)
  <2> DEFINE id == seasonCall[r].id
  <2>1. ~SeasonHeld(id) /\ ~SeasonReferenced(id)
    BY <1>3, SeasonsStepKinds
  <2>2. \A p \in Live(planted) : planted[p].seasonId # id
    BY <2>1 DEF SeasonHeld, SeasonReferenced, Uncommitted
  <2>3. seasons' = [seasons EXCEPT ![id] = Gone]
    BY <1>3 DEF Season!DeleteRow
  <2>4. FarmsHaveProducers'
    BY <1>1 DEF otherThanSeasons, References, FarmsHaveProducers, Live
  <2>5. PlantedCropsHaveParents'
    BY <1>1, <2>2, <2>3
       DEF otherThanSeasons, References, PlantedCropsHaveParents, Live, TypeOK, StoreTypeOK
  <2> QED BY <2>4, <2>5 DEF References
<1> QED BY <1>2, <1>3

(* RESTRICT: a crop goes only when no planted crop, visible or not,      *)
(* references it.                                                          *)
LEMMA CropsStepKinds ==
    ASSUME TypeOK, NEW r \in CropRequests,
           \/ PostCrop(r) \/ PatchCrop(r) \/ RequestCropDelete(r)
           \/ HandleCrop(r) \/ LoseCropRequest(r),
           Crop!DeleteRow(r)
    PROVE  ~CropHeld(cropCall[r].id) /\ ~CropReferenced(cropCall[r].id)
<1>1. /\ ~PostCrop(r) /\ ~PatchCrop(r) /\ ~RequestCropDelete(r)
      /\ ~FindCropByName(r) /\ ~InsertCrop(r) /\ ~FindCrop(r) /\ ~UpdateCrop(r)
      /\ ~Crop!DeleteNothing(r) /\ ~Crop!RefuseDelete(r) /\ ~LoseCropRequest(r)
  BY CropRows, Crop!DeleteRowIsNoOther, OutagesAssumption
     DEF PostCrop, PatchCrop, RequestCropDelete, FindCropByName,
         InsertCrop, FindCrop, UpdateCrop, LoseCropRequest
<1> QED BY <1>1 DEF HandleCrop, DeleteCrop

LEMMA CropsKeepReferences ==
    ASSUME References, TypeOK, TypeOK', CropsNext
    PROVE  References'
<1> PICK r \in CropRequests :
        \/ PostCrop(r) \/ PatchCrop(r) \/ RequestCropDelete(r)
        \/ HandleCrop(r) \/ LoseCropRequest(r)
  BY DEF CropsNext
<1>1. UNCHANGED otherThanCrops
  BY CropsStep
<1>2. CASE ~Crop!DeleteRow(r)
  <2>1. Crop!Rows \subseteq Crop!Rows'
    BY <1>2, CropsStep, CropRows, NoRowIsNoKey, Crop!OnlyDeleteRemoves, OutagesAssumption
  <2>2. Live(crops) \subseteq Live(crops)'
    BY <2>1 DEF Live, Crop!Rows, Crop!Exists, NoRow, TypeOK, StoreTypeOK
  <2> QED BY <1>1, <2>2, HarmlessStep DEF otherThanCrops, Live
<1>3. CASE Crop!DeleteRow(r)
  <2> DEFINE id == cropCall[r].id
  <2>1. ~CropHeld(id) /\ ~CropReferenced(id)
    BY <1>3, CropsStepKinds
  <2>2. \A p \in Live(planted) : planted[p].cropId # id
    BY <2>1 DEF CropHeld, CropReferenced, Uncommitted
  <2>3. crops' = [crops EXCEPT ![id] = Gone]
    BY <1>3 DEF Crop!DeleteRow
  <2>4. FarmsHaveProducers'
    BY <1>1 DEF otherThanCrops, References, FarmsHaveProducers, Live
  <2>5. PlantedCropsHaveParents'
    BY <1>1, <2>2, <2>3
       DEF otherThanCrops, References, PlantedCropsHaveParents, Live, TypeOK, StoreTypeOK
  <2> QED BY <2>4, <2>5 DEF References
<1> QED BY <1>2, <1>3

-----------------------------------------------------------------------------

(* Farms come and move only to producers that exist, and leave with their  *)
(* planted crops.                                                          *)
LEMMA FarmsKeepReferences ==
    ASSUME References, TypeOK, TypeOK', FarmsNext
    PROVE  References'
<1> PICK r \in FarmRequests :
        \/ PostFarm(r) \/ PatchFarm(r) \/ RequestFarmDelete(r)
        \/ HandleFarm(r) \/ LoseFarmRequest(r)
  BY DEF FarmsNext
<1>1. CASE UNCHANGED tables
  BY <1>1, HarmlessStep DEF tables, Live
<1>2. CASE InsertFarm(r)
  <2>1. CASE UNCHANGED farms
    BY <1>2, <2>1, HarmlessStep DEF InsertFarm, otherThanFarms, Live
  <2>2. CASE ~UNCHANGED farms
    <3>1. PICK f \in FarmIds : /\ farms[f] = Unborn
                               /\ farms' = [farms EXCEPT ![f] = Inserted(farmCall[r].body)]
                               /\ ProducerExists(farmCall[r].body.producerId)
      BY <1>2, <2>2 DEF InsertFarm
    <3>2. Inserted(farmCall[r].body).producerId \in Live(producers)
      BY <3>1 DEF Inserted, ProducerExists
    <3>3. FarmsHaveProducers'
      BY <1>2, <3>1, <3>2
         DEF InsertFarm, otherThanFarms, References, FarmsHaveProducers, Live, TypeOK, StoreTypeOK
    <3>4. Live(farms) \subseteq Live(farms)'
      BY <3>1 DEF Live, NoRow, TypeOK, StoreTypeOK
    <3>5. PlantedCropsHaveParents'
      BY <1>2, <3>4
         DEF InsertFarm, otherThanFarms, References, PlantedCropsHaveParents, Live
    <3> QED BY <3>3, <3>5 DEF References
  <2> QED BY <2>1, <2>2
<1>3. CASE UpdateFarm(r)
  <2>1. CASE UNCHANGED farms
    BY <1>3, <2>1, HarmlessStep DEF UpdateFarm, otherThanFarms, Live
  <2>2. CASE ~UNCHANGED farms
    <3> DEFINE id == farmCall[r].id
               row == Patched(farmCall[r].dto, farms[id])
    <3>1. /\ FarmExists(id)
          /\ ProducerExists(row.producerId)
          /\ farms' = [farms EXCEPT ![id] = row]
      BY <1>3, <2>2 DEF UpdateFarm
    <3>2. Live(farms)' = Live(farms)
      <4>1. farmCall[r] \in UpdatingFarm
        BY <1>3 DEF UpdateFarm, FarmAt, TypeOK, FarmCallTypeOK, CreatingFarm, ReadingFarm,
                    UpdatingFarm, DeletingFarm, FarmAnswered
      <4>2. farms[id] \in FarmRow
        BY <3>1 DEF FarmExists, Live, TypeOK, StoreTypeOK
      <4>3. row \in FarmRow
        BY <4>1, <4>2, PatchedIsRow DEF UpdatingFarm
      <4> QED BY <3>1, <4>3, RowsAssumption DEF FarmExists, Live, TypeOK, StoreTypeOK
    <3>3. FarmsHaveProducers'
      BY <1>3, <3>1, <3>2
         DEF UpdateFarm, otherThanFarms, References, FarmsHaveProducers, ProducerExists,
             Live, TypeOK, StoreTypeOK
    <3>4. PlantedCropsHaveParents'
      BY <1>3, <3>2
         DEF UpdateFarm, otherThanFarms, References, PlantedCropsHaveParents, Live
    <3> QED BY <3>3, <3>4 DEF References
  <2> QED BY <2>1, <2>2
<1>4. CASE DeleteFarm(r)
  <2>1. CASE UNCHANGED <<farms, planted>>
    BY <1>4, <2>1, HarmlessStep DEF DeleteFarm, Live
  <2>2. CASE FarmExists(farmCall[r].id) /\ CascadeFarms({farmCall[r].id})
    <3>1. PlantedCropsHaveParents'
      BY <1>4, <2>2, CascadeKeepsReferences
         DEF DeleteFarm, FarmExists, Live, References, TypeOK, StoreTypeOK
    <3>2. FarmsHaveProducers'
      BY <1>4, <2>2
         DEF DeleteFarm, CascadeFarms, References, FarmsHaveProducers, Live, NoRow,
             TypeOK, StoreTypeOK
    <3> QED BY <3>1, <3>2 DEF References
  <2> QED BY <1>4, <2>1, <2>2 DEF DeleteFarm
<1> QED
  BY <1>1, <1>2, <1>3, <1>4
     DEF PostFarm, PatchFarm, RequestFarmDelete, AcceptFarm, HandleFarm, ReadFarm, FindFarm,
         LoseFarmRequest

(* What a step may do to the rows of planted_crops: change no triple and   *)
(* add no row, or add one row, whose triple is free and whose parents      *)
(* exist.                                                                  *)
KeepsTriples ==
    \A p \in PlantedIds : planted'[p] \notin NoRow =>
        /\ planted[p] \notin NoRow
        /\ planted'[p].farmId = planted[p].farmId
        /\ planted'[p].seasonId = planted[p].seasonId
        /\ planted'[p].cropId = planted[p].cropId

Plants(r) ==
    \E f \in Live(farms), item \in Item, p \in PlantedIds :
        /\ Occupying(f, item) = {}
        /\ item.seasonId \in Live(seasons)
        /\ item.cropId \in Live(crops)
        /\ planted[p] = Unborn
        /\ planted' = [planted EXCEPT ![p] =
              [farmId |-> f, seasonId |-> item.seasonId, cropId |-> item.cropId, xmin |-> r]]

LEMMA PlantedStepKinds ==
    ASSUME TypeOK, NEW r \in Batches,
           \/ PostBatch(r) \/ RequestPlantedDelete(r) \/ HandlePlanted(r)
           \/ Expire(r) \/ LosePlantedRequest(r)
    PROVE  UNCHANGED otherThanPlanted /\ (KeepsTriples \/ Plants(r))
<1>1. UNCHANGED otherThanPlanted
  BY DEF PostBatch, RequestPlantedDelete, AcceptPlanted, tables, otherThanPlanted,
         HandlePlanted, InsertItem, Commit, BreakDeadlock, DeletePlantedCrop, Expire,
         LosePlantedRequest, Abort
<1> SUFFICES KeepsTriples \/ Plants(r)
  BY <1>1
<1>2. CASE UNCHANGED planted
  BY <1>2 DEF KeepsTriples
<1>3. CASE Rollback(r)
  BY <1>3 DEF Rollback, KeepsTriples, NoRow
<1>4. CASE InsertItem(r) /\ ~Rollback(r)
  <2>1. plantedCall[r] \in CreatingPlanted /\ CurrentItem(r) \in Item
    BY <1>4, CurrentItemType DEF InsertItem, TypeOK
  <2> QED BY <1>4, <2>1 DEF InsertItem, Abort, Plants
<1>5. CASE Commit(r)
  <2>1. planted' = [p \in PlantedIds |->
                      IF p \in Own(r) THEN [planted[p] EXCEPT !.xmin = Committed]
                      ELSE planted[p]]
    BY <1>5 DEF Commit
  <2> SUFFICES ASSUME NEW p \in PlantedIds, planted'[p] \notin NoRow
               PROVE  /\ planted[p] \notin NoRow
                      /\ planted'[p].farmId = planted[p].farmId
                      /\ planted'[p].seasonId = planted[p].seasonId
                      /\ planted'[p].cropId = planted[p].cropId
    BY DEF KeepsTriples
  <2>2. CASE p \in Own(r)
    <3>1. planted[p] \notin NoRow /\ planted[p] \in PlantedRow
      BY <2>2 DEF Own, Live, TypeOK, StoreTypeOK
    <3>2. planted'[p] = [planted[p] EXCEPT !.xmin = Committed]
      BY <2>1, <2>2
    <3> QED BY <3>1, <3>2 DEF PlantedRow
  <2>3. CASE p \notin Own(r)
    BY <2>1, <2>3
  <2> QED BY <2>2, <2>3
<1>6. CASE DeletePlantedCrop(r)
  BY <1>6 DEF DeletePlantedCrop, KeepsTriples, NoRow, TypeOK, StoreTypeOK
<1> QED
  BY <1>1, <1>2, <1>3, <1>4, <1>5, <1>6
     DEF PostBatch, RequestPlantedDelete, AcceptPlanted, tables, HandlePlanted,
         BreakDeadlock, Expire, LosePlantedRequest, Abort

(* A planted crop is inserted only under a farm, a season and a crop that  *)
(* exist, and the steps of a batch touch no other table.                   *)
LEMMA PlantedCropsKeepReferences ==
    ASSUME References, TypeOK, TypeOK', PlantedCropsNext
    PROVE  References'
<1> PICK r \in Batches :
        \/ PostBatch(r) \/ RequestPlantedDelete(r) \/ HandlePlanted(r)
        \/ Expire(r) \/ LosePlantedRequest(r)
  BY DEF PlantedCropsNext
<1>1. UNCHANGED otherThanPlanted /\ (KeepsTriples \/ Plants(r))
  BY PlantedStepKinds
<1>2. FarmsHaveProducers'
  BY <1>1 DEF otherThanPlanted, References, FarmsHaveProducers, Live
<1>3. CASE KeepsTriples
  <2>1. PlantedCropsHaveParents'
    BY <1>1, <1>3 DEF KeepsTriples, otherThanPlanted, References, PlantedCropsHaveParents,
                      Live, TypeOK, StoreTypeOK
  <2> QED BY <1>2, <2>1 DEF References
<1>4. CASE Plants(r)
  <2>1. PlantedCropsHaveParents'
    BY <1>1, <1>4 DEF Plants, otherThanPlanted, References, PlantedCropsHaveParents,
                      Live, TypeOK, StoreTypeOK
  <2> QED BY <1>2, <2>1 DEF References
<1> QED BY <1>1, <1>3, <1>4

LEMMA InitReferences == Init => References
<1> SUFFICES ASSUME Init PROVE References
  OBVIOUS
<1>1. TypeOK
  BY InitType
<1>2. FarmsHaveProducers
  BY <1>1, SeedRowsAssumption
     DEF Init, StoreInit, FarmsHaveProducers, Live, TypeOK, StoreTypeOK, FarmRow
<1>3. PlantedCropsHaveParents
  BY <1>1, SeedRowsAssumption
     DEF Init, StoreInit, PlantedCropsHaveParents, Live, TypeOK, StoreTypeOK, PlantedRow
<1> QED BY <1>2, <1>3 DEF References

LEMMA NextReferences == References /\ TypeOK /\ TypeOK' /\ [Next]_vars => References'
<1> SUFFICES ASSUME References, TypeOK, TypeOK', [Next]_vars PROVE References'
  OBVIOUS
<1>1. CASE Next
  BY <1>1, ProducersKeepReferences, FarmsKeepReferences, SeasonsKeepReferences,
     CropsKeepReferences, PlantedCropsKeepReferences DEF Next
<1>2. CASE UNCHANGED vars
  BY <1>2, HarmlessStep DEF vars, tables, Live
<1> QED BY <1>1, <1>2

(* FarmsHaveProducers, whatever requests meet: a producer never goes       *)
(* without its farms, and no farm comes or moves to a producer that is     *)
(* gone.                                                                   *)
THEOREM NoFarmIsOrphaned == Spec => []FarmsHaveProducers
<1>1. References => FarmsHaveProducers
  BY DEF References
<1> QED BY <1>1, InitReferences, NextReferences, TypeCorrect, PTL DEF Spec

(* PlantedCropsHaveParents, for committed rows and for those of open       *)
(* batches: the key locks of a batch and the RESTRICT of the schema keep   *)
(* the farm, the season and the crop of every row.                         *)
THEOREM NoPlantedCropIsOrphaned == Spec => []PlantedCropsHaveParents
<1>1. References => PlantedCropsHaveParents
  BY DEF References
<1> QED BY <1>1, InitReferences, NextReferences, TypeCorrect, PTL DEF Spec

-----------------------------------------------------------------------------

(* A table whose column no step touches keeps it unique.                   *)
LEMMA UntouchedStaysUnique ==
    ASSUME UniqueKeys
    PROVE  /\ UNCHANGED producers => Unique(producers)'
           /\ UNCHANGED seasons => Unique(seasons)'
           /\ UNCHANGED crops => Unique(crops)'
BY DEF UniqueKeys, Unique, Live

LEMMA ProducersKeepKeysUnique ==
    ASSUME UniqueKeys, TypeOK, TypeOK', ProducersNext
    PROVE  UniqueKeys'
<1> PICK r \in ProducerRequests :
        \/ PostProducer(r) \/ PatchProducer(r) \/ RequestProducerDelete(r)
        \/ HandleProducer(r) \/ LoseProducerRequest(r)
  BY DEF ProducersNext
<1>1. Producer!NoKeyTwice
  BY ProducerRows DEF UniqueKeys, Unique, Producer!NoKeyTwice
<1>2. Producer!NoKeyTwice'
  BY <1>1, ProducersStep, ProducerRows, NoRowIsNoKey, Producer!StepKeepsKeysUnique,
     OutagesAssumption
<1>3. Unique(producers)'
  BY <1>2 DEF Unique, Producer!NoKeyTwice, Producer!Rows, Producer!Exists, Live, NoRow,
              TypeOK, StoreTypeOK
<1>4. UNCHANGED <<seasons, crops>>
  BY ProducersStepKinds DEF otherThanProducers
<1> QED BY <1>3, <1>4, UntouchedStaysUnique DEF UniqueKeys

LEMMA SeasonsKeepKeysUnique ==
    ASSUME UniqueKeys, TypeOK, TypeOK', SeasonsNext
    PROVE  UniqueKeys'
<1> PICK r \in SeasonRequests :
        \/ PostSeason(r) \/ PatchSeason(r) \/ RequestSeasonDelete(r)
        \/ HandleSeason(r) \/ LoseSeasonRequest(r)
  BY DEF SeasonsNext
<1>1. Season!NoKeyTwice
  BY SeasonRows DEF UniqueKeys, Unique, Season!NoKeyTwice
<1>2. Season!NoKeyTwice'
  BY <1>1, SeasonsStep, SeasonRows, NoRowIsNoKey, Season!StepKeepsKeysUnique,
     OutagesAssumption
<1>3. Unique(seasons)'
  BY <1>2 DEF Unique, Season!NoKeyTwice, Season!Rows, Season!Exists, Live, NoRow,
              TypeOK, StoreTypeOK
<1>4. UNCHANGED <<producers, crops>>
  BY SeasonsStep DEF otherThanSeasons
<1> QED BY <1>3, <1>4, UntouchedStaysUnique DEF UniqueKeys

LEMMA CropsKeepKeysUnique ==
    ASSUME UniqueKeys, TypeOK, TypeOK', CropsNext
    PROVE  UniqueKeys'
<1> PICK r \in CropRequests :
        \/ PostCrop(r) \/ PatchCrop(r) \/ RequestCropDelete(r)
        \/ HandleCrop(r) \/ LoseCropRequest(r)
  BY DEF CropsNext
<1>1. Crop!NoKeyTwice
  BY CropRows DEF UniqueKeys, Unique, Crop!NoKeyTwice
<1>2. Crop!NoKeyTwice'
  BY <1>1, CropsStep, CropRows, NoRowIsNoKey, Crop!StepKeepsKeysUnique, OutagesAssumption
<1>3. Unique(crops)'
  BY <1>2 DEF Unique, Crop!NoKeyTwice, Crop!Rows, Crop!Exists, Live, NoRow,
              TypeOK, StoreTypeOK
<1>4. UNCHANGED <<producers, seasons>>
  BY CropsStep DEF otherThanCrops
<1> QED BY <1>3, <1>4, UntouchedStaysUnique DEF UniqueKeys

LEMMA InitKeysUnique == Init => UniqueKeys
BY SeedKeysAssumption, SeedAssumption DEF Init, StoreInit, UniqueKeys, Unique, Live, Schema

(* No request to /farms and no batch touches a table with a unique key.    *)
LEMMA OthersKeepKeys ==
    ASSUME TypeOK, FarmsNext \/ PlantedCropsNext
    PROVE  UNCHANGED <<producers, seasons, crops>>
<1>1. CASE FarmsNext
  BY <1>1 DEF FarmsNext, PostFarm, PatchFarm, RequestFarmDelete, AcceptFarm, HandleFarm,
              InsertFarm, ReadFarm, UpdateFarm, FindFarm, DeleteFarm, LoseFarmRequest,
              tables, otherThanFarms
<1>2. CASE PlantedCropsNext
  BY <1>2, PlantedStepKinds DEF PlantedCropsNext, otherThanPlanted
<1> QED BY <1>1, <1>2

(* UniqueKeys: the look-up of a create decides nothing; the writes alone   *)
(* keep documents, years and names unique.                                 *)
THEOREM KeysStayUnique == Spec => []UniqueKeys
<1>1. UniqueKeys /\ TypeOK /\ TypeOK' /\ [Next]_vars => UniqueKeys'
  <2> SUFFICES ASSUME UniqueKeys, TypeOK, TypeOK', [Next]_vars PROVE UniqueKeys'
    OBVIOUS
  <2>1. CASE FarmsNext \/ PlantedCropsNext
    BY <2>1, OthersKeepKeys, UntouchedStaysUnique DEF UniqueKeys
  <2>2. CASE UNCHANGED vars
    BY <2>2, UntouchedStaysUnique DEF vars, tables, UniqueKeys
  <2> QED
    BY <2>1, <2>2, ProducersKeepKeysUnique, SeasonsKeepKeysUnique, CropsKeepKeysUnique
       DEF Next
<1> QED BY <1>1, InitKeysUnique, TypeCorrect, PTL DEF Spec

-----------------------------------------------------------------------------

(* A DELETE that cascades changes no triple.                               *)
LEMMA CascadeKeepsTriples ==
    ASSUME NEW F, CascadeFarms(F)
    PROVE  KeepsTriples
BY DEF CascadeFarms, KeepsTriples, NoRow

LEMMA UntouchedKeepsTriples == UNCHANGED planted => KeepsTriples
BY DEF KeepsTriples

(* Only a batch plants.                                                    *)
LEMMA OthersKeepTriples ==
    ASSUME TypeOK, ProducersNext \/ FarmsNext \/ SeasonsNext \/ CropsNext
    PROVE  KeepsTriples
<1>1. CASE ProducersNext
  BY <1>1, ProducersStepKinds, CascadeKeepsTriples, UntouchedKeepsTriples
     DEF ProducersNext, otherThanProducers
<1>2. CASE FarmsNext
  BY <1>2, CascadeKeepsTriples, UntouchedKeepsTriples
     DEF FarmsNext, PostFarm, PatchFarm, RequestFarmDelete, AcceptFarm, HandleFarm,
         InsertFarm, ReadFarm, UpdateFarm, FindFarm, DeleteFarm, LoseFarmRequest,
         tables, otherThanFarms
<1>3. CASE SeasonsNext \/ CropsNext
  BY <1>3, SeasonsStep, CropsStep, UntouchedKeepsTriples
     DEF SeasonsNext, CropsNext, otherThanSeasons, otherThanCrops
<1> QED BY <1>1, <1>2, <1>3

LEMMA InitPlanting == Init => OnePlantingPerSeasonAndCrop
<1> SUFFICES ASSUME Init, NEW p \in Live(planted), NEW q \in Live(planted),
                    planted[p].farmId = planted[q].farmId,
                    planted[p].seasonId = planted[q].seasonId,
                    planted[p].cropId = planted[q].cropId
             PROVE  p = q
  BY DEF OnePlantingPerSeasonAndCrop
<1>1. TypeOK /\ planted = Seed.planted
  BY InitType DEF Init, StoreInit
<1>2. /\ p \in PlantedIds /\ q \in PlantedIds
      /\ planted[p] \notin NoRow /\ planted[q] \notin NoRow
      /\ planted[p] \in PlantedRow /\ planted[q] \in PlantedRow
  BY <1>1 DEF Live, TypeOK, StoreTypeOK
<1>3. planted[p].xmin = Committed /\ planted[q].xmin = Committed
  BY <1>1, <1>2, SeedRowsAssumption
<1>4. planted[p] = planted[q]
  BY <1>2, <1>3 DEF PlantedRow
<1> QED BY <1>1, <1>2, <1>4, SeedKeysAssumption

(* OnePlantingPerSeasonAndCrop, over committed rows and those of open      *)
(* batches: two batches that insert the same combination cannot both have  *)
(* it, though neither sees the row of the other.                           *)
THEOREM OnePlantingOnly == Spec => []OnePlantingPerSeasonAndCrop
<1>1. OnePlantingPerSeasonAndCrop /\ TypeOK /\ TypeOK' /\ [Next]_vars
        => OnePlantingPerSeasonAndCrop'
  <2> SUFFICES ASSUME OnePlantingPerSeasonAndCrop, TypeOK, TypeOK', [Next]_vars
               PROVE  OnePlantingPerSeasonAndCrop'
    OBVIOUS
  <2>1. CASE KeepsTriples
    BY <2>1 DEF KeepsTriples, OnePlantingPerSeasonAndCrop, Live, TypeOK, StoreTypeOK
  <2>2. CASE \E r \in Batches : Plants(r)
    BY <2>2 DEF Plants, Occupying, OnePlantingPerSeasonAndCrop, Live, TypeOK, StoreTypeOK
  <2>3. CASE UNCHANGED vars
    BY <2>1, <2>3, UntouchedKeepsTriples DEF vars, tables
  <2>4. CASE PlantedCropsNext
    BY <2>1, <2>2, <2>4, PlantedStepKinds DEF PlantedCropsNext
  <2> QED BY <2>1, <2>3, <2>4, OthersKeepTriples DEF Next
<1> QED BY <1>1, InitPlanting, TypeCorrect, PTL DEF Spec

=============================================================================
