------------------------------- MODULE Crops --------------------------------
(***************************************************************************)
(* src/crops: CropsController, CropsService and                            *)
(* CropPrismaRepository, over the crops table.  A crop that a planted crop *)
(* references cannot be deleted.                                           *)
(***************************************************************************)
EXTENDS Store

CONSTANT CropRequests       \* requests to /crops handled at a time

VARIABLE cropCall

Crop == INSTANCE Keyed WITH
    Ids <- CropIds, Keys <- Names, Requests <- CropRequests,
    table <- crops, call <- cropCall

otherThanCrops == <<producers, farms, seasons, planted>>

PostCrop(r) == (\E name \in Names : Crop!Post(r, name)) /\ UNCHANGED otherThanCrops

PatchCrop(r) ==
    /\ \E id \in CropIds, name \in Names \cup {Omitted} : Crop!Patch(r, id, name)
    /\ UNCHANGED otherThanCrops

RequestCropDelete(r) ==
    (\E id \in CropIds : Crop!Delete(r, id)) /\ UNCHANGED otherThanCrops

FindCropByName(r) == Crop!FindByKey(r) /\ UNCHANGED otherThanCrops

InsertCrop(r) == Crop!Insert(r) /\ UNCHANGED otherThanCrops

FindCrop(r) == Crop!FindById(r) /\ UNCHANGED otherThanCrops

(* Writing a new name waits for the transactions that reference the row.   *)
UpdateCrop(r) ==
    /\ Crop!Update(r)
    /\ CropHeld(cropCall[r].id) => cropCall[r].key \in {Omitted, crops[cropCall[r].id]}
    /\ UNCHANGED otherThanCrops

CropReferenced(id) == \E p \in Visible : planted[p].cropId = id

(* ON DELETE CASCADE where the schema says Restrict: the planted crops go  *)
(* with the crop.                                                          *)
DeleteCropCascading(r) ==
    \/ Crop!DeleteNothing(r) /\ UNCHANGED otherThanCrops
    \/ /\ Crop!DeleteRow(r) /\ ~CropHeld(cropCall[r].id)
       /\ planted' = [p \in PlantedIds |->
                        IF p \in Visible /\ planted[p].cropId = cropCall[r].id
                        THEN Gone ELSE planted[p]]
       /\ UNCHANGED <<producers, farms, seasons>>

(* The DELETE: it waits for the transactions that reference the row, and   *)
(* ON DELETE RESTRICT refuses it when a planted crop does (409).           *)
DeleteCrop(r) ==
    LET id == cropCall[r].id
    IN /\ UNCHANGED otherThanCrops
       /\ \/ Crop!DeleteNothing(r)
          \/ Crop!RefuseDelete(r) /\ ~CropHeld(id) /\ CropReferenced(id)
          \/ Crop!DeleteRow(r) /\ ~CropHeld(id) /\ ~CropReferenced(id)

LoseCropRequest(r) == Crop!LoseDatabase(r) /\ UNCHANGED otherThanCrops

HandleCrop(r) ==
    \/ FindCropByName(r)
    \/ InsertCrop(r)
    \/ FindCrop(r)
    \/ UpdateCrop(r)
    \/ DeleteCrop(r)

CropsNext ==
    \E r \in CropRequests :
        \/ PostCrop(r)
        \/ PatchCrop(r)
        \/ RequestCropDelete(r)
        \/ HandleCrop(r)
        \/ LoseCropRequest(r)

=============================================================================
