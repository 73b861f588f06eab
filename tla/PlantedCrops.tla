----------------------------- MODULE PlantedCrops ---------------------------
(***************************************************************************)
(* src/planted-crops: PlantedCropsController, PlantedCropsService and      *)
(* PlantedCropPrismaRepository.  A batch is inserted item by item in one   *)
(* interactive transaction, at READ COMMITTED: every INSERT is a step of   *)
(* its own, and the transactions of other batches run between two of them. *)
(***************************************************************************)
EXTENDS Store, Sequences

CONSTANTS
    ItemLists,      \* the "items" POST /farms/:farmId/planted-crops is called with
    TxMayExpire     \* may a transaction outlive Prisma's timeout (P2028)?

ASSUME TxMayExpireAssumption == TxMayExpire \in BOOLEAN

VARIABLE plantedCall

otherThanPlanted == <<producers, farms, seasons, crops>>

Item == [seasonId : SeasonIds, cropId : CropIds]

ASSUME ItemListsAssumption == ItemLists \subseteq Seq(Item) \ {<<>>}

CreatingPlanted == [op : {"createMany"}, at : {"insert"}, farmId : FarmIds,
                    items : ItemLists, done : Nat]
DeletingPlanted == [op : {"delete"}, at : {"write"}, id : PlantedIds]
PlantedAnswered ==
    [at : {"idle"}, status : Status] \cup [at : {"idle"}, status : {500}, err : Refusals]

PlantedCallTypeOK ==
    /\ plantedCall \in [Batches -> CreatingPlanted \cup DeletingPlanted \cup PlantedAnswered]
    /\ \A r \in Batches : plantedCall[r].at = "insert" =>
          plantedCall[r].done \in 0 .. Len(plantedCall[r].items)

PlantedInit == plantedCall = [r \in Batches |-> Answered(200)]

PlantedIdle(r) == plantedCall[r].at = "idle"
InTransaction(r) == plantedCall[r].at = "insert"
AllInserted(r) == plantedCall[r].done = Len(plantedCall[r].items)
CurrentItem(r) == plantedCall[r].items[plantedCall[r].done + 1]

AnswerPlanted(r, status) == plantedCall' = [plantedCall EXCEPT ![r] = Answered(status)]
ThrowPlanted(r, e) == plantedCall' = [plantedCall EXCEPT ![r] = Logged(e)]

(* assertNoDuplicatesInBatch                                               *)
NoDuplicatesInBatch(items) ==
    \A i, j \in 1 .. Len(items) : items[i] = items[j] => i = j

(* The triples of committed rows only, as a SELECT of the service would    *)
(* see them.                                                               *)
OccupyingCommitted(f, item) ==
    {p \in Visible : /\ planted[p].farmId = f
                     /\ planted[p].seasonId = item.seasonId
                     /\ planted[p].cropId = item.cropId}

(* The rows of the unique index planted_crops_farmId_seasonId_cropId_key   *)
(* under the triple of farm f and this item.                               *)
Occupying(f, item) ==
    {p \in Live(planted) : /\ planted[p].farmId = f
                           /\ planted[p].seasonId = item.seasonId
                           /\ planted[p].cropId = item.cropId}

Own(r) == {p \in Live(planted) : planted[p].xmin = r}

(* The bound of the model: a batch starts only when every item of it and   *)
(* of the open transactions has an unborn id.                              *)
StillToInsert(r) ==
    IF InTransaction(r)
    THEN {r} \X (plantedCall[r].done + 1 .. Len(plantedCall[r].items)) ELSE {}
PlantedIdsLeft(items) ==
    Cardinality(UNION {StillToInsert(r) : r \in Batches}) + Len(items)
      <= Cardinality({p \in PlantedIds : planted[p] = Unborn})

AcceptPlanted(r, request) ==
    PlantedIdle(r) /\ plantedCall' = [plantedCall EXCEPT ![r] = request] /\ UNCHANGED tables

(* POST: a batch that repeats an item is refused before any transaction.   *)
PostBatch(r) ==
    \E f \in FarmIds, items \in ItemLists :
        /\ PlantedIdsLeft(items)
        /\ \/ /\ NoDuplicatesInBatch(items)
              /\ AcceptPlanted(r, [op |-> "createMany", at |-> "insert", farmId |-> f,
                                   items |-> items, done |-> 0])
           \/ /\ ~NoDuplicatesInBatch(items)
              /\ AcceptPlanted(r, Answered(Caught("BadRequest")))

RequestPlantedDelete(r) ==
    \E id \in PlantedIds : AcceptPlanted(r, [op |-> "delete", at |-> "write", id |-> id])

(* A catch block around each INSERT, and no transaction around them all:   *)
(* what was inserted stays.                                                *)
KeepInserted(r) ==
    planted' = [p \in PlantedIds |->
                  IF p \in Own(r) THEN [planted[p] EXCEPT !.xmin = Committed] ELSE planted[p]]

(* ROLLBACK: nobody saw the rows of r, nor their ids.                      *)
Rollback(r) ==
    planted' = [p \in PlantedIds |-> IF p \in Own(r) THEN Unborn ELSE planted[p]]

(* A catch block of createMany that knows the unique index only.           *)
TranslatedUniqueOnly(e) == IF e = "P2002" THEN "Conflict" ELSE e

(* The catch block of createMany, outside the transaction: what any item   *)
(* ran into reaches it, whatever was inserted before.                      *)
Translated(e) ==
    CASE e = "P2002" -> "Conflict"
      [] e = "P2003" -> "NotFound"
      [] OTHER -> e

(* An error answered while the transaction stays open.                     *)
AbortLeavingOpen(r, e) == ThrowPlanted(r, Translated(e)) /\ UNCHANGED tables

Abort(r, e) ==
    Rollback(r) /\ ThrowPlanted(r, Translated(e)) /\ UNCHANGED otherThanPlanted

(* The open transactions that r's next INSERT waits for: its triple is in  *)
(* the unique index, by a row they have not committed.                     *)
WaitsFor(r) ==
    {q \in Batches \ {r} :
        \E p \in Occupying(plantedCall[r].farmId, CurrentItem(r)) : planted[p].xmin = q}

Waiting(r) == InTransaction(r) /\ ~AllInserted(r) /\ WaitsFor(r) # {}

(* The item inserted through the service's own client and not through tx.  *)
InsertItemOutsideTx(r) ==
    LET f == plantedCall[r].farmId
        item == CurrentItem(r)
    IN /\ InTransaction(r) /\ ~AllInserted(r) /\ ~Waiting(r)
       /\ Occupying(f, item) = {} /\ f \in Live(farms)
       /\ \E p \in PlantedIds :
             /\ planted[p] = Unborn
             /\ planted' = [planted EXCEPT ![p] =
                   [farmId |-> f, seasonId |-> item.seasonId,
                    cropId |-> item.cropId, xmin |-> Committed]]
       /\ plantedCall' = [plantedCall EXCEPT ![r].done = @ + 1]
       /\ UNCHANGED otherThanPlanted

(* One tx.plantedCrop.create: the unique index first, then the foreign     *)
(* keys: P2002 or P2003, and either ends the batch.                        *)
InsertItem(r) ==
    LET f == plantedCall[r].farmId
        item == CurrentItem(r)
    IN /\ InTransaction(r) /\ ~AllInserted(r) /\ ~Waiting(r)
       /\ \/ /\ Occupying(f, item) # {}
             /\ Abort(r, "P2002")
          \/ /\ Occupying(f, item) = {}
             /\ \/ f \notin Live(farms)
                \/ item.seasonId \notin Live(seasons)
                \/ item.cropId \notin Live(crops)
             /\ Abort(r, "P2003")
          \/ /\ Occupying(f, item) = {}
             /\ f \in Live(farms)
             /\ item.seasonId \in Live(seasons)
             /\ item.cropId \in Live(crops)
             /\ \E p \in PlantedIds :
                   /\ planted[p] = Unborn
                   /\ planted' = [planted EXCEPT ![p] =
                         [farmId |-> f, seasonId |-> item.seasonId,
                          cropId |-> item.cropId, xmin |-> r]]
             /\ plantedCall' = [plantedCall EXCEPT ![r].done = @ + 1]
             /\ UNCHANGED otherThanPlanted

(* COMMIT: the whole batch becomes visible.                                *)
Commit(r) ==
    /\ InTransaction(r) /\ AllInserted(r)
    /\ planted' = [p \in PlantedIds |->
                     IF p \in Own(r) THEN [planted[p] EXCEPT !.xmin = Committed]
                     ELSE planted[p]]
    /\ \E status \in Replies(201) : AnswerPlanted(r, status)
    /\ UNCHANGED otherThanPlanted

(* The transactions of a cycle of waits.  A transaction waits for one      *)
(* other at most, the owner of the row it ran into.                        *)
Deadlocked(r) ==
    \E cycle \in SUBSET Batches :
        /\ r \in cycle
        /\ \A q \in cycle : /\ Waiting(q) /\ WaitsFor(q) \subseteq cycle
                            /\ \E w \in cycle : Waiting(w) /\ q \in WaitsFor(w)

(* No detector: the transactions of a cycle wait for one another.          *)
LeaveDeadlock(r) == FALSE /\ UNCHANGED <<tables, plantedCall>>

(* PostgreSQL's deadlock detector picks r; the catch block of createMany   *)
(* knows P2002 and P2003 only and throws the error on.                     *)
BreakDeadlock(r) == Deadlocked(r) /\ Abort(r, "Deadlock")

(* Prisma closes the transaction at its timeout, whatever it waits for.    *)
Expire(r) == TxMayExpire /\ InTransaction(r) /\ Abort(r, "P2028")

(* DELETE /farms/:farmId/planted-crops/:id: one statement, which sees      *)
(* committed rows only.  The farm of the path is not read.                 *)
DeletePlantedCrop(r) ==
    LET id == plantedCall[r].id
    IN /\ plantedCall[r].at = "write"
       /\ UNCHANGED otherThanPlanted
       /\ \/ id \notin Visible /\ ThrowPlanted(r, "NotFound") /\ UNCHANGED planted
          \/ /\ id \in Visible
             /\ planted' = [planted EXCEPT ![id] = Gone]
             /\ \E status \in Replies(204) : AnswerPlanted(r, status)

(* The connection is lost: the server rolls an open transaction back.      *)
LosePlantedRequest(r) ==
    /\ Outages /\ ~PlantedIdle(r)
    /\ \E e \in Connectivity : Abort(r, e)

HandlePlanted(r) == InsertItem(r) \/ Commit(r) \/ BreakDeadlock(r) \/ DeletePlantedCrop(r)

PlantedCropsNext ==
    \E r \in Batches :
        \/ PostBatch(r)
        \/ RequestPlantedDelete(r)
        \/ HandlePlanted(r)
        \/ Expire(r)
        \/ LosePlantedRequest(r)

=============================================================================
