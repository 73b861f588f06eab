-------------------------------- MODULE Farms -------------------------------
(***************************************************************************)
(* src/farms: FarmsController, FarmsService and FarmPrismaRepository, over *)
(* the farms table.  The service owns the area rule; nothing in the        *)
(* database repeats it.                                                    *)
(***************************************************************************)
EXTENDS Store

CONSTANTS
    FarmRequests,       \* requests to /farms handled at a time
    FarmBodies,         \* the bodies POST /farms is called with
    FarmPatches         \* the bodies PATCH /farms/:id is called with

VARIABLE farmCall

otherThanFarms == <<producers, seasons, crops, planted>>

FarmBody == [producerId : ProducerIds, total : Nat, arable : Nat, vegetation : Nat]

FarmPatch == [producerId : ProducerIds \cup {Omitted}, total : Nat \cup {Omitted},
              arable : Nat \cup {Omitted}, vegetation : Nat \cup {Omitted}]

ASSUME FarmInputsAssumption == FarmBodies \subseteq FarmBody /\ FarmPatches \subseteq FarmPatch

ASSUME MaxAreaAssumption == MaxArea \in Nat

FarmSteps == {"lookup", "write"}

CreatingFarm == [op : {"create"}, at : {"write"}, body : FarmBodies]
ReadingFarm == [op : {"update"}, at : {"lookup"}, id : FarmIds, dto : FarmPatches]
UpdatingFarm == [op : {"update"}, at : {"write"}, id : FarmIds, dto : FarmPatches,
                 existing : FarmRow]
DeletingFarm == [op : {"delete"}, at : FarmSteps, id : FarmIds]
FarmAnswered == [at : {"idle"}, status : Status,
                 producerNotFound : ProducerIds \cup FarmIds \cup {Omitted}]

FarmCallTypeOK ==
    farmCall \in [FarmRequests -> CreatingFarm \cup ReadingFarm \cup UpdatingFarm
                                    \cup DeletingFarm \cup FarmAnswered]

(* An answer; producerNotFound is the id that the message of a             *)
(* ProducerNotFoundError names.                                            *)
FarmAnswer(status, id) == [at |-> "idle", status |-> status, producerNotFound |-> id]

FarmInit == farmCall = [r \in FarmRequests |-> FarmAnswer(200, Omitted)]

FarmIdle(r) == farmCall[r].at = "idle"
FarmAt(r, op, step) == farmCall[r].at = step /\ farmCall[r].op = op

AnswerFarm(r, status) == farmCall' = [farmCall EXCEPT ![r] = FarmAnswer(status, Omitted)]
ThrowFarm(r, e) == AnswerFarm(r, Caught(e))
ThrowForeignKey(r, id) == ThrowFarm(r, "P2003")     \* a repository that catches nothing
ThrowProducerNotFound(r, id) ==
    farmCall' = [farmCall EXCEPT ![r] = FarmAnswer(Caught("NotFound"), id)]

(* No area is negative: @Min(0) in the DTO, and the columns hold what it   *)
(* let through.                                                            *)
validateAreas(row) == row.arable + row.vegetation <= row.total

IsValidArea(dto) ==
    Omitted \notin {dto.total, dto.arable, dto.vegetation} => validateAreas(dto)

Areas(row) == {row.total, row.arable, row.vegetation} \ {Omitted}

(* The body alone, absent fields taken for zero.                           *)
MergedWithNothing(dto, existing) ==
    [total |-> Given(dto.total, 0),
     arable |-> Given(dto.arable, 0),
     vegetation |-> Given(dto.vegetation, 0)]

(* What service.update revalidates: the body over the row it read.         *)
Merged(dto, existing) ==
    [total |-> Given(dto.total, existing.total),
     arable |-> Given(dto.arable, existing.arable),
     vegetation |-> Given(dto.vegetation, existing.vegetation)]

(* The row an INSERT of body makes.                                        *)
Inserted(body) ==
    [producerId |-> body.producerId, total |-> Stored(body.total),
     arable |-> Stored(body.arable), vegetation |-> Stored(body.vegetation)]

(* The row after UPDATE ... SET the fields of dto, the others as they are  *)
(* now and not as they were read.                                          *)
Patched(dto, row) ==
    [producerId |-> Given(dto.producerId, row.producerId),
     total |-> IF dto.total = Omitted THEN row.total ELSE Stored(dto.total),
     arable |-> IF dto.arable = Omitted THEN row.arable ELSE Stored(dto.arable),
     vegetation |-> IF dto.vegetation = Omitted THEN row.vegetation
                    ELSE Stored(dto.vegetation)]

FarmExists(f) == f \in Live(farms)
ProducerExists(p) == p \in Live(producers)

(* The bound of the model, as in Keyed.                                    *)
FarmCreators == {r \in FarmRequests : ~FarmIdle(r) /\ farmCall[r].op = "create"}
FarmIdLeft == Cardinality(FarmCreators) < Cardinality({f \in FarmIds : farms[f] = Unborn})

AcceptFarm(r, request) ==
    FarmIdle(r) /\ farmCall' = [farmCall EXCEPT ![r] = request] /\ UNCHANGED tables

(* POST /farms: validateAreas answers before the first await.              *)
PostFarm(r) ==
    /\ FarmIdLeft
    /\ \E body \in FarmBodies :
          \/ /\ validateAreas(body)
             /\ AcceptFarm(r, [op |-> "create", at |-> "write", body |-> body])
          \/ /\ ~validateAreas(body)
             /\ AcceptFarm(r, FarmAnswer(Caught("BadRequest"), Omitted))

(* PATCH /farms/:id: the DTO is refused before the service is called when  *)
(* it carries all three areas and they do not fit.                         *)
PatchFarm(r) ==
    \E id \in FarmIds, dto \in FarmPatches :
        \/ /\ IsValidArea(dto)
           /\ AcceptFarm(r, [op |-> "update", at |-> "lookup", id |-> id, dto |-> dto])
        \/ /\ ~IsValidArea(dto)
           /\ AcceptFarm(r, FarmAnswer(Caught("BadRequest"), Omitted))

RequestFarmDelete(r) ==
    \E id \in FarmIds : AcceptFarm(r, [op |-> "delete", at |-> "lookup", id |-> id])

(* The INSERT without farms_producerId_fkey.                               *)
InsertFarmUnreferenced(r) ==
    /\ FarmAt(r, "create", "write")
    /\ UNCHANGED otherThanFarms
    /\ \E f \in FarmIds : /\ farms[f] = Unborn
                          /\ farms' = [farms EXCEPT ![f] = Inserted(farmCall[r].body)]
    /\ \E status \in Replies(201) : AnswerFarm(r, status)

(* The INSERT; the foreign key finds out whether the producer exists.      *)
InsertFarm(r) ==
    LET body == farmCall[r].body
    IN /\ FarmAt(r, "create", "write")
       /\ UNCHANGED otherThanFarms
       /\ \/ /\ Overflows(Areas(body))
             /\ ThrowFarm(r, "Overflow") /\ UNCHANGED farms
          \/ /\ ~Overflows(Areas(body)) /\ ~ProducerExists(body.producerId)
             /\ ThrowProducerNotFound(r, body.producerId) /\ UNCHANGED farms
          \/ /\ ~Overflows(Areas(body)) /\ ProducerExists(body.producerId)
             /\ \E f \in FarmIds : /\ farms[f] = Unborn
                                   /\ farms' = [farms EXCEPT ![f] = Inserted(body)]
             /\ \E status \in Replies(201) : AnswerFarm(r, status)

(* update: findById answers, and the merged areas are revalidated.         *)
ReadFarm(r) ==
    LET id == farmCall[r].id
        dto == farmCall[r].dto
    IN /\ FarmAt(r, "update", "lookup")
       /\ UNCHANGED tables
       /\ \/ ~FarmExists(id) /\ ThrowFarm(r, "NotFound")
          \/ /\ FarmExists(id) /\ ~validateAreas(Merged(dto, farms[id]))
             /\ ThrowFarm(r, "BadRequest")
          \/ /\ FarmExists(id) /\ validateAreas(Merged(dto, farms[id]))
             /\ farmCall' = [farmCall EXCEPT ![r] =
                   [op |-> "update", at |-> "write", id |-> id, dto |-> dto,
                    existing |-> farms[id]]]

(* update: the UPDATE of the fields of the body.  The row that vanished is *)
(* a P2025; a producerId that names no producer is a P2003, which the      *)
(* repository turns into a ProducerNotFoundError of the farm's own id.     *)
UpdateFarm(r) ==
    LET id == farmCall[r].id
        dto == farmCall[r].dto
        row == Patched(dto, farms[id])
    IN /\ FarmAt(r, "update", "write")
       /\ UNCHANGED otherThanFarms
       /\ \/ /\ ~FarmExists(id)
             /\ ThrowFarm(r, "P2025") /\ UNCHANGED farms
          \/ /\ FarmExists(id) /\ Overflows(Areas(dto))
             /\ ThrowFarm(r, "Overflow") /\ UNCHANGED farms
          \/ /\ FarmExists(id) /\ ~Overflows(Areas(dto)) /\ ~ProducerExists(row.producerId)
             /\ ThrowProducerNotFound(r, id) /\ UNCHANGED farms
          \/ /\ FarmExists(id) /\ ~Overflows(Areas(dto)) /\ ProducerExists(row.producerId)
             /\ farms' = [farms EXCEPT ![id] = row]
             /\ \E status \in Replies(200) : AnswerFarm(r, status)

(* delete: findById answers.                                               *)
FindFarm(r) ==
    /\ FarmAt(r, "delete", "lookup")
    /\ UNCHANGED tables
    /\ \/ FarmExists(farmCall[r].id) /\ farmCall' = [farmCall EXCEPT ![r].at = "write"]
       \/ ~FarmExists(farmCall[r].id) /\ ThrowFarm(r, "NotFound")

(* delete: the DELETE waits for the transactions that hold the farm and    *)
(* takes its planted crops along.                                          *)
DeleteFarm(r) ==
    LET id == farmCall[r].id
    IN /\ FarmAt(r, "delete", "write")
       /\ UNCHANGED <<producers, seasons, crops>>
       /\ \/ ~FarmExists(id) /\ ThrowFarm(r, "P2025") /\ UNCHANGED <<farms, planted>>
          \/ /\ FarmExists(id)
             /\ CascadeFarms({id})
             /\ \E status \in Replies(204) : AnswerFarm(r, status)

(* A statement fails before it is executed: the database is unreachable.   *)
LoseFarmRequest(r) ==
    /\ Outages /\ ~FarmIdle(r)
    /\ \E e \in Connectivity : ThrowFarm(r, e)
    /\ UNCHANGED tables

HandleFarm(r) == InsertFarm(r) \/ ReadFarm(r) \/ UpdateFarm(r) \/ FindFarm(r) \/ DeleteFarm(r)

FarmsNext ==
    \E r \in FarmRequests :
        \/ PostFarm(r)
        \/ PatchFarm(r)
        \/ RequestFarmDelete(r)
        \/ HandleFarm(r)
        \/ LoseFarmRequest(r)

=============================================================================
