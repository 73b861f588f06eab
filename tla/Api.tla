--------------------------------- MODULE Api --------------------------------
(***************************************************************************)
(* The registry: the five HTTP modules of AppModule over one database.     *)
(* Node runs one handler at a time between two awaits; at an await the     *)
(* handlers of the other requests run, and other replicas of the API may   *)
(* run too.  A step of the system is a step of one request.                *)
(***************************************************************************)
EXTENDS Producers, Farms, Seasons, Crops, PlantedCrops

calls == <<producerCall, farmCall, seasonCall, cropCall, plantedCall>>

vars == <<tables, calls>>

Init ==
    /\ StoreInit
    /\ Producer!CallInit
    /\ FarmInit
    /\ Season!CallInit
    /\ Crop!CallInit
    /\ PlantedInit

Next ==
    \/ ProducersNext /\ UNCHANGED <<farmCall, seasonCall, cropCall, plantedCall>>
    \/ FarmsNext /\ UNCHANGED <<producerCall, seasonCall, cropCall, plantedCall>>
    \/ SeasonsNext /\ UNCHANGED <<producerCall, farmCall, cropCall, plantedCall>>
    \/ CropsNext /\ UNCHANGED <<producerCall, farmCall, seasonCall, plantedCall>>
    \/ PlantedCropsNext /\ UNCHANGED <<producerCall, farmCall, seasonCall, cropCall>>

Spec == Init /\ [][Next]_vars

(* Each await is resumed at last, and PostgreSQL looks for deadlocks after *)
(* deadlock_timeout.  Clients owe nothing: no arrival is fair, and neither *)
(* are the losses.                                                         *)
Fairness ==
    /\ \A r \in ProducerRequests : WF_vars(HandleProducer(r) /\ UNCHANGED <<farmCall, seasonCall, cropCall, plantedCall>>)
    /\ \A r \in FarmRequests : WF_vars(HandleFarm(r) /\ UNCHANGED <<producerCall, seasonCall, cropCall, plantedCall>>)
    /\ \A r \in SeasonRequests : WF_vars(HandleSeason(r) /\ UNCHANGED <<producerCall, farmCall, cropCall, plantedCall>>)
    /\ \A r \in CropRequests : WF_vars(HandleCrop(r) /\ UNCHANGED <<producerCall, farmCall, seasonCall, plantedCall>>)
    /\ \A r \in Batches : WF_vars(HandlePlanted(r) /\ UNCHANGED <<producerCall, farmCall, seasonCall, cropCall>>)

FairSpec == Spec /\ Fairness

-----------------------------------------------------------------------------

(* Types: the tables follow the schema, and every request slot holds a     *)
(* request its handler can be at, or an answer.                            *)
TypeOK ==
    /\ StoreTypeOK
    /\ Producer!CallTypeOK
    /\ FarmCallTypeOK
    /\ Season!CallTypeOK
    /\ Crop!CallTypeOK
    /\ PlantedCallTypeOK

(* The foreign key of farms: no interleaving of POST /farms, of a PATCH    *)
(* that moves a farm and of DELETE /producers leaves a farm whose producer *)
(* is gone.                                                                *)
FarmsHaveProducers == \A f \in Live(farms) : farms[f].producerId \in Live(producers)

(* The foreign keys of planted_crops, for the rows of open batches too: a  *)
(* farm, a season or a crop never disappears under a batch that references *)
(* it, whenever the DELETE comes.                                          *)
PlantedCropsHaveParents ==
    \A p \in Live(planted) :
        /\ planted[p].farmId \in Live(farms)
        /\ planted[p].seasonId \in Live(seasons)
        /\ planted[p].cropId \in Live(crops)

(* The unique columns: whatever creates and PATCHes race past the          *)
(* services' look-ups, no two rows share a document, a year or a name.     *)
Unique(table) == \A i, j \in Live(table) : table[i] = table[j] => i = j
UniqueKeys == Unique(producers) /\ Unique(seasons) /\ Unique(crops)

(* The unique index of planted_crops, over committed rows and the rows of  *)
(* open batches: a farm has a crop in a season once.                       *)
OnePlantingPerSeasonAndCrop ==
    \A p, q \in Live(planted) :
        /\ planted[p].farmId = planted[q].farmId
        /\ planted[p].seasonId = planted[q].seasonId
        /\ planted[p].cropId = planted[q].cropId
        => p = q

(* An uncommitted row belongs to a transaction that is open, as many of    *)
(* them as it inserted: an aborted batch leaves nothing behind, neither    *)
(* rows nor locks.                                                         *)
OpenTransactionsOwnTheirRows ==
    \A r \in Batches :
        Cardinality(Own(r)) = IF InTransaction(r) THEN plantedCall[r].done ELSE 0

-----------------------------------------------------------------------------

(* The area rule on a stored row.                                          *)
AreaRuleAt(f) == f \in Live(farms) => farms[f].arable + farms[f].vegetation <= farms[f].total

(* Every stored farm has arable + vegetation <= total.                     *)
AreaRule == \A f \in FarmIds : AreaRuleAt(f)

(* The only ways past the area rule: a PATCH that writes over a row that   *)
(* changed since it read it, and a body finer than the columns, which are  *)
(* rounded one by one after the sum was checked.  Any other step keeps the *)
(* rule at every farm.                                                     *)
OverwritesChangedRow(f) ==
    \E r \in FarmRequests :
        /\ FarmAt(r, "update", "write")
        /\ farmCall[r].id = f
        /\ farmCall[r].existing # farms[f]
        /\ farmCall'[r].at = "idle"

Finer(areas) == \E area \in areas : Stored(area) # area

WritesFineArea(f) ==
    \E r \in FarmRequests :
        /\ farms'[f] # farms[f] /\ farmCall'[r].at = "idle"
        /\ \/ FarmAt(r, "create", "write") /\ Finer(Areas(farmCall[r].body))
           \/ FarmAt(r, "update", "write") /\ Finer(Areas(farmCall[r].dto))

AreaRuleLostOnlyByRaceOrRounding ==
    [][\A f \in FarmIds :
          AreaRuleAt(f) => \/ AreaRuleAt(f)'
                          \/ OverwritesChangedRow(f)
                          \/ WritesFineArea(f)]_vars

(* A committed planted crop disappears by its own DELETE or with its farm: *)
(* never with a season or a crop, which are history.                       *)
DeletedByRequest(p) ==
    \E r \in Batches : /\ plantedCall[r].at = "write"
                       /\ plantedCall[r].id = p
                       /\ plantedCall'[r].at = "idle"

HistoryKept ==
    [][\A p \in Visible :
          p \in Visible' \/ planted[p].farmId \notin Live(farms)' \/ DeletedByRequest(p)]_vars

(* What every statement sees of the five tables.                           *)
VisibleRows == [p \in Visible |-> planted[p]]
Database == <<producers, farms, seasons, crops, VisibleRows>>

AnswersNow(before, after) == before.at # "idle" /\ after.at = "idle"

(* A request answered with an error has changed nothing: a batch refused   *)
(* at its last item leaves no item, a refused write no column.  (A 503 of  *)
(* a connection that closed is the exception: it says nothing.)            *)
Refused(before, after) == AnswersNow(before, after) /\ after.status \in Errors \ {503}

SomebodyRefused ==
    \/ \E r \in ProducerRequests : Refused(producerCall[r], producerCall'[r])
    \/ \E r \in FarmRequests : Refused(farmCall[r], farmCall'[r])
    \/ \E r \in SeasonRequests : Refused(seasonCall[r], seasonCall'[r])
    \/ \E r \in CropRequests : Refused(cropCall[r], cropCall'[r])
    \/ \E r \in Batches : Refused(plantedCall[r], plantedCall'[r])

ErrorsChangeNothing == [][SomebodyRefused => Database' = Database]_vars

(* A 500 is one of the failures nobody translates, and nothing else: a     *)
(* unique column taken after the look-up or by a PATCH, a row that         *)
(* vanished before the write, an area out of the column's range, a         *)
(* deadlock of batches, a transaction at its timeout.  Any other refusal   *)
(* has a status of its own: an item of a batch that meets the unique index *)
(* or a parent gone since is never a 500, even one that could have been a  *)
(* deadlock's or a timeout's.                                              *)
Fails500(before, after) == AnswersNow(before, after) /\ after.status = 500

FarmVanished(r) ==
    /\ FarmAt(r, "update", "write") \/ FarmAt(r, "delete", "write")
    /\ ~FarmExists(farmCall[r].id)

AreaOutOfRange(r) ==
    \/ FarmAt(r, "create", "write") /\ Overflows(Areas(farmCall[r].body))
    \/ FarmAt(r, "update", "write") /\ Overflows(Areas(farmCall[r].dto))

(* What ends a batch without a fault of its items, as the filter logs it.  *)
CutShort(r) ==
    \/ Deadlocked(r) /\ plantedCall'[r].err = "Deadlock"
    \/ TxMayExpire /\ InTransaction(r) /\ plantedCall'[r].err = "P2028"

InternalErrorsAreKnown ==
    [][/\ \A r \in ProducerRequests : Fails500(producerCall[r], producerCall'[r]) =>
             Producer!RunsIntoKey(r) \/ Producer!RowVanished(r)
       /\ \A r \in FarmRequests : Fails500(farmCall[r], farmCall'[r]) =>
             FarmVanished(r) \/ AreaOutOfRange(r)
       /\ \A r \in SeasonRequests : Fails500(seasonCall[r], seasonCall'[r]) =>
             Season!RunsIntoKey(r) \/ Season!RowVanished(r)
       /\ \A r \in CropRequests : Fails500(cropCall[r], cropCall'[r]) =>
             Crop!RunsIntoKey(r) \/ Crop!RowVanished(r)
       /\ \A r \in Batches : Fails500(plantedCall[r], plantedCall'[r]) => CutShort(r)]_vars

(* A batch is visible wholly or not at all: a step of a batch that makes   *)
(* rows visible makes all of its items visible, and a batch answered 201   *)
(* is visible.                                                             *)
IsPlantingOf(row, farmId, item) ==
    row.farmId = farmId /\ row.seasonId = item.seasonId /\ row.cropId = item.cropId

BecomesVisibleWhole(r) ==
    LET batch == plantedCall[r]
        new == Visible' \ Visible
        whole == /\ \A i \in 1 .. Len(batch.items) :
                       \E p \in new : IsPlantingOf(planted'[p], batch.farmId, batch.items[i])
                 /\ Cardinality(new) = Len(batch.items)
    IN new # {} \/ plantedCall'[r] = Answered(201) => whole

BatchIsAtomic ==
    [][\A r \in Batches : InTransaction(r) /\ plantedCall'[r] # plantedCall[r]
                            => BecomesVisibleWhole(r)]_vars

(* The planted crops the way Registry has them: those every statement      *)
(* sees, without the transaction that wrote them.                          *)
Seen(table) ==
    [p \in PlantedIds |->
        IF table[p] \in NoRow THEN table[p]
        ELSE IF table[p].xmin # Committed THEN Unborn
        ELSE [farmId |-> table[p].farmId, seasonId |-> table[p].seasonId,
              cropId |-> table[p].cropId]]

ASSUME SeenAssumption ==
    NoRow \cap [farmId : FarmIds, seasonId : SeasonIds, cropId : CropIds] = {}

Promised == INSTANCE Registry WITH
    Hectares <- Nat, planted <- Seen(planted),
    Seed <- <<Seed.producers, Seed.farms, Seed.seasons, Seed.crops, Seen(Seed.planted)>>

(* The whole API, with its look-ups, its transactions and its errors,      *)
(* implements Registry: whatever requests meet, what is visible changes by *)
(* one whole legal operation at a time.                                    *)
ImplementsRegistry == Promised!Spec

(* No batch waits for another one forever: what it waits for commits, is   *)
(* rolled back, or is taken out of the cycle by the deadlock detector.     *)
WaitsEnd == \A r \in Batches : []<>~Waiting(r)

=============================================================================
