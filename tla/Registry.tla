------------------------------ MODULE Registry ------------------------------
(***************************************************************************)
(* What the API promises of its five tables: each request that is carried  *)
(* out changes them in one step, and the only steps are the operations of  *)
(* the README.  There are no requests in flight here, no look-ups, no      *)
(* transactions and no errors.  Module Api implements this.                *)
(***************************************************************************)
CONSTANTS
    ProducerIds, Documents, FarmIds, Hectares, SeasonIds, Years, CropIds, Names,
    PlantedIds, Unborn, Gone, Seed

VARIABLES producers, farms, seasons, crops, planted

tables == <<producers, farms, seasons, crops, planted>>

Live(table) == {id \in DOMAIN table : table[id] \notin {Unborn, Gone}}

Farm == [producerId : ProducerIds, total : Hectares, arable : Hectares, vegetation : Hectares]
Planting == [farmId : FarmIds, seasonId : SeasonIds, cropId : CropIds]

Init == tables = Seed

-----------------------------------------------------------------------------
(* The tables with a key: producers, seasons and crops.  A row is added    *)
(* under an id and a key nobody has, changes its key for one nobody has,   *)
(* or goes; its id never comes back.                                       *)

Taken(table, key, others) == \E id \in others : table[id] = key

Add(table, new, keys) ==
    \E id \in DOMAIN table, key \in keys :
        /\ table[id] = Unborn /\ ~Taken(table, key, DOMAIN table)
        /\ new = [table EXCEPT ![id] = key]

Rename(table, new, keys) ==
    \E id \in Live(table), key \in keys :
        /\ ~Taken(table, key, DOMAIN table \ {id})
        /\ new = [table EXCEPT ![id] = key]

ChangeProducers ==
    /\ Add(producers, producers', Documents) \/ Rename(producers, producers', Documents)
    /\ UNCHANGED <<farms, seasons, crops, planted>>

ChangeSeasons ==
    /\ Add(seasons, seasons', Years) \/ Rename(seasons, seasons', Years)
    /\ UNCHANGED <<producers, farms, crops, planted>>

ChangeCrops ==
    /\ Add(crops, crops', Names) \/ Rename(crops, crops', Names)
    /\ UNCHANGED <<producers, farms, seasons, planted>>

(* Planted crops are history: what they reference stays.                   *)
RemoveSeason ==
    /\ \E id \in Live(seasons) :
          /\ \A p \in Live(planted) : planted[p].seasonId # id
          /\ seasons' = [seasons EXCEPT ![id] = Gone]
    /\ UNCHANGED <<producers, farms, crops, planted>>

RemoveCrop ==
    /\ \E id \in Live(crops) :
          /\ \A p \in Live(planted) : planted[p].cropId # id
          /\ crops' = [crops EXCEPT ![id] = Gone]
    /\ UNCHANGED <<producers, farms, seasons, planted>>

-----------------------------------------------------------------------------
(* Farms.                                                                  *)

(* A farm is registered, amended or moved, to a producer that is there.    *)
(* Its areas are not promised to fit one another: see AreaRule.            *)
PutFarm ==
    /\ \E f \in FarmIds :
          /\ farms[f] # Gone
          /\ farms'[f] \in Farm /\ farms'[f].producerId \in Live(producers)
          /\ farms' = [farms EXCEPT ![f] = farms'[f]]
    /\ UNCHANGED <<producers, seasons, crops, planted>>

(* The farms F go, with what is planted on them.                           *)
RemoveFarms(F) ==
    /\ farms' = [f \in FarmIds |-> IF f \in F THEN Gone ELSE farms[f]]
    /\ planted' = [p \in PlantedIds |->
                     IF p \in Live(planted) /\ planted[p].farmId \in F THEN Gone ELSE planted[p]]

RemoveFarm ==
    /\ \E f \in Live(farms) : RemoveFarms({f})
    /\ UNCHANGED <<producers, seasons, crops>>

RemoveProducer ==
    /\ \E id \in Live(producers) :
          /\ producers' = [producers EXCEPT ![id] = Gone]
          /\ RemoveFarms({f \in Live(farms) : farms[f].producerId = id})
    /\ UNCHANGED <<seasons, crops>>

-----------------------------------------------------------------------------
(* Planted crops.                                                          *)

(* A batch appears in one step, on rows that are there, with combinations  *)
(* that were not.                                                          *)
Plant ==
    /\ \E new \in SUBSET PlantedIds : \E row \in [new -> Planting] :
          /\ \A p \in new :
                /\ planted[p] = Unborn
                /\ row[p].farmId \in Live(farms)
                /\ row[p].seasonId \in Live(seasons)
                /\ row[p].cropId \in Live(crops)
                /\ \A q \in Live(planted) : planted[q] # row[p]
                /\ \A q \in new : row[q] = row[p] => q = p
          /\ planted' = [p \in PlantedIds |-> IF p \in new THEN row[p] ELSE planted[p]]
    /\ UNCHANGED <<producers, farms, seasons, crops>>

Unplant ==
    /\ \E p \in Live(planted) : planted' = [planted EXCEPT ![p] = Gone]
    /\ UNCHANGED <<producers, farms, seasons, crops>>

-----------------------------------------------------------------------------

Next ==
    \/ ChangeProducers \/ RemoveProducer
    \/ PutFarm \/ RemoveFarm
    \/ ChangeSeasons \/ RemoveSeason
    \/ ChangeCrops \/ RemoveCrop
    \/ Plant \/ Unplant

Spec == Init /\ [][Next]_tables

=============================================================================
