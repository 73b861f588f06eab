-------------------------------- MODULE Store -------------------------------
(***************************************************************************)
(* The PostgreSQL schema of prisma/schema.prisma: five tables, their       *)
(* unique columns, their foreign keys and what a DELETE does along them.   *)
(* Statements run at READ COMMITTED.  Every repository call is one         *)
(* statement, hence atomic, but for the batch of planted crops: the rows   *)
(* an open transaction inserted carry its name in xmin, nobody else reads  *)
(* them, and they hold KEY SHARE locks on the three rows they reference.   *)
(***************************************************************************)
EXTENDS Http, Naturals, FiniteSets

CONSTANTS
    ProducerIds, Documents,
    FarmIds, MaxArea,           \* MaxArea: the largest Decimal(10,2), in 1/1000 ha
    SeasonIds, Years,
    CropIds, Names,
    PlantedIds, Batches,        \* Batches: the requests that may hold a transaction
    Unborn,                     \* an id no row was given yet
    Gone,                       \* an id whose row was deleted: uuids never come back
    Committed,                  \* the xmin of a row every statement sees
    Seed                        \* the rows prisma/seed.ts leaves before the API listens

VARIABLES producers, farms, seasons, crops, planted

tables == <<producers, farms, seasons, crops, planted>>

NoRow == {Unborn, Gone}

(* A farm's owner and its three areas.  Areas are counted in thousandths   *)
(* of a hectare, one digit finer than the columns hold.                    *)
FarmRow == [producerId : ProducerIds, total : Nat, arable : Nat, vegetation : Nat]

PlantedRow == [farmId : FarmIds, seasonId : SeasonIds, cropId : CropIds,
               xmin : Batches \cup {Committed}]

(* Producers, seasons and crops are reduced to their one unique column.    *)
Schema == [producers : [ProducerIds -> Documents \cup NoRow],
           farms     : [FarmIds -> FarmRow \cup NoRow],
           seasons   : [SeasonIds -> Years \cup NoRow],
           crops     : [CropIds -> Names \cup NoRow],
           planted   : [PlantedIds -> PlantedRow \cup NoRow]]

ASSUME RowsAssumption ==
    /\ NoRow \cap (Documents \cup FarmRow \cup Years \cup Names \cup PlantedRow) = {}
    /\ Unborn # Gone

ASSUME OmittedAssumption ==
    Omitted \notin ProducerIds \cup Documents \cup Years \cup Names \cup Nat

ASSUME CommittedAssumption == Committed \notin Batches

ASSUME SeedAssumption == Seed \in Schema

(* The seed was written under the same constraints: its references lead to *)
(* rows, its keys are unique, and its transaction has ended.               *)
ASSUME SeedRowsAssumption ==
    /\ \A f \in FarmIds :
          Seed.farms[f] \notin NoRow => Seed.producers[Seed.farms[f].producerId] \notin NoRow
    /\ \A p \in PlantedIds : Seed.planted[p] \notin NoRow =>
          /\ Seed.planted[p].xmin = Committed
          /\ Seed.farms[Seed.planted[p].farmId] \notin NoRow
          /\ Seed.seasons[Seed.planted[p].seasonId] \notin NoRow
          /\ Seed.crops[Seed.planted[p].cropId] \notin NoRow

ASSUME SeedKeysAssumption ==
    /\ \A i, j \in ProducerIds : Seed.producers[i] \notin NoRow
          /\ Seed.producers[i] = Seed.producers[j] => i = j
    /\ \A i, j \in SeasonIds : Seed.seasons[i] \notin NoRow
          /\ Seed.seasons[i] = Seed.seasons[j] => i = j
    /\ \A i, j \in CropIds : Seed.crops[i] \notin NoRow
          /\ Seed.crops[i] = Seed.crops[j] => i = j
    /\ \A p, q \in PlantedIds : Seed.planted[p] \notin NoRow
          /\ Seed.planted[p] = Seed.planted[q] => p = q

Live(table) == {id \in DOMAIN table : table[id] \notin NoRow}

(* The column type is Decimal(10,2): PostgreSQL rounds what it is given to *)
(* hundredths, halves away from zero.                                      *)
Stored(area) == ((area + 5) \div 10) * 10

(* An area the column has no room for fails the statement.                 *)
Overflows(areas) == \E area \in areas : Stored(area) > MaxArea

FarmsOf(producerId) == {f \in Live(farms) : farms[f].producerId = producerId}

(* The planted crops every statement sees.                                 *)
Visible == {p \in Live(planted) : planted[p].xmin = Committed}

(* The rows that open transactions inserted.                               *)
Uncommitted == Live(planted) \ Visible

(* An open transaction holds the KEY SHARE lock of the foreign key check,  *)
(* so a DELETE of the row, or an UPDATE of its unique column, waits.       *)
FarmHeld(f) == \E p \in Uncommitted : planted[p].farmId = f
SeasonHeld(s) == \E p \in Uncommitted : planted[p].seasonId = s
CropHeld(c) == \E p \in Uncommitted : planted[p].cropId = c

(* The CASCADE that does not wait for the transactions that hold a farm.   *)
CascadeFarmsUnlocked(F) ==
    /\ farms' = [f \in FarmIds |-> IF f \in F THEN Gone ELSE farms[f]]
    /\ planted' = [p \in PlantedIds |->
                     IF p \in Visible /\ planted[p].farmId \in F
                     THEN Gone ELSE planted[p]]

(* DELETE FROM farms of the rows F, and ON DELETE CASCADE below them: it   *)
(* waits for the transactions that hold one of them, and takes the rows it *)
(* sees.                                                                   *)
CascadeFarms(F) ==
    /\ \A f \in F : ~FarmHeld(f)
    /\ farms' = [f \in FarmIds |-> IF f \in F THEN Gone ELSE farms[f]]
    /\ planted' = [p \in PlantedIds |->
                     IF p \in Visible /\ planted[p].farmId \in F
                     THEN Gone ELSE planted[p]]

StoreInit ==
    /\ producers = Seed.producers
    /\ farms = Seed.farms
    /\ seasons = Seed.seasons
    /\ crops = Seed.crops
    /\ planted = Seed.planted

StoreTypeOK ==
    /\ producers \in [ProducerIds -> Documents \cup NoRow]
    /\ farms \in [FarmIds -> FarmRow \cup NoRow]
    /\ seasons \in [SeasonIds -> Years \cup NoRow]
    /\ crops \in [CropIds -> Names \cup NoRow]
    /\ planted \in [PlantedIds -> PlantedRow \cup NoRow]

=============================================================================
