--------------------------- MODULE HandlerProofs ----------------------------
(***************************************************************************)
(* The batch of planted crops as a transaction: what is in it while it is  *)
(* open, how it becomes visible, and what may take its rows away.  Then what *)
(* an answer says: an error that nothing was written, a 500 which failure it *)
(* was; and what is left of the area rule of farms.                        *)
(***************************************************************************)
EXTENDS RegistryProofs, FiniteSetTheorems

(* The inductive invariant.  The number of rows alone is not inductive:    *)
(* that a commit shows the whole batch needs each of its items to be the   *)
(* row of one of them.                                                     *)
HasItem(r, i) ==
    \E p \in Own(r) : IsPlantingOf(planted[p], plantedCall[r].farmId, plantedCall[r].items[i])

OwnsInserted(r) ==
    /\ IsFiniteSet(Own(r))
    /\ ~InTransaction(r) => Own(r) = {}
    /\ InTransaction(r) => /\ Cardinality(Own(r)) = plantedCall[r].done
                           /\ \A i \in 1 .. plantedCall[r].done : HasItem(r, i)

EachOwnsInserted == \A r \in Batches : OwnsInserted(r)

-----------------------------------------------------------------------------

(* A step that leaves the rows of r and its slot alone.                    *)
LEMMA OthersRowsStay ==
    ASSUME TypeOK, TypeOK', NEW r \in Batches, OwnsInserted(r),
           plantedCall'[r] = plantedCall[r],
           \A p \in PlantedIds : p \in Own(r) \/ p \in Own(r)' => planted'[p] = planted[p]
    PROVE  OwnsInserted(r)'
<1>1. Own(r)' = Own(r)
  BY DEF Own, Live, TypeOK, StoreTypeOK
<1>2. \A p \in Own(r) : planted'[p] = planted[p]
  BY DEF Own, Live, TypeOK, StoreTypeOK
<1>3. ASSUME NEW i, HasItem(r, i)
      PROVE  HasItem(r, i)'
  BY <1>1, <1>2, <1>3 DEF HasItem
<1> QED BY <1>1, <1>3 DEF OwnsInserted, InTransaction

(* A CASCADE sees no row of an open batch.                                 *)
LEMMA CascadeSparesBatches ==
    ASSUME NEW F, CascadeFarms(F), NEW r \in Batches, NEW p \in PlantedIds,
           p \in Own(r) \/ p \in Own(r)'
    PROVE  planted'[p] = planted[p]
BY CommittedAssumption DEF CascadeFarms, Own, Visible, Live, NoRow

(* Requests to the other modules.                                          *)
LEMMA OthersKeepBatches ==
    ASSUME TypeOK, TypeOK', EachOwnsInserted,
           \/ ProducersNext \/ FarmsNext \/ SeasonsNext \/ CropsNext
           \/ UNCHANGED vars,
           UNCHANGED plantedCall
    PROVE  EachOwnsInserted'
<1>1. UNCHANGED planted \/ \E F : CascadeFarms(F)
  <2>1. CASE ProducersNext
    BY <2>1, ProducersStepKinds DEF ProducersNext, otherThanProducers
  <2>2. CASE FarmsNext
    BY <2>2
       DEF FarmsNext, PostFarm, PatchFarm, RequestFarmDelete, AcceptFarm, HandleFarm,
           InsertFarm, ReadFarm, UpdateFarm, FindFarm, DeleteFarm, LoseFarmRequest,
           tables, otherThanFarms
  <2>3. CASE SeasonsNext \/ CropsNext
    BY <2>3, SeasonsStep, CropsStep DEF SeasonsNext, CropsNext, otherThanSeasons, otherThanCrops
  <2>4. CASE UNCHANGED vars
    BY <2>4 DEF vars, tables
  <2> QED BY <2>1, <2>2, <2>3, <2>4
<1>2. \A r \in Batches : \A p \in PlantedIds :
         p \in Own(r) \/ p \in Own(r)' => planted'[p] = planted[p]
  BY <1>1, CascadeSparesBatches
<1> QED BY <1>2, OthersRowsStay DEF EachOwnsInserted

(* What a step of batch q does to the rows of the others: nothing.         *)
LEMMA BatchSparesOthers ==
    ASSUME TypeOK, NEW q \in Batches, NEW r \in Batches, r # q,
           \/ PostBatch(q) \/ RequestPlantedDelete(q) \/ HandlePlanted(q)
           \/ Expire(q) \/ LosePlantedRequest(q)
    PROVE  /\ plantedCall'[r] = plantedCall[r]
           /\ \A p \in PlantedIds : p \in Own(r) \/ p \in Own(r)' => planted'[p] = planted[p]
<1>1. plantedCall'[r] = plantedCall[r]
  BY DEF PostBatch, RequestPlantedDelete, AcceptPlanted, HandlePlanted, InsertItem, Commit,
         BreakDeadlock, DeletePlantedCrop, Expire, LosePlantedRequest, Abort, ThrowPlanted,
         AnswerPlanted, TypeOK, PlantedCallTypeOK
<1> SUFFICES ASSUME NEW p \in PlantedIds, p \in Own(r) \/ p \in Own(r)'
             PROVE  planted'[p] = planted[p]
  BY <1>1
<1>2. CASE UNCHANGED planted
  BY <1>2
<1>3. CASE Rollback(q)
  BY <1>3 DEF Rollback, Own, Live, NoRow
<1>4. CASE InsertItem(q) /\ ~Rollback(q)
  BY <1>4 DEF InsertItem, Abort, Own, Live, NoRow, TypeOK, StoreTypeOK
<1>5. CASE Commit(q)
  <2>1. CASE p \in Own(q)
    <3>1. planted[p] \in PlantedRow /\ planted'[p] = [planted[p] EXCEPT !.xmin = Committed]
      BY <1>5, <2>1 DEF Commit, Own, Live, TypeOK, StoreTypeOK
    <3>2. planted[p].xmin = q /\ planted'[p].xmin = Committed
      BY <2>1, <3>1 DEF Own, PlantedRow
    <3> QED BY <3>2, CommittedAssumption DEF Own
  <2>2. CASE p \notin Own(q)
    BY <1>5, <2>2 DEF Commit
  <2> QED BY <2>1, <2>2
<1>6. CASE DeletePlantedCrop(q)
  BY <1>6, CommittedAssumption
     DEF DeletePlantedCrop, Own, Visible, Live, NoRow, TypeOK, StoreTypeOK
<1> QED
  BY <1>2, <1>3, <1>4, <1>5, <1>6
     DEF PostBatch, RequestPlantedDelete, AcceptPlanted, tables, HandlePlanted,
         BreakDeadlock, Expire, LosePlantedRequest, Abort

-----------------------------------------------------------------------------
(* The steps of the batch itself.                                          *)

(* Outside a transaction a batch owns nothing.                             *)
LEMMA NothingOwned ==
    ASSUME NEW r \in Batches, Own(r)' = {}, ~InTransaction(r)'
    PROVE  OwnsInserted(r)'
BY FS_EmptySet DEF OwnsInserted

LEMMA AnsweredIsOutside ==
    ASSUME TypeOK, NEW r \in Batches, NEW status, AnswerPlanted(r, status)
    PROVE  ~InTransaction(r)'
BY DEF AnswerPlanted, Answered, InTransaction, TypeOK, PlantedCallTypeOK

LEMMA ThrownIsOutside ==
    ASSUME TypeOK, NEW r \in Batches, NEW e, ThrowPlanted(r, e)
    PROVE  plantedCall'[r] = Logged(e) /\ ~InTransaction(r)'
BY DEF ThrowPlanted, Logged, Answered, InTransaction, TypeOK, PlantedCallTypeOK

LEMMA RollbackLeavesNothing ==
    ASSUME TypeOK, NEW r \in Batches, Rollback(r)
    PROVE  Own(r)' = {}
BY DEF Rollback, Own, Live, NoRow, TypeOK, StoreTypeOK

LEMMA CommitLeavesNothing ==
    ASSUME TypeOK, NEW r \in Batches, Commit(r)
    PROVE  Own(r)' = {}
<1> SUFFICES ASSUME NEW p \in PlantedIds, p \in Own(r)'
             PROVE  FALSE
  BY DEF Own, Live, Commit
<1>1. CASE p \in Own(r)
  <2>1. planted[p] \in PlantedRow /\ planted'[p] = [planted[p] EXCEPT !.xmin = Committed]
    BY <1>1 DEF Commit, Own, Live, TypeOK, StoreTypeOK
  <2>2. planted'[p].xmin = Committed
    BY <2>1 DEF PlantedRow
  <2> QED BY <2>2, CommittedAssumption DEF Own
<1>2. CASE p \notin Own(r)
  BY <1>2 DEF Commit, Own, Live, TypeOK, StoreTypeOK
<1> QED BY <1>1, <1>2

(* One INSERT more.                                                        *)
LEMMA InsertItemOwnsOneMore ==
    ASSUME TypeOK, TypeOK', NEW r \in Batches, OwnsInserted(r), InsertItem(r), \A e : ~Abort(r, e)
    PROVE  OwnsInserted(r)'
<1> DEFINE done == plantedCall[r].done
<1>1. /\ plantedCall[r] \in CreatingPlanted
      /\ CurrentItem(r) \in Item
      /\ InTransaction(r)
      /\ done \in Nat
  BY CurrentItemType DEF InsertItem, TypeOK, CreatingPlanted
<1>2. PICK p \in PlantedIds :
         /\ planted[p] = Unborn
         /\ planted' = [planted EXCEPT ![p] =
               [farmId |-> plantedCall[r].farmId, seasonId |-> CurrentItem(r).seasonId,
                cropId |-> CurrentItem(r).cropId, xmin |-> r]]
         /\ plantedCall' = [plantedCall EXCEPT ![r].done = @ + 1]
  BY DEF InsertItem
<1>3. planted'[p] \in PlantedRow
  BY <1>1, <1>2 DEF CreatingPlanted, Item, PlantedRow, TypeOK, StoreTypeOK
<1>4. planted'[p] \notin NoRow /\ planted'[p].xmin = r
  BY <1>2, <1>3, RowsAssumption DEF TypeOK, StoreTypeOK
<1>5. p \notin Own(r)
  BY <1>2 DEF Own, Live, NoRow
<1>6. \A q \in PlantedIds \ {p} : planted'[q] = planted[q]
  BY <1>2 DEF TypeOK, StoreTypeOK
<1>7. Own(r)' = Own(r) \cup {p}
  BY <1>4, <1>6 DEF Own, Live, TypeOK, StoreTypeOK
<1>8. /\ plantedCall'[r] \in CreatingPlanted
      /\ plantedCall'[r].at = "insert"
      /\ plantedCall'[r].farmId = plantedCall[r].farmId
      /\ plantedCall'[r].items = plantedCall[r].items
      /\ plantedCall'[r].done = done + 1
  BY <1>1, <1>2 DEF CreatingPlanted, TypeOK, PlantedCallTypeOK
<1>9. IsFiniteSet(Own(r)') /\ Cardinality(Own(r)') = done + 1
  BY <1>1, <1>5, <1>7, FS_AddElement DEF OwnsInserted
<1>10. ASSUME NEW i \in 1 .. done + 1
       PROVE  HasItem(r, i)'
  <2>1. CASE i = done + 1
    <3>1. /\ planted'[p].farmId = plantedCall[r].farmId
          /\ planted'[p].seasonId = plantedCall[r].items[done + 1].seasonId
          /\ planted'[p].cropId = plantedCall[r].items[done + 1].cropId
      BY <1>2 DEF TypeOK, StoreTypeOK, CurrentItem
    <3> QED BY <1>7, <1>8, <2>1, <3>1 DEF HasItem, IsPlantingOf
  <2>2. CASE i # done + 1
    <3>1. i \in 1 .. done
      BY <1>1, <2>2
    <3>2. PICK q \in Own(r) :
             IsPlantingOf(planted[q], plantedCall[r].farmId, plantedCall[r].items[i])
      BY <1>1, <3>1 DEF OwnsInserted, HasItem
    <3>3. planted'[q] = planted[q] /\ q \in Own(r)'
      BY <1>5, <1>6, <1>7 DEF Own, Live, TypeOK, StoreTypeOK
    <3> QED BY <1>8, <3>2, <3>3 DEF HasItem
  <2> QED BY <2>1, <2>2
<1> QED BY <1>8, <1>9, <1>10 DEF OwnsInserted, InTransaction

LEMMA BatchKeepsItsRows ==
    ASSUME TypeOK, TypeOK', NEW r \in Batches, OwnsInserted(r),
           \/ PostBatch(r) \/ RequestPlantedDelete(r) \/ HandlePlanted(r)
           \/ Expire(r) \/ LosePlantedRequest(r)
    PROVE  OwnsInserted(r)'
<1>1. CASE PostBatch(r)
  <2>1. Own(r) = {} /\ Own(r)' = {}
    BY <1>1 DEF PostBatch, AcceptPlanted, PlantedIdle, tables, OwnsInserted, InTransaction,
                Own, Live
  <2>2. CASE ~InTransaction(r)'
    BY <2>1, <2>2, NothingOwned
  <2>3. CASE InTransaction(r)'
    <3>1. plantedCall'[r].done = 0
      BY <1>1, <2>3 DEF PostBatch, AcceptPlanted, Answered, InTransaction, TypeOK, PlantedCallTypeOK
    <3> QED BY <2>1, <2>3, <3>1, FS_EmptySet DEF OwnsInserted
  <2> QED BY <2>2, <2>3
<1>2. CASE RequestPlantedDelete(r)
  <2>1. Own(r)' = {}
    BY <1>2 DEF RequestPlantedDelete, AcceptPlanted, PlantedIdle, tables, OwnsInserted,
                InTransaction, Own, Live
  <2>2. ~InTransaction(r)'
    BY <1>2 DEF RequestPlantedDelete, AcceptPlanted, InTransaction, TypeOK, PlantedCallTypeOK
  <2> QED BY <2>1, <2>2, NothingOwned
<1>3. CASE \E e : Abort(r, e)
  BY <1>3, RollbackLeavesNothing, ThrownIsOutside, NothingOwned DEF Abort
<1>4. CASE InsertItem(r) /\ ~\E e : Abort(r, e)
  BY <1>4, InsertItemOwnsOneMore
<1>5. CASE Commit(r)
  <2>1. ~InTransaction(r)'
    BY <1>5, AnsweredIsOutside DEF Commit
  <2> QED BY <1>5, <2>1, CommitLeavesNothing, NothingOwned
<1>6. CASE DeletePlantedCrop(r)
  <2>1. Own(r) = {}
    BY <1>6 DEF DeletePlantedCrop, InTransaction, OwnsInserted
  <2>2. Own(r)' = {}
    BY <1>6, <2>1 DEF DeletePlantedCrop, Own, Live, NoRow, TypeOK, StoreTypeOK
  <2>3. ~InTransaction(r)'
    BY <1>6, AnsweredIsOutside, ThrownIsOutside DEF DeletePlantedCrop
  <2> QED BY <2>2, <2>3, NothingOwned
<1> QED
  BY <1>1, <1>2, <1>3, <1>4, <1>5, <1>6
     DEF HandlePlanted, BreakDeadlock, Expire, LosePlantedRequest

LEMMA InitOwnsInserted == Init => EachOwnsInserted
<1> SUFFICES ASSUME Init, NEW r \in Batches PROVE OwnsInserted(r)
  BY DEF EachOwnsInserted
<1>1. ~InTransaction(r)
  BY DEF Init, PlantedInit, Answered, InTransaction
<1>2. Own(r) = {}
  <2>1. TypeOK /\ planted = Seed.planted
    BY InitType DEF Init, StoreInit
  <2> QED BY <2>1, SeedRowsAssumption, CommittedAssumption
             DEF Own, Live, TypeOK, StoreTypeOK
<1> QED BY <1>1, <1>2, FS_EmptySet DEF OwnsInserted

LEMMA NextOwnsInserted ==
    EachOwnsInserted /\ TypeOK /\ TypeOK' /\ [Next]_vars => EachOwnsInserted'
<1> SUFFICES ASSUME EachOwnsInserted, TypeOK, TypeOK', [Next]_vars PROVE EachOwnsInserted'
  OBVIOUS
<1>1. CASE PlantedCropsNext
  <2> PICK q \in Batches :
          \/ PostBatch(q) \/ RequestPlantedDelete(q) \/ HandlePlanted(q)
          \/ Expire(q) \/ LosePlantedRequest(q)
    BY <1>1 DEF PlantedCropsNext
  <2> SUFFICES ASSUME NEW r \in Batches PROVE OwnsInserted(r)'
    BY DEF EachOwnsInserted
  <2>1. OwnsInserted(r)
    BY DEF EachOwnsInserted
  <2>2. CASE r = q
    BY <2>1, <2>2, BatchKeepsItsRows
  <2>3. CASE r # q
    BY <2>1, <2>3, BatchSparesOthers, OthersRowsStay
  <2> QED BY <2>2, <2>3
<1> QED BY <1>1, OthersKeepBatches DEF Next, vars, calls

(* OpenTransactionsOwnTheirRows, for any number of batches of any length:  *)
(* however a batch ends, no row of it stays uncommitted.                   *)
THEOREM TransactionsAreClosed == Spec => []OpenTransactionsOwnTheirRows
<1>1. EachOwnsInserted => OpenTransactionsOwnTheirRows
  BY FS_EmptySet DEF EachOwnsInserted, OwnsInserted, OpenTransactionsOwnTheirRows
<1> QED BY <1>1, InitOwnsInserted, NextOwnsInserted, TypeCorrect, PTL DEF Spec

-----------------------------------------------------------------------------

(* No error is answered as a success.                                      *)
LEMMA CaughtIsError == \A e : Caught(e) \in Errors
BY DEF Caught, HttpException, Connectivity, Errors

(* A batch that aborts or goes on shows nothing.                           *)
LEMMA OnlyCommitShows ==
    ASSUME TypeOK, NEW r \in Batches, InsertItem(r) \/ \E e : Abort(r, e)
    PROVE  Visible' \ Visible = {} /\ plantedCall'[r] # Answered(201)
<1>1. CASE \E e : Abort(r, e)
  <2>1. PICK e : Abort(r, e)
    BY <1>1
  <2>2. Visible' \ Visible = {}
    BY <2>1 DEF Abort, Rollback, Visible, Live, NoRow, TypeOK, StoreTypeOK
  <2>3. plantedCall'[r] = Logged(Translated(e)) /\ Caught(Translated(e)) # 201
    BY <2>1, CaughtIsError, ThrownIsOutside DEF Abort, Errors
  <2>4. Logged(Translated(e)).status # Answered(201).status
    BY <2>3 DEF Logged, Answered
  <2> QED BY <2>2, <2>3, <2>4
<1>2. CASE InsertItem(r) /\ ~\E e : Abort(r, e)
  <2>1. plantedCall[r] \in CreatingPlanted /\ CurrentItem(r) \in Item
    BY <1>2, CurrentItemType DEF InsertItem, TypeOK
  <2>2. PICK p \in PlantedIds, row \in PlantedRow :
           /\ planted[p] = Unborn /\ row.xmin = r
           /\ planted' = [planted EXCEPT ![p] = row]
           /\ plantedCall' = [plantedCall EXCEPT ![r].done = @ + 1]
    BY <1>2, <2>1 DEF InsertItem, PlantedRow, CreatingPlanted, Item
  <2>3. Visible' \ Visible = {}
    BY <2>2, CommittedAssumption DEF Visible, Live, TypeOK, StoreTypeOK
  <2>4. plantedCall'[r].at = "insert"
    BY <1>2, <2>1, <2>2 DEF InsertItem, InTransaction, CreatingPlanted, TypeOK, PlantedCallTypeOK
  <2>5. Answered(201).at = "idle"
    BY DEF Answered
  <2> QED BY <2>3, <2>4, <2>5
<1> QED BY <1>1, <1>2

LEMMA CommitShowsWhole ==
    ASSUME TypeOK, NEW r \in Batches, OwnsInserted(r), Commit(r)
    PROVE  BecomesVisibleWhole(r)
<1> DEFINE batch == plantedCall[r]
           new == Visible' \ Visible
<1>1. ASSUME NEW p \in Own(r)
      PROVE  /\ p \in PlantedIds
             /\ planted'[p] \notin NoRow
             /\ planted'[p].xmin = Committed
             /\ planted'[p].farmId = planted[p].farmId
             /\ planted'[p].seasonId = planted[p].seasonId
             /\ planted'[p].cropId = planted[p].cropId
  <2>1. p \in PlantedIds /\ planted[p] \in PlantedRow
    BY DEF Own, Live, TypeOK, StoreTypeOK
  <2>2. planted'[p] = [planted[p] EXCEPT !.xmin = Committed]
    BY <2>1 DEF Commit
  <2>3. planted'[p] \in PlantedRow
    BY <2>1, <2>2 DEF PlantedRow
  <2>4. planted'[p] \notin NoRow
    BY <2>3, RowsAssumption
  <2> QED BY <2>1, <2>2, <2>4 DEF PlantedRow
<1>2. DOMAIN planted' = PlantedIds
  BY DEF Commit
<1>3. \A p \in PlantedIds \ Own(r) : planted'[p] = planted[p]
  BY DEF Commit
<1>4. Own(r) \cap Visible = {}
  BY CommittedAssumption DEF Own, Visible
<1>5. new = Own(r)
  BY <1>1, <1>2, <1>3, <1>4 DEF Visible, Live, TypeOK, StoreTypeOK
<1>6. InTransaction(r) /\ batch.done = Len(batch.items)
  BY DEF Commit, AllInserted
<1>7. Cardinality(new) = Len(batch.items)
  BY <1>5, <1>6 DEF OwnsInserted
<1>8. ASSUME NEW i \in 1 .. Len(batch.items)
      PROVE  \E p \in new : IsPlantingOf(planted'[p], batch.farmId, batch.items[i])
  <2>1. HasItem(r, i)
    BY <1>6 DEF OwnsInserted
  <2> QED BY <1>1, <1>5, <2>1 DEF HasItem, IsPlantingOf
<1> QED BY <1>7, <1>8 DEF BecomesVisibleWhole

(* BatchIsAtomic: whatever ends a batch, and however long it waited, it is *)
(* seen wholly or not at all, and a 201 is never answered for less.        *)
THEOREM BatchesAreAtomic == Spec => BatchIsAtomic
<1>1. EachOwnsInserted /\ TypeOK /\ [Next]_vars
        => [\A r \in Batches : InTransaction(r) /\ plantedCall'[r] # plantedCall[r]
                                 => BecomesVisibleWhole(r)]_vars
  <2> SUFFICES ASSUME EachOwnsInserted, TypeOK, Next, NEW r \in Batches,
                      InTransaction(r), plantedCall'[r] # plantedCall[r]
               PROVE  BecomesVisibleWhole(r)
    OBVIOUS
  <2>1. PICK q \in Batches :
           \/ PostBatch(q) \/ RequestPlantedDelete(q) \/ HandlePlanted(q)
           \/ Expire(q) \/ LosePlantedRequest(q)
    BY DEF Next, PlantedCropsNext
  <2>2. q = r
    BY <2>1, BatchSparesOthers
  <2>3. ~PostBatch(r) /\ ~RequestPlantedDelete(r) /\ ~DeletePlantedCrop(r)
    BY DEF PostBatch, RequestPlantedDelete, AcceptPlanted, PlantedIdle, InTransaction,
           DeletePlantedCrop
  <2>4. Commit(r) \/ InsertItem(r) \/ \E e : Abort(r, e)
    BY <2>1, <2>2, <2>3 DEF HandlePlanted, BreakDeadlock, Expire, LosePlantedRequest
  <2>5. CASE InsertItem(r) \/ \E e : Abort(r, e)
    BY <2>5, OnlyCommitShows DEF BecomesVisibleWhole
  <2>6. CASE Commit(r)
    BY <2>6, CommitShowsWhole DEF EachOwnsInserted
  <2> QED BY <2>4, <2>5, <2>6
<1> QED BY <1>1, InitOwnsInserted, NextOwnsInserted, TypeCorrect, PTL DEF Spec, BatchIsAtomic

-----------------------------------------------------------------------------

(* HistoryKept: a committed planted crop goes by its own DELETE or with    *)
(* its farm, whatever is deleted around it.                                *)
THEOREM HistoryStays == Spec => HistoryKept
<1>1. TypeOK /\ [Next]_vars
        => [\A p \in Visible :
               p \in Visible' \/ planted[p].farmId \notin Live(farms)' \/ DeletedByRequest(p)]_vars
  <2> SUFFICES ASSUME TypeOK, Next, NEW p \in Visible, p \notin Visible',
                      planted[p].farmId \in Live(farms)'
               PROVE  DeletedByRequest(p)
    OBVIOUS
  <2>1. p \in PlantedIds /\ planted[p] \notin NoRow /\ planted[p].xmin = Committed
    BY DEF Visible, Live, TypeOK, StoreTypeOK
  <2>2. planted[p] \in PlantedRow
    BY <2>1 DEF TypeOK, StoreTypeOK
  <2>3. ~UNCHANGED planted
    BY DEF Visible, Live
  <2>4. ASSUME NEW F, CascadeFarms(F)
        PROVE  FALSE
    <3>1. CASE planted[p].farmId \in F
      BY <2>2, <2>4, <3>1 DEF CascadeFarms, Live, NoRow, PlantedRow
    <3>2. CASE planted[p].farmId \notin F
      BY <2>1, <2>4, <3>2 DEF CascadeFarms, Visible, Live
    <3> QED BY <3>1, <3>2
  <2>5. ~ProducersNext
    BY <2>3, <2>4, ProducersStepKinds DEF ProducersNext, otherThanProducers
  <2>6. ~FarmsNext
    BY <2>3, <2>4
       DEF FarmsNext, PostFarm, PatchFarm, RequestFarmDelete, AcceptFarm, HandleFarm,
           InsertFarm, ReadFarm, UpdateFarm, FindFarm, DeleteFarm, LoseFarmRequest,
           tables, otherThanFarms
  <2>7. ~SeasonsNext /\ ~CropsNext
    BY <2>3, SeasonsStep, CropsStep DEF SeasonsNext, CropsNext, otherThanSeasons, otherThanCrops
  <2>8. PICK r \in Batches :
           \/ PostBatch(r) \/ RequestPlantedDelete(r) \/ HandlePlanted(r)
           \/ Expire(r) \/ LosePlantedRequest(r)
    BY <2>5, <2>6, <2>7 DEF Next, PlantedCropsNext
  <2>9. p \notin Own(r)
    BY <2>1, CommittedAssumption DEF Own
  <2>10. ~Rollback(r) /\ ~Commit(r)
    BY <2>1, <2>9 DEF Rollback, Commit, Visible, Live
  <2>11. ~InsertItem(r)
    <3>1. SUFFICES ASSUME InsertItem(r) PROVE FALSE
      OBVIOUS
    <3>2. planted'[p] = planted[p] /\ DOMAIN planted' = PlantedIds
      BY <2>1, <2>10, <3>1 DEF InsertItem, Abort, NoRow, TypeOK, StoreTypeOK
    <3> QED BY <2>1, <3>2 DEF Visible, Live
  <2>12. DeletePlantedCrop(r)
    BY <2>3, <2>8, <2>10, <2>11
       DEF PostBatch, RequestPlantedDelete, AcceptPlanted, tables, HandlePlanted,
           BreakDeadlock, Expire, LosePlantedRequest, Abort
  <2>13. plantedCall[r].at = "write" /\ plantedCall[r].id = p
    BY <2>1, <2>3, <2>12 DEF DeletePlantedCrop, Visible, Live, TypeOK, StoreTypeOK
  <2>14. plantedCall'[r].at = "idle"
    BY <2>12 DEF DeletePlantedCrop, ThrowPlanted, Logged, AnswerPlanted, Answered, TypeOK,
                 PlantedCallTypeOK
  <2> QED BY <2>13, <2>14 DEF DeletedByRequest
<1> QED BY <1>1, TypeCorrect, PTL DEF Spec, HistoryKept

-----------------------------------------------------------------------------

(* The status of what a handler throws or returns.                         *)
LEMMA Statuses ==
    /\ Caught("Conflict") = 409 /\ Caught("NotFound") = 404 /\ Caught("BadRequest") = 400
    /\ \A e \in Connectivity : Caught(e) = 503
    /\ \A status : Replies(status) \subseteq {status, 503}
BY DEF Caught, HttpException, Connectivity, Replies

(* What a step that answers request r may answer: "harmless" stands for    *)
(* what it must be to be an error, "known" for what it must be to be a 500.*)
AnswersWell(before, after, harmless, known) ==
    /\ Refused(before, after) => harmless
    /\ Fails500(before, after) => known

(* A slot no step touched answers nothing now.                             *)
LEMMA UntouchedAnswersNothing ==
    ASSUME NEW slot
    PROVE  ~Refused(slot, slot) /\ ~Fails500(slot, slot)
BY DEF Refused, Fails500, AnswersNow

LEMMA DatabaseStays ==
    ASSUME UNCHANGED tables
    PROVE  Database' = Database
BY DEF tables, Database, VisibleRows, Visible, Live

-----------------------------------------------------------------------------

LEMMA KeysOnce ==
    ASSUME TypeOK, UniqueKeys
    PROVE  Producer!NoKeyTwice /\ Season!NoKeyTwice /\ Crop!NoKeyTwice
BY ProducerRows, SeasonRows, CropRows
   DEF UniqueKeys, Unique, Producer!NoKeyTwice, Season!NoKeyTwice, Crop!NoKeyTwice

(* The three catalogues: what Keyed proves of the answer, over the whole   *)
(* database.  A DELETE that takes rows is not an error.                    *)
LEMMA ProducersAnswer ==
    ASSUME TypeOK, UniqueKeys, ProducersNext, NEW r \in ProducerRequests
    PROVE  AnswersWell(producerCall[r], producerCall'[r], Database' = Database,
                       Producer!RunsIntoKey(r) \/ Producer!RowVanished(r))
<1> PICK q \in ProducerRequests :
        \/ PostProducer(q) \/ PatchProducer(q) \/ RequestProducerDelete(q)
        \/ HandleProducer(q) \/ LoseProducerRequest(q)
  BY DEF ProducersNext
<1>1. Producer!Step(q) /\ Producer!CallTypeOK /\ Producer!TableTypeOK
  BY ProducersStep, ProducerRows
<1>2. CASE q # r
  BY <1>1, <1>2, Producer!StepIsOfOne, OutagesAssumption, UntouchedAnswersNothing
     DEF AnswersWell
<1>3. CASE q = r /\ AnswersNow(producerCall[r], producerCall'[r])
  <2>1. /\ producerCall'[r].status \in Producer!Errors \ {503} => UNCHANGED producers
        /\ producerCall'[r].status = 500 => Producer!RunsIntoKey(r) \/ Producer!RowVanished(r)
    BY <1>1, <1>3, KeysOnce, Producer!StepAnswers, OutagesAssumption
       DEF AnswersNow, Producer!IdleAt
  <2>2. ASSUME Refused(producerCall[r], producerCall'[r])
        PROVE  Database' = Database
    <3>1. UNCHANGED producers
      BY <2>1, <2>2 DEF Refused, Errors, Producer!Errors
    <3>2. ~Producer!DeleteRow(q)
      <4>1. SUFFICES ASSUME Producer!DeleteRow(q) PROVE FALSE
        OBVIOUS
      <4>2. producerCall[q].id \in ProducerIds
        BY <4>1 DEF Producer!DeleteRow, Producer!Writes, TypeOK, Producer!CallTypeOK,
                    Producer!Creating, Producer!Updating, Producer!Deleting, Producer!Idle
      <4> QED
        BY <3>1, <4>1, <4>2 DEF Producer!DeleteRow, Producer!Exists, TypeOK, StoreTypeOK
    <3>3. UNCHANGED otherThanProducers
      BY <3>2, ProducersStepKinds
    <3> QED BY <3>1, <3>3, DatabaseStays DEF otherThanProducers, tables
  <2> QED BY <2>1, <2>2 DEF AnswersWell, Fails500
<1>4. CASE ~AnswersNow(producerCall[r], producerCall'[r])
  BY <1>4 DEF AnswersWell, Refused, Fails500
<1> QED BY <1>2, <1>3, <1>4

LEMMA SeasonsAnswer ==
    ASSUME TypeOK, UniqueKeys, SeasonsNext, NEW r \in SeasonRequests
    PROVE  AnswersWell(seasonCall[r], seasonCall'[r], Database' = Database,
                       Season!RunsIntoKey(r) \/ Season!RowVanished(r))
<1> PICK q \in SeasonRequests :
        \/ PostSeason(q) \/ PatchSeason(q) \/ RequestSeasonDelete(q)
        \/ HandleSeason(q) \/ LoseSeasonRequest(q)
  BY DEF SeasonsNext
<1>1. /\ Season!Step(q) /\ Season!CallTypeOK /\ Season!TableTypeOK
      /\ UNCHANGED otherThanSeasons
  BY SeasonsStep, SeasonRows
<1>2. CASE q # r
  BY <1>1, <1>2, Season!StepIsOfOne, OutagesAssumption, UntouchedAnswersNothing
     DEF AnswersWell
<1>3. CASE q = r /\ AnswersNow(seasonCall[r], seasonCall'[r])
  <2>1. /\ seasonCall'[r].status \in Season!Errors \ {503} => UNCHANGED seasons
        /\ seasonCall'[r].status = 500 => Season!RunsIntoKey(r) \/ Season!RowVanished(r)
    BY <1>1, <1>3, KeysOnce, Season!StepAnswers, OutagesAssumption
       DEF AnswersNow, Season!IdleAt
  <2>2. Refused(seasonCall[r], seasonCall'[r]) => UNCHANGED seasons
    BY <2>1 DEF Refused, Errors, Season!Errors
  <2>3. Refused(seasonCall[r], seasonCall'[r]) => Database' = Database
    BY <1>1, <2>2, DatabaseStays DEF otherThanSeasons, tables
  <2> QED BY <2>1, <2>3 DEF AnswersWell, Fails500
<1>4. CASE ~AnswersNow(seasonCall[r], seasonCall'[r])
  BY <1>4 DEF AnswersWell, Refused, Fails500
<1> QED BY <1>2, <1>3, <1>4

LEMMA CropsAnswer ==
    ASSUME TypeOK, UniqueKeys, CropsNext, NEW r \in CropRequests
    PROVE  AnswersWell(cropCall[r], cropCall'[r], Database' = Database,
                       Crop!RunsIntoKey(r) \/ Crop!RowVanished(r))
<1> PICK q \in CropRequests :
        \/ PostCrop(q) \/ PatchCrop(q) \/ RequestCropDelete(q)
        \/ HandleCrop(q) \/ LoseCropRequest(q)
  BY DEF CropsNext
<1>1. /\ Crop!Step(q) /\ Crop!CallTypeOK /\ Crop!TableTypeOK
      /\ UNCHANGED otherThanCrops
  BY CropsStep, CropRows
<1>2. CASE q # r
  BY <1>1, <1>2, Crop!StepIsOfOne, OutagesAssumption, UntouchedAnswersNothing
     DEF AnswersWell
<1>3. CASE q = r /\ AnswersNow(cropCall[r], cropCall'[r])
  <2>1. /\ cropCall'[r].status \in Crop!Errors \ {503} => UNCHANGED crops
        /\ cropCall'[r].status = 500 => Crop!RunsIntoKey(r) \/ Crop!RowVanished(r)
    BY <1>1, <1>3, KeysOnce, Crop!StepAnswers, OutagesAssumption
       DEF AnswersNow, Crop!IdleAt
  <2>2. Refused(cropCall[r], cropCall'[r]) => UNCHANGED crops
    BY <2>1 DEF Refused, Errors, Crop!Errors
  <2>3. Refused(cropCall[r], cropCall'[r]) => Database' = Database
    BY <1>1, <2>2, DatabaseStays DEF otherThanCrops, tables
  <2> QED BY <2>1, <2>3 DEF AnswersWell, Fails500
<1>4. CASE ~AnswersNow(cropCall[r], cropCall'[r])
  BY <1>4 DEF AnswersWell, Refused, Fails500
<1> QED BY <1>2, <1>3, <1>4

-----------------------------------------------------------------------------

(* The status in the slot of a farm request that was answered.             *)
LEMMA FarmStatus ==
    ASSUME TypeOK, NEW r \in FarmRequests
    PROVE  /\ \A status : AnswerFarm(r, status) => farmCall'[r].status = status
           /\ \A e : ThrowFarm(r, e) => farmCall'[r].status = Caught(e)
           /\ \A id : ThrowProducerNotFound(r, id) => farmCall'[r].status = 404
           /\ \A status \in {200, 201, 204} :
                 (\E s \in Replies(status) : AnswerFarm(r, s))
                    => farmCall'[r].status \notin Errors \ {503} /\ farmCall'[r].status # 500
<1>1. \A status, id : farmCall' = [farmCall EXCEPT ![r] = FarmAnswer(status, id)]
                        => farmCall'[r].status = status
  BY DEF FarmAnswer, TypeOK, FarmCallTypeOK
<1>2. \A status : AnswerFarm(r, status) => farmCall'[r].status = status
  BY <1>1 DEF AnswerFarm
<1>3. ASSUME NEW id, ThrowProducerNotFound(r, id)
      PROVE  farmCall'[r].status = 404
  <2>1. farmCall'[r].status = Caught("NotFound")
    BY <1>1, <1>3 DEF ThrowProducerNotFound
  <2> QED BY <2>1, Statuses
<1>4. \A status \in {200, 201, 204} :
         (\E s \in Replies(status) : AnswerFarm(r, s))
            => farmCall'[r].status \notin Errors \ {503} /\ farmCall'[r].status # 500
  BY <1>2, Statuses DEF Errors
<1> QED BY <1>2, <1>3, <1>4 DEF ThrowFarm

LEMMA FarmsAnswer ==
    ASSUME TypeOK, FarmsNext, NEW r \in FarmRequests
    PROVE  AnswersWell(farmCall[r], farmCall'[r], Database' = Database,
                       FarmVanished(r) \/ AreaOutOfRange(r))
<1> PICK q \in FarmRequests :
        \/ PostFarm(q) \/ PatchFarm(q) \/ RequestFarmDelete(q)
        \/ HandleFarm(q) \/ LoseFarmRequest(q)
  BY DEF FarmsNext
<1>1. CASE q # r
  <2>1. farmCall'[r] = farmCall[r]
    BY <1>1
       DEF PostFarm, PatchFarm, RequestFarmDelete, AcceptFarm, HandleFarm, InsertFarm, ReadFarm,
           UpdateFarm, FindFarm, DeleteFarm, LoseFarmRequest, ThrowFarm, AnswerFarm,
           ThrowProducerNotFound, TypeOK, FarmCallTypeOK
  <2> QED BY <2>1, UntouchedAnswersNothing DEF AnswersWell
<1>2. CASE q = r /\ AnswersNow(farmCall[r], farmCall'[r])
  <2> SUFFICES /\ farmCall'[r].status \in Errors \ {503} => UNCHANGED tables
               /\ farmCall'[r].status = 500 => FarmVanished(r) \/ AreaOutOfRange(r)
    BY DatabaseStays DEF AnswersWell, Refused, Fails500
  <2>1. ~PostFarm(r) /\ ~PatchFarm(r) /\ ~RequestFarmDelete(r)
    BY <1>2 DEF PostFarm, PatchFarm, RequestFarmDelete, AcceptFarm, FarmIdle, AnswersNow
  <2>2. CASE InsertFarm(r)
    BY <2>2, FarmStatus DEF InsertFarm, AreaOutOfRange, tables, otherThanFarms
  <2>3. CASE ReadFarm(r)
    <3>1. ThrowFarm(r, "NotFound") \/ ThrowFarm(r, "BadRequest")
      BY <1>2, <2>3 DEF ReadFarm, AnswersNow, TypeOK, FarmCallTypeOK
    <3> QED BY <2>3, <3>1, FarmStatus, Statuses DEF ReadFarm
  <2>4. CASE UpdateFarm(r)
    BY <2>4, FarmStatus DEF UpdateFarm, FarmVanished, AreaOutOfRange, tables, otherThanFarms
  <2>5. CASE FindFarm(r)
    <3>1. farmCall[r] \in DeletingFarm
      BY <2>5 DEF FindFarm, FarmAt, TypeOK, FarmCallTypeOK, CreatingFarm, ReadingFarm,
                  UpdatingFarm, DeletingFarm, FarmAnswered
    <3>2. ThrowFarm(r, "NotFound")
      BY <1>2, <2>5, <3>1 DEF FindFarm, AnswersNow, TypeOK, FarmCallTypeOK, DeletingFarm
    <3> QED BY <2>5, <3>2, FarmStatus, Statuses DEF FindFarm
  <2>6. CASE DeleteFarm(r)
    BY <2>6, FarmStatus DEF DeleteFarm, FarmVanished, tables
  <2>7. CASE LoseFarmRequest(r)
    BY <2>7, FarmStatus, Statuses DEF LoseFarmRequest
  <2> QED BY <1>2, <2>1, <2>2, <2>3, <2>4, <2>5, <2>6, <2>7 DEF HandleFarm
<1>3. CASE ~AnswersNow(farmCall[r], farmCall'[r])
  BY <1>3 DEF AnswersWell, Refused, Fails500
<1> QED BY <1>1, <1>2, <1>3

-----------------------------------------------------------------------------

LEMMA PlantedStatus ==
    ASSUME TypeOK, NEW r \in Batches
    PROVE  /\ \A e : ThrowPlanted(r, e) =>
                 /\ plantedCall'[r].status = Caught(e)
                 /\ Caught(e) = 500 => plantedCall'[r].err = e
           /\ \A status \in {201, 204} :
                 (\E s \in Replies(status) : AnswerPlanted(r, s))
                    => plantedCall'[r].status \notin Errors \ {503} /\ plantedCall'[r].status # 500
<1>1. \A status : AnswerPlanted(r, status) => plantedCall'[r].status = status
  BY DEF AnswerPlanted, Answered, TypeOK, PlantedCallTypeOK
<1>2. \A e : /\ Logged(e).status = Caught(e)
             /\ Caught(e) = 500 => Logged(e).err = e
  BY DEF Logged, Answered
<1>3. \A e : ThrowPlanted(r, e) => plantedCall'[r] = Logged(e)
  BY ThrownIsOutside
<1>4. \A status \in {201, 204} : \A s \in Replies(status) : s \notin Errors \ {503} /\ s # 500
  BY Statuses DEF Errors
<1> QED BY <1>1, <1>2, <1>3, <1>4

(* A rolled back batch leaves what statements see as it was.               *)
LEMMA RollbackIsUnseen ==
    ASSUME TypeOK, NEW r \in Batches, NEW e, Abort(r, e)
    PROVE  Database' = Database
<1>1. Visible' = Visible
  BY CommittedAssumption DEF Abort, Rollback, Own, Visible, Live, NoRow, TypeOK, StoreTypeOK
<1>2. \A p \in Visible : planted'[p] = planted[p]
  BY CommittedAssumption DEF Abort, Rollback, Own, Visible, Live, TypeOK, StoreTypeOK
<1>3. VisibleRows' = VisibleRows
  BY <1>1, <1>2 DEF VisibleRows
<1> QED BY <1>3 DEF Abort, otherThanPlanted, Database

LEMMA BatchesAnswer ==
    ASSUME TypeOK, PlantedCropsNext, NEW r \in Batches
    PROVE  AnswersWell(plantedCall[r], plantedCall'[r], Database' = Database,
                       CutShort(r))
<1> PICK q \in Batches :
        \/ PostBatch(q) \/ RequestPlantedDelete(q) \/ HandlePlanted(q)
        \/ Expire(q) \/ LosePlantedRequest(q)
  BY DEF PlantedCropsNext
<1>1. CASE q # r
  <2>1. plantedCall'[r] = plantedCall[r]
    BY <1>1
       DEF PostBatch, RequestPlantedDelete, AcceptPlanted, HandlePlanted, InsertItem, Commit,
           BreakDeadlock, DeletePlantedCrop, Expire, LosePlantedRequest, Abort, ThrowPlanted,
           AnswerPlanted, TypeOK, PlantedCallTypeOK
  <2> QED BY <2>1, UntouchedAnswersNothing DEF AnswersWell
<1>2. CASE q = r /\ AnswersNow(plantedCall[r], plantedCall'[r])
  <2> SUFFICES /\ plantedCall'[r].status \in Errors \ {503} => Database' = Database
               /\ plantedCall'[r].status = 500 => CutShort(r)
    BY DEF AnswersWell, Refused, Fails500
  <2>1. ~PostBatch(r) /\ ~RequestPlantedDelete(r)
    BY <1>2 DEF PostBatch, RequestPlantedDelete, AcceptPlanted, PlantedIdle, AnswersNow
  <2>2. CASE InsertItem(r)
    <3>1. Abort(r, "P2002") \/ Abort(r, "P2003")
      <4>1. plantedCall[r] \in CreatingPlanted
        BY <2>2, CurrentItemType DEF InsertItem, TypeOK
      <4>2. plantedCall' = [plantedCall EXCEPT ![r].done = @ + 1]
              => plantedCall'[r].at = "insert"
        BY <4>1 DEF CreatingPlanted, TypeOK, PlantedCallTypeOK
      <4> QED BY <1>2, <2>2, <4>2 DEF InsertItem, AnswersNow
    <3>2. plantedCall'[r].status \in {404, 409}
      BY <3>1, PlantedStatus, Statuses DEF Abort, Translated
    <3> QED BY <3>1, <3>2, RollbackIsUnseen
  <2>3. CASE Commit(r)
    BY <2>3, PlantedStatus DEF Commit
  <2>4. CASE BreakDeadlock(r) \/ Expire(r)
    <3>1. PICK e \in {"Deadlock", "P2028"} :
              /\ Abort(r, e)
              /\ e = "Deadlock" => Deadlocked(r)
              /\ e = "P2028" => TxMayExpire /\ InTransaction(r)
      BY <2>4 DEF BreakDeadlock, Expire
    <3>2. Translated(e) = e /\ Caught(e) = 500
      BY DEF Translated, Caught, HttpException, Connectivity
    <3>3. plantedCall'[r].err = e
      BY <3>1, <3>2, PlantedStatus DEF Abort
    <3> QED BY <3>1, <3>3, RollbackIsUnseen DEF CutShort
  <2>5. CASE DeletePlantedCrop(r)
    <3>1. CASE ThrowPlanted(r, "NotFound") /\ UNCHANGED planted
      BY <2>5, <3>1, PlantedStatus, Statuses, DatabaseStays
         DEF DeletePlantedCrop, otherThanPlanted, tables
    <3>2. CASE \E status \in Replies(204) : AnswerPlanted(r, status)
      BY <3>2, PlantedStatus
    <3> QED BY <2>5, <3>1, <3>2 DEF DeletePlantedCrop
  <2>6. CASE LosePlantedRequest(r)
    <3>1. PICK e \in Connectivity : Abort(r, e)
      BY <2>6 DEF LosePlantedRequest
    <3>2. Translated(e) = e
      BY DEF Translated, Connectivity
    <3> QED BY <3>1, <3>2, PlantedStatus, Statuses DEF Abort, Errors
  <2> QED BY <1>2, <2>1, <2>2, <2>3, <2>4, <2>5, <2>6 DEF HandlePlanted
<1>3. CASE ~AnswersNow(plantedCall[r], plantedCall'[r])
  BY <1>3 DEF AnswersWell, Refused, Fails500
<1> QED BY <1>1, <1>2, <1>3

-----------------------------------------------------------------------------

(* Every answer of every module.                                           *)
EveryAnswersWell ==
    /\ \A r \in ProducerRequests :
          AnswersWell(producerCall[r], producerCall'[r], Database' = Database,
                      Producer!RunsIntoKey(r) \/ Producer!RowVanished(r))
    /\ \A r \in FarmRequests :
          AnswersWell(farmCall[r], farmCall'[r], Database' = Database,
                      FarmVanished(r) \/ AreaOutOfRange(r))
    /\ \A r \in SeasonRequests :
          AnswersWell(seasonCall[r], seasonCall'[r], Database' = Database,
                      Season!RunsIntoKey(r) \/ Season!RowVanished(r))
    /\ \A r \in CropRequests :
          AnswersWell(cropCall[r], cropCall'[r], Database' = Database,
                      Crop!RunsIntoKey(r) \/ Crop!RowVanished(r))
    /\ \A r \in Batches :
          AnswersWell(plantedCall[r], plantedCall'[r], Database' = Database,
                      CutShort(r))

LEMMA NextAnswersWell == TypeOK /\ UniqueKeys /\ Next => EveryAnswersWell
<1> SUFFICES ASSUME TypeOK, UniqueKeys, Next PROVE EveryAnswersWell
  OBVIOUS
<1> USE UntouchedAnswersNothing DEF EveryAnswersWell
<1>1. CASE ProducersNext /\ UNCHANGED otherThanProducerCalls
  BY <1>1, ProducersAnswer DEF otherThanProducerCalls, AnswersWell
<1>2. CASE FarmsNext /\ UNCHANGED otherThanFarmCalls
  BY <1>2, FarmsAnswer DEF otherThanFarmCalls, AnswersWell
<1>3. CASE SeasonsNext /\ UNCHANGED otherThanSeasonCalls
  BY <1>3, SeasonsAnswer DEF otherThanSeasonCalls, AnswersWell
<1>4. CASE CropsNext /\ UNCHANGED otherThanCropCalls
  BY <1>4, CropsAnswer DEF otherThanCropCalls, AnswersWell
<1>5. CASE PlantedCropsNext /\ UNCHANGED otherThanPlantedCalls
  BY <1>5, BatchesAnswer DEF otherThanPlantedCalls, AnswersWell
<1> QED
  BY <1>1, <1>2, <1>3, <1>4, <1>5
     DEF Next, otherThanProducerCalls, otherThanFarmCalls, otherThanSeasonCalls,
         otherThanCropCalls, otherThanPlantedCalls

(* ErrorsChangeNothing: whatever a handler did before it failed, what      *)
(* statements see is as before.                                            *)
THEOREM ErrorsAreHarmless == Spec => ErrorsChangeNothing
<1>1. TypeOK /\ UniqueKeys /\ [Next]_vars => [SomebodyRefused => Database' = Database]_vars
  <2> SUFFICES ASSUME TypeOK, UniqueKeys, Next, SomebodyRefused
               PROVE  Database' = Database
    OBVIOUS
  <2>1. EveryAnswersWell
    BY NextAnswersWell
  <2> QED BY <2>1 DEF EveryAnswersWell, AnswersWell, SomebodyRefused
<1> QED BY <1>1, TypeCorrect, KeysStayUnique, PTL DEF Spec, ErrorsChangeNothing

(* InternalErrorsAreKnown: the list of failures nobody translates is       *)
(* complete.                                                               *)
THEOREM InternalErrorsAreListed == Spec => InternalErrorsAreKnown
<1> DEFINE Known ==
       /\ \A r \in ProducerRequests : Fails500(producerCall[r], producerCall'[r]) =>
             Producer!RunsIntoKey(r) \/ Producer!RowVanished(r)
       /\ \A r \in FarmRequests : Fails500(farmCall[r], farmCall'[r]) =>
             FarmVanished(r) \/ AreaOutOfRange(r)
       /\ \A r \in SeasonRequests : Fails500(seasonCall[r], seasonCall'[r]) =>
             Season!RunsIntoKey(r) \/ Season!RowVanished(r)
       /\ \A r \in CropRequests : Fails500(cropCall[r], cropCall'[r]) =>
             Crop!RunsIntoKey(r) \/ Crop!RowVanished(r)
       /\ \A r \in Batches : Fails500(plantedCall[r], plantedCall'[r]) =>
             CutShort(r)
<1>1. TypeOK /\ UniqueKeys /\ [Next]_vars => [Known]_vars
  <2> SUFFICES ASSUME TypeOK, UniqueKeys, Next PROVE Known
    OBVIOUS
  <2>1. EveryAnswersWell
    BY NextAnswersWell
  <2> QED BY <2>1 DEF EveryAnswersWell, AnswersWell
<1> QED BY <1>1, TypeCorrect, KeysStayUnique, PTL DEF Spec, InternalErrorsAreKnown

-----------------------------------------------------------------------------

(* What a handler checked before its await: the areas of the body, or the  *)
(* body over the row as it was.  Inductive by itself.                      *)
Revalidated ==
    \A r \in FarmRequests :
        /\ FarmAt(r, "create", "write") => validateAreas(farmCall[r].body)
        /\ FarmAt(r, "update", "write") =>
              validateAreas(Merged(farmCall[r].dto, farmCall[r].existing))

LEMMA InitRevalidated == Init => Revalidated
BY DEF Init, FarmInit, FarmAnswer, Revalidated, FarmAt

(* A request that was answered checked nothing it still has to write.      *)
LEMMA AnsweredHasNoWrite ==
    ASSUME TypeOK, NEW r \in FarmRequests, NEW status, NEW id,
           farmCall' = [farmCall EXCEPT ![r] = FarmAnswer(status, id)]
    PROVE  farmCall'[r].at = "idle"
BY DEF FarmAnswer, TypeOK, FarmCallTypeOK

LEMMA FarmsRevalidate ==
    ASSUME TypeOK, Revalidated, FarmsNext
    PROVE  Revalidated'
<1> PICK q \in FarmRequests :
        \/ PostFarm(q) \/ PatchFarm(q) \/ RequestFarmDelete(q)
        \/ HandleFarm(q) \/ LoseFarmRequest(q)
  BY DEF FarmsNext
<1>1. \A r \in FarmRequests \ {q} : farmCall'[r] = farmCall[r]
  BY DEF PostFarm, PatchFarm, RequestFarmDelete, AcceptFarm, HandleFarm, InsertFarm, ReadFarm,
         UpdateFarm, FindFarm, DeleteFarm, LoseFarmRequest, ThrowFarm, AnswerFarm,
         ThrowProducerNotFound, TypeOK, FarmCallTypeOK
<1> SUFFICES /\ FarmAt(q, "create", "write")' => validateAreas(farmCall'[q].body)
             /\ FarmAt(q, "update", "write")' =>
                   validateAreas(Merged(farmCall'[q].dto, farmCall'[q].existing))
  BY <1>1 DEF Revalidated, FarmAt
<1>2. CASE farmCall'[q].at # "write"
  BY <1>2 DEF FarmAt
<1>3. CASE farmCall'[q].at = "write"
  <2>1. \A status, id : farmCall' # [farmCall EXCEPT ![q] = FarmAnswer(status, id)]
    BY <1>3, AnsweredHasNoWrite
  <2>2. PostFarm(q) \/ PatchFarm(q) \/ RequestFarmDelete(q) \/ ReadFarm(q) \/ FindFarm(q)
    BY <2>1 DEF HandleFarm, InsertFarm, UpdateFarm, DeleteFarm, LoseFarmRequest, ThrowFarm,
                AnswerFarm, ThrowProducerNotFound
  <2>3. CASE PostFarm(q)
    <3>1. PICK body \in FarmBodies :
             /\ validateAreas(body)
             /\ farmCall' = [farmCall EXCEPT ![q] =
                   [op |-> "create", at |-> "write", body |-> body]]
      BY <2>1, <2>3 DEF PostFarm, AcceptFarm
    <3>2. farmCall'[q] = [op |-> "create", at |-> "write", body |-> body]
      BY <3>1 DEF TypeOK, FarmCallTypeOK
    <3> QED BY <3>1, <3>2 DEF FarmAt
  <2>4. CASE PatchFarm(q) \/ RequestFarmDelete(q)
    BY <1>3, <2>1, <2>4 DEF PatchFarm, RequestFarmDelete, AcceptFarm, TypeOK, FarmCallTypeOK
  <2>5. CASE ReadFarm(q)
    <3> DEFINE id == farmCall[q].id
               dto == farmCall[q].dto
    <3>1. /\ validateAreas(Merged(dto, farms[id]))
          /\ farmCall' = [farmCall EXCEPT ![q] =
                [op |-> "update", at |-> "write", id |-> id, dto |-> dto,
                 existing |-> farms[id]]]
      BY <2>1, <2>5 DEF ReadFarm, ThrowFarm, AnswerFarm
    <3>2. farmCall'[q] = [op |-> "update", at |-> "write", id |-> id, dto |-> dto,
                          existing |-> farms[id]]
      BY <3>1 DEF TypeOK, FarmCallTypeOK
    <3> QED BY <3>1, <3>2 DEF FarmAt
  <2>6. CASE FindFarm(q)
    <3>1. farmCall[q] \in DeletingFarm
      BY <2>6 DEF FindFarm, FarmAt, TypeOK, FarmCallTypeOK, CreatingFarm, ReadingFarm,
                  UpdatingFarm, DeletingFarm, FarmAnswered
    <3>2. farmCall'[q].op = "delete"
      BY <2>1, <2>6, <3>1
         DEF FindFarm, ThrowFarm, AnswerFarm, DeletingFarm, TypeOK, FarmCallTypeOK
    <3> QED BY <3>2 DEF FarmAt
  <2> QED BY <2>2, <2>3, <2>4, <2>5, <2>6
<1> QED BY <1>2, <1>3

LEMMA NextRevalidated == Revalidated /\ TypeOK /\ [Next]_vars => Revalidated'
<1>1. UNCHANGED farmCall => (Revalidated => Revalidated')
  BY DEF Revalidated, FarmAt
<1> QED BY <1>1, FarmsRevalidate DEF Next, vars, calls

(* A body no finer than the columns is stored as it came.                  *)
LEMMA CoarseIsStored ==
    ASSUME NEW row, ~Finer(Areas(row))
    PROVE  /\ row.total = Omitted \/ Stored(row.total) = row.total
           /\ row.arable = Omitted \/ Stored(row.arable) = row.arable
           /\ row.vegetation = Omitted \/ Stored(row.vegetation) = row.vegetation
BY DEF Finer, Areas

(* A farm that breaks the rule after a step and not before it was written  *)
(* by that step: by an INSERT ...                                          *)
LEMMA InsertKeepsRule ==
    ASSUME TypeOK, Revalidated, NEW r \in FarmRequests, InsertFarm(r), NEW f \in FarmIds,
           farms'[f] # farms[f], ~AreaRuleAt(f)'
    PROVE  WritesFineArea(f)
<1> DEFINE body == farmCall[r].body
<1>1. farmCall[r] \in CreatingFarm
  BY DEF InsertFarm, FarmAt, TypeOK, FarmCallTypeOK, CreatingFarm, ReadingFarm,
         UpdatingFarm, DeletingFarm, FarmAnswered
<1>2. body \in FarmBody /\ validateAreas(body)
  BY <1>1, FarmInputsAssumption DEF CreatingFarm, InsertFarm, Revalidated
<1>3. farms'[f] = Inserted(body) /\ \E status : AnswerFarm(r, status)
  BY DEF InsertFarm, TypeOK, StoreTypeOK
<1>4. farmCall'[r].at = "idle"
  BY <1>3, AnsweredHasNoWrite DEF AnswerFarm
<1>5. Finer(Areas(body))
  <2>1. SUFFICES ASSUME ~Finer(Areas(body)) PROVE FALSE
    OBVIOUS
  <2>2. Omitted \notin {body.total, body.arable, body.vegetation}
    BY <1>2, OmittedAssumption DEF FarmBody
  <2>3. /\ farms'[f].total = body.total
        /\ farms'[f].arable = body.arable
        /\ farms'[f].vegetation = body.vegetation
    BY <1>3, <2>1, <2>2, CoarseIsStored DEF Inserted
  <2> QED BY <1>2, <2>3 DEF AreaRuleAt, validateAreas
<1> QED BY <1>4, <1>5 DEF WritesFineArea, InsertFarm

(* ... or by an UPDATE.                                                    *)
LEMMA UpdateKeepsRule ==
    ASSUME TypeOK, Revalidated, NEW r \in FarmRequests, UpdateFarm(r), NEW f \in FarmIds,
           farms'[f] # farms[f], ~AreaRuleAt(f)'
    PROVE  WritesFineArea(f) \/ OverwritesChangedRow(f)
<1> DEFINE dto == farmCall[r].dto
           id == farmCall[r].id
<1>1. farmCall[r] \in UpdatingFarm
  BY DEF UpdateFarm, FarmAt, TypeOK, FarmCallTypeOK, CreatingFarm, ReadingFarm,
         UpdatingFarm, DeletingFarm, FarmAnswered
<1>2. validateAreas(Merged(dto, farmCall[r].existing))
  BY DEF UpdateFarm, Revalidated
<1>3. /\ id = f /\ farms'[f] = Patched(dto, farms[f])
      /\ \E status : AnswerFarm(r, status)
  BY DEF UpdateFarm, TypeOK, StoreTypeOK
<1>4. farmCall'[r].at = "idle"
  BY <1>3, AnsweredHasNoWrite DEF AnswerFarm
<1>5. CASE farmCall[r].existing # farms[f]
  BY <1>3, <1>4, <1>5 DEF OverwritesChangedRow, UpdateFarm
<1>6. CASE Finer(Areas(dto))
  BY <1>4, <1>6 DEF WritesFineArea, UpdateFarm
<1>7. CASE farmCall[r].existing = farms[f] /\ ~Finer(Areas(dto))
  <2>1. /\ farms'[f].total = Given(dto.total, farms[f].total)
        /\ farms'[f].arable = Given(dto.arable, farms[f].arable)
        /\ farms'[f].vegetation = Given(dto.vegetation, farms[f].vegetation)
    BY <1>3, <1>7, CoarseIsStored DEF Patched, Given
  <2>2. validateAreas(Merged(dto, farms[f]))
    BY <1>2, <1>7
  <2> QED BY <2>1, <2>2 DEF AreaRuleAt, validateAreas, Merged
<1> QED BY <1>5, <1>6, <1>7

(* AreaRuleLostOnlyByRaceOrRounding, for any number of farms and requests  *)
(* and any areas: there is no third way past the rule.                     *)
THEOREM NoThirdWay == Spec => AreaRuleLostOnlyByRaceOrRounding
<1>1. TypeOK /\ TypeOK' /\ Revalidated /\ [Next]_vars
        => [\A f \in FarmIds :
               AreaRuleAt(f) => \/ AreaRuleAt(f)'
                               \/ OverwritesChangedRow(f)
                               \/ WritesFineArea(f)]_vars
  <2> SUFFICES ASSUME TypeOK, TypeOK', Revalidated, Next, NEW f \in FarmIds,
                      AreaRuleAt(f), ~AreaRuleAt(f)'
               PROVE  OverwritesChangedRow(f) \/ WritesFineArea(f)
    OBVIOUS
  <2>1. farms'[f] # farms[f] /\ farms'[f] # Gone
    BY DEF AreaRuleAt, Live, NoRow, TypeOK, StoreTypeOK
  <2>2. \A F : ~CascadeFarms(F)
    BY <2>1 DEF CascadeFarms
  <2>3. FarmsNext
    BY <2>1, <2>2, ProducersStepKinds, SeasonsStep, CropsStep, PlantedStepKinds
       DEF Next, ProducersNext, SeasonsNext, CropsNext, PlantedCropsNext, otherThanProducers,
           otherThanSeasons, otherThanCrops, otherThanPlanted
  <2>4. PICK r \in FarmRequests : InsertFarm(r) \/ UpdateFarm(r)
    BY <2>1, <2>2, <2>3
       DEF FarmsNext, PostFarm, PatchFarm, RequestFarmDelete, AcceptFarm, HandleFarm, ReadFarm,
           FindFarm, DeleteFarm, LoseFarmRequest, tables
  <2> QED BY <2>1, <2>4, InsertKeepsRule, UpdateKeepsRule
<1> QED BY <1>1, InitRevalidated, NextRevalidated, TypeCorrect, PTL
        DEF Spec, AreaRuleLostOnlyByRaceOrRounding

=============================================================================
