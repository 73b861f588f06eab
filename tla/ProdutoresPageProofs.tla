------------------------- MODULE ProdutoresPageProofs -----------------------
(***************************************************************************)
(* The producers page keeps its types; what a form shows and what a save   *)
(* writes belong to the producer that is selected, and a page at rest      *)
(* lists what the API has, whatever overlaps and whatever fails, but for   *)
(* the cases that history names.  What the list shows is never invented:   *)
(* at worst it is what was.                                                *)
(***************************************************************************)
EXTENDS ProdutoresPage

(* The steps keep the types.                                               *)
LEMMA FetchStepType ==
    ASSUME TypeOK, FetchStep
    PROVE  TypeOK'
<1>1. CASE ReadProducers
  BY <1>1 DEF ReadProducers, TypeOK, Live, Statuses, Idle, server
<1>2. CASE FetchProdutoresFulfilled
  <2>1. lists.producers.items \in SUBSET ProducerIds
    BY <1>2 DEF FetchProdutoresFulfilled, TypeOK, Idle
  <2> QED BY <1>2, <2>1 DEF FetchProdutoresFulfilled, TypeOK, Statuses, server
<1>3. CASE FetchProdutoresRejected
  BY <1>3, BoundsAssumption DEF FetchProdutoresRejected, MayFail, TypeOK, Statuses, Idle, server
<1>4. ASSUME NEW g \in FarmFetches, ReadFarms(g)
      PROVE  TypeOK'
  <2>1. [f \in FarmIds |-> IF f \in LiveFarms THEN farms[f] ELSE Nobody] \in Owners
    BY DEF LiveFarms, Owners
  <2> QED BY <1>4, <2>1 DEF ReadFarms, TypeOK, server
<1>5. ASSUME NEW g \in FarmFetches, FetchFarmsFulfilled(g)
      PROVE  TypeOK'
  <2>1. lists.farms[g].farms \in Owners
    BY <1>5 DEF FetchFarmsFulfilled, TypeOK, Idle
  <2> QED BY <1>5, <2>1 DEF FetchFarmsFulfilled, TypeOK, Statuses, server
<1>6. ASSUME NEW g \in FarmFetches, FetchFarmsRejected(g)
      PROVE  TypeOK'
  BY <1>6, BoundsAssumption DEF FetchFarmsRejected, MayFail, TypeOK, Statuses, server
<1> QED BY <1>1, <1>2, <1>3, <1>4, <1>5, <1>6 DEF FetchStep

(* A fetchFarms that is dispatched changes no other one.                   *)
FarmCalls == {Idle} \cup [at : {"sent"}] \cup [at : {"read"}, farms : Owners]

LEMMA SentIs ==
    ASSUME NEW fetches \in [FarmFetches -> FarmCalls]
    PROVE  /\ Sent(fetches) \in [FarmFetches -> FarmCalls]
           /\ \A g \in FarmFetches : Sent(fetches)[g] \in {fetches[g], [at |-> "sent"]}
<1>1. [at |-> "sent"] \in FarmCalls
  BY DEF FarmCalls
<1> QED BY <1>1 DEF Sent

LEMMA FarmCallsInFlight == TypeOK => lists.farms \in [FarmFetches -> FarmCalls]
BY DEF TypeOK, FarmCalls

LEMMA FirstFetch ==
    /\ Sent(NoFetch) \in [FarmFetches -> FarmCalls]
    /\ \A g \in FarmFetches : Sent(NoFetch)[g] \in {Idle, [at |-> "sent"]}
<1>1. NoFetch \in [FarmFetches -> FarmCalls] /\ \A g \in FarmFetches : NoFetch[g] = Idle
  BY DEF NoFetch, FarmCalls
<1> QED BY <1>1, SentIs

LEMMA LoadStepType ==
    ASSUME TypeOK, NEW l \in Loads, LoadStep(l)
    PROVE  TypeOK'
<1>1. CASE ReadForEdit(l)
  <2>1. loads[l].id \in ProducerIds /\ loads[l].fills \in BOOLEAN
    BY <1>1 DEF ReadForEdit, TypeOK, Idle
  <2> QED BY <1>1, <2>1 DEF ReadForEdit, TypeOK, FarmsOf, server
<1>2. CASE LoadFulfilled(l)
  <2>1. /\ loads[l].id \in ProducerIds /\ loads[l].fills \in BOOLEAN
        /\ loads[l].drafts \in SUBSET FarmIds
    BY <1>2 DEF LoadFulfilled, TypeOK, Idle
  <2>2. page' \in [overlay : {"none", "create", "edit", "delete"},
                   selected : ProducerIds \cup {Nobody}, form : Forms]
    BY <1>2, <2>1, BoundsAssumption DEF LoadFulfilled, TypeOK, Forms
  <2>3. page'.overlay = page.overlay /\ page'.selected = page.selected
    BY <1>2 DEF LoadFulfilled, TypeOK
  <2> QED BY <1>2, <2>2, <2>3 DEF LoadFulfilled, TypeOK, Statuses, server
<1>3. CASE LoadRejected(l)
  BY <1>3, BoundsAssumption DEF LoadRejected, MayFail, TypeOK, Statuses, server
<1> QED BY <1>1, <1>2, <1>3 DEF LoadStep

(* What a save in flight is.                                               *)
LEMMA SaveIs ==
    ASSUME TypeOK
    PROVE  /\ save.at = "producer" => save \in Saves("producer", ProducerIds \cup {Nobody})
           /\ save.at = "farms" => save \in Saves("farms", ProducerIds)
           /\ save.at \in {"producer", "farms"} => save # Idle
BY DEF TypeOK, Saves, Idle

LEMMA SaveStepType ==
    ASSUME TypeOK, SaveStep
    PROVE  TypeOK'
<1>1. CASE CreateProdutor
  <2>1. save \in Saves("producer", ProducerIds \cup {Nobody})
    BY <1>1, SaveIs DEF CreateProdutor
  <2>2. save' \in Saves("farms", ProducerIds)
    BY <1>1, <2>1 DEF CreateProdutor, Saves
  <2> QED BY <1>1, <2>2 DEF CreateProdutor, TypeOK
<1>2. CASE UpdateProdutor
  <2>1. save \in Saves("producer", ProducerIds \cup {Nobody})
    BY <1>2, SaveIs DEF UpdateProdutor
  <2>2. save' \in Saves("farms", ProducerIds)
    BY <1>2, <2>1 DEF UpdateProdutor, Saves, Live
  <2> QED BY <1>2, <2>2 DEF UpdateProdutor, TypeOK, server
<1>3. CASE CreateFarm
  <2>1. save \in Saves("farms", ProducerIds)
    BY <1>3, SaveIs DEF CreateFarm
  <2>2. PICK f \in FarmIds : save' = [save EXCEPT !.new = @ - 1, !.saved[f] = save.id]
    BY <1>3 DEF CreateFarm
  <2>5. save.new - 1 \in 0 .. NewDrafts /\ [save.saved EXCEPT ![f] = save.id] \in Owners
    BY <1>3, <2>1, BoundsAssumption DEF CreateFarm, Saves, Owners
  <2>4. save' \in Saves("farms", ProducerIds)
    BY <2>1, <2>2, <2>5 DEF Saves
  <2>3. farms' \in [FarmIds -> ProducerIds \cup {Unborn, Gone}]
    BY <1>3, <2>1 DEF CreateFarm, TypeOK, Saves
  <2> QED BY <1>3, <2>4, <2>3 DEF CreateFarm, TypeOK
<1>4. ASSUME NEW f \in FarmIds, UpdateFarm(f)
      PROVE  TypeOK'
  <2>1. save \in Saves("farms", ProducerIds)
    BY <1>4, SaveIs DEF UpdateFarm
  <2>2. save' \in Saves("farms", ProducerIds)
    BY <1>4, <2>1 DEF UpdateFarm, Saves, Owners, LiveFarms
  <2> QED BY <1>4, <2>2 DEF UpdateFarm, TypeOK, server
<1>5. CASE SaveFulfilled
  <2>1. save.id \in ProducerIds /\ save.saved \in Owners
    BY <1>5 DEF SaveFulfilled, TypeOK, Saves, Idle
  <2> QED BY <1>5, <2>1 DEF SaveFulfilled, Excuse, TypeOK, Owners, Statuses, server
<1>6. CASE SaveRejected
  <2>1. /\ producers' \in [ProducerIds -> {Unborn, Gone, Alive}]
        /\ farms' \in [FarmIds -> ProducerIds \cup {Unborn, Gone}]
    BY <1>6 DEF SaveRejected, TypeOK, Live, server
  <2>2. failures' \in 0 .. MaxFailures
    BY <1>6, BoundsAssumption DEF SaveRejected, MayFail, TypeOK
  <2> QED BY <1>6, <2>1, <2>2 DEF SaveRejected, Excuse, TypeOK, Statuses
<1> QED BY <1>1, <1>2, <1>3, <1>4, <1>5, <1>6 DEF SaveStep

LEMMA RemoveStepType ==
    ASSUME TypeOK, RemoveStep
    PROVE  TypeOK'
<1>1. CASE RemoveFulfilled
  BY <1>1 DEF RemoveFulfilled, Cascade, Excuse, TypeOK, Owners
<1>2. CASE RemoveRejected
  BY <1>2, BoundsAssumption DEF RemoveRejected, Cascade, MayFail, Excuse, TypeOK, server
<1> QED BY <1>1, <1>2 DEF RemoveStep

LEMMA UserStepType ==
    ASSUME TypeOK, UserStep
    PROVE  TypeOK'
<1>1. CASE HandleRetry
  <2>1. Sent(lists.farms) \in [FarmFetches -> FarmCalls]
    BY FarmCallsInFlight, SentIs
  <2>2. lists' = [producers |-> [at |-> "sent"], farms |-> Sent(lists.farms)]
    BY <1>1 DEF HandleRetry
  <2>3. lists' \in [producers : {Idle} \cup [at : {"sent"}]
                                     \cup [at : {"read"}, items : SUBSET ProducerIds],
                    farms : [FarmFetches -> FarmCalls]]
    BY <2>1, <2>2
  <2>4. store'.status = "loading" /\ lists'.producers # Idle
    BY <1>1, <2>2 DEF HandleRetry, TypeOK, Idle
  <2> QED BY <1>1, <2>3, <2>4 DEF HandleRetry, FarmCalls, TypeOK, Statuses, server
<1>2. CASE OpenCreate
  BY <1>2, BoundsAssumption DEF OpenCreate, Blank, Forms, TypeOK, Statuses, server, calls
<1>3. CASE CloseOverlay
  BY <1>3 DEF CloseOverlay, TypeOK, Statuses, server, calls
<1>4. CASE CancelDelete
  BY <1>4 DEF CancelDelete, TypeOK, server, calls
<1>5. CASE RetryLoad
  <2>1. page.selected \in ProducerIds
    BY <1>5 DEF RetryLoad, TypeOK
  <2> QED BY <1>5, <2>1 DEF RetryLoad, Dispatch, TypeOK, Statuses, server
<1>6. CASE FillDraft
  BY <1>6, BoundsAssumption DEF FillDraft, TypeOK, Forms, server, calls
<1>7. CASE HandleSubmit
  BY <1>7 DEF HandleSubmit, Excuse, NoFarms, TypeOK, Forms, Saves, Owners, Statuses, server
<1>8. CASE HandleConfirmDelete
  BY <1>8 DEF HandleConfirmDelete, Excuse, TypeOK, server
<1>9. ASSUME NEW id \in ProducerIds, OpenEdit(id)
      PROVE  TypeOK'
  <2>1. loads' \in [Loads -> {Idle} \cup [at : {"sent"}, id : ProducerIds, fills : BOOLEAN]
                              \cup [at : {"read"}, id : ProducerIds, fills : BOOLEAN,
                                    drafts : SUBSET FarmIds]]
    BY <1>9 DEF OpenEdit, Dispatch, TypeOK
  <2>2. /\ page' \in [overlay : {"none", "create", "edit", "delete"},
                     selected : ProducerIds \cup {Nobody}, form : Forms]
        /\ page'.overlay = "edit" /\ page'.selected # Nobody
    BY <1>9, MarkersAssumption DEF OpenEdit, TypeOK
  <2> QED BY <1>9, <2>1, <2>2 DEF OpenEdit, TypeOK, Statuses, server
<1>10. ASSUME NEW id \in ProducerIds, OpenDelete(id)
       PROVE  TypeOK'
  BY <1>10, MarkersAssumption DEF OpenDelete, TypeOK, server, calls
<1> QED
  BY <1>1, <1>2, <1>3, <1>4, <1>5, <1>6, <1>7, <1>8, <1>9, <1>10 DEF UserStep

LEMMA NextType == TypeOK /\ [Next]_vars => TypeOK'
<1> SUFFICES ASSUME TypeOK, [Next]_vars
             PROVE  TypeOK'
  OBVIOUS
<1>1. CASE UNCHANGED vars
  BY <1>1 DEF vars, server, calls, TypeOK
<1> QED
  BY <1>1, FetchStepType, LoadStepType, SaveStepType, RemoveStepType, UserStepType DEF Next

(* The producers page keeps its types, whatever fails and in whichever     *)
(* order its calls are answered.                                           *)
THEOREM PageTypeCorrect == Spec => []TypeOK
<1>1. Init => TypeOK
  <2> SUFFICES ASSUME Init PROVE TypeOK
    OBVIOUS
  <2>1. lists \in [producers : [at : {"sent"}], farms : [FarmFetches -> FarmCalls]]
    BY FirstFetch DEF Init
  <2> QED
    BY <2>1, BoundsAssumption, StoredAssumption
       DEF Init, FarmCalls, TypeOK, Statuses, Idle, Blank, Forms, NoFarms, Owners
<1> QED BY <1>1, NextType, PTL DEF Spec

-----------------------------------------------------------------------------
(* The form.                                                               *)

(* Farms of drafts stay with their producer until they go.                 *)
OwnFarms(drafts, id) == \A f \in drafts : farms[f] \in {id, Gone}

DraftsOK ==
    /\ \A l \in Loads : loads[l].at = "read" => OwnFarms(loads[l].drafts, loads[l].id)
    /\ OwnFarms(page.form.drafts, page.form.from)
    /\ page.form.from = Nobody => page.form.drafts = {}

(* While nothing excuses the form, one load at most is in flight, for the  *)
(* producer whose spinner is on the screen.                                *)
LoadIsAwaited(l) ==
    /\ page.overlay = "edit" /\ store.editing = "loading"
    /\ loads[l].id = page.selected /\ loads[l].fills

LoadsOK ==
    /\ \A l \in Loads : Loading(l) => LoadIsAwaited(l)
    /\ \A l, m \in Loads : Loading(l) /\ Loading(m) => l = m

SaveOK ==
    save # Idle => /\ OwnFarms(save.drafts, save.id)
                   /\ save.id = Nobody => save.drafts = {}

FormOK == "form" \notin excuses => FormShowsSelected /\ LoadsOK /\ SaveOK

(* A farm never changes hands.                                             *)
LEMMA FarmsKeepTheirProducer ==
    ASSUME TypeOK, [Next]_vars, NEW f \in FarmIds, farms[f] # Unborn
    PROVE  farms'[f] \in {farms[f], Gone}
<1>1. CASE UNCHANGED farms
  BY <1>1
<1>2. CASE CreateFarm
  BY <1>2 DEF CreateFarm, TypeOK
<1>3. CASE SaveRejected
  BY <1>3 DEF SaveRejected, TypeOK, server
<1>4. CASE RemoveStep
  BY <1>4 DEF RemoveStep, RemoveFulfilled, RemoveRejected, Cascade, TypeOK, server
<1>5. CASE UserStep \/ FetchStep \/ \E l \in Loads : LoadStep(l)
  BY <1>1, <1>5
     DEF UserStep, HandleRetry, OpenCreate, CloseOverlay, CancelDelete, RetryLoad, FillDraft,
         HandleSubmit, HandleConfirmDelete, OpenEdit, OpenDelete,
         FetchStep, ReadProducers, FetchProdutoresFulfilled, FetchProdutoresRejected,
         ReadFarms, FetchFarmsFulfilled, FetchFarmsRejected,
         LoadStep, ReadForEdit, LoadFulfilled, LoadRejected, server
<1>6. CASE CreateProdutor \/ UpdateProdutor \/ SaveFulfilled \/ \E g \in FarmIds : UpdateFarm(g)
  BY <1>1, <1>6 DEF CreateProdutor, UpdateProdutor, SaveFulfilled, UpdateFarm, server
<1>7. CASE UNCHANGED vars
  BY <1>1, <1>7 DEF vars, server
<1> QED
  BY <1>2, <1>3, <1>4, <1>5, <1>6, <1>7 DEF Next, SaveStep

(* The drafts of a load are read once; those of the form come with the     *)
(* name of their producer.                                                 *)
LEMMA DraftsOfLoads ==
    ASSUME TypeOK, [Next]_vars, NEW l \in Loads, loads'[l].at = "read"
    PROVE  loads'[l] = loads[l] \/ ReadForEdit(l)
<1>1. CASE \E m \in Loads : LoadStep(m)
  BY <1>1 DEF LoadStep, ReadForEdit, LoadFulfilled, LoadRejected, TypeOK, Idle
<1>2. CASE (\E id \in ProducerIds : OpenEdit(id)) \/ RetryLoad
  <2>1. PICK m \in Loads : \E id, fills : Dispatch(m, id, fills)
    BY <1>2 DEF OpenEdit, RetryLoad
  <2> QED BY <2>1 DEF Dispatch, TypeOK
<1>3. CASE UNCHANGED loads
  BY <1>3
<1>4. CASE \/ HandleRetry \/ OpenCreate \/ CloseOverlay \/ CancelDelete \/ FillDraft
           \/ HandleSubmit \/ HandleConfirmDelete \/ \E id \in ProducerIds : OpenDelete(id)
  BY <1>3, <1>4
     DEF HandleRetry, OpenCreate, CloseOverlay, CancelDelete, FillDraft,
         HandleSubmit, HandleConfirmDelete, OpenDelete, calls
<1>5. CASE FetchStep \/ SaveStep \/ RemoveStep \/ UNCHANGED vars
  BY <1>3, <1>5
     DEF FetchStep, ReadProducers, FetchProdutoresFulfilled, FetchProdutoresRejected,
         ReadFarms, FetchFarmsFulfilled, FetchFarmsRejected,
         SaveStep, CreateProdutor, UpdateProdutor, CreateFarm, UpdateFarm, SaveFulfilled,
         SaveRejected, RemoveStep, RemoveFulfilled, RemoveRejected, vars, calls
<1> QED BY <1>1, <1>2, <1>4, <1>5 DEF Next, UserStep

LEMMA DraftsOfForm ==
    ASSUME TypeOK, [Next]_vars
    PROVE  \/ page'.form.from = page.form.from /\ page'.form.drafts = page.form.drafts
           \/ page'.form = Blank
           \/ \E l \in Loads : /\ loads[l].at = "read" /\ UNCHANGED farms
                               /\ page'.form.from = loads[l].id
                               /\ page'.form.drafts = loads[l].drafts
<1>1. ASSUME NEW l \in Loads, LoadStep(l)
      PROVE  \/ UNCHANGED page
             \/ /\ loads[l].at = "read" /\ UNCHANGED farms
                /\ page'.form.from = loads[l].id
                /\ page'.form.drafts = loads[l].drafts
  BY <1>1 DEF LoadStep, ReadForEdit, LoadFulfilled, LoadRejected, TypeOK, server
<1>2. CASE CloseOverlay \/ CancelDelete
  BY <1>2 DEF CloseOverlay, CancelDelete, TypeOK
<1>8. CASE OpenCreate
  BY <1>8 DEF OpenCreate
<1>9. ASSUME NEW id \in ProducerIds, OpenEdit(id) \/ OpenDelete(id)
      PROVE  page'.form = page.form
  BY <1>9 DEF OpenEdit, OpenDelete, TypeOK
<1>7. CASE FillDraft
  <2>1. page.form \in Forms /\ page'.form = [page.form EXCEPT !.new = page.form.new + 1]
    BY <1>7 DEF FillDraft, TypeOK
  <2> QED BY <2>1 DEF Forms
<1>3. CASE HandleRetry \/ RetryLoad \/ HandleSubmit \/ HandleConfirmDelete
  BY <1>3 DEF HandleRetry, RetryLoad, HandleSubmit, HandleConfirmDelete
<1>4. CASE FetchStep
  BY <1>4
     DEF FetchStep, ReadProducers, FetchProdutoresFulfilled, FetchProdutoresRejected,
         ReadFarms, FetchFarmsFulfilled, FetchFarmsRejected
<1>5. CASE SaveStep
  BY <1>5
     DEF SaveStep, CreateProdutor, UpdateProdutor, CreateFarm, UpdateFarm, SaveFulfilled,
         SaveRejected, TypeOK
<1>6. CASE RemoveStep \/ UNCHANGED vars
  BY <1>6 DEF RemoveStep, RemoveFulfilled, RemoveRejected, vars, TypeOK
<1> QED BY <1>1, <1>2, <1>3, <1>4, <1>5, <1>6, <1>7, <1>8, <1>9 DEF Next, UserStep

LEMMA DraftsInductive ==
    ASSUME TypeOK, DraftsOK, [Next]_vars
    PROVE  DraftsOK'
<1>1. ASSUME NEW l \in Loads, loads'[l].at = "read"
      PROVE  \A f \in loads'[l].drafts : farms'[f] \in {loads'[l].id, Gone}
  <2>1. CASE loads'[l] = loads[l]
    <3>1. /\ loads[l].drafts \in SUBSET FarmIds /\ loads[l].id \in ProducerIds
          /\ OwnFarms(loads[l].drafts, loads[l].id)
      BY <1>1, <2>1 DEF TypeOK, Idle, DraftsOK
    <3>2. \A f \in loads[l].drafts : farms'[f] \in {loads[l].id, Gone}
      BY <3>1, FarmsKeepTheirProducer, MarkersAssumption DEF OwnFarms
    <3> QED BY <2>1, <3>2
  <2>2. CASE ReadForEdit(l)
    BY <2>2 DEF ReadForEdit, FarmsOf, TypeOK, server
  <2> QED BY <1>1, <2>1, <2>2, DraftsOfLoads
<1>2. /\ \A f \in page'.form.drafts : farms'[f] \in {page'.form.from, Gone}
      /\ page'.form.from = Nobody => page'.form.drafts = {}
  <2>1. CASE page'.form.from = page.form.from /\ page'.form.drafts = page.form.drafts
    <3>1. /\ page.form.drafts \in SUBSET FarmIds /\ page.form.from \in ProducerIds \cup {Nobody}
          /\ \A f \in page.form.drafts : farms[f] \in {page.form.from, Gone}
          /\ page.form.from = Nobody => page.form.drafts = {}
      BY DEF TypeOK, Forms, DraftsOK, OwnFarms
    <3> QED BY <2>1, <3>1, FarmsKeepTheirProducer, MarkersAssumption
  <2>2. CASE page'.form = Blank
    BY <2>2 DEF Blank
  <2>3. CASE \E l \in Loads : /\ loads[l].at = "read" /\ UNCHANGED farms
                              /\ page'.form.from = loads[l].id
                              /\ page'.form.drafts = loads[l].drafts
    <3>1. PICK l \in Loads : /\ loads[l].at = "read" /\ UNCHANGED farms
                             /\ page'.form.from = loads[l].id
                             /\ page'.form.drafts = loads[l].drafts
      BY <2>3
    <3>2. loads[l].id \in ProducerIds
      BY <3>1 DEF TypeOK, Idle
    <3> QED BY <3>1, <3>2, MarkersAssumption DEF DraftsOK, OwnFarms
  <2> QED BY <2>1, <2>2, <2>3, DraftsOfForm
<1> QED BY <1>1, <1>2 DEF DraftsOK, OwnFarms

(* A step that changes nothing the user sees of the form, and no load.     *)
LEMMA SameFormIsRight ==
    ASSUME FormOK, "form" \notin excuses, UNCHANGED loads,
           page'.overlay = page.overlay, page'.selected = page.selected,
           page'.form.from = page.form.from, store'.editing = store.editing
    PROVE  FormShowsSelected' /\ LoadsOK'
<1>1. FormShowsSelected /\ LoadsOK
  BY DEF FormOK
<1>2. FormShowsSelected'
  BY <1>1 DEF FormShowsSelected, FormShown
<1>3. LoadsOK'
  BY <1>1 DEF LoadsOK, LoadIsAwaited, Loading
<1> QED BY <1>2, <1>3

(* The overlay is closed while no load is in flight.                       *)
LEMMA ClosedFormIsRight ==
    ASSUME UNCHANGED loads, \A l \in Loads : ~Loading(l), page'.overlay = "none"
    PROVE  FormShowsSelected' /\ LoadsOK'
<1>1. \A l \in Loads : ~Loading(l)'
  BY DEF Loading
<1>2. LoadsOK'
  BY <1>1 DEF LoadsOK
<1> QED BY <1>2 DEF FormShowsSelected, FormShown

(* Nothing is in flight when an overlay opens or a form is closed.         *)
LEMMA NoLoadElsewhere ==
    ASSUME FormOK, "form" \notin excuses,
           page.overlay # "edit" \/ store.editing # "loading"
    PROVE  \A l \in Loads : ~Loading(l)
BY DEF FormOK, LoadsOK, LoadIsAwaited

LEMMA OpenEditIsRight ==
    ASSUME TypeOK, FormOK, NEW id \in ProducerIds, OpenEdit(id), "form" \notin excuses'
    PROVE  FormShowsSelected' /\ LoadsOK'
<1>1. \A l \in Loads : ~Loading(l)
  <2>1. CASE "form" \in excuses
    BY <2>1 DEF OpenEdit
  <2>2. CASE "form" \notin excuses
    BY <2>2, NoLoadElsewhere DEF OpenEdit, RowsShown
  <2> QED BY <2>1, <2>2
<1>2. PICK l \in Loads : Dispatch(l, id, TRUE)
  BY DEF OpenEdit
<1>3. \A m \in Loads : Loading(m)' => m = l
  BY <1>1, <1>2 DEF Dispatch, Loading, TypeOK
<1>4. page'.overlay = "edit" /\ page'.selected = id /\ store'.editing = "loading"
  BY DEF OpenEdit, TypeOK
<1>5. loads'[l].id = id /\ loads'[l].fills
  BY <1>2 DEF Dispatch, TypeOK
<1> QED
  BY <1>3, <1>4, <1>5 DEF FormShowsSelected, FormShown, LoadsOK, LoadIsAwaited

LEMMA LoadStepIsRight ==
    ASSUME TypeOK, FormOK, NEW l \in Loads, LoadStep(l), "form" \notin excuses'
    PROVE  FormShowsSelected' /\ LoadsOK'
<1>1. /\ "form" \notin excuses /\ Loading(l)
      /\ FormShowsSelected /\ LoadsOK
  BY DEF LoadStep, ReadForEdit, LoadFulfilled, LoadRejected, FormOK, Loading
<1>2. LoadIsAwaited(l) /\ \A m \in Loads : Loading(m) => m = l
  BY <1>1 DEF LoadsOK
<1>3. CASE ReadForEdit(l)
  <2>1. /\ loads'[l].id = loads[l].id /\ loads'[l].fills = loads[l].fills
        /\ \A m \in Loads : Loading(m)' => m = l
    BY <1>2, <1>3 DEF ReadForEdit, TypeOK, Loading
  <2>2. UNCHANGED <<page, store>>
    BY <1>3 DEF ReadForEdit
  <2> QED
    BY <1>1, <1>2, <2>1, <2>2 DEF LoadsOK, LoadIsAwaited, FormShowsSelected, FormShown
<1>4. CASE LoadFulfilled(l) \/ LoadRejected(l)
  <2>1. \A m \in Loads : ~Loading(m)'
    BY <1>2, <1>4 DEF LoadFulfilled, LoadRejected, TypeOK, Loading, Idle
  <2>2. CASE LoadFulfilled(l)
    BY <1>2, <2>1, <2>2 DEF LoadFulfilled, LoadIsAwaited, LoadsOK, FormShowsSelected, TypeOK
  <2>3. CASE LoadRejected(l)
    <3>1. page' = page /\ store'.editing = "failed"
      BY <2>3 DEF LoadRejected, TypeOK
    <3> QED
      BY <1>2, <2>1, <3>1 DEF LoadIsAwaited, LoadsOK, FormShowsSelected, FormShown
  <2> QED BY <1>4, <2>2, <2>3
<1> QED BY <1>3, <1>4 DEF LoadStep

LEMMA FormStaysRight ==
    ASSUME TypeOK, FormOK, [Next]_vars, "form" \notin excuses'
    PROVE  FormShowsSelected' /\ LoadsOK'
<1>1. CASE HandleRetry
  <2>1. "form" \notin excuses
    BY <1>1 DEF HandleRetry
  <2> QED BY <1>1, <2>1, SameFormIsRight DEF HandleRetry, TypeOK
<1>2. CASE OpenCreate
  <2>1. \A l \in Loads : ~Loading(l)
    BY <1>2, NoLoadElsewhere DEF OpenCreate
  <2>2. \A l \in Loads : ~Loading(l)'
    BY <1>2, <2>1 DEF OpenCreate, Loading, calls
  <2> QED BY <1>2, <2>2 DEF OpenCreate, Blank, LoadsOK, FormShowsSelected
<1>3. CASE CloseOverlay
  <2>1. "form" \notin excuses /\ UNCHANGED loads /\ page'.overlay = "none"
    BY <1>3 DEF CloseOverlay, TypeOK, calls
  <2>2. page.overlay # "edit" \/ store.editing # "loading"
    BY <1>3 DEF CloseOverlay, FormShown
  <2> QED BY <2>1, <2>2, NoLoadElsewhere, ClosedFormIsRight
<1>4. CASE CancelDelete
  <2>1. "form" \notin excuses /\ UNCHANGED loads /\ page'.overlay = "none"
    BY <1>4 DEF CancelDelete, TypeOK, calls
  <2>2. page.overlay # "edit"
    BY <1>4 DEF CancelDelete
  <2> QED BY <2>1, <2>2, NoLoadElsewhere, ClosedFormIsRight
<1>5. CASE RetryLoad
  BY <1>5 DEF RetryLoad
<1>6. CASE FillDraft
  <2>1. /\ page'.overlay = page.overlay /\ page'.selected = page.selected
        /\ page'.form = [page.form EXCEPT !.new = page.form.new + 1]
    BY <1>6 DEF FillDraft, TypeOK
  <2>2. page'.form.from = page.form.from
    BY <2>1 DEF TypeOK, Forms
  <2> QED BY <1>6, <2>1, <2>2, SameFormIsRight DEF FillDraft, calls
<1>7. CASE HandleSubmit
  <2>1. "form" \notin excuses
    BY <1>7 DEF HandleSubmit, Excuse
  <2> QED BY <1>7, <2>1, SameFormIsRight DEF HandleSubmit, TypeOK
<1>8. CASE HandleConfirmDelete
  <2>1. "form" \notin excuses
    BY <1>8 DEF HandleConfirmDelete, Excuse
  <2> QED BY <1>8, <2>1, SameFormIsRight DEF HandleConfirmDelete
<1>9. ASSUME NEW id \in ProducerIds, OpenDelete(id)
      PROVE  FormShowsSelected' /\ LoadsOK'
  <2>1. \A l \in Loads : ~Loading(l)
    BY <1>9, NoLoadElsewhere DEF OpenDelete, RowsShown
  <2>2. \A l \in Loads : ~Loading(l)'
    BY <1>9, <2>1 DEF OpenDelete, Loading, calls
  <2>3. page'.overlay = "delete"
    BY <1>9 DEF OpenDelete, TypeOK
  <2> QED BY <2>2, <2>3 DEF LoadsOK, FormShowsSelected, FormShown
<1>10. CASE FetchStep
  BY <1>10, SameFormIsRight
     DEF FetchStep, ReadProducers, FetchProdutoresFulfilled, FetchProdutoresRejected,
         ReadFarms, FetchFarmsFulfilled, FetchFarmsRejected, TypeOK
<1>11. CASE SaveStep
  <2>1. CASE CreateProdutor \/ UpdateProdutor \/ CreateFarm \/ \E f \in FarmIds : UpdateFarm(f)
    BY <2>1, SameFormIsRight DEF CreateProdutor, UpdateProdutor, CreateFarm, UpdateFarm
  <2>2. CASE SaveFulfilled
    <3>1. UNCHANGED loads /\ page'.overlay = "none" /\ \A l \in Loads : ~Loading(l)
      BY <2>2 DEF SaveFulfilled, Excuse, TypeOK
    <3> QED BY <3>1, ClosedFormIsRight
  <2>3. CASE SaveRejected
    <3>1. "form" \notin excuses
      BY <2>3 DEF SaveRejected, Excuse
    <3> QED BY <2>3, <3>1, SameFormIsRight DEF SaveRejected, TypeOK
  <2> QED BY <1>11, <2>1, <2>2, <2>3 DEF SaveStep
<1>12. CASE RemoveStep
  <2>1. CASE RemoveFulfilled
    <3>1. UNCHANGED loads /\ page'.overlay = "none" /\ \A l \in Loads : ~Loading(l)
      BY <2>1 DEF RemoveFulfilled, Excuse, TypeOK
    <3> QED BY <3>1, ClosedFormIsRight
  <2>2. CASE RemoveRejected
    <3>1. "form" \notin excuses
      BY <2>2 DEF RemoveRejected, Excuse
    <3> QED BY <2>2, <3>1, SameFormIsRight DEF RemoveRejected
  <2> QED BY <1>12, <2>1, <2>2 DEF RemoveStep
<1>13. CASE UNCHANGED vars
  BY <1>13, SameFormIsRight DEF vars, calls
<1> QED
  BY <1>1, <1>2, <1>3, <1>4, <1>5, <1>6, <1>7, <1>8, <1>9, <1>10, <1>11, <1>12, <1>13,
     OpenEditIsRight, LoadStepIsRight DEF Next, UserStep

(* A save writes the drafts of the form it was submitted with.             *)
LEMMA SaveStaysRight ==
    ASSUME TypeOK, DraftsOK, FormOK, [Next]_vars, "form" \notin excuses'
    PROVE  SaveOK'
<1>1. ASSUME "form" \notin excuses, save # Idle,
             save'.drafts \subseteq save.drafts, save'.id = save.id
      PROVE  SaveOK'
  <2>1. /\ save.drafts \in SUBSET FarmIds /\ save.id \in ProducerIds \cup {Nobody}
        /\ \A f \in save.drafts : farms[f] \in {save.id, Gone}
        /\ save.id = Nobody => save.drafts = {}
    BY <1>1 DEF TypeOK, Saves, FormOK, SaveOK, OwnFarms
  <2>2. \A f \in save.drafts : farms'[f] \in {save.id, Gone}
    BY <2>1, FarmsKeepTheirProducer, MarkersAssumption
  <2> QED BY <1>1, <2>1, <2>2 DEF SaveOK, OwnFarms
<1>2. CASE save' = Idle
  BY <1>2 DEF SaveOK
<1>3. CASE UNCHANGED save /\ "form" \notin excuses
  BY <1>1, <1>3 DEF SaveOK
<1>4. CASE HandleSubmit
  <2>1. "form" \notin excuses /\ UNCHANGED farms
    BY <1>4 DEF HandleSubmit, Excuse, server
  <2>2. /\ save'.drafts = page.form.drafts
        /\ save'.id = page.form.from
    BY <1>4, <2>1 DEF HandleSubmit, FormOK, FormShowsSelected, FormShown, TypeOK
  <2> QED BY <2>1, <2>2 DEF SaveOK, DraftsOK, OwnFarms
<1>5. CASE CreateProdutor
  <2>1. "form" \notin excuses /\ save.drafts = {} /\ save'.drafts = save.drafts
    BY <1>5 DEF CreateProdutor, FormOK, SaveOK, TypeOK, Saves, Idle
  <2> QED BY <2>1 DEF SaveOK, OwnFarms
<1>6. CASE UpdateProdutor \/ CreateFarm \/ \E f \in FarmIds : UpdateFarm(f)
  <2>1. "form" \notin excuses /\ save.at \in {"producer", "farms"}
    BY <1>6 DEF UpdateProdutor, CreateFarm, UpdateFarm
  <2>2. save \in Saves("producer", ProducerIds \cup {Nobody}) \cup Saves("farms", ProducerIds)
    BY <2>1, SaveIs
  <2>3. save # Idle
    BY <2>1, SaveIs
  <2>4. save'.drafts \subseteq save.drafts /\ save'.id = save.id
    <3>1. CASE UpdateProdutor
      BY <3>1, <2>2 DEF UpdateProdutor, Saves
    <3>2. CASE CreateFarm
      BY <3>2, <2>2 DEF CreateFarm, Saves
    <3>3. ASSUME NEW f \in FarmIds, UpdateFarm(f)
          PROVE  save'.drafts \subseteq save.drafts /\ save'.id = save.id
      BY <3>3, <2>2 DEF UpdateFarm, Saves
    <3> QED BY <1>6, <3>1, <3>2, <3>3
  <2> QED BY <1>1, <2>1, <2>3, <2>4
<1>7. ASSUME NEW id \in ProducerIds, OpenEdit(id)
      PROVE  SaveOK'
  BY <1>2, <1>3, <1>7 DEF OpenEdit
<1>8. CASE SaveFulfilled \/ SaveRejected
  BY <1>2, <1>8 DEF SaveFulfilled, SaveRejected
<1>9. CASE \/ HandleRetry \/ OpenCreate \/ CloseOverlay \/ CancelDelete \/ RetryLoad \/ FillDraft
           \/ HandleConfirmDelete \/ \E id \in ProducerIds : OpenDelete(id)
  BY <1>3, <1>9
     DEF HandleRetry, OpenCreate, CloseOverlay, CancelDelete, RetryLoad, FillDraft,
         HandleConfirmDelete, OpenDelete, Excuse, calls
<1>10. CASE FetchStep \/ (\E l \in Loads : LoadStep(l)) \/ RemoveStep \/ UNCHANGED vars
  BY <1>3, <1>10
     DEF FetchStep, ReadProducers, FetchProdutoresFulfilled, FetchProdutoresRejected,
         ReadFarms, FetchFarmsFulfilled, FetchFarmsRejected,
         LoadStep, ReadForEdit, LoadFulfilled, LoadRejected,
         RemoveStep, RemoveFulfilled, RemoveRejected, Excuse, vars, calls
<1> QED
  BY <1>4, <1>5, <1>6, <1>7, <1>8, <1>9, <1>10 DEF Next, UserStep, SaveStep

LEMMA FormIsInductive == Spec => [](DraftsOK /\ FormOK)
<1>1. Init => DraftsOK /\ FormOK
  BY DEF Init, DraftsOK, OwnFarms, FormOK, FormShowsSelected, FormShown, LoadsOK, SaveOK,
         Loading, Idle, Blank
<1>2. TypeOK /\ DraftsOK /\ FormOK /\ [Next]_vars => DraftsOK' /\ FormOK'
  BY DraftsInductive, FormStaysRight, SaveStaysRight DEF FormOK
<1> QED BY <1>1, <1>2, PageTypeCorrect, PTL DEF Spec

(* The form of an edition shows the producer it is about to save, but for  *)
(* a load that was retried and one whose overlay was closed under it.      *)
THEOREM FormIsOfTheSelected == Spec => []FormShowsSelectedOtherwise
<1>1. FormOK => FormShowsSelectedOtherwise
  BY DEF FormOK, FormShowsSelectedOtherwise
<1> QED BY <1>1, FormIsInductive, PTL

(* With the same exceptions, a save reaches farms of its own producer only.*)
THEOREM SavesStayAtHome == Spec => []SavesItsOwnFarms
<1>1. FormOK => SavesItsOwnFarms
  BY DEF FormOK, SaveOK, OwnFarms, SavesItsOwnFarms
<1> QED BY <1>1, FormIsInductive, PTL

-----------------------------------------------------------------------------
(* The list.                                                               *)

Actual(f) == IF f \in LiveFarms THEN farms[f] ELSE Nobody

(* The list as the answer to the save in flight will leave it.             *)
NextItems == IF save.at = "farms" THEN store.items \cup {save.id} ELSE store.items
NextFarm(f) ==
    IF save.at = "farms" /\ save.saved[f] # Nobody THEN save.saved[f] ELSE store.farms[f]

(* While nothing excuses the list, of the fetches, the save and the        *)
(* removal one kind at most is in flight; every fetch has read what is     *)
(* still there, and the list is what the API has but for what the save     *)
(* will tell it.                                                           *)
FarmsAreHere == \A g \in FarmFetches : lists.farms[g] = Idle

AloneOK ==
    /\ save = Idle \/ remove = Idle
    /\ save # Idle \/ remove # Idle => ~Fetching
    /\ save.at = "farms" => save.id \in Live

ReadsOK ==
    /\ lists.producers.at = "read" => lists.producers.items = Live
    /\ \A g \in FarmFetches :
          lists.farms[g].at = "read" => \A f \in FarmIds : lists.farms[g].farms[f] = Actual(f)

ItemsOK ==
    /\ lists.producers = Idle /\ store.status = "succeeded" => NextItems = Live
    /\ FarmsAreHere /\ store.farmsStatus = "succeeded" =>
          \A f \in FarmIds : NextFarm(f) = Actual(f)

NothingSavedYet == save.at = "producer" => save.saved = NoFarms

ListOK ==
    /\ NothingSavedYet
    /\ "list" \notin excuses => AloneOK /\ ReadsOK /\ ItemsOK

LEMMA NothingSavedInductive ==
    ASSUME TypeOK, NothingSavedYet, [Next]_vars
    PROVE  NothingSavedYet'
<1>1. CASE UNCHANGED save
  BY <1>1 DEF NothingSavedYet
<1>2. CASE save' = Idle
  BY <1>2 DEF NothingSavedYet, Idle
<1>3. CASE HandleSubmit
  BY <1>3 DEF HandleSubmit, NothingSavedYet
<1>4. CASE CreateProdutor \/ UpdateProdutor
  <2>1. save \in Saves("producer", ProducerIds \cup {Nobody})
    BY <1>4, SaveIs DEF CreateProdutor, UpdateProdutor
  <2>2. save'.at = "farms"
    BY <1>4, <2>1 DEF CreateProdutor, UpdateProdutor, Saves
  <2> QED BY <2>2 DEF NothingSavedYet
<1>5. CASE CreateFarm \/ \E f \in FarmIds : UpdateFarm(f)
  <2>1. save \in Saves("farms", ProducerIds)
    BY <1>5, SaveIs DEF CreateFarm, UpdateFarm
  <2>2. CASE CreateFarm
    BY <2>1, <2>2 DEF CreateFarm, Saves, NothingSavedYet
  <2>3. ASSUME NEW f \in FarmIds, UpdateFarm(f)
        PROVE  NothingSavedYet'
    BY <2>1, <2>3 DEF UpdateFarm, Saves, NothingSavedYet
  <2> QED BY <1>5, <2>2, <2>3
<1>6. CASE SaveFulfilled \/ SaveRejected
  BY <1>2, <1>6 DEF SaveFulfilled, SaveRejected
<1>7. CASE \/ HandleRetry \/ OpenCreate \/ CloseOverlay \/ CancelDelete \/ RetryLoad \/ FillDraft
           \/ HandleConfirmDelete \/ \E id \in ProducerIds : OpenEdit(id) \/ OpenDelete(id)
  BY <1>1, <1>7
     DEF HandleRetry, OpenCreate, CloseOverlay, CancelDelete, RetryLoad, FillDraft,
         HandleConfirmDelete, OpenEdit, OpenDelete, calls
<1>8. CASE FetchStep \/ (\E l \in Loads : LoadStep(l)) \/ RemoveStep \/ UNCHANGED vars
  BY <1>1, <1>8
     DEF FetchStep, ReadProducers, FetchProdutoresFulfilled, FetchProdutoresRejected,
         ReadFarms, FetchFarmsFulfilled, FetchFarmsRejected,
         LoadStep, ReadForEdit, LoadFulfilled, LoadRejected,
         RemoveStep, RemoveFulfilled, RemoveRejected, vars, calls
<1> QED
  BY <1>3, <1>4, <1>5, <1>6, <1>7, <1>8 DEF Next, UserStep, SaveStep

(* A step that touches neither the tables nor the list, and no call but    *)
(* loads.                                                                  *)
LEMMA SameListIsRight ==
    ASSUME AloneOK, ReadsOK, ItemsOK, UNCHANGED <<server, lists, save, remove>>,
           store'.items = store.items, store'.status = store.status,
           store'.farms = store.farms, store'.farmsStatus = store.farmsStatus
    PROVE  AloneOK' /\ ReadsOK' /\ ItemsOK'
BY DEF AloneOK, ReadsOK, ItemsOK, Fetching, FarmsAreHere, NextItems, NextFarm, Actual,
       Live, LiveFarms, server

LEMMA FetchKeepsList ==
    ASSUME TypeOK, AloneOK, ReadsOK, ItemsOK, FetchStep
    PROVE  AloneOK' /\ ReadsOK' /\ ItemsOK'
<1>1. UNCHANGED <<server, save, remove>>
  BY DEF FetchStep, ReadProducers, FetchProdutoresFulfilled, FetchProdutoresRejected,
         ReadFarms, FetchFarmsFulfilled, FetchFarmsRejected
<1>2. Live' = Live /\ LiveFarms' = LiveFarms /\ \A f \in FarmIds : Actual(f)' = Actual(f)
  BY <1>1 DEF Live, LiveFarms, Actual, server
<1>3. Fetching
  <2>1. lists.producers.at # "idle" \/ \E g \in FarmFetches : lists.farms[g].at # "idle"
    BY DEF FetchStep, ReadProducers, FetchProdutoresFulfilled, FetchProdutoresRejected,
           ReadFarms, FetchFarmsFulfilled, FetchFarmsRejected
  <2> QED BY <2>1 DEF Fetching, Idle
<1>4. save = Idle /\ remove = Idle
  BY <1>3 DEF AloneOK
<1>5. AloneOK'
  BY <1>1, <1>4 DEF AloneOK, Idle
<1>6. /\ NextItems = store.items /\ NextItems' = store'.items
      /\ \A f \in FarmIds : NextFarm(f) = store.farms[f] /\ NextFarm(f)' = store'.farms[f]
  BY <1>1, <1>4 DEF NextItems, NextFarm, Idle
<1>7. CASE ReadProducers
  <2>1. /\ lists'.producers = [at |-> "read", items |-> Live]
        /\ lists'.farms = lists.farms /\ UNCHANGED store
    BY <1>7 DEF ReadProducers, TypeOK
  <2> QED BY <1>2, <1>5, <1>6, <2>1 DEF ReadsOK, ItemsOK, FarmsAreHere, Idle
<1>8. CASE FetchProdutoresFulfilled
  <2>1. /\ lists'.producers = Idle /\ lists'.farms = lists.farms
        /\ store'.items = lists.producers.items /\ lists.producers.at = "read"
        /\ store'.farms = store.farms /\ store'.farmsStatus = store.farmsStatus
    BY <1>8 DEF FetchProdutoresFulfilled, TypeOK
  <2> QED BY <1>2, <1>5, <1>6, <2>1 DEF ReadsOK, ItemsOK, FarmsAreHere, Idle
<1>9. CASE FetchProdutoresRejected
  <2>1. /\ lists'.producers = Idle /\ lists'.farms = lists.farms
        /\ store'.status = "failed"
        /\ store'.farms = store.farms /\ store'.farmsStatus = store.farmsStatus
    BY <1>9 DEF FetchProdutoresRejected, TypeOK
  <2> QED BY <1>2, <1>5, <1>6, <2>1 DEF ReadsOK, ItemsOK, FarmsAreHere, Idle
<1>10. ASSUME NEW g \in FarmFetches, ReadFarms(g)
       PROVE  ReadsOK' /\ ItemsOK'
  <2>1. /\ lists'.farms[g] =
              [at |-> "read", farms |-> [f \in FarmIds |-> IF f \in LiveFarms THEN farms[f] ELSE Nobody]]
        /\ \A h \in FarmFetches \ {g} : lists'.farms[h] = lists.farms[h]
        /\ lists'.producers = lists.producers /\ UNCHANGED store
    BY <1>10 DEF ReadFarms, TypeOK
  <2>2. \A f \in FarmIds : lists'.farms[g].farms[f] = Actual(f)
    BY <2>1 DEF Actual
  <2>3. ReadsOK'
    <3>1. ASSUME NEW h \in FarmFetches, lists'.farms[h].at = "read", NEW f \in FarmIds
          PROVE  lists'.farms[h].farms[f] = Actual(f)'
      BY <1>2, <2>1, <2>2, <3>1 DEF ReadsOK
    <3> QED BY <1>2, <2>1, <3>1 DEF ReadsOK
  <2>4. ~FarmsAreHere'
    BY <2>1 DEF FarmsAreHere, Idle
  <2> QED BY <1>2, <1>6, <2>1, <2>3, <2>4 DEF ItemsOK
<1>11. ASSUME NEW g \in FarmFetches, FetchFarmsFulfilled(g)
       PROVE  ReadsOK' /\ ItemsOK'
  <2>1. /\ lists'.farms[g] = Idle /\ lists'.producers = lists.producers
        /\ \A h \in FarmFetches \ {g} : lists'.farms[h] = lists.farms[h]
        /\ store'.farms = lists.farms[g].farms /\ lists.farms[g].at = "read"
        /\ store'.items = store.items /\ store'.status = store.status
    BY <1>11 DEF FetchFarmsFulfilled, TypeOK
  <2>2. ReadsOK'
    BY <1>2, <2>1 DEF ReadsOK, Idle
  <2>3. \A f \in FarmIds : store'.farms[f] = Actual(f)'
    BY <1>2, <2>1 DEF ReadsOK
  <2> QED BY <1>2, <1>6, <2>1, <2>2, <2>3 DEF ItemsOK
<1>12. ASSUME NEW g \in FarmFetches, FetchFarmsRejected(g)
       PROVE  ReadsOK' /\ ItemsOK'
  <2>1. /\ lists'.farms[g] = Idle /\ lists'.producers = lists.producers
        /\ \A h \in FarmFetches \ {g} : lists'.farms[h] = lists.farms[h]
        /\ store'.farmsStatus = "failed"
        /\ store'.items = store.items /\ store'.status = store.status
    BY <1>12 DEF FetchFarmsRejected, TypeOK
  <2> QED BY <1>2, <1>6, <2>1 DEF ReadsOK, ItemsOK, Idle
<1> QED BY <1>5, <1>7, <1>8, <1>9, <1>10, <1>11, <1>12 DEF FetchStep

LEMMA SaveKeepsList ==
    ASSUME TypeOK, NothingSavedYet, AloneOK, ReadsOK, ItemsOK, SaveStep, "list" \notin excuses'
    PROVE  AloneOK' /\ ReadsOK' /\ ItemsOK'
<1>1. save # Idle
  BY SaveIs DEF SaveStep, CreateProdutor, UpdateProdutor, CreateFarm, UpdateFarm, SaveFulfilled,
                SaveRejected
<1>2. remove = Idle /\ lists.producers = Idle /\ FarmsAreHere
  BY <1>1 DEF AloneOK, Fetching, FarmsAreHere
<1>3. UNCHANGED <<lists, remove>>
  BY DEF SaveStep, CreateProdutor, UpdateProdutor, CreateFarm, UpdateFarm, SaveFulfilled,
         SaveRejected
<1>4. SUFFICES /\ save'.at = "farms" => save'.id \in Live'
               /\ store'.status = "succeeded" => NextItems' = Live'
               /\ store'.farmsStatus = "succeeded" => \A f \in FarmIds : NextFarm(f)' = Actual(f)'
  BY <1>2, <1>3 DEF AloneOK, ReadsOK, ItemsOK, Fetching, FarmsAreHere, Idle
<1>5. CASE CreateProdutor
  <2>1. save \in Saves("producer", ProducerIds \cup {Nobody}) /\ save.saved = NoFarms
    BY <1>5, SaveIs DEF CreateProdutor, NothingSavedYet
  <2>2. PICK p \in ProducerIds : /\ producers' = [producers EXCEPT ![p] = Alive]
                                 /\ save' = [save EXCEPT !.at = "farms", !.id = p]
    BY <1>5 DEF CreateProdutor
  <2>3. Live' = Live \cup {p} /\ \A f \in FarmIds : Actual(f)' = Actual(f)
    BY <1>5, <2>2 DEF CreateProdutor, Live, Actual, LiveFarms, TypeOK
  <2>4. save'.at = "farms" /\ save'.id = p /\ save'.saved = NoFarms /\ save.at = "producer"
    BY <2>1, <2>2 DEF Saves
  <2>5. UNCHANGED store
    BY <1>5 DEF CreateProdutor
  <2>6. \A f \in FarmIds : NextFarm(f)' = NextFarm(f)
    BY <2>4, <2>5 DEF NextFarm, NoFarms
  <2> QED BY <1>2, <2>3, <2>4, <2>5, <2>6 DEF ItemsOK, NextItems
<1>6. CASE UpdateProdutor
  <2>1. save \in Saves("producer", ProducerIds \cup {Nobody}) /\ save.saved = NoFarms
    BY <1>6, SaveIs DEF UpdateProdutor, NothingSavedYet
  <2>2. Live' = Live /\ \A f \in FarmIds : Actual(f)' = Actual(f)
    BY <1>6 DEF UpdateProdutor, Live, Actual, LiveFarms, server
  <2>3. /\ save'.at = "farms" /\ save'.id = save.id /\ save.id \in Live
        /\ save'.saved = NoFarms /\ save.at = "producer"
    BY <1>6, <2>1 DEF UpdateProdutor, Saves
  <2>4. UNCHANGED store
    BY <1>6 DEF UpdateProdutor
  <2>5. \A f \in FarmIds : NextFarm(f)' = NextFarm(f)
    BY <2>3, <2>4 DEF NextFarm, NoFarms
  <2> QED BY <1>2, <2>2, <2>3, <2>4, <2>5 DEF ItemsOK, NextItems
<1>7. ASSUME NEW f \in FarmIds, UpdateFarm(f)
      PROVE  /\ save'.at = "farms" => save'.id \in Live'
             /\ store'.status = "succeeded" => NextItems' = Live'
             /\ store'.farmsStatus = "succeeded" => \A g \in FarmIds : NextFarm(g)' = Actual(g)'
  <2>1. save \in Saves("farms", ProducerIds)
    BY <1>7, SaveIs DEF UpdateFarm
  <2>2. Live' = Live /\ \A g \in FarmIds : Actual(g)' = Actual(g)
    BY <1>7 DEF UpdateFarm, Live, Actual, LiveFarms, server
  <2>3. /\ save'.at = "farms" /\ save'.id = save.id /\ UNCHANGED store
        /\ save'.saved = [save.saved EXCEPT ![f] = farms[f]]
    BY <1>7, <2>1 DEF UpdateFarm, Saves
  <2>4. Actual(f) = farms[f] /\ farms[f] # Nobody
    BY <1>7, MarkersAssumption DEF UpdateFarm, Actual, LiveFarms
  <2>5. \A g \in FarmIds : NextFarm(g)' = IF g = f THEN Actual(f) ELSE NextFarm(g)
    BY <2>1, <2>3, <2>4 DEF NextFarm, Saves, Owners
  <2>6. save.at = "farms"
    BY <2>1 DEF Saves
  <2> QED BY <1>2, <2>2, <2>3, <2>5, <2>6 DEF AloneOK, ItemsOK, NextItems
<1>8. CASE CreateFarm
  <2>1. save \in Saves("farms", ProducerIds)
    BY <1>8, SaveIs DEF CreateFarm
  <2>2. PICK f \in FarmIds : /\ farms' = [farms EXCEPT ![f] = save.id]
                             /\ save' = [save EXCEPT !.new = @ - 1, !.saved[f] = save.id]
    BY <1>8 DEF CreateFarm
  <2>3. save.id \in ProducerIds /\ save.id # Nobody
    BY <2>1, MarkersAssumption DEF Saves
  <2>4. Live' = Live /\ \A g \in FarmIds : Actual(g)' = IF g = f THEN save.id ELSE Actual(g)
    BY <1>8, <2>2, <2>3 DEF CreateFarm, Live, Actual, LiveFarms, TypeOK
  <2>5. /\ save'.at = "farms" /\ save'.id = save.id /\ UNCHANGED store
        /\ save'.saved = [save.saved EXCEPT ![f] = save.id]
    BY <1>8, <2>1, <2>2 DEF CreateFarm, Saves
  <2>6. \A g \in FarmIds : NextFarm(g)' = IF g = f THEN save.id ELSE NextFarm(g)
    BY <2>1, <2>3, <2>5 DEF NextFarm, Saves, Owners
  <2>7. save.at = "farms"
    BY <2>1 DEF Saves
  <2> QED BY <1>2, <2>4, <2>5, <2>6, <2>7 DEF AloneOK, ItemsOK, NextItems
<1>9. CASE SaveFulfilled
  <2>1. save'.at = "idle" /\ save.at = "farms" /\ UNCHANGED server
    BY <1>9 DEF SaveFulfilled, Idle
  <2>2. /\ store'.items = store.items \cup {save.id} /\ store'.status = store.status
        /\ store'.farmsStatus = store.farmsStatus
        /\ \A f \in FarmIds : store'.farms[f] = NextFarm(f)
    BY <1>9 DEF SaveFulfilled, TypeOK, NextFarm
  <2>3. Live' = Live /\ \A f \in FarmIds : Actual(f)' = Actual(f)
    BY <2>1 DEF Live, Actual, LiveFarms, server
  <2>4. NextItems' = NextItems /\ \A f \in FarmIds : NextFarm(f)' = NextFarm(f)
    BY <2>1, <2>2 DEF NextItems, NextFarm
  <2> QED BY <1>2, <2>1, <2>2, <2>3, <2>4 DEF ItemsOK
<1>10. CASE SaveRejected
  <2>1. /\ save'.at = "idle" /\ save.at # "farms" /\ server' = server
        /\ store' = [store EXCEPT !.write = "failed"]
    BY <1>10 DEF SaveRejected, Excuse, Idle
  <2>2. /\ store'.items = store.items /\ store'.status = store.status
        /\ store'.farms = store.farms /\ store'.farmsStatus = store.farmsStatus
    BY <2>1 DEF TypeOK
  <2>3. Live' = Live /\ \A f \in FarmIds : Actual(f)' = Actual(f)
    BY <2>1 DEF Live, Actual, LiveFarms, server
  <2>4. NextItems' = NextItems /\ \A f \in FarmIds : NextFarm(f)' = NextFarm(f)
    BY <2>1, <2>2 DEF NextItems, NextFarm
  <2> QED BY <1>2, <2>1, <2>2, <2>3, <2>4 DEF ItemsOK
<1> QED BY <1>5, <1>6, <1>7, <1>8, <1>9, <1>10 DEF SaveStep

LEMMA RemoveKeepsList ==
    ASSUME TypeOK, AloneOK, ReadsOK, ItemsOK, RemoveStep, "list" \notin excuses'
    PROVE  AloneOK' /\ ReadsOK' /\ ItemsOK'
<1>1. /\ save = Idle /\ lists.producers = Idle /\ FarmsAreHere
      /\ save' = Idle /\ lists' = lists /\ remove' = Idle
  BY DEF RemoveStep, RemoveFulfilled, RemoveRejected, AloneOK, Fetching, FarmsAreHere
<1>2. /\ NextItems = store.items /\ NextItems' = store'.items
      /\ \A f \in FarmIds : NextFarm(f) = store.farms[f] /\ NextFarm(f)' = store'.farms[f]
  BY <1>1 DEF NextItems, NextFarm, Idle
<1>3. CASE RemoveFulfilled
  <2>1. /\ store'.items = store.items \ {remove.id}
        /\ store'.status = store.status /\ store'.farmsStatus = store.farmsStatus
        /\ \A f \in FarmIds :
              store'.farms[f] = IF store.farms[f] = remove.id THEN Nobody ELSE store.farms[f]
    BY <1>3 DEF RemoveFulfilled, TypeOK, Owners
  <2>2. Live' = Live \ {remove.id}
    BY <1>3, MarkersAssumption DEF RemoveFulfilled, Cascade, Live, TypeOK
  <2>3. \A f \in FarmIds : Actual(f)' = IF Actual(f) = remove.id THEN Nobody ELSE Actual(f)
    BY <1>3, MarkersAssumption DEF RemoveFulfilled, Cascade, Actual, LiveFarms, Live, TypeOK
  <2> QED BY <1>1, <1>2, <2>1, <2>2, <2>3 DEF AloneOK, ReadsOK, ItemsOK, FarmsAreHere, Idle
<1>4. CASE RemoveRejected
  <2>1. server' = server /\ UNCHANGED store
    BY <1>4 DEF RemoveRejected, Excuse
  <2>2. Live' = Live /\ \A f \in FarmIds : Actual(f)' = Actual(f)
    BY <2>1 DEF Live, Actual, LiveFarms, server
  <2> QED BY <1>1, <1>2, <2>1, <2>2 DEF AloneOK, ReadsOK, ItemsOK, FarmsAreHere, Idle
<1> QED BY <1>3, <1>4 DEF RemoveStep

LEMMA UserKeepsList ==
    ASSUME TypeOK, "list" \notin excuses => AloneOK /\ ReadsOK /\ ItemsOK,
           UserStep, "list" \notin excuses'
    PROVE  AloneOK' /\ ReadsOK' /\ ItemsOK'
<1>1. CASE HandleRetry
  <2>1. /\ save = Idle /\ remove = Idle /\ save' = Idle /\ remove' = Idle
        /\ lists'.producers = [at |-> "sent"] /\ lists'.farms = Sent(lists.farms)
        /\ UNCHANGED server
    BY <1>1 DEF HandleRetry
  <2>2. store'.farmsStatus = "loading"
    BY <1>1 DEF HandleRetry, TypeOK
  <2>3. ASSUME NEW g \in FarmFetches, lists'.farms[g].at = "read", NEW f \in FarmIds
        PROVE  lists'.farms[g].farms[f] = Actual(f)'
    <3>1. lists'.farms[g] = lists.farms[g]
      BY <2>1, <2>3, SentIs, FarmCallsInFlight
    <3>2. ReadsOK
      BY <1>1, <2>3, <3>1 DEF HandleRetry
    <3>3. Actual(f)' = Actual(f)
      BY <2>1 DEF Actual, LiveFarms, server
    <3> QED BY <2>3, <3>1, <3>2, <3>3 DEF ReadsOK
  <2>4. ReadsOK'
    BY <2>1, <2>3 DEF ReadsOK
  <2> QED BY <2>1, <2>2, <2>4 DEF AloneOK, ItemsOK, Idle
<1>2. CASE HandleSubmit
  <2>1. /\ "list" \notin excuses /\ ~Fetching /\ remove = Idle
        /\ UNCHANGED <<server, lists, remove>>
    BY <1>2 DEF HandleSubmit, Excuse
  <2>2. save = Idle /\ save'.at = "producer"
    BY <1>2 DEF HandleSubmit
  <2>3. /\ store'.items = store.items /\ store'.status = store.status
        /\ store'.farms = store.farms /\ store'.farmsStatus = store.farmsStatus
    BY <1>2 DEF HandleSubmit, TypeOK
  <2>4. Live' = Live /\ \A f \in FarmIds : Actual(f)' = Actual(f)
    BY <2>1 DEF Live, Actual, LiveFarms, server
  <2>5. NextItems' = NextItems /\ \A f \in FarmIds : NextFarm(f)' = NextFarm(f)
    BY <2>2, <2>3 DEF NextItems, NextFarm, Idle
  <2> QED BY <2>1, <2>2, <2>3, <2>4, <2>5 DEF AloneOK, ReadsOK, ItemsOK, Fetching, FarmsAreHere, Idle
<1>3. CASE HandleConfirmDelete
  <2>1. /\ "list" \notin excuses /\ ~Fetching /\ save = Idle
        /\ UNCHANGED <<server, lists, save, store>>
    BY <1>3 DEF HandleConfirmDelete, Excuse
  <2>2. Live' = Live /\ \A f \in FarmIds : Actual(f)' = Actual(f)
    BY <2>1 DEF Live, Actual, LiveFarms, server
  <2>3. NextItems' = NextItems /\ \A f \in FarmIds : NextFarm(f)' = NextFarm(f)
    BY <2>1 DEF NextItems, NextFarm
  <2> QED BY <2>1, <2>2, <2>3 DEF AloneOK, ReadsOK, ItemsOK, Fetching, FarmsAreHere, Idle
<1>4. CASE OpenCreate \/ CloseOverlay
  BY <1>4, SameListIsRight DEF OpenCreate, CloseOverlay, TypeOK, calls
<1>5. CASE CancelDelete \/ FillDraft
  BY <1>5, SameListIsRight DEF CancelDelete, FillDraft, calls
<1>6. CASE RetryLoad
  <2>1. "list" \notin excuses
    BY <1>6 DEF RetryLoad
  <2> QED BY <1>6, <2>1, SameListIsRight DEF RetryLoad, TypeOK
<1>7. ASSUME NEW id \in ProducerIds, OpenEdit(id)
      PROVE  AloneOK' /\ ReadsOK' /\ ItemsOK'
  <2>1. "list" \notin excuses
    BY <1>7 DEF OpenEdit
  <2> QED BY <1>7, <2>1, SameListIsRight DEF OpenEdit, TypeOK
<1>8. ASSUME NEW id \in ProducerIds, OpenDelete(id)
      PROVE  AloneOK' /\ ReadsOK' /\ ItemsOK'
  BY <1>8, SameListIsRight DEF OpenDelete, calls
<1> QED BY <1>1, <1>2, <1>3, <1>4, <1>5, <1>6, <1>7, <1>8 DEF UserStep

LEMMA ListIsInductive == Spec => []ListOK
<1>1. Init => ListOK
  <2> SUFFICES ASSUME Init PROVE ListOK
    OBVIOUS
  <2> QED BY FirstFetch DEF Init, ListOK, NothingSavedYet, AloneOK, ReadsOK, ItemsOK, Idle
<1>2. TypeOK /\ ListOK /\ [Next]_vars => ListOK'
  <2> SUFFICES ASSUME TypeOK, ListOK, [Next]_vars, "list" \notin excuses'
               PROVE  AloneOK' /\ ReadsOK' /\ ItemsOK'
    BY NothingSavedInductive DEF ListOK
  <2>1. CASE UserStep
    BY <2>1, UserKeepsList DEF ListOK
  <2>2. CASE FetchStep
    <3>1. "list" \notin excuses
      BY <2>2 DEF FetchStep, ReadProducers, FetchProdutoresFulfilled, FetchProdutoresRejected,
                  ReadFarms, FetchFarmsFulfilled, FetchFarmsRejected
    <3> QED BY <2>2, <3>1, FetchKeepsList DEF ListOK
  <2>3. ASSUME NEW l \in Loads, LoadStep(l)
        PROVE  AloneOK' /\ ReadsOK' /\ ItemsOK'
    <3>1. /\ "list" \notin excuses /\ UNCHANGED <<server, lists, save, remove>>
          /\ store'.items = store.items /\ store'.status = store.status
          /\ store'.farms = store.farms /\ store'.farmsStatus = store.farmsStatus
      BY <2>3 DEF LoadStep, ReadForEdit, LoadFulfilled, LoadRejected, TypeOK
    <3> QED BY <3>1, SameListIsRight DEF ListOK
  <2>4. CASE SaveStep
    <3>1. "list" \notin excuses
      BY <2>4 DEF SaveStep, CreateProdutor, UpdateProdutor, CreateFarm, UpdateFarm,
                  SaveFulfilled, SaveRejected, Excuse
    <3> QED BY <2>4, <3>1, SaveKeepsList DEF ListOK
  <2>5. CASE RemoveStep
    <3>1. "list" \notin excuses
      BY <2>5 DEF RemoveStep, RemoveFulfilled, RemoveRejected, Excuse
    <3> QED BY <2>5, <3>1, RemoveKeepsList DEF ListOK
  <2>6. CASE UNCHANGED vars
    BY <2>6, SameListIsRight DEF ListOK, vars, calls
  <2> QED BY <2>1, <2>2, <2>3, <2>4, <2>5, <2>6 DEF Next
<1> QED BY <1>1, <1>2, PageTypeCorrect, PTL DEF Spec

(* A page at rest lists what the API has, unless a write ran beside another*)
(* call, or had an effect and then failed, and the lists were not fetched  *)
(* since.                                                                  *)
THEOREM ListCatchesUp == Spec => []ListIsTheServers
<1>1. ListOK => ListIsTheServers
  BY DEF ListOK, ItemsOK, NextItems, NextFarm, Actual, ListIsTheServers, AtRest, Fetching,
         FarmsAreHere, Idle
<1> QED BY <1>1, ListIsInductive, PTL

-----------------------------------------------------------------------------
(* The list lags, with no exception.                                       *)

Registered(ids, table) == \A p \in ids : table[p] # Unborn
Own(list, table) == \A f \in FarmIds : list[f] # Nobody => table[f] \in {list[f], Gone}

(* Whatever is on its way to the list was true when it was read or written.*)
(* A save names its producer once the API has registered it.               *)
Truthful(producerTable, farmTable) ==
    /\ Registered(store.items, producerTable) /\ Own(store.farms, farmTable)
    /\ lists.producers.at = "read" => Registered(lists.producers.items, producerTable)
    /\ \A g \in FarmFetches : lists.farms[g].at = "read" => Own(lists.farms[g].farms, farmTable)
    /\ save # Idle => Own(save.saved, farmTable)
    /\ save.at = "farms" => producerTable[save.id] # Unborn

LagsOK == Truthful(producers, farms)

(* A producer is registered for good.                                      *)
LEMMA ProducersStayRegistered ==
    ASSUME TypeOK, [Next]_vars, NEW p \in ProducerIds, producers[p] # Unborn
    PROVE  producers'[p] # Unborn
<1>1. CASE UNCHANGED producers
  BY <1>1
<1>2. CASE CreateProdutor
  BY <1>2, MarkersAssumption DEF CreateProdutor, TypeOK
<1>3. CASE SaveRejected
  BY <1>3, MarkersAssumption DEF SaveRejected, TypeOK, server
<1>4. CASE RemoveStep
  BY <1>4, MarkersAssumption DEF RemoveStep, RemoveFulfilled, RemoveRejected, Cascade, TypeOK, server
<1>5. CASE UserStep \/ FetchStep \/ \E l \in Loads : LoadStep(l)
  BY <1>1, <1>5
     DEF UserStep, HandleRetry, OpenCreate, CloseOverlay, CancelDelete, RetryLoad, FillDraft,
         HandleSubmit, HandleConfirmDelete, OpenEdit, OpenDelete,
         FetchStep, ReadProducers, FetchProdutoresFulfilled, FetchProdutoresRejected,
         ReadFarms, FetchFarmsFulfilled, FetchFarmsRejected,
         LoadStep, ReadForEdit, LoadFulfilled, LoadRejected, server
<1>6. CASE \/ CreateFarm \/ UpdateProdutor \/ SaveFulfilled \/ UNCHANGED vars
           \/ \E g \in FarmIds : UpdateFarm(g)
  BY <1>1, <1>6 DEF CreateFarm, UpdateProdutor, SaveFulfilled, UpdateFarm, vars, server
<1> QED
  BY <1>2, <1>3, <1>4, <1>5, <1>6 DEF Next, SaveStep

LEMMA OwnStays ==
    ASSUME TypeOK, [Next]_vars, NEW list \in Owners, Own(list, farms)
    PROVE  Own(list, farms')
<1> SUFFICES ASSUME NEW f \in FarmIds, list[f] # Nobody
             PROVE  farms'[f] \in {list[f], Gone}
  BY DEF Own
<1>1. farms[f] \in {list[f], Gone} /\ list[f] \in ProducerIds
  BY DEF Own, Owners
<1> QED BY <1>1, FarmsKeepTheirProducer, MarkersAssumption

(* What was true before a step is true of the tables after it.             *)
LEMMA TruthStays ==
    ASSUME TypeOK, LagsOK, [Next]_vars
    PROVE  Truthful(producers', farms')
<1>1. store.items \in SUBSET ProducerIds /\ store.farms \in Owners
  BY DEF TypeOK
<1>2. lists.producers.at = "read" => lists.producers.items \in SUBSET ProducerIds
  BY DEF TypeOK, Idle
<1>3. \A g \in FarmFetches : lists.farms[g].at = "read" => lists.farms[g].farms \in Owners
  BY DEF TypeOK, Idle
<1>4. /\ save # Idle => save.saved \in Owners
      /\ save.at = "farms" => save.id \in ProducerIds
  BY SaveIs DEF TypeOK, Saves
<1>5. Registered(store.items, producers') /\ Own(store.farms, farms')
  BY <1>1, ProducersStayRegistered, OwnStays DEF LagsOK, Truthful, Registered
<1>6. lists.producers.at = "read" => Registered(lists.producers.items, producers')
  BY <1>2, ProducersStayRegistered DEF LagsOK, Truthful, Registered
<1>7. \A g \in FarmFetches : lists.farms[g].at = "read" => Own(lists.farms[g].farms, farms')
  BY <1>3, OwnStays DEF LagsOK, Truthful
<1>8. /\ save # Idle => Own(save.saved, farms')
      /\ save.at = "farms" => producers'[save.id] # Unborn
  BY <1>4, ProducersStayRegistered, OwnStays DEF LagsOK, Truthful
<1> QED BY <1>5, <1>6, <1>7, <1>8 DEF Truthful

LEMMA FetchStaysTruthful ==
    ASSUME TypeOK, Truthful(producers', farms'), FetchStep
    PROVE  LagsOK'
<1>1. UNCHANGED <<server, save>>
  BY DEF FetchStep, ReadProducers, FetchProdutoresFulfilled, FetchProdutoresRejected,
         ReadFarms, FetchFarmsFulfilled, FetchFarmsRejected
<1>2. CASE ReadProducers
  <2>1. /\ lists'.producers.items = Live /\ lists'.farms = lists.farms /\ UNCHANGED store
    BY <1>2 DEF ReadProducers, TypeOK
  <2>2. Registered(Live, producers)
    BY MarkersAssumption DEF Registered, Live
  <2> QED BY <1>1, <2>1, <2>2 DEF LagsOK, Truthful, server
<1>3. CASE FetchProdutoresFulfilled
  <2>1. /\ lists.producers.at = "read" /\ lists'.producers = Idle /\ lists'.farms = lists.farms
        /\ store'.items = lists.producers.items /\ store'.farms = store.farms
    BY <1>3 DEF FetchProdutoresFulfilled, TypeOK
  <2> QED BY <1>1, <2>1 DEF LagsOK, Truthful, Idle
<1>4. CASE FetchProdutoresRejected
  <2>1. /\ lists'.producers = Idle /\ lists'.farms = lists.farms
        /\ store'.items = store.items /\ store'.farms = store.farms
    BY <1>4 DEF FetchProdutoresRejected, TypeOK
  <2> QED BY <1>1, <2>1 DEF LagsOK, Truthful, Idle
<1>5. ASSUME NEW g \in FarmFetches, ReadFarms(g)
      PROVE  LagsOK'
  <2>1. /\ lists'.farms[g].farms = [f \in FarmIds |-> IF f \in LiveFarms THEN farms[f] ELSE Nobody]
        /\ \A h \in FarmFetches \ {g} : lists'.farms[h] = lists.farms[h]
        /\ lists'.producers = lists.producers /\ UNCHANGED store
    BY <1>5 DEF ReadFarms, TypeOK
  <2>2. Own(lists'.farms[g].farms, farms)
    BY <2>1 DEF Own
  <2> QED BY <1>1, <2>1, <2>2 DEF LagsOK, Truthful, server
<1>6. ASSUME NEW g \in FarmFetches, FetchFarmsFulfilled(g)
      PROVE  LagsOK'
  <2>1. /\ lists'.farms[g] = Idle /\ \A h \in FarmFetches \ {g} : lists'.farms[h] = lists.farms[h]
        /\ lists'.producers = lists.producers /\ store'.items = store.items
        /\ lists.farms[g].at = "read" /\ store'.farms = lists.farms[g].farms
    BY <1>6 DEF FetchFarmsFulfilled, TypeOK
  <2> QED BY <1>1, <2>1 DEF LagsOK, Truthful, Idle
<1>7. ASSUME NEW g \in FarmFetches, FetchFarmsRejected(g)
      PROVE  LagsOK'
  <2>1. /\ lists'.farms[g] = Idle /\ \A h \in FarmFetches \ {g} : lists'.farms[h] = lists.farms[h]
        /\ lists'.producers = lists.producers
        /\ store'.items = store.items /\ store'.farms = store.farms
    BY <1>7 DEF FetchFarmsRejected, TypeOK
  <2> QED BY <1>1, <2>1 DEF LagsOK, Truthful, Idle
<1> QED BY <1>2, <1>3, <1>4, <1>5, <1>6, <1>7 DEF FetchStep

LEMMA SaveStaysTruthful ==
    ASSUME TypeOK, Truthful(producers', farms'), SaveStep
    PROVE  LagsOK'
<1>1. UNCHANGED lists
  BY DEF SaveStep, CreateProdutor, UpdateProdutor, CreateFarm, UpdateFarm, SaveFulfilled,
         SaveRejected
<1>2. CASE CreateProdutor
  <2>1. save \in Saves("producer", ProducerIds \cup {Nobody}) /\ save # Idle
    BY <1>2, SaveIs DEF CreateProdutor
  <2>2. PICK p \in ProducerIds : /\ producers' = [producers EXCEPT ![p] = Alive]
                                 /\ save' = [save EXCEPT !.at = "farms", !.id = p]
    BY <1>2 DEF CreateProdutor
  <2>3. save'.saved = save.saved /\ save'.id = p /\ producers'[p] # Unborn /\ UNCHANGED store
    BY <1>2, <2>1, <2>2, MarkersAssumption DEF CreateProdutor, Saves, TypeOK
  <2> QED BY <1>1, <2>1, <2>3 DEF LagsOK, Truthful
<1>3. CASE UpdateProdutor
  <2>1. save \in Saves("producer", ProducerIds \cup {Nobody}) /\ save # Idle
    BY <1>3, SaveIs DEF UpdateProdutor
  <2>2. /\ save'.saved = save.saved /\ save'.id = save.id /\ UNCHANGED <<server, store>>
        /\ producers[save.id] # Unborn
    BY <1>3, <2>1, MarkersAssumption DEF UpdateProdutor, Saves, Live
  <2> QED BY <1>1, <2>1, <2>2 DEF LagsOK, Truthful, server
<1>4. CASE CreateFarm
  <2>1. save \in Saves("farms", ProducerIds) /\ save # Idle
    BY <1>4, SaveIs DEF CreateFarm
  <2>2. PICK f \in FarmIds : /\ farms' = [farms EXCEPT ![f] = save.id]
                             /\ save' = [save EXCEPT !.new = @ - 1, !.saved[f] = save.id]
    BY <1>4 DEF CreateFarm
  <2>3. /\ save'.saved = [save.saved EXCEPT ![f] = save.id] /\ save'.id = save.id
        /\ farms'[f] = save.id /\ save.at = "farms" /\ UNCHANGED store
    BY <1>4, <2>1, <2>2 DEF CreateFarm, Saves, TypeOK
  <2>4. Own(save'.saved, farms')
    BY <2>1, <2>3 DEF Truthful, Own, Saves, Owners
  <2> QED BY <1>1, <2>1, <2>3, <2>4 DEF LagsOK, Truthful
<1>5. ASSUME NEW f \in FarmIds, UpdateFarm(f)
      PROVE  LagsOK'
  <2>1. save \in Saves("farms", ProducerIds) /\ save # Idle
    BY <1>5, SaveIs DEF UpdateFarm
  <2>2. /\ save'.saved = [save.saved EXCEPT ![f] = farms[f]] /\ save'.id = save.id
        /\ save.at = "farms" /\ UNCHANGED <<server, store>>
    BY <1>5, <2>1 DEF UpdateFarm, Saves
  <2>3. Own(save'.saved, farms')
    BY <2>1, <2>2 DEF Truthful, Own, Saves, Owners, server
  <2> QED BY <1>1, <2>1, <2>2, <2>3 DEF LagsOK, Truthful
<1>6. CASE SaveFulfilled
  <2>1. /\ save.at = "farms" /\ save # Idle /\ save'= Idle /\ save.saved \in Owners
        /\ store'.items = store.items \cup {save.id}
        /\ \A f \in FarmIds :
              store'.farms[f] = IF save.saved[f] # Nobody THEN save.saved[f] ELSE store.farms[f]
    BY <1>6, SaveIs DEF SaveFulfilled, TypeOK, Saves
  <2>2. Registered(store'.items, producers')
    BY <2>1 DEF Truthful, Registered
  <2>3. Own(store'.farms, farms')
    BY <2>1 DEF Truthful, Own
  <2> QED BY <1>1, <2>1, <2>2, <2>3 DEF LagsOK, Truthful, Idle
<1>7. CASE SaveRejected
  <2>1. save' = Idle /\ store'.items = store.items /\ store'.farms = store.farms
    BY <1>7 DEF SaveRejected, TypeOK
  <2> QED BY <1>1, <2>1 DEF LagsOK, Truthful, Idle
<1> QED BY <1>2, <1>3, <1>4, <1>5, <1>6, <1>7 DEF SaveStep

LEMMA RemoveStaysTruthful ==
    ASSUME TypeOK, Truthful(producers', farms'), RemoveStep
    PROVE  LagsOK'
<1>1. UNCHANGED <<lists, save>>
  BY DEF RemoveStep, RemoveFulfilled, RemoveRejected
<1>2. CASE RemoveFulfilled
  <2>1. /\ store'.items \subseteq store.items
        /\ \A f \in FarmIds : store'.farms[f] \in {store.farms[f], Nobody}
    BY <1>2 DEF RemoveFulfilled, TypeOK, Owners
  <2>2. Registered(store'.items, producers') /\ Own(store'.farms, farms')
    BY <2>1 DEF Truthful, Registered, Own
  <2> QED BY <1>1, <2>2 DEF LagsOK, Truthful
<1>3. CASE RemoveRejected
  BY <1>1, <1>3 DEF RemoveRejected, LagsOK, Truthful
<1> QED BY <1>2, <1>3 DEF RemoveStep

LEMMA UserStaysTruthful ==
    ASSUME TypeOK, Truthful(producers', farms'), UserStep
    PROVE  LagsOK'
<1>1. store'.items = store.items /\ store'.farms = store.farms
  BY DEF UserStep, HandleRetry, OpenCreate, CloseOverlay, CancelDelete, RetryLoad, FillDraft,
         HandleSubmit, HandleConfirmDelete, OpenEdit, OpenDelete, TypeOK
<1>2. CASE HandleRetry
  <2>1. /\ lists' = [producers |-> [at |-> "sent"], farms |-> Sent(lists.farms)]
        /\ UNCHANGED save
    BY <1>2 DEF HandleRetry
  <2>2. \A g \in FarmFetches : lists'.farms[g].at = "read" => lists'.farms[g] = lists.farms[g]
    BY <2>1, SentIs, FarmCallsInFlight
  <2> QED BY <1>1, <2>1, <2>2 DEF LagsOK, Truthful
<1>3. CASE HandleSubmit
  <2>1. save'.saved = NoFarms /\ save'.at = "producer" /\ UNCHANGED lists
    BY <1>3 DEF HandleSubmit
  <2>2. Own(save'.saved, farms')
    BY <2>1 DEF Own, NoFarms
  <2> QED BY <1>1, <2>1, <2>2 DEF LagsOK, Truthful
<1>4. CASE UNCHANGED <<lists, save>>
  BY <1>1, <1>4 DEF LagsOK, Truthful
<1> QED
  BY <1>2, <1>3, <1>4
     DEF UserStep, OpenCreate, CloseOverlay, CancelDelete, RetryLoad, FillDraft,
         HandleConfirmDelete, OpenEdit, OpenDelete, calls

LEMMA LagsInductive == TypeOK /\ LagsOK /\ [Next]_vars => LagsOK'
<1> SUFFICES ASSUME TypeOK, LagsOK, [Next]_vars
             PROVE  LagsOK'
  OBVIOUS
<1>1. Truthful(producers', farms')
  BY TruthStays
<1>2. ASSUME NEW l \in Loads, LoadStep(l)
      PROVE  LagsOK'
  <2>1. UNCHANGED <<lists, save>> /\ store'.items = store.items /\ store'.farms = store.farms
    BY <1>2 DEF LoadStep, ReadForEdit, LoadFulfilled, LoadRejected, TypeOK
  <2> QED BY <1>1, <2>1 DEF LagsOK, Truthful
<1>3. CASE UNCHANGED vars
  BY <1>1, <1>3 DEF LagsOK, Truthful, vars, calls
<1> QED
  BY <1>1, <1>2, <1>3, UserStaysTruthful, FetchStaysTruthful, SaveStaysTruthful,
     RemoveStaysTruthful DEF Next

(* What the list shows, at any moment and with no exception, was registered*)
(* once; and a farm of the list is under the producer it belongs to, or is *)
(* gone.                                                                   *)
THEOREM StaleListsOnlyLag == Spec => []ListOnlyLags
<1>1. Init => LagsOK
  <2> SUFFICES ASSUME Init PROVE LagsOK
    OBVIOUS
  <2> QED BY FirstFetch DEF Init, LagsOK, Truthful, Registered, Own, NoFarms, Idle
<1>2. LagsOK => ListOnlyLags
  BY DEF LagsOK, Truthful, Registered, Own, ListOnlyLags
<1> QED BY <1>1, <1>2, LagsInductive, PageTypeCorrect, PTL DEF Spec

=============================================================================
