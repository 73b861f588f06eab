---------------------------- MODULE ProdutoresPage --------------------------
(***************************************************************************)
(* The producers page of the frontend: pages/Produtores.tsx and            *)
(* store/produtoresSlice.ts over the API.  Answers come in any order, some *)
(* calls fail, with or without their effect, and the user goes on clicking *)
(* what the screen shows: an overlay covers the whole page, so what is     *)
(* behind it cannot be clicked.                                            *)
(*                                                                         *)
(* A producer is its id, a farm is the id of its producer.  The fields of  *)
(* the form are the producer whose data fills them (from), the stored      *)
(* farms among its drafts and the number of drafts that were filled in for *)
(* new farms.  The page stays mounted.                                     *)
(***************************************************************************)
EXTENDS Naturals, FiniteSets, TLAPS

CONSTANTS
    ProducerIds, FarmIds, Unborn, Gone,
    Nobody,         \* null, and the producer of a blank form
    FarmFetches,    \* fetchFarms calls in flight at a time (a bound)
    Loads,          \* loadProdutorForEdit calls in flight at a time (a bound)
    NewDrafts,      \* drafts of new farms in a form (a bound)
    MaxFailures,    \* calls that fail without a reason of the API's (a bound)
    Stored          \* what the API has when the page is mounted

VARIABLES
    producers, farms,   \* the tables behind the API
    store,          \* produtoresSlice
    page,           \* the useState of Produtores
    lists,          \* fetchProdutores and fetchFarms in flight
    loads, save, remove,    \* the other thunks in flight
    failures,
    excuses         \* history: the form, the list may be wrong by now

server == <<producers, farms>>
calls == <<lists, loads, save, remove>>
vars == <<server, store, page, calls, failures, excuses>>

Alive == "alive"
Live == {p \in ProducerIds : producers[p] = Alive}
LiveFarms == {f \in FarmIds : farms[f] \in ProducerIds}
FarmsOf(p) == {f \in FarmIds : farms[f] = p}

ASSUME MarkersAssumption ==
    /\ Unborn # Alive /\ Gone # Alive /\ Unborn # Gone
    /\ {Unborn, Gone, Nobody} \cap (ProducerIds \cup FarmIds) = {}
ASSUME BoundsAssumption == FarmFetches # {} /\ NewDrafts \in Nat /\ MaxFailures \in Nat
ASSUME StoredAssumption ==
    /\ Stored.producers \in [ProducerIds -> {Unborn, Gone, Alive}]
    /\ Stored.farms \in [FarmIds -> ProducerIds \cup {Unborn, Gone}]
    /\ \A f \in FarmIds : Stored.farms[f] \in ProducerIds => Stored.producers[Stored.farms[f]] = Alive

Statuses == {"idle", "loading", "succeeded", "failed"}
Idle == [at |-> "idle"]
Blank == [from |-> Nobody, drafts |-> {}, new |-> 0]
Forms == [from : ProducerIds \cup {Nobody}, drafts : SUBSET FarmIds, new : 0 .. NewDrafts]
Owners == [FarmIds -> ProducerIds \cup {Nobody}]    \* Nobody: not in the list
NoFarms == [f \in FarmIds |-> Nobody]
NoFetch == [g \in FarmFetches |-> Idle]
Saves(at, ids) ==
    [at : {at}, id : ids, drafts : SUBSET FarmIds, new : 0 .. NewDrafts, saved : Owners]

TypeOK ==
    /\ producers \in [ProducerIds -> {Unborn, Gone, Alive}]
    /\ farms \in [FarmIds -> ProducerIds \cup {Unborn, Gone}]
    /\ store \in [items : SUBSET ProducerIds, status : Statuses,
                  farms : Owners, farmsStatus : Statuses,
                  editing : Statuses, write : Statuses]
    /\ page \in [overlay : {"none", "create", "edit", "delete"},
                 selected : ProducerIds \cup {Nobody}, form : Forms]
    /\ page.overlay \in {"edit", "delete"} <=> page.selected # Nobody
    /\ lists \in [producers : {Idle} \cup [at : {"sent"}] \cup [at : {"read"}, items : SUBSET ProducerIds],
                  farms : [FarmFetches -> {Idle} \cup [at : {"sent"}] \cup [at : {"read"}, farms : Owners]]]
    /\ store.status = "loading" <=> lists.producers # Idle
    /\ loads \in [Loads -> {Idle} \cup [at : {"sent"}, id : ProducerIds, fills : BOOLEAN]
                             \cup [at : {"read"}, id : ProducerIds, fills : BOOLEAN, drafts : SUBSET FarmIds]]
    /\ save \in {Idle} \cup Saves("producer", ProducerIds \cup {Nobody}) \cup Saves("farms", ProducerIds)
    /\ remove \in {Idle} \cup [at : {"sent"}, id : ProducerIds]
    /\ failures \in 0 .. MaxFailures
    /\ excuses \subseteq {"form", "list"}

(* fetchFarms is dispatched, whatever it finds in flight.                  *)
Sent(fetches) == [fetches EXCEPT ![CHOOSE g \in FarmFetches : fetches[g] = Idle] = [at |-> "sent"]]

Init ==
    /\ producers = Stored.producers /\ farms = Stored.farms
    /\ store = [items |-> {}, status |-> "loading",
                farms |-> NoFarms, farmsStatus |-> "loading",
                editing |-> "idle", write |-> "idle"]
    /\ page = [overlay |-> "none", selected |-> Nobody, form |-> Blank]
    /\ lists = [producers |-> [at |-> "sent"], farms |-> Sent(NoFetch)]
    /\ loads = [l \in Loads |-> Idle] /\ save = Idle /\ remove = Idle
    /\ failures = 0 /\ excuses = {}

(* A call fails for a reason of its own: the network, a 5xx.               *)
MayFail == failures < MaxFailures /\ failures' = failures + 1

Loading(l) == loads[l].at # "idle"
Fetching == lists.producers # Idle \/ \E g \in FarmFetches : lists.farms[g] # Idle

(* The form is on the screen, enabled but for its Save button.             *)
FormShown ==
    \/ page.overlay = "create"
    \/ page.overlay = "edit" /\ store.editing = "succeeded"

(* The table shows its rows.                                               *)
RowsShown == page.overlay = "none" /\ store.status \notin {"loading", "failed"}

Excuse(e, condition) == IF condition THEN excuses \cup {e} ELSE excuses

-----------------------------------------------------------------------------
(* The lists.                                                              *)

(* "Tentar novamente" in place of the table, as soon as fetchProdutores    *)
(* failed: fetchFarms of the mount or of an earlier retry may be in flight *)
(* still, with an answer older than this one's.                            *)
HandleRetry ==
    /\ page.overlay = "none" /\ store.status = "failed"
    /\ \E g \in FarmFetches : lists.farms[g] = Idle
    /\ lists' = [producers |-> [at |-> "sent"], farms |-> Sent(lists.farms)]
    /\ store' = [store EXCEPT !.status = "loading", !.farmsStatus = "loading"]
    /\ excuses' = IF save # Idle \/ remove # Idle THEN excuses \cup {"list"}
                   ELSE IF \E g \in FarmFetches : lists.farms[g].at = "read" THEN excuses
                   ELSE excuses \ {"list"}
    /\ UNCHANGED <<server, page, loads, save, remove, failures>>

ReadProducers ==
    /\ lists.producers.at = "sent"
    /\ lists' = [lists EXCEPT !.producers = [at |-> "read", items |-> Live]]
    /\ UNCHANGED <<server, store, page, loads, save, remove, failures, excuses>>

ReadFarms(g) ==
    /\ lists.farms[g].at = "sent"
    /\ lists' = [lists EXCEPT !.farms[g] =
                   [at |-> "read", farms |-> [f \in FarmIds |-> IF f \in LiveFarms THEN farms[f] ELSE Nobody]]]
    /\ UNCHANGED <<server, store, page, loads, save, remove, failures, excuses>>

(* The answer replaces the list.                                           *)
FetchProdutoresFulfilled ==
    /\ lists.producers.at = "read"
    /\ lists' = [lists EXCEPT !.producers = Idle]
    /\ store' = [store EXCEPT !.items = lists.producers.items, !.status = "succeeded"]
    /\ UNCHANGED <<server, page, loads, save, remove, failures, excuses>>

FetchFarmsFulfilled(g) ==
    /\ lists.farms[g].at = "read"
    /\ lists' = [lists EXCEPT !.farms[g] = Idle]
    /\ store' = [store EXCEPT !.farms = lists.farms[g].farms, !.farmsStatus = "succeeded"]
    /\ UNCHANGED <<server, page, loads, save, remove, failures, excuses>>

FetchProdutoresRejected ==
    /\ lists.producers.at = "sent" /\ MayFail
    /\ lists' = [lists EXCEPT !.producers = Idle]
    /\ store' = [store EXCEPT !.status = "failed"]
    /\ UNCHANGED <<server, page, loads, save, remove, excuses>>

FetchFarmsRejected(g) ==
    /\ lists.farms[g].at = "sent" /\ MayFail
    /\ lists' = [lists EXCEPT !.farms[g] = Idle]
    /\ store' = [store EXCEPT !.farmsStatus = "failed"]
    /\ UNCHANGED <<server, page, loads, save, remove, excuses>>

-----------------------------------------------------------------------------
(* Opening and closing overlays.                                           *)

OpenCreate ==
    /\ page.overlay = "none"
    /\ page' = [overlay |-> "create", selected |-> Nobody, form |-> Blank]
    /\ store' = [store EXCEPT !.write = "idle"]
    /\ UNCHANGED <<server, calls, failures, excuses>>

(* loadProdutorForEdit is dispatched; fills tells whether the handler puts *)
(* the answer into the form.                                               *)
Dispatch(l, id, fills) ==
    /\ ~Loading(l)
    /\ loads' = [loads EXCEPT ![l] = [at |-> "sent", id |-> id, fills |-> fills]]

(* The form keeps what it had until the answer comes.                      *)
OpenEdit(id) ==
    /\ RowsShown /\ id \in store.items
    /\ \E l \in Loads : Dispatch(l, id, TRUE)
    /\ page' = [page EXCEPT !.overlay = "edit", !.selected = id]
    /\ store' = [store EXCEPT !.write = "idle", !.editing = "loading"]
    /\ excuses' = IF save = Idle /\ \A l \in Loads : ~Loading(l) THEN excuses \ {"form"} ELSE excuses
    /\ UNCHANGED <<server, lists, save, remove, failures>>

OpenDelete(id) ==
    /\ RowsShown /\ id \in store.items
    /\ page' = [page EXCEPT !.overlay = "delete", !.selected = id]
    /\ UNCHANGED <<server, store, calls, failures, excuses>>

(* closeOverlay while the producer is still loading.                       *)
CloseAnyOverlay ==
    /\ page.overlay \in {"create", "edit"}
    /\ page' = [page EXCEPT !.overlay = "none", !.selected = Nobody]
    /\ store' = [store EXCEPT !.write = "idle"]
    /\ UNCHANGED <<server, calls, failures, excuses>>

(* closeOverlay without setSelectedId(null).                               *)
CloseKeepingSelected ==
    /\ FormShown \/ (page.overlay = "edit" /\ store.editing = "failed")
    /\ page' = [page EXCEPT !.overlay = "none"]
    /\ store' = [store EXCEPT !.write = "idle"]
    /\ UNCHANGED <<server, calls, failures, excuses>>

(* closeOverlay: a save in flight goes on.  There is no way out of the     *)
(* overlay that shows that the producer is loading.                        *)
CloseOverlay ==
    /\ FormShown \/ (page.overlay = "edit" /\ store.editing = "failed")
    /\ page' = [page EXCEPT !.overlay = "none", !.selected = Nobody]
    /\ store' = [store EXCEPT !.write = "idle"]
    /\ UNCHANGED <<server, calls, failures, excuses>>

(* The Cancel of the delete dialog: a DELETE in flight goes on.            *)
CancelDelete ==
    /\ page.overlay = "delete"
    /\ page' = [page EXCEPT !.overlay = "none", !.selected = Nobody]
    /\ UNCHANGED <<server, store, calls, failures, excuses>>

-----------------------------------------------------------------------------
(* loadProdutorForEdit.                                                    *)

(* "Tentar novamente" dispatches the thunk alone.                          *)
RetryLoad ==
    /\ page.overlay = "edit" /\ store.editing = "failed"
    /\ \E l \in Loads : Dispatch(l, page.selected, FALSE)
    /\ store' = [store EXCEPT !.editing = "loading"]
    /\ excuses' = excuses \cup {"form"}
    /\ UNCHANGED <<server, page, lists, save, remove, failures>>

ReadForEdit(l) ==
    /\ loads[l].at = "sent" /\ loads[l].id \in Live
    /\ loads' = [loads EXCEPT ![l] = [at |-> "read", id |-> loads[l].id, fills |-> loads[l].fills,
                                      drafts |-> FarmsOf(loads[l].id)]]
    /\ UNCHANGED <<server, store, page, lists, save, remove, failures, excuses>>

(* The slice takes the answer, and the handler that awaits it fills the    *)
(* form, whatever is on the screen by now.                                 *)
LoadFulfilled(l) ==
    /\ loads[l].at = "read"
    /\ loads' = [loads EXCEPT ![l] = Idle]
    /\ store' = [store EXCEPT !.editing = "succeeded"]
    /\ page' = IF loads[l].fills
               THEN [page EXCEPT !.form = [from |-> loads[l].id, drafts |-> loads[l].drafts, new |-> 0]]
               ELSE page
    /\ UNCHANGED <<server, lists, save, remove, failures, excuses>>

(* A rejection that nobody handles.                                        *)
LoadForgotten(l) ==
    /\ loads[l].at = "sent"
    /\ IF loads[l].id \in Live THEN MayFail ELSE UNCHANGED failures
    /\ loads' = [loads EXCEPT ![l] = Idle]
    /\ UNCHANGED <<server, store, page, lists, save, remove, excuses>>

(* The call fails, or the producer is gone (404).                          *)
LoadRejected(l) ==
    /\ loads[l].at = "sent"
    /\ IF loads[l].id \in Live THEN MayFail ELSE UNCHANGED failures
    /\ loads' = [loads EXCEPT ![l] = Idle]
    /\ store' = [store EXCEPT !.editing = "failed"]
    /\ UNCHANGED <<server, page, lists, save, remove, excuses>>

-----------------------------------------------------------------------------
(* saveProdutor.                                                           *)

(* The user fills in the fields of another farm.                           *)
FillDraft ==
    /\ FormShown /\ page.form.new < NewDrafts
    /\ page' = [page EXCEPT !.form.new = @ + 1]
    /\ UNCHANGED <<server, store, calls, failures, excuses>>

(* handleSubmit, once the document and the areas are valid.  One save at a *)
(* time and the ids left are bounds of the model.                          *)
HandleSubmit ==
    /\ FormShown /\ store.write # "loading" /\ save = Idle
    /\ page.overlay = "create" => \E p \in ProducerIds : producers[p] = Unborn
    /\ page.form.new <= Cardinality({f \in FarmIds : farms[f] = Unborn})
    /\ save' = [at |-> "producer", saved |-> NoFarms,
                id |-> IF page.overlay = "edit" THEN page.selected ELSE Nobody,
                drafts |-> page.form.drafts, new |-> page.form.new]
    /\ store' = [store EXCEPT !.write = "loading"]
    /\ excuses' = Excuse("list", Fetching \/ remove # Idle)
    /\ UNCHANGED <<server, page, lists, loads, remove, failures>>

(* POST /producers.                                                        *)
CreateProdutor ==
    /\ save.at = "producer" /\ save.id = Nobody
    /\ \E p \in ProducerIds :
          /\ producers[p] = Unborn
          /\ producers' = [producers EXCEPT ![p] = Alive]
          /\ save' = [save EXCEPT !.at = "farms", !.id = p]
    /\ UNCHANGED <<farms, store, page, lists, loads, remove, failures, excuses>>

(* PATCH /producers/:id.                                                   *)
UpdateProdutor ==
    /\ save.at = "producer" /\ save.id \in Live
    /\ save' = [save EXCEPT !.at = "farms"]
    /\ UNCHANGED <<server, store, page, lists, loads, remove, failures, excuses>>

(* PATCH /farms/:id, which leaves the farm with its producer.              *)
UpdateFarm(f) ==
    /\ save.at = "farms" /\ f \in save.drafts /\ f \in LiveFarms
    /\ save' = [save EXCEPT !.drafts = @ \ {f}, !.saved[f] = farms[f]]
    /\ UNCHANGED <<server, store, page, lists, loads, remove, failures, excuses>>

(* POST /farms, after the drafts of stored farms.                          *)
CreateFarm ==
    /\ save.at = "farms" /\ save.drafts = {} /\ save.new > 0 /\ save.id \in Live
    /\ \E f \in FarmIds :
          /\ farms[f] = Unborn
          /\ farms' = [farms EXCEPT ![f] = save.id]
          /\ save' = [save EXCEPT !.new = @ - 1, !.saved[f] = save.id]
    /\ UNCHANGED <<producers, store, page, lists, loads, remove, failures, excuses>>

(* The call of the save that comes next finds its row gone.                *)
NextCallMissesRow ==
    \/ save.at = "producer" /\ save.id # Nobody /\ save.id \notin Live
    \/ save.at = "farms" /\ save.drafts \ LiveFarms # {}
    \/ save.at = "farms" /\ save.drafts = {} /\ save.new > 0 /\ save.id \notin Live

(* A call of the save fails.  Nothing undoes the calls before it.  When    *)
(* only its answer was lost, its own effect stays too.                     *)
SaveRejected ==
    /\ save # Idle
    /\ \/ NextCallMissesRow /\ UNCHANGED <<server, failures>>
       \/ (save.at = "producer" \/ save.drafts # {} \/ save.new > 0)
          /\ MayFail
          /\ \/ UNCHANGED server
             \/ /\ save.at = "producer" /\ save.id = Nobody
                /\ \E p \in ProducerIds : /\ producers[p] = Unborn
                                          /\ producers' = [producers EXCEPT ![p] = Alive]
                /\ UNCHANGED farms
             \/ /\ save.at = "farms" /\ save.drafts = {} /\ save.id \in Live
                /\ \E f \in FarmIds : /\ farms[f] = Unborn
                                      /\ farms' = [farms EXCEPT ![f] = save.id]
                /\ UNCHANGED producers
    /\ save' = Idle
    /\ store' = [store EXCEPT !.write = "failed"]
    /\ excuses' = Excuse("list", save.at = "farms" \/ server' # server)
    /\ UNCHANGED <<page, lists, loads, remove>>

(* A slice that takes every farm of the answer for one of the producer's.  *)
SaveFulfilledRelabelling ==
    /\ save.at = "farms" /\ save.drafts = {} /\ save.new = 0
    /\ store' = [store EXCEPT !.write = "succeeded", !.items = @ \cup {save.id},
                              !.farms = [f \in FarmIds |-> IF save.saved[f] # Nobody THEN save.id ELSE @[f]]]
    /\ page' = [page EXCEPT !.overlay = "none", !.selected = Nobody]
    /\ save' = Idle
    /\ excuses' = Excuse("form", \E l \in Loads : Loading(l))
    /\ UNCHANGED <<server, lists, loads, remove, failures>>

(* All calls succeeded: the slice takes what they returned, and the        *)
(* handler closes the overlay, whichever is open by now.                   *)
SaveFulfilled ==
    /\ save.at = "farms" /\ save.drafts = {} /\ save.new = 0
    /\ store' = [store EXCEPT !.write = "succeeded", !.items = @ \cup {save.id},
                              !.farms = [f \in FarmIds |-> IF save.saved[f] # Nobody THEN save.saved[f] ELSE @[f]]]
    /\ page' = [page EXCEPT !.overlay = "none", !.selected = Nobody]
    /\ save' = Idle
    /\ excuses' = Excuse("form", \E l \in Loads : Loading(l))
    /\ UNCHANGED <<server, lists, loads, remove, failures>>

-----------------------------------------------------------------------------
(* removeProdutor.                                                         *)

(* One removal at a time is a bound of the model.                          *)
HandleConfirmDelete ==
    /\ page.overlay = "delete" /\ remove = Idle
    /\ remove' = [at |-> "sent", id |-> page.selected]
    /\ excuses' = Excuse("list", Fetching \/ save # Idle)
    /\ UNCHANGED <<server, store, page, lists, loads, save, failures>>

(* The producer is removed, with its farms.                                *)
Cascade(id) ==
    /\ producers' = [producers EXCEPT ![id] = Gone]
    /\ farms' = [f \in FarmIds |-> IF farms[f] = id THEN Gone ELSE farms[f]]

(* removeProdutor.fulfilled that forgets the farms.                        *)
RemoveKeepingFarms ==
    /\ remove # Idle /\ remove.id \in Live
    /\ Cascade(remove.id)
    /\ store' = [store EXCEPT !.items = @ \ {remove.id}]
    /\ page' = [page EXCEPT !.overlay = "none", !.selected = Nobody]
    /\ remove' = Idle
    /\ excuses' = Excuse("form", \E l \in Loads : Loading(l))
    /\ UNCHANGED <<lists, loads, save, failures>>

(* DELETE /producers/:id succeeds, and the handler closes the overlay,     *)
(* whichever is open by now.                                               *)
RemoveFulfilled ==
    /\ remove # Idle /\ remove.id \in Live
    /\ Cascade(remove.id)
    /\ store' = [store EXCEPT !.items = @ \ {remove.id},
                   !.farms = [f \in FarmIds |-> IF @[f] = remove.id THEN Nobody ELSE @[f]]]
    /\ page' = [page EXCEPT !.overlay = "none", !.selected = Nobody]
    /\ remove' = Idle
    /\ excuses' = Excuse("form", \E l \in Loads : Loading(l))
    /\ UNCHANGED <<lists, loads, save, failures>>

RemoveRejected ==
    /\ remove # Idle
    /\ \/ remove.id \notin Live /\ UNCHANGED <<server, failures>>
       \/ remove.id \in Live /\ MayFail /\ (UNCHANGED server \/ Cascade(remove.id))
    /\ remove' = Idle
    /\ excuses' = Excuse("list", server' # server)
    /\ UNCHANGED <<store, page, lists, loads, save>>

-----------------------------------------------------------------------------

FetchStep ==
    \/ ReadProducers \/ FetchProdutoresFulfilled \/ FetchProdutoresRejected
    \/ \E g \in FarmFetches : ReadFarms(g) \/ FetchFarmsFulfilled(g) \/ FetchFarmsRejected(g)

LoadStep(l) == ReadForEdit(l) \/ LoadFulfilled(l) \/ LoadRejected(l)

SaveStep ==
    \/ CreateProdutor \/ UpdateProdutor \/ CreateFarm
    \/ \E f \in FarmIds : UpdateFarm(f)
    \/ SaveFulfilled \/ SaveRejected

RemoveStep == RemoveFulfilled \/ RemoveRejected

UserStep ==
    \/ HandleRetry \/ OpenCreate \/ CloseOverlay \/ CancelDelete \/ RetryLoad
    \/ FillDraft \/ HandleSubmit \/ HandleConfirmDelete
    \/ \E id \in ProducerIds : OpenEdit(id) \/ OpenDelete(id)

Next == UserStep \/ FetchStep \/ (\E l \in Loads : LoadStep(l)) \/ SaveStep \/ RemoveStep

Spec == Init /\ [][Next]_vars

(* The calls of a load are answered or fail at last; the other calls and   *)
(* the user owe nothing.                                                   *)
Fairness == \A l \in Loads : WF_vars(LoadStep(l))

FairSpec == Spec /\ Fairness

-----------------------------------------------------------------------------

(* README.md:78: the form of an edition shows the data of the producer it  *)
(* is about to save, and no other one's.                                   *)
FormShowsSelected == FormShown => page.form.from = page.selected

(* The two ways to break it: a load that was retried, whose answer never   *)
(* reaches the form, and a load whose overlay was closed under it by the   *)
(* answer to a save or to a removal, and that fills the form of the next.  *)
FormShowsSelectedOtherwise ==
    "form" \notin excuses => FormShowsSelected

(* A save writes the farms of its own producer only: the PATCHes of a save *)
(* never reach the farms of another one, with the same two exceptions.     *)
SavesItsOwnFarms ==
    save # Idle /\ "form" \notin excuses =>
        \A f \in save.drafts : farms[f] \in {save.id, Gone}

(* When nothing is in flight the list is what the API has, after any       *)
(* sequence of saves and deletes, unless a write ran beside another one or *)
(* beside the fetch of the lists, or had an effect and then failed, and    *)
(* the lists were not fetched since.  A retry beside a fetchFarms that has *)
(* read already does not count as one: the two answer in any order, and    *)
(* the older list may be the last.                                         *)
AtRest ==
    /\ ~Fetching /\ save = Idle /\ remove = Idle
    /\ store.status = "succeeded" /\ store.farmsStatus = "succeeded"

ListIsTheServers ==
    AtRest /\ "list" \notin excuses =>
        /\ store.items = Live
        /\ \A f \in FarmIds : store.farms[f] = IF f \in LiveFarms THEN farms[f] ELSE Nobody

(* With no exception at all: what overlapping and half-done writes, late   *)
(* answers and forms of another producer's data leave in the list only     *)
(* lags.  A producer of the list was registered, and a farm of the list is *)
(* under the producer it belongs to, or gone.                              *)
ListOnlyLags ==
    /\ \A p \in store.items : producers[p] # Unborn
    /\ \A f \in FarmIds : store.farms[f] # Nobody => farms[f] \in {store.farms[f], Gone}

(* The overlay that shows that a producer is loading covers the page and   *)
(* has no button: it must end, whichever calls fail.                       *)
EditingSpinnerEnds == store.editing = "loading" ~> store.editing # "loading"

=============================================================================
