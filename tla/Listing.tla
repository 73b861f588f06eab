------------------------------- MODULE Listing ------------------------------
(***************************************************************************)
(* The five paginated lists of the API, and a client that reads one of     *)
(* them page by page while others write.  A page is two queries, the rows  *)
(* and the total, sent together over two connections: PostgreSQL runs them *)
(* in either order and writes may come between.  Nothing ties the pages of *)
(* a walk together either: each is an offset into the list as it is then.  *)
(***************************************************************************)
EXTENDS Naturals, FiniteSets, Sequences

CONSTANTS
    Ids,            \* the rows there may be
    Keys,           \* the values of the column the list is ordered by
    Limits,         \* the limits the client asks for
    MaxWrites,      \* bound: rows that join, and that leave, during a walk
    Unborn, Gone,   \* no row yet, no row any more
    NotYet          \* a query that has not answered

ASSUME IdsAssumption == IsFiniteSet(Ids)

ASSUME KeysAssumption == Keys \subseteq Nat

(* PaginationQueryDto: @Min(1) and @Max(100).                              *)
ASSUME LimitsAssumption == Limits \subseteq 1 .. 100

ASSUME MarksAssumption == NotYet \notin Nat \cup Seq(Ids)

VARIABLES
    list,       \* which list is read; never changes
    table,      \* its rows: id -> key, Unborn or Gone
    outside,    \* the rows its filters leave out
    walk,       \* the client's walk over the pages
    history     \* what happened to the list since the walk began

vars == <<list, table, outside, walk, history>>

(* The lists: their order, whether the key is unique, and whether a PATCH  *)
(* may move a row in or out of the filters.                                *)
ProducersList == [order |-> "desc", unique |-> FALSE, movable |-> FALSE]
FarmsList == [order |-> "desc", unique |-> FALSE, movable |-> TRUE]
SeasonsList == [order |-> "asc", unique |-> TRUE, movable |-> FALSE]
CropsList == [order |-> "asc", unique |-> TRUE, movable |-> FALSE]
PlantedList == [order |-> "desc", unique |-> FALSE, movable |-> FALSE]

Lists == {ProducersList, FarmsList, SeasonsList, CropsList, PlantedList}

Live == {id \in Ids : table[id] \notin {Unborn, Gone}}
Listed == Live \ outside
Free(key) == list.unique => \A id \in Live : table[id] # key

InOrder(a, b) == IF list.order = "asc" THEN table[a] <= table[b] ELSE table[b] <= table[a]

(* The query without its orderBy.                                         *)
Unordered ==
    {s \in [1 .. Cardinality(Listed) -> Listed] : \A i, j \in DOMAIN s : i < j => s[i] # s[j]}

(* The orders in which a query may return the rows: SQL promises nothing   *)
(* for rows with equal keys, from one query to the next.                   *)
Orders ==
    {s \in [1 .. Cardinality(Listed) -> Listed] :
        \A i, j \in DOMAIN s : i < j => s[i] # s[j] /\ InOrder(s[i], s[j])}

Ties == \E a, b \in Listed : a # b /\ table[a] = table[b]

-----------------------------------------------------------------------------
(* The walk.                                                               *)

Idle == walk.at = "idle"
Asking == walk.at = "asking"

NewHistory ==
    [left |-> 0, joined |-> 0, between |-> 0, tied |-> FALSE, steady |-> Listed]

Walk(at, limit) ==
    [at |-> at, limit |-> limit, page |-> 1, rows |-> NotYet, total |-> NotYet, got |-> <<>>]

Init ==
    /\ list \in Lists
    /\ table \in [Ids -> Keys \cup {Unborn}]
    /\ outside = {}
    /\ list.unique => ~Ties
    /\ walk \in {Walk("idle", limit) : limit \in Limits}
    /\ history = NewHistory

(* The client asks for the first page.                                     *)
Start(limit) ==
    /\ ~Asking
    /\ walk' = Walk("asking", limit)
    /\ history' = NewHistory
    /\ UNCHANGED <<list, table, outside>>

(* The service's offset, with pages counted from zero.                     *)
OffsetFromZero == walk.page * walk.limit

Offset == (walk.page - 1) * walk.limit

(* The query without its take.                                             *)
PageToTheEnd(s) == SubSeq(s, Offset + 1, Len(s))

(* take and skip.                                                          *)
Page(s) ==
    LET n == IF Len(s) <= Offset THEN 0
             ELSE IF Len(s) - Offset < walk.limit THEN Len(s) - Offset ELSE walk.limit
    IN [i \in 1 .. n |-> s[Offset + i]]

(* findMany answers with the rows of the page.                             *)
FindMany ==
    /\ Asking /\ walk.rows = NotYet
    /\ \E s \in Orders : walk' = [walk EXCEPT !.rows = Page(s)]
    /\ history' = [history EXCEPT !.tied = @ \/ Ties]
    /\ UNCHANGED <<list, table, outside>>

(* A count() without the filters of findMany.                              *)
CountLive ==
    /\ Asking /\ walk.total = NotYet
    /\ walk' = [walk EXCEPT !.total = Cardinality(Live)]
    /\ UNCHANGED <<list, table, outside, history>>

(* count answers with the total.                                           *)
Count ==
    /\ Asking /\ walk.total = NotYet
    /\ walk' = [walk EXCEPT !.total = Cardinality(Listed)]
    /\ UNCHANGED <<list, table, outside, history>>

(* The service answers {data, meta}; the client goes on to the next page   *)
(* until it has asked for as many rows as there are.                       *)
Respond ==
    /\ Asking /\ walk.rows # NotYet /\ walk.total # NotYet
    /\ walk' = IF walk.page * walk.limit >= walk.total
               THEN [walk EXCEPT !.at = "done", !.got = @ \o walk.rows]
               ELSE [walk EXCEPT !.page = @ + 1, !.got = @ \o walk.rows,
                                 !.rows = NotYet, !.total = NotYet]
    /\ history' = [history EXCEPT !.between = 0]
    /\ UNCHANGED <<list, table, outside>>

-----------------------------------------------------------------------------
(* The writes of others.                                                   *)

MayWrite == Asking => history.left < MaxWrites /\ history.joined < MaxWrites

HalfAnswered == (walk.rows = NotYet) # (walk.total = NotYet)

(* Row id leaves the list (l = 1), joins it (j = 1), or moves in it.       *)
Note(id, l, j) ==
    history' = IF ~Asking THEN history
               ELSE [history EXCEPT !.left = @ + l, !.joined = @ + j, !.steady = @ \ {id},
                                    !.between = IF HalfAnswered THEN @ + l + j ELSE @]

(* A new row.  createdAt was taken when its statement ran, so the row may  *)
(* become visible after one that is younger.                               *)
Insert(id, key) ==
    /\ MayWrite /\ table[id] = Unborn /\ Free(key)
    /\ table' = [table EXCEPT ![id] = key]
    /\ Note(id, 0, 1)
    /\ UNCHANGED <<list, outside, walk>>

Delete(id) ==
    /\ MayWrite /\ id \in Live
    /\ table' = [table EXCEPT ![id] = Gone]
    /\ Note(id, IF id \in Listed THEN 1 ELSE 0, 0)
    /\ UNCHANGED <<list, outside, walk>>

(* PATCH /seasons or /crops with a new year or name.                       *)
Rekey(id, key) ==
    /\ MayWrite /\ list.unique /\ id \in Live /\ Free(key)
    /\ table' = [table EXCEPT ![id] = key]
    /\ Note(id, 1, 1)
    /\ UNCHANGED <<list, outside, walk>>

(* PATCH /farms: another producer, state or city.                          *)
Move(id) ==
    /\ MayWrite /\ list.movable /\ id \in Live
    /\ outside' = IF id \in outside THEN outside \ {id} ELSE outside \cup {id}
    /\ Note(id, IF id \in outside THEN 0 ELSE 1, IF id \in outside THEN 1 ELSE 0)
    /\ UNCHANGED <<list, table, walk>>

Next ==
    \/ \E limit \in Limits : Start(limit)
    \/ FindMany \/ Count \/ Respond
    \/ \E id \in Ids, key \in Keys : Insert(id, key) \/ Rekey(id, key)
    \/ \E id \in Ids : Delete(id) \/ Move(id)

Spec == Init /\ [][Next]_vars

-----------------------------------------------------------------------------

(* Types: the walk holds what its two queries answered so far.             *)
TypeOK ==
    /\ list \in Lists
    /\ table \in [Ids -> Keys \cup {Unborn, Gone}]
    /\ outside \subseteq Ids
    /\ walk \in [at : {"idle", "asking", "done"}, limit : Limits, page : Nat \ {0},
                rows : Seq(Ids) \cup {NotYet}, total : Nat \cup {NotYet}, got : Seq(Ids)]
    /\ walk.rows # NotYet => Len(walk.rows) <= walk.limit
    /\ history \in [left : Nat, joined : Nat, between : Nat, tied : BOOLEAN, steady : SUBSET Ids]

Times(id) == Cardinality({i \in DOMAIN walk.got : walk.got[i] = id})
Missed == {id \in history.steady : Times(id) = 0}
Repeated == {id \in Ids : Times(id) > 1}

Done == walk.at = "done"

(* A walk misses a row that was in the list all along only as often as     *)
(* rows left or joined the list meanwhile: one that leaves pulls a row     *)
(* over the edge of a page, one that joins between the total and the rows  *)
(* ends the walk early.  Only ties of createdAt do worse.                  *)
MissesOnlyByWrites ==
    Done /\ ~history.tied => Cardinality(Missed) <= history.left + history.joined

(* A walk shows a row twice only as often as rows joined the list.         *)
RepeatsOnlyByWrites == Done /\ ~history.tied => Cardinality(Repeated) <= history.joined

(* meta.total and the rows of a page are of two states; they disagree by   *)
(* no more than what was written between the two queries.                  *)
Expected ==
    IF walk.total <= Offset THEN 0
    ELSE IF walk.total - Offset < walk.limit THEN walk.total - Offset ELSE walk.limit

TotalFitsPage ==
    Asking /\ walk.rows # NotYet /\ walk.total # NotYet =>
        /\ Len(walk.rows) <= Expected + history.between
        /\ Expected <= Len(walk.rows) + history.between

=============================================================================
