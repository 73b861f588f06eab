------------------------------ MODULE Seasons -------------------------------
(***************************************************************************)
(* src/seasons: SeasonsController, SeasonsService and                      *)
(* SeasonPrismaRepository, over the seasons table.  A season that a        *)
(* planted crop references cannot be deleted.                              *)
(***************************************************************************)
EXTENDS Store

CONSTANT SeasonRequests       \* requests to /seasons handled at a time

VARIABLE seasonCall

Season == INSTANCE Keyed WITH
    Ids <- SeasonIds, Keys <- Years, Requests <- SeasonRequests,
    table <- seasons, call <- seasonCall

otherThanSeasons == <<producers, farms, crops, planted>>

PostSeason(r) == (\E year \in Years : Season!Post(r, year)) /\ UNCHANGED otherThanSeasons

PatchSeason(r) ==
    /\ \E id \in SeasonIds, year \in Years \cup {Omitted} : Season!Patch(r, id, year)
    /\ UNCHANGED otherThanSeasons

RequestSeasonDelete(r) ==
    (\E id \in SeasonIds : Season!Delete(r, id)) /\ UNCHANGED otherThanSeasons

FindSeasonByYear(r) == Season!FindByKey(r) /\ UNCHANGED otherThanSeasons

InsertSeason(r) == Season!Insert(r) /\ UNCHANGED otherThanSeasons

FindSeason(r) == Season!FindById(r) /\ UNCHANGED otherThanSeasons

(* Writing a new year waits for the transactions that reference the row.   *)
UpdateSeason(r) ==
    /\ Season!Update(r)
    /\ SeasonHeld(seasonCall[r].id) => seasonCall[r].key \in {Omitted, seasons[seasonCall[r].id]}
    /\ UNCHANGED otherThanSeasons

SeasonReferenced(id) == \E p \in Visible : planted[p].seasonId = id

(* A DELETE that looks for references without waiting for the transactions *)
(* that are writing one.                                                   *)
DeleteSeasonUnlocked(r) ==
    /\ UNCHANGED otherThanSeasons
    /\ \/ Season!DeleteNothing(r)
       \/ Season!RefuseDelete(r) /\ SeasonReferenced(seasonCall[r].id)
       \/ Season!DeleteRow(r) /\ ~SeasonReferenced(seasonCall[r].id)

(* The DELETE: it waits for the transactions that reference the row, and   *)
(* ON DELETE RESTRICT refuses it when a planted crop does (409).           *)
DeleteSeason(r) ==
    LET id == seasonCall[r].id
    IN /\ UNCHANGED otherThanSeasons
       /\ \/ Season!DeleteNothing(r)
          \/ Season!RefuseDelete(r) /\ ~SeasonHeld(id) /\ SeasonReferenced(id)
          \/ Season!DeleteRow(r) /\ ~SeasonHeld(id) /\ ~SeasonReferenced(id)

LoseSeasonRequest(r) == Season!LoseDatabase(r) /\ UNCHANGED otherThanSeasons

HandleSeason(r) ==
    \/ FindSeasonByYear(r)
    \/ InsertSeason(r)
    \/ FindSeason(r)
    \/ UpdateSeason(r)
    \/ DeleteSeason(r)

SeasonsNext ==
    \E r \in SeasonRequests :
        \/ PostSeason(r)
        \/ PatchSeason(r)
        \/ RequestSeasonDelete(r)
        \/ HandleSeason(r)
        \/ LoseSeasonRequest(r)

=============================================================================
