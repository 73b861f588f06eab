-------------------------------- MODULE Boot -------------------------------
(***************************************************************************)
(* The start of the API's container: migrate deploy, then prisma/seed.ts,  *)
(* then main.ts, again at every restart.  The seed is a sequence of        *)
(* statements with no transaction around them: the container may die, and  *)
(* the database go away, between any two.  Between two starts users change *)
(* the tables.                                                             *)
(*                                                                         *)
(* A row is what the seed calls it; rows counts its copies.  Two of its    *)
(* three producers get a random document and its farms have no key, so     *)
(* nothing but the count of producers keeps them from a second copy; the   *)
(* third has one fixed document, and is modelled like the others, for      *)
(* which more can happen.  Seasons and crops have a unique key.            *)
(***************************************************************************)
EXTENDS Naturals, FiniteSets, TLAPS

CONSTANTS
    Producers, Seasons, Crops, Farms, Plantings,    \* the demonstration data
    Guest,          \* a producer that users register
    ProducerOf, FarmOf, SeasonOf, CropOf,           \* their references
    MaxCrashes,     \* deaths of the container (a bound of the model)
    Faults          \* may the database go away?

VARIABLES
    stage,          \* of the container, and of the seed in it
    pending,        \* rows that the Promise.all of the stage has not inserted
    rows,
    database,       \* reachable?
    crashes

vars == <<stage, pending, rows, database, crashes>>

Demo == Producers \cup Seasons \cup Crops \cup Farms \cup Plantings
Rows == Demo \cup {Guest}
Catalog == Seasons \cup Crops

ASSUME ReferencesAssumption ==
    /\ ProducerOf \in [Farms -> Producers] /\ FarmOf \in [Plantings -> Farms]
    /\ SeasonOf \in [Plantings -> Seasons] /\ CropOf \in [Plantings -> Crops]
ASSUME GuestAssumption == Guest \notin Demo
ASSUME DisjointAssumption ==
    /\ Producers \cap (Seasons \cup Crops \cup Farms \cup Plantings) = {}
    /\ Seasons \cap (Crops \cup Farms \cup Plantings) = {}
    /\ Crops \cap (Farms \cup Plantings) = {}
    /\ Farms \cap Plantings = {}
ASSUME CrashesAssumption == MaxCrashes \in Nat /\ Faults \in BOOLEAN

Groups == {"producers", "seasons", "crops", "farms", "plantings"}

TypeOK ==
    /\ stage \in {"down", "migrated", "failing", "failed", "seeded", "listening"} \cup Groups
    /\ pending \subseteq Demo
    /\ stage \in Groups \cup {"failing"} \/ pending = {}
    /\ rows \in [Rows -> Nat]
    /\ database \in BOOLEAN
    /\ crashes \in 0 .. MaxCrashes

Init ==
    /\ stage = "down" /\ pending = {}
    /\ rows = [r \in Rows |-> 0]
    /\ database = TRUE /\ crashes = 0

Present(r) == rows[r] > 0
Add(S) == [r \in Rows |-> IF r \in S THEN rows[r] + 1 ELSE rows[r]]
Drop(S) == [r \in Rows |-> IF r \in S THEN 0 ELSE rows[r]]

-----------------------------------------------------------------------------
(* The seed.                                                               *)

(* prisma migrate deploy: the tables are up to date.                       *)
Migrate ==
    /\ stage = "down" /\ database
    /\ stage' = "migrated"
    /\ UNCHANGED <<pending, rows, database, crashes>>

(* Seasons and crops first.                                                *)
CatalogFirst(from) ==
    CASE from = "migrated" -> "seasons" [] from = "seasons" -> "crops"
      [] from = "crops" -> "producers" [] from = "producers" -> "farms"
      [] from = "farms" -> "plantings" [] from = "plantings" -> "seeded"

(* The order of the statements of the seed.                                *)
Following(from) ==
    CASE from = "migrated" -> "producers" [] from = "producers" -> "seasons"
      [] from = "seasons" -> "crops" [] from = "crops" -> "farms"
      [] from = "farms" -> "plantings" [] from = "plantings" -> "seeded"

RowsOf(group) ==
    CASE group = "producers" -> Producers [] group = "seasons" -> Seasons
      [] group = "crops" -> Crops [] group = "farms" -> Farms
      [] group = "plantings" -> Plantings [] group = "seeded" -> {}

Enter(group) == stage' = group /\ pending' = RowsOf(group)

(* A seed that does not look at what there is.                             *)
CountNothing ==
    /\ stage = "migrated" /\ database
    /\ Enter(Following(stage))
    /\ UNCHANGED <<rows, database, crashes>>

(* producer.count(): any producer is a reason to leave.                    *)
Count ==
    /\ stage = "migrated" /\ database
    /\ Enter(IF \E p \in Producers \cup {Guest} : Present(p) THEN "seeded" ELSE Following(stage))
    /\ UNCHANGED <<rows, database, crashes>>

(* One create of a Promise.all commits.  It also may once another one has  *)
(* failed.                                                                 *)
Insert(r) ==
    /\ r \in pending /\ stage # "plantings" /\ database
    /\ ~(r \in Catalog /\ Present(r))
    /\ rows' = Add({r}) /\ pending' = pending \ {r}
    /\ UNCHANGED <<stage, database, crashes>>

(* createMany: all of them in one statement.                               *)
CreateMany ==
    /\ stage = "plantings" /\ pending # {} /\ database
    /\ rows' = Add(pending) /\ pending' = {}
    /\ UNCHANGED <<stage, database, crashes>>

(* The Promise.all is resolved.                                            *)
Resolve ==
    /\ stage \in Groups /\ pending = {}
    /\ Enter(Following(stage))
    /\ UNCHANGED <<rows, database, crashes>>

(* P2002 on a season or a crop, or no database: main() is rejected.  The   *)
(* other creates of a Promise.all stay in flight.                          *)
Reject ==
    /\ \/ stage \in Groups /\ \E r \in pending : ~database \/ (r \in Catalog /\ Present(r))
       \/ stage = "migrated" /\ ~database
    /\ stage' = "failing" /\ pending' = pending \ Plantings
    /\ UNCHANGED <<rows, database, crashes>>

(* The exit code is not set.                                               *)
SeedEndsWell ==
    /\ stage = "failing"
    /\ stage' = "seeded" /\ pending' = {}
    /\ UNCHANGED <<rows, database, crashes>>

(* The process ends with code 1, and the container with it.                *)
SeedFails ==
    /\ stage = "failing"
    /\ stage' = "failed" /\ pending' = {}
    /\ UNCHANGED <<rows, database, crashes>>

-----------------------------------------------------------------------------
(* The rest of the container's life.                                       *)

(* main.ts connects to the database and listens.                           *)
Listen ==
    /\ stage = "seeded" /\ database
    /\ stage' = "listening"
    /\ UNCHANGED <<pending, rows, database, crashes>>

(* $connect fails.                                                         *)
MainFails ==
    /\ stage = "seeded" /\ ~database
    /\ stage' = "failed"
    /\ UNCHANGED <<pending, rows, database, crashes>>

(* restart: unless-stopped.                                                *)
Restart ==
    /\ stage = "failed"
    /\ stage' = "down"
    /\ UNCHANGED <<pending, rows, database, crashes>>

(* A restart that goes on with what the dead process was doing.            *)
CrashKeepingPending ==
    /\ stage # "down" /\ crashes < MaxCrashes
    /\ stage' = "down" /\ crashes' = crashes + 1
    /\ UNCHANGED <<pending, rows, database>>

(* The container dies, or is restarted, at any point.                      *)
Crash ==
    /\ stage # "down" /\ crashes < MaxCrashes
    /\ stage' = "down" /\ pending' = {} /\ crashes' = crashes + 1
    /\ UNCHANGED <<rows, database>>

DatabaseChanges ==
    /\ Faults /\ database' = ~database
    /\ UNCHANGED <<stage, pending, rows, crashes>>

-----------------------------------------------------------------------------
(* Requests of users, each a legal operation of the API (module Api).      *)

Farmed(producers) == {f \in Farms : ProducerOf[f] \in producers}
Planted(farms) == {q \in Plantings : FarmOf[q] \in farms}

UserStep ==
    /\ stage = "listening" /\ database
    /\ \/ rows' = Add({Guest}) /\ ~Present(Guest)
       \/ \E c \in Catalog : ~Present(c) /\ rows' = Add({c})
       \/ \E p \in Producers \cup {Guest} :
            Present(p) /\ rows' = Drop({p} \cup Farmed({p}) \cup Planted(Farmed({p})))
       \/ \E f \in Farms : Present(f) /\ rows' = Drop({f} \cup Planted({f}))
       \/ \E q \in Plantings : Present(q) /\ rows' = Drop({q})
       \/ \E c \in Catalog :
            /\ Present(c) /\ rows' = Drop({c})
            /\ \A q \in Plantings : Present(q) => c \notin {SeasonOf[q], CropOf[q]}
    /\ UNCHANGED <<stage, pending, database, crashes>>

ContainerStep ==
    \/ Migrate \/ Count \/ CreateMany \/ Resolve \/ Reject \/ SeedFails
    \/ Listen \/ MainFails \/ Restart
    \/ \E r \in pending : Insert(r)

Next == ContainerStep \/ Crash \/ DatabaseChanges \/ UserStep

Spec == Init /\ [][Next]_vars

(* The container goes on, and compose restarts it.                         *)
FairSpec == Spec /\ WF_vars(ContainerStep)

-----------------------------------------------------------------------------

(* README.md:119, nunca duplica: no restart, and no start that was cut     *)
(* short, leaves two copies of a demonstration row.                        *)
NeverDuplicates == \A r \in Rows : rows[r] <= 1

(* Once the database stays, the container listens again and again: a start *)
(* that fails, or dies halfway, never makes all the next ones fail.        *)
ListensAtLast == <>[]database => []<>(stage = "listening")

(* A seed that inserts and lets the API start has inserted all of its      *)
(* demonstration data.                                                     *)
StartsWithAllOrNothing ==
    [][ stage' = "seeded" /\ stage # "seeded" /\ stage # "migrated"
        => \A r \in Demo : rows'[r] > 0 ]_vars

(* README.md:119, "seguro em todo restart do container": where nothing     *)
(* fails and nothing crashes in the seed, a restart does not fail.         *)
SafeAtEveryRestart == stage # "failed"

=============================================================================
