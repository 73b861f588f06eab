------------------------------ MODULE Dashboard -----------------------------
(***************************************************************************)
(* GET /dashboard from the tables to the screen: the aggregation, the      *)
(* snapshot in Redis and its time to live, the scheduler that refreshes it *)
(* at boot and at every interval, DashboardService, and the dashboard page *)
(* of the frontend.  PostgreSQL and Redis come and go; the process crashes *)
(* and is restarted.                                                       *)
(*                                                                         *)
(* The tables are a version, the number of writes committed so far.  The   *)
(* three queries of an aggregation run at different times, so a snapshot   *)
(* is the version its first query saw (low) and the one its last query saw *)
(* (high): it is a state of the database when the two are equal.           *)
(***************************************************************************)
EXTENDS Naturals, FiniteSets, TLAPS

CONSTANTS
    Ttl,            \* DASHBOARD_CACHE_TTL_SECONDS, in ticks
    Refreshes,      \* refreshes in flight at a time (a bound of the model)
    Loads,          \* loads of the page in flight at a time (a bound as well)
    MaxVersion,     \* writes (a bound as well)
    Faults,         \* may services fail, and the process crash or be closed?
    Off, Nothing

VARIABLES
    process,        \* the API: down, starting (onApplicationBootstrap), listening, closed
    database, redis,    \* reachable?
    version,
    cache,          \* dashboard:snapshot in Redis, or Nothing
    timer,          \* ticks until setInterval fires, or Off
    refresh,        \* the calls of refresh()
    loads,          \* the GETs of the page
    page            \* dashboardSlice

vars == <<process, database, redis, version, cache, timer, refresh, loads, page>>

ASSUME TtlAssumption == Ttl \in Nat \ {0}
ASSUME MaxVersionAssumption == MaxVersion \in Nat
ASSUME FaultsAssumption == Faults \in BOOLEAN
ASSUME MarkersAssumption == Off \notin Nat /\ Nothing \notin Nat /\ Nothing \notin [snapshot : [low : Nat, high : Nat], ttl : Nat]

Versions == 0 .. MaxVersion
Snapshots == [low : Versions, high : Versions]
Entries == [snapshot : Snapshots, ttl : 1 .. Ttl]
Idle == [at |-> "idle"]

(* A call of refresh(): its age in ticks, up to Ttl, and whether another   *)
(* one was in flight with it.                                              *)
Aggregating == [at : {"aggregate"}, low : Versions \cup {Nothing}, age : 0 .. Ttl, shared : BOOLEAN]
Setting == [at : {"set"}, snapshot : Snapshots, age : 0 .. Ttl, shared : BOOLEAN]

TypeOK ==
    /\ process \in {"down", "starting", "listening", "closed"}
    /\ database \in BOOLEAN /\ redis \in BOOLEAN
    /\ version \in Versions
    /\ cache \in Entries \cup {Nothing}
    /\ timer \in 0 .. Ttl \cup {Off}
    /\ refresh \in [Refreshes -> {Idle} \cup Aggregating \cup Setting]
    /\ loads \in [Loads -> {Idle} \cup [at : {"get", "lost"}]
                             \cup [at : {"aggregate"}, low : Versions \cup {Nothing}]]
    /\ page \in [status : {"idle", "loading", "succeeded", "failed"},
                 data : Snapshots \cup {Nothing}]

InFlight(r) == refresh[r].at # "idle"
Refreshing == {r \in Refreshes : InFlight(r)}
Pending(l) == loads[l].at # "idle"

Init ==
    /\ process = "down" /\ database = TRUE /\ redis = TRUE
    /\ version = 0 /\ cache = Nothing /\ timer = Off
    /\ refresh = [r \in Refreshes |-> Idle]
    /\ loads = [l \in Loads |-> Idle]
    /\ page = [status |-> "idle", data |-> Nothing]

-----------------------------------------------------------------------------
(* The world: writes, services, time.                                      *)

services == <<process, database, redis>>
api == <<timer, refresh>>
front == <<loads, page>>

(* A request to the registry commits.                                      *)
Write ==
    /\ process = "listening" /\ database
    /\ version < MaxVersion /\ version' = version + 1
    /\ UNCHANGED <<services, cache, api, front>>

DatabaseChanges ==
    /\ Faults /\ database' = ~database
    /\ UNCHANGED <<process, redis, version, cache, api, front>>

(* Redis may come back without the entry.                                  *)
RedisChanges ==
    /\ Faults /\ redis' = ~redis
    /\ cache' \in {cache, Nothing}
    /\ UNCHANGED <<process, database, version, api, front>>

OneTickLess(n) == IF n \in Nat \ {0} THEN n - 1 ELSE n
OneTickOlder(call) == IF call.at # "idle" /\ call.age < Ttl THEN [call EXCEPT !.age = @ + 1] ELSE call

(* Time passes: the timer runs, the entry of the cache ages and expires.   *)
(* A timer that is due may be late, as the event loop is.                  *)
Tick ==
    /\ timer' = OneTickLess(timer)
    /\ cache' = IF cache = Nothing \/ cache.ttl = 1 THEN Nothing ELSE [cache EXCEPT !.ttl = @ - 1]
    /\ refresh' = [r \in Refreshes |-> OneTickOlder(refresh[r])]
    /\ UNCHANGED <<services, version, front>>

-----------------------------------------------------------------------------
(* DashboardCacheRefreshScheduler.                                         *)

(* refresh() is called, in a free slot.                                    *)
Begin(r) ==
    LET together == Refreshing # {}
    IN /\ ~InFlight(r)
       /\ refresh' = [s \in Refreshes |->
            IF s = r THEN [at |-> "aggregate", low |-> Nothing, age |-> 0, shared |-> together]
            ELSE IF InFlight(s) THEN [refresh[s] EXCEPT !.shared = TRUE] ELSE Idle]

(* The container starts, connects to the database and enters               *)
(* onApplicationBootstrap, which awaits a refresh.                         *)
Start ==
    /\ process = "down" /\ database
    /\ process' = "starting"
    /\ \E r \in Refreshes : Begin(r)
    /\ UNCHANGED <<database, redis, version, cache, timer, front>>

(* The interval, had it been set only after a refresh that succeeded.      *)
ListenIfCached ==
    /\ process = "starting" /\ Refreshing = {}
    /\ process' = "listening"
    /\ timer' = IF cache = Nothing THEN Off ELSE Ttl
    /\ UNCHANGED <<database, redis, version, cache, refresh, front>>

(* The refresh has ended, in whatever way: the interval is set, and the    *)
(* application listens.                                                    *)
Listen ==
    /\ process = "starting" /\ Refreshing = {}
    /\ process' = "listening"
    /\ timer' = Ttl
    /\ UNCHANGED <<database, redis, version, cache, refresh, front>>

(* An interval that is shorter than the time to live.                      *)
FireEarly ==
    /\ timer = 0
    /\ \E r \in Refreshes : Begin(r)
    /\ timer' = Ttl - 1
    /\ UNCHANGED <<services, version, cache, front>>

(* setInterval fires: it starts a refresh, whether or not the last one has *)
(* ended.                                                                  *)
Fire ==
    /\ timer = 0
    /\ \E r \in Refreshes : Begin(r)
    /\ timer' = Ttl
    /\ UNCHANGED <<services, version, cache, front>>

(* The first of the three queries answers.                                 *)
ReadFirst(r) ==
    /\ refresh[r].at = "aggregate" /\ refresh[r].low = Nothing /\ database
    /\ refresh' = [refresh EXCEPT ![r].low = version]
    /\ UNCHANGED <<services, version, cache, timer, front>>

(* The last of them does: the snapshot is stamped and sent to the cache.   *)
ReadLast(r) ==
    /\ refresh[r].at = "aggregate" /\ refresh[r].low # Nothing /\ database
    /\ refresh' = [refresh EXCEPT ![r] =
                     [at |-> "set", snapshot |-> [low |-> refresh[r].low, high |-> version],
                      age |-> refresh[r].age, shared |-> refresh[r].shared]]
    /\ UNCHANGED <<services, version, cache, timer, front>>

(* A refresh against a Redis client that never gives up.                   *)
RefreshHangs(r) ==
    /\ refresh[r].at = "aggregate" /\ ~database
    /\ refresh' = [refresh EXCEPT ![r] = Idle]
    /\ UNCHANGED <<services, version, cache, timer, front>>

(* A query fails, or the write to Redis does after its connection timeout: *)
(* refresh() catches it and ends.                                          *)
RefreshFails(r) ==
    /\ \/ refresh[r].at = "aggregate" /\ ~database
       \/ refresh[r].at = "set" /\ ~redis
    /\ refresh' = [refresh EXCEPT ![r] = Idle]
    /\ UNCHANGED <<services, version, cache, timer, front>>

(* The time to live, converted twice.                                      *)
SetTooLong(r) ==
    /\ refresh[r].at = "set" /\ redis
    /\ cache' = [snapshot |-> refresh[r].snapshot, ttl |-> 1000 * Ttl]
    /\ refresh' = [refresh EXCEPT ![r] = Idle]
    /\ UNCHANGED <<services, version, timer, front>>

(* The snapshot replaces the one in the cache, for one time to live.       *)
Set(r) ==
    /\ refresh[r].at = "set" /\ redis
    /\ cache' = [snapshot |-> refresh[r].snapshot, ttl |-> Ttl]
    /\ refresh' = [refresh EXCEPT ![r] = Idle]
    /\ UNCHANGED <<services, version, timer, front>>

RefreshStep(r) == ReadFirst(r) \/ ReadLast(r) \/ RefreshFails(r) \/ Set(r)

(* app.close() without the onModuleDestroy of the scheduler.               *)
CloseLeavingTimer ==
    /\ Faults /\ process = "listening"
    /\ process' = "closed"
    /\ UNCHANGED <<database, redis, version, cache, timer, refresh, front>>

(* app.close(), as the end-to-end tests do: onModuleDestroy deletes the    *)
(* interval.                                                               *)
Close ==
    /\ Faults /\ process = "listening"
    /\ process' = "closed" /\ timer' = Off
    /\ UNCHANGED <<database, redis, version, cache, refresh, front>>

(* A closed process ends when nothing keeps its event loop alive.          *)
Exit ==
    /\ process = "closed" /\ timer = Off
    /\ Refreshing = {} /\ \A l \in Loads : loads[l].at \in {"idle", "lost"}
    /\ process' = "down"
    /\ UNCHANGED <<database, redis, version, cache, api, front>>

(* The process dies: its timer, refreshes and connections go with it.      *)
Crash ==
    /\ Faults /\ process \in {"starting", "listening"}
    /\ process' = "down" /\ timer' = Off
    /\ refresh' = [r \in Refreshes |-> Idle]
    /\ loads' = [l \in Loads |-> IF Pending(l) THEN [at |-> "lost"] ELSE Idle]
    /\ UNCHANGED <<database, redis, version, cache, page>>

-----------------------------------------------------------------------------
(* DashboardService.getSnapshot, and the page that asks for it.            *)

(* fetchDashboardSnapshot is dispatched, by the mount of the page (at any  *)
(* time: the user comes and goes) or by its button.                        *)
Load(l) ==
    /\ ~Pending(l)
    /\ loads' = [loads EXCEPT ![l] = [at |-> IF process = "listening" THEN "get" ELSE "lost"]]
    /\ page' = [page EXCEPT !.status = "loading"]
    /\ UNCHANGED <<services, version, cache, api>>

Fulfill(l, snapshot) ==
    /\ loads' = [loads EXCEPT ![l] = Idle]
    /\ page' = [status |-> "succeeded", data |-> snapshot]
    /\ UNCHANGED <<services, version, api>>

(* Any error leaves the data on the screen.                                *)
Reject(l) ==
    /\ loads' = [loads EXCEPT ![l] = Idle]
    /\ page' = [page EXCEPT !.status = "failed"]
    /\ UNCHANGED <<services, version, cache, api>>

(* The cache answers.                                                      *)
Hit(l) ==
    /\ loads[l].at = "get" /\ redis /\ cache # Nothing
    /\ Fulfill(l, cache.snapshot) /\ UNCHANGED cache

(* The cache is empty, or cannot be read and the library takes that for    *)
(* empty: the service aggregates for this request.                         *)
Miss(l) ==
    /\ loads[l].at = "get" /\ (~redis \/ cache = Nothing)
    /\ loads' = [loads EXCEPT ![l] = [at |-> "aggregate", low |-> Nothing]]
    /\ UNCHANGED <<services, version, cache, api, page>>

LoadReadsFirst(l) ==
    /\ loads[l].at = "aggregate" /\ loads[l].low = Nothing /\ database
    /\ loads' = [loads EXCEPT ![l].low = version]
    /\ UNCHANGED <<services, version, cache, api, page>>

(* A service that fills the cache with what it aggregated.                 *)
LoadFillsCache(l) ==
    /\ loads[l].at = "aggregate" /\ loads[l].low # Nothing /\ database
    /\ Fulfill(l, [low |-> loads[l].low, high |-> version])
    /\ cache' = [snapshot |-> page'.data, ttl |-> Ttl]

(* The aggregation is the answer; it is not kept.                          *)
LoadReadsLast(l) ==
    /\ loads[l].at = "aggregate" /\ loads[l].low # Nothing /\ database
    /\ Fulfill(l, [low |-> loads[l].low, high |-> version])
    /\ UNCHANGED cache

(* A query that waits for the database for ever.                           *)
LoadHangs(l) ==
    /\ \/ loads[l].at = "get" /\ ~redis
       \/ loads[l].at = "lost"
    /\ Reject(l)

(* 500 when Redis fails and the library says so; 503 when the database     *)
(* does; a rejected fetch when the process died or is not there.           *)
LoadFails(l) ==
    /\ \/ loads[l].at = "get" /\ ~redis
       \/ loads[l].at = "aggregate" /\ ~database
       \/ loads[l].at = "lost"
    /\ Reject(l)

LoadStep(l) == Hit(l) \/ Miss(l) \/ LoadReadsFirst(l) \/ LoadReadsLast(l) \/ LoadFails(l)

-----------------------------------------------------------------------------

Next ==
    \/ Write \/ DatabaseChanges \/ RedisChanges \/ Tick
    \/ Start \/ Listen \/ Fire \/ Close \/ Exit \/ Crash
    \/ \E r \in Refreshes : RefreshStep(r)
    \/ \E l \in Loads : Load(l) \/ LoadStep(l)

Spec == Init /\ [][Next]_vars

(* Time passes, compose restarts the container, the event loop resumes     *)
(* what is awaited; nothing is owed by users or by faults.                 *)
Fairness ==
    /\ WF_vars(Tick) /\ WF_vars(Start) /\ WF_vars(Listen) /\ WF_vars(Fire) /\ WF_vars(Exit)
    /\ \A r \in Refreshes : WF_vars(RefreshStep(r))
    /\ \A l \in Loads : WF_vars(LoadStep(l))

FairSpec == Spec /\ Fairness

-----------------------------------------------------------------------------

(* Two refreshes overlap only when one of them has outlasted an interval:  *)
(* the boot awaits its refresh before it sets the timer, and the timer     *)
(* fires once per interval.                                                *)
OverlapNeedsASlowRefresh ==
    \A r, s \in Refreshes :
        r # s /\ InFlight(r) /\ InFlight(s) => refresh[r].age = Ttl \/ refresh[s].age = Ttl

(* The cache goes back to an older state of the tables only when a refresh *)
(* overlapped another one: no request, crash or outage makes it go back.   *)
CacheGoesBackOnlyByOverlap ==
    [][ /\ cache # Nothing /\ cache' # Nothing
        /\ cache'.snapshot.low < cache.snapshot.low
        => \E r \in Refreshes : refresh[r].at = "set" /\ refresh[r].shared /\ ~InFlight(r)' ]_vars

(* Once the services stay up, the cache holds the last state of the tables *)
(* again and again, whatever failed, hung or crashed before.               *)
CacheCatchesUp ==
    <>[](database /\ redis /\ process = "listening")
        => []<>(cache # Nothing /\ cache.snapshot = [low |-> version, high |-> version])

(* The boot never hangs on Redis or on the database.                       *)
BootEnds == process = "starting" ~> process # "starting"

(* The page does not show its spinner forever: every load is answered,     *)
(* also when a service fails or the process dies under it.                 *)
SpinnerEnds == page.status = "loading" ~> page.status # "loading"

(* A closed application lets its process end.                              *)
ClosedProcessEnds == process = "closed" ~> process = "down"

=============================================================================
