--------------------------- MODULE DashboardProofs --------------------------
(***************************************************************************)
(* Dashboard is well typed; its refreshes overlap only when one of them is *)
(* slow; and its cache goes back to an older state of the tables only when *)
(* refreshes overlapped.                                                   *)
(***************************************************************************)
EXTENDS Dashboard

(* The steps keep the types: a refresh that begins, time, the steps of a   *)
(* refresh and of a load.                                                  *)
LEMMA BeginType ==
    ASSUME TypeOK, NEW r \in Refreshes, Begin(r)
    PROVE  refresh' \in [Refreshes -> {Idle} \cup Aggregating \cup Setting]
<1>1. ASSUME NEW s \in Refreshes
      PROVE  refresh'[s] \in {Idle} \cup Aggregating \cup Setting
  <2>1. CASE s = r
    BY <2>1, TtlAssumption DEF Begin, Aggregating
  <2>2. CASE s # r /\ InFlight(s)
    <3>1. refresh[s] \in Aggregating \cup Setting
      BY <2>2 DEF TypeOK, InFlight, Idle
    <3>2. refresh'[s] = [refresh[s] EXCEPT !.shared = TRUE]
      BY <2>2 DEF Begin
    <3> QED BY <3>1, <3>2 DEF Aggregating, Setting
  <2>3. CASE s # r /\ ~InFlight(s)
    BY <2>3 DEF Begin
  <2> QED BY <2>1, <2>2, <2>3
<1>2. refresh' = [s \in Refreshes |-> refresh'[s]]
  BY DEF Begin
<1> QED BY <1>1, <1>2

LEMMA TickType ==
    ASSUME TypeOK, Tick
    PROVE  TypeOK'
<1>1. timer' \in 0 .. Ttl \cup {Off}
  BY TtlAssumption, MarkersAssumption DEF TypeOK, Tick, OneTickLess
<1>2. cache' \in Entries \cup {Nothing}
  <2>1. CASE cache = Nothing \/ cache.ttl = 1
    BY <2>1 DEF Tick
  <2>2. CASE cache # Nothing /\ cache.ttl # 1
    BY <2>2, TtlAssumption DEF Tick, TypeOK, Entries
  <2> QED BY <2>1, <2>2
<1>3. refresh' \in [Refreshes -> {Idle} \cup Aggregating \cup Setting]
  <2>1. ASSUME NEW r \in Refreshes
        PROVE  OneTickOlder(refresh[r]) \in {Idle} \cup Aggregating \cup Setting
    <3>1. refresh[r] \in {Idle} \cup Aggregating \cup Setting
      BY DEF TypeOK
    <3>2. CASE refresh[r] = Idle
      BY <3>2 DEF OneTickOlder, Idle
    <3>3. CASE refresh[r] \in Aggregating
      BY <3>3, TtlAssumption DEF OneTickOlder, Aggregating
    <3>4. CASE refresh[r] \in Setting
      BY <3>4, TtlAssumption DEF OneTickOlder, Setting
    <3> QED BY <3>1, <3>2, <3>3, <3>4
  <2> QED BY <2>1 DEF Tick
<1> QED BY <1>1, <1>2, <1>3 DEF TypeOK, Tick, services, front

LEMMA RefreshStepType ==
    ASSUME TypeOK, NEW r \in Refreshes, RefreshStep(r)
    PROVE  TypeOK'
<1>1. CASE ReadFirst(r)
  <2>1. refresh[r] \in Aggregating
    BY <1>1 DEF ReadFirst, TypeOK, Idle, Setting
  <2>2. [refresh[r] EXCEPT !.low = version] \in Aggregating
    BY <2>1 DEF Aggregating, TypeOK
  <2> QED BY <1>1, <2>2 DEF ReadFirst, TypeOK, services, front
<1>2. CASE ReadLast(r)
  <2>1. refresh[r] \in Aggregating /\ refresh[r].low \in Versions
    BY <1>2 DEF ReadLast, TypeOK, Idle, Setting, Aggregating
  <2>2. [at |-> "set", snapshot |-> [low |-> refresh[r].low, high |-> version],
         age |-> refresh[r].age, shared |-> refresh[r].shared] \in Setting
    BY <2>1 DEF Aggregating, Setting, Snapshots, TypeOK
  <2> QED BY <1>2, <2>2 DEF ReadLast, TypeOK, services, front
<1>3. CASE RefreshFails(r)
  BY <1>3 DEF RefreshFails, TypeOK, services, front
<1>4. CASE Set(r)
  <2>1. refresh[r].snapshot \in Snapshots
    BY <1>4 DEF Set, TypeOK, Idle, Aggregating, Setting
  <2>2. cache' \in Entries
    BY <1>4, <2>1, TtlAssumption DEF Set, Entries
  <2> QED BY <1>4, <2>2 DEF Set, TypeOK, services, front
<1> QED BY <1>1, <1>2, <1>3, <1>4 DEF RefreshStep

LEMMA LoadStepType ==
    ASSUME TypeOK, NEW l \in Loads, LoadStep(l)
    PROVE  TypeOK'
<1>1. CASE Hit(l)
  <2>1. cache.snapshot \in Snapshots
    BY <1>1 DEF Hit, TypeOK, Entries
  <2> QED BY <1>1, <2>1 DEF Hit, Fulfill, TypeOK, services, api
<1>2. CASE Miss(l)
  BY <1>2 DEF Miss, TypeOK, services, api
<1>3. CASE LoadReadsFirst(l)
  <2>1. [loads[l] EXCEPT !.low = version] \in [at : {"aggregate"}, low : Versions \cup {Nothing}]
    BY <1>3 DEF LoadReadsFirst, TypeOK, Idle
  <2> QED BY <1>3, <2>1 DEF LoadReadsFirst, TypeOK, services, api
<1>4. CASE LoadReadsLast(l)
  <2>1. [low |-> loads[l].low, high |-> version] \in Snapshots
    BY <1>4 DEF LoadReadsLast, TypeOK, Idle, Snapshots
  <2> QED BY <1>4, <2>1 DEF LoadReadsLast, Fulfill, TypeOK, services, api
<1>5. CASE LoadFails(l)
  BY <1>5 DEF LoadFails, Reject, TypeOK, services, api
<1> QED BY <1>1, <1>2, <1>3, <1>4, <1>5 DEF LoadStep

(* The dashboard keeps its types, whatever fails.                          *)
THEOREM DashboardTypeCorrect == Spec => []TypeOK
<1>1. Init => TypeOK
  BY TtlAssumption, MaxVersionAssumption DEF Init, TypeOK, Versions, Idle
<1>2. TypeOK /\ [Next]_vars => TypeOK'
  <2> SUFFICES ASSUME TypeOK, [Next]_vars
               PROVE  TypeOK'
    OBVIOUS
  <2>1. CASE Write
    BY <2>1, MaxVersionAssumption DEF Write, TypeOK, Versions, services, api, front
  <2>2. CASE DatabaseChanges
    BY <2>2 DEF DatabaseChanges, TypeOK, api, front
  <2>3. CASE RedisChanges
    BY <2>3 DEF RedisChanges, TypeOK, api, front
  <2>4. CASE Tick
    BY <2>4, TickType
  <2>5. CASE Start
    BY <2>5, BeginType DEF Start, TypeOK, front
  <2>6. CASE Listen
    BY <2>6, TtlAssumption DEF Listen, TypeOK, front
  <2>7. CASE Fire
    BY <2>7, BeginType, TtlAssumption DEF Fire, TypeOK, services, front
  <2>8. CASE Close
    BY <2>8 DEF Close, TypeOK, front
  <2>9. CASE Exit
    BY <2>9 DEF Exit, TypeOK, api, front
  <2>10. CASE Crash
    BY <2>10 DEF Crash, TypeOK
  <2>11. ASSUME NEW r \in Refreshes, RefreshStep(r)
         PROVE  TypeOK'
    BY <2>11, RefreshStepType
  <2>12. ASSUME NEW l \in Loads, Load(l)
         PROVE  TypeOK'
    BY <2>12 DEF Load, TypeOK, services, api
  <2>13. ASSUME NEW l \in Loads, LoadStep(l)
         PROVE  TypeOK'
    BY <2>13, LoadStepType
  <2>14. CASE UNCHANGED vars
    BY <2>14 DEF vars, TypeOK
  <2> QED
    BY <2>1, <2>2, <2>3, <2>4, <2>5, <2>6, <2>7, <2>8, <2>9, <2>10, <2>11, <2>12, <2>13, <2>14
       DEF Next
<1> QED BY <1>1, <1>2, PTL DEF Spec

-----------------------------------------------------------------------------
(* The scheduler: when the timer is set and what is in flight follow from  *)
(* the phase of the process, and no call in flight is younger than the     *)
(* time since the timer was set.                                           *)

PhaseOK ==
    /\ process \in {"down", "starting", "closed"} => timer = Off
    /\ process = "down" => Refreshing = {}
    /\ process = "starting" => \A r, s \in Refreshing : r = s

AgeOK == timer # Off => \A r \in Refreshing : refresh[r].age + timer >= Ttl

Scheduled == TypeOK /\ PhaseOK /\ AgeOK /\ OverlapNeedsASlowRefresh

(* A step that starts no refresh and changes neither ages, timer nor phase *)
(* keeps the schedule.                                                     *)
LEMMA NothingNewKeepsSchedule ==
    ASSUME Scheduled, UNCHANGED <<process, timer>>,
           \A r \in Refreshes :
              InFlight(r)' => InFlight(r) /\ refresh'[r].age = refresh[r].age
    PROVE  PhaseOK' /\ AgeOK' /\ OverlapNeedsASlowRefresh'
<1>1. Refreshing' \subseteq Refreshing
  BY DEF Refreshing
<1>2. PhaseOK'
  BY <1>1 DEF Scheduled, PhaseOK
<1>3. AgeOK'
  BY <1>1 DEF Scheduled, AgeOK, Refreshing
<1>4. OverlapNeedsASlowRefresh'
  BY DEF Scheduled, OverlapNeedsASlowRefresh
<1> QED BY <1>2, <1>3, <1>4

LEMMA RefreshStepKeepsSchedule ==
    ASSUME Scheduled, NEW r \in Refreshes, RefreshStep(r)
    PROVE  PhaseOK' /\ AgeOK' /\ OverlapNeedsASlowRefresh'
<1>1. UNCHANGED <<process, timer>>
  BY DEF RefreshStep, ReadFirst, ReadLast, RefreshFails, Set, services
<1>2. ASSUME NEW s \in Refreshes, InFlight(s)'
      PROVE  InFlight(s) /\ refresh'[s].age = refresh[s].age
  <2>1. refresh \in [Refreshes -> {Idle} \cup Aggregating \cup Setting]
    BY DEF Scheduled, TypeOK
  <2>2. CASE s # r
    BY <1>2, <2>1, <2>2 DEF RefreshStep, ReadFirst, ReadLast, RefreshFails, Set, InFlight
  <2>3. CASE s = r
    BY <1>2, <2>1, <2>3
       DEF RefreshStep, ReadFirst, ReadLast, RefreshFails, Set, InFlight, Idle, Aggregating, Setting
  <2> QED BY <2>2, <2>3
<1> QED BY <1>1, <1>2, NothingNewKeepsSchedule

LEMMA TickKeepsSchedule ==
    ASSUME Scheduled, Tick
    PROVE  PhaseOK' /\ AgeOK' /\ OverlapNeedsASlowRefresh'
<1> USE DEF Scheduled
<1>1. ASSUME NEW r \in Refreshes
      PROVE  /\ InFlight(r)' <=> InFlight(r)
             /\ InFlight(r) => /\ refresh[r].age \in 0 .. Ttl
                              /\ refresh'[r].age = IF refresh[r].age < Ttl
                                                   THEN refresh[r].age + 1 ELSE refresh[r].age
  <2>1. refresh[r] \in {Idle} \cup Aggregating \cup Setting
    BY DEF TypeOK
  <2>2. refresh'[r] = OneTickOlder(refresh[r])
    BY DEF Tick
  <2>3. CASE refresh[r] = Idle
    BY <2>2, <2>3 DEF OneTickOlder, InFlight, Idle
  <2>4. CASE refresh[r] \in Aggregating \cup Setting
    BY <2>2, <2>4 DEF OneTickOlder, InFlight, Aggregating, Setting
  <2> QED BY <2>1, <2>3, <2>4
<1>2. Refreshing' = Refreshing
  BY <1>1 DEF Refreshing
<1>3. /\ timer = Off => timer' = Off
      /\ timer # Off => timer \in 0 .. Ttl /\ timer' = IF timer = 0 THEN 0 ELSE timer - 1
  BY MarkersAssumption, TtlAssumption DEF Tick, OneTickLess, TypeOK
<1>4. PhaseOK'
  BY <1>2, <1>3 DEF PhaseOK, Tick, services
<1>5. AgeOK'
  BY <1>1, <1>2, <1>3, TtlAssumption DEF AgeOK, Refreshing
<1>6. OverlapNeedsASlowRefresh'
  BY <1>1, TtlAssumption DEF OverlapNeedsASlowRefresh
<1> QED BY <1>4, <1>5, <1>6

(* A refresh begins when the timer is due: then every other one has the    *)
(* age of an interval.                                                     *)
LEMMA FireKeepsSchedule ==
    ASSUME Scheduled, Fire
    PROVE  PhaseOK' /\ AgeOK' /\ OverlapNeedsASlowRefresh'
<1> USE DEF Scheduled
<1>1. PICK r \in Refreshes : Begin(r)
  BY DEF Fire
<1>2. \A s \in Refreshing : refresh[s].age = Ttl
  <2>1. \A s \in Refreshing : refresh[s].age \in 0 .. Ttl
    BY DEF Refreshing, InFlight, TypeOK, Idle, Aggregating, Setting
  <2> QED BY <2>1, MarkersAssumption, TtlAssumption DEF Fire, AgeOK
<1>3. \A s \in Refreshes :
         InFlight(s)' => IF s = r THEN refresh'[s].age = 0
                         ELSE InFlight(s) /\ refresh'[s].age = Ttl
  <2>1. ASSUME NEW s \in Refreshes, InFlight(s)', s # r
        PROVE  InFlight(s) /\ refresh'[s].age = Ttl
    <3>1. InFlight(s)
      BY <1>1, <2>1 DEF Begin, InFlight, Idle
    <3>2. refresh'[s] = [refresh[s] EXCEPT !.shared = TRUE]
      BY <1>1, <2>1, <3>1 DEF Begin
    <3>3. refresh[s] \in Aggregating \cup Setting
      BY <3>1 DEF InFlight, TypeOK, Idle
    <3>4. refresh'[s].age = refresh[s].age
      BY <3>2, <3>3 DEF Aggregating, Setting
    <3> QED BY <1>2, <3>1, <3>4 DEF Refreshing
  <2>2. refresh'[r].age = 0
    BY <1>1 DEF Begin
  <2> QED BY <2>1, <2>2
<1>4. process \notin {"down", "starting", "closed"}
  BY MarkersAssumption DEF Fire, PhaseOK
<1>5. PhaseOK'
  BY <1>4 DEF Fire, PhaseOK, services
<1>6. AgeOK'
  BY <1>3, TtlAssumption DEF AgeOK, Fire, Refreshing
<1>7. OverlapNeedsASlowRefresh'
  BY <1>3 DEF OverlapNeedsASlowRefresh
<1> QED BY <1>5, <1>6, <1>7

LEMMA StartKeepsSchedule ==
    ASSUME Scheduled, Start
    PROVE  PhaseOK' /\ AgeOK' /\ OverlapNeedsASlowRefresh'
<1> USE DEF Scheduled
<1>1. PICK r \in Refreshes : Begin(r)
  BY DEF Start
<1>2. Refreshing = {} /\ timer' = Off /\ process' = "starting"
  BY DEF Start, PhaseOK
<1>3. \A s \in Refreshes : InFlight(s)' => s = r
  BY <1>1, <1>2 DEF Begin, Refreshing, InFlight, Idle
<1> QED BY <1>2, <1>3 DEF PhaseOK, AgeOK, OverlapNeedsASlowRefresh, Refreshing

LEMMA ScheduleIsInductive == Spec => []Scheduled
<1>1. Init => Scheduled
  <2> SUFFICES ASSUME Init PROVE Scheduled
    OBVIOUS
  <2>1. TypeOK
    BY TtlAssumption, MaxVersionAssumption DEF Init, TypeOK, Versions, Idle
  <2> QED
    BY <2>1 DEF Init, Scheduled, PhaseOK, AgeOK, OverlapNeedsASlowRefresh, Refreshing, InFlight, Idle
<1>2. Scheduled /\ TypeOK' /\ [Next]_vars => Scheduled'
  <2> SUFFICES ASSUME Scheduled, TypeOK', [Next]_vars
               PROVE  PhaseOK' /\ AgeOK' /\ OverlapNeedsASlowRefresh'
    BY DEF Scheduled
  <2>1. CASE UNCHANGED <<process, timer, refresh>>
    BY <2>1, NothingNewKeepsSchedule DEF InFlight
  <2>2. CASE Tick
    BY <2>2, TickKeepsSchedule
  <2>3. CASE Start
    BY <2>3, StartKeepsSchedule
  <2>4. CASE Listen
    BY <2>4, TtlAssumption
       DEF Listen, PhaseOK, AgeOK, OverlapNeedsASlowRefresh, Refreshing, InFlight
  <2>5. CASE Fire
    BY <2>5, FireKeepsSchedule
  <2>6. CASE Close
    BY <2>6
       DEF Close, Scheduled, PhaseOK, AgeOK, OverlapNeedsASlowRefresh, Refreshing, InFlight
  <2>7. CASE Exit
    BY <2>7 DEF Exit, Scheduled, PhaseOK, AgeOK, OverlapNeedsASlowRefresh, api, Refreshing, InFlight
  <2>8. CASE Crash
    BY <2>8 DEF Crash, PhaseOK, AgeOK, OverlapNeedsASlowRefresh, Refreshing, InFlight, Idle
  <2>9. ASSUME NEW r \in Refreshes, RefreshStep(r)
        PROVE  PhaseOK' /\ AgeOK' /\ OverlapNeedsASlowRefresh'
    BY <2>9, RefreshStepKeepsSchedule
  <2>10. ASSUME NEW l \in Loads, Load(l) \/ LoadStep(l)
         PROVE  UNCHANGED <<process, timer, refresh>>
    BY <2>10
       DEF Load, LoadStep, Hit, Miss, LoadReadsFirst, LoadReadsLast, LoadFails, Fulfill, Reject,
           services, api
  <2>11. CASE Write \/ DatabaseChanges \/ RedisChanges \/ UNCHANGED vars
    BY <2>1, <2>11 DEF Write, DatabaseChanges, RedisChanges, services, api, vars
  <2> QED
    BY <2>1, <2>2, <2>3, <2>4, <2>5, <2>6, <2>7, <2>8, <2>9, <2>10, <2>11 DEF Next
<1> QED BY <1>1, <1>2, DashboardTypeCorrect, PTL DEF Spec

(* Refreshes overlap only when one has outlasted an interval: the boot     *)
(* waits for its own before the timer runs, and the timer fires once per   *)
(* interval.                                                               *)
THEOREM OverlapIsSlow == Spec => []OverlapNeedsASlowRefresh
BY ScheduleIsInductive, PTL DEF Scheduled

-----------------------------------------------------------------------------
(* The snapshot of a refresh that was alone is no older than the cache's,  *)
(* and nothing that was read is newer than the tables.                     *)

(* What the first query of refresh r saw, Nothing before it answered.      *)
LowOf(r) ==
    IF refresh[r].at = "aggregate" THEN refresh[r].low
    ELSE IF refresh[r].at = "set" THEN refresh[r].snapshot.low ELSE Nothing

AloneOK == \A r, s \in Refreshing : ~refresh[r].shared => s = r

NothingFromTheFuture ==
    /\ cache # Nothing => cache.snapshot.low <= version
    /\ \A r \in Refreshes : LowOf(r) # Nothing => LowOf(r) <= version

FreshOK ==
    \A r \in Refreshing :
        ~refresh[r].shared /\ LowOf(r) # Nothing /\ cache # Nothing
        => cache.snapshot.low <= LowOf(r)

Ordered == TypeOK /\ Scheduled /\ AloneOK /\ NothingFromTheFuture /\ FreshOK

(* The types of what is compared.                                          *)
LEMMA VersionType ==
    ASSUME TypeOK
    PROVE  version \in Nat /\ (cache # Nothing => cache.snapshot.low \in Nat)
BY MaxVersionAssumption DEF TypeOK, Versions, Snapshots, Entries

LEMMA LowType ==
    ASSUME TypeOK, NEW r \in Refreshes
    PROVE  /\ LowOf(r) \in Nat \cup {Nothing}
           /\ InFlight(r) => refresh[r].shared \in BOOLEAN
           /\ LowOf(r) # Nothing => InFlight(r)
           /\ version \in Nat
           /\ cache # Nothing => cache.snapshot.low \in Nat
BY MaxVersionAssumption
   DEF TypeOK, LowOf, InFlight, Idle, Aggregating, Setting, Versions, Snapshots, Entries

(* A step that starts no refresh and leaves the cache alone, or empties    *)
(* it, and does not go back in versions.                                   *)
LEMMA NothingReadKeepsOrder ==
    ASSUME Ordered, TypeOK', version <= version',
           cache' # Nothing => cache # Nothing /\ cache'.snapshot = cache.snapshot,
           \A r \in Refreshes :
              InFlight(r)' => /\ InFlight(r)
                             /\ refresh'[r].shared = refresh[r].shared
                             /\ LowOf(r)' = LowOf(r)
    PROVE  AloneOK' /\ NothingFromTheFuture' /\ FreshOK'
<1> USE DEF Ordered
<1>1. \A r \in Refreshes : LowOf(r)' # Nothing => InFlight(r)'
  BY DEF LowOf, InFlight
<1>2. AloneOK'
  BY DEF AloneOK, Refreshing
<1>3. NothingFromTheFuture'
  <2>1. cache' # Nothing => cache'.snapshot.low <= version'
    <3>1. version' \in Nat
      BY MaxVersionAssumption DEF TypeOK, Versions
    <3> QED BY <3>1, VersionType DEF NothingFromTheFuture
  <2>2. ASSUME NEW r \in Refreshes, LowOf(r)' # Nothing
        PROVE  LowOf(r)' <= version'
    <3>1. LowOf(r)' = LowOf(r)
      BY <1>1, <2>2
    <3>2. LowOf(r) \in Nat /\ version \in Nat /\ version' \in Nat
      BY <2>2, <3>1, LowType, MaxVersionAssumption DEF TypeOK, Versions
    <3> QED BY <2>2, <3>1, <3>2 DEF NothingFromTheFuture
  <2> QED BY <2>1, <2>2 DEF NothingFromTheFuture
<1>4. FreshOK'
  <2> SUFFICES ASSUME NEW r \in Refreshes, InFlight(r)', ~refresh'[r].shared,
                      LowOf(r)' # Nothing, cache' # Nothing
               PROVE  cache'.snapshot.low <= LowOf(r)'
    BY DEF FreshOK, Refreshing
  <2> QED BY DEF FreshOK, Refreshing
<1> QED BY <1>2, <1>3, <1>4

(* A refresh that begins has read nothing, and ends the solitude of those  *)
(* in flight.                                                              *)
LEMMA BeginKeepsOrder ==
    ASSUME Ordered, TypeOK', NEW r \in Refreshes, Begin(r), UNCHANGED <<cache, version>>
    PROVE  AloneOK' /\ NothingFromTheFuture' /\ FreshOK'
<1> USE DEF Ordered
<1>1. /\ refresh'[r].at = "aggregate" /\ refresh'[r].low = Nothing
      /\ refresh'[r].shared = (Refreshing # {})
  BY DEF Begin
<1>2. ASSUME NEW s \in Refreshes, s # r, InFlight(s)'
      PROVE  InFlight(s) /\ refresh'[s].shared /\ LowOf(s)' = LowOf(s)
  <2>1. InFlight(s)
    BY <1>2 DEF Begin, InFlight, Idle
  <2>2. refresh'[s] = [refresh[s] EXCEPT !.shared = TRUE]
    BY <1>2, <2>1 DEF Begin
  <2>3. refresh[s] \in Aggregating \cup Setting
    BY <2>1 DEF TypeOK, InFlight, Idle
  <2>4. CASE refresh[s] \in Aggregating
    BY <2>1, <2>2, <2>4 DEF Aggregating, LowOf
  <2>5. CASE refresh[s] \in Setting
    BY <2>1, <2>2, <2>5 DEF Setting, LowOf
  <2> QED BY <2>3, <2>4, <2>5
<1>3. LowOf(r)' = Nothing
  BY <1>1 DEF LowOf
<1>4. AloneOK'
  BY <1>1, <1>2 DEF AloneOK, Refreshing
<1>5. NothingFromTheFuture'
  <2>1. ASSUME NEW s \in Refreshes, LowOf(s)' # Nothing
        PROVE  LowOf(s)' <= version'
    <3>1. s # r /\ InFlight(s)'
      BY <1>3, <2>1 DEF LowOf, InFlight
    <3> QED BY <1>2, <2>1, <3>1 DEF NothingFromTheFuture
  <2> QED BY <2>1 DEF NothingFromTheFuture
<1>6. FreshOK'
  BY <1>2, <1>3 DEF FreshOK, Refreshing
<1> QED BY <1>4, <1>5, <1>6

LEMMA RefreshStepKeepsOrder ==
    ASSUME Ordered, TypeOK', NEW r \in Refreshes, RefreshStep(r)
    PROVE  AloneOK' /\ NothingFromTheFuture' /\ FreshOK'
<1> USE DEF Ordered
<1>1. refresh \in [Refreshes -> {Idle} \cup Aggregating \cup Setting]
  BY DEF TypeOK
<1>2. ASSUME NEW s \in Refreshes, s # r
      PROVE  refresh'[s] = refresh[s]
  BY <1>1, <1>2 DEF RefreshStep, ReadFirst, ReadLast, RefreshFails, Set
<1>3. version' = version
  BY DEF RefreshStep, ReadFirst, ReadLast, RefreshFails, Set
<1>4. CASE ReadFirst(r)
  <2>1. /\ InFlight(r) /\ refresh'[r].at = "aggregate"
        /\ refresh'[r].low = version /\ refresh'[r].shared = refresh[r].shared
    BY <1>1, <1>4 DEF ReadFirst, InFlight, Aggregating, Setting, Idle
  <2>2. LowOf(r)' = version /\ cache' = cache
    BY <1>4, <2>1 DEF LowOf, ReadFirst
  <2>3. version \in Nat
    BY LowType, <1>4
  <2>4. \A s \in Refreshes : s # r => LowOf(s)' = LowOf(s)
    BY <1>2 DEF LowOf
  <2>5. AloneOK'
    BY <1>2, <2>1 DEF AloneOK, Refreshing, InFlight
  <2>6. NothingFromTheFuture'
    BY <1>3, <2>2, <2>3, <2>4 DEF NothingFromTheFuture
  <2>7. FreshOK'
    BY <1>2, <1>3, <2>2, <2>4 DEF FreshOK, NothingFromTheFuture, Refreshing, InFlight
  <2> QED BY <2>5, <2>6, <2>7
<1>5. CASE ReadLast(r)
  <2>1. /\ InFlight(r) /\ refresh'[r].at = "set"
        /\ refresh'[r].snapshot.low = refresh[r].low
        /\ refresh'[r].shared = refresh[r].shared
    BY <1>1, <1>5 DEF ReadLast, InFlight, Aggregating, Setting, Idle
  <2>2. LowOf(r)' = LowOf(r) /\ cache' = cache
    BY <1>5, <2>1 DEF LowOf, ReadLast
  <2>3. version \in Nat
    BY LowType, <1>5
  <2> QED
    BY <1>2, <1>3, <2>1, <2>2, <2>3, NothingReadKeepsOrder DEF LowOf, InFlight
<1>6. CASE RefreshFails(r)
  <2>1. ~InFlight(r)' /\ cache' = cache
    BY <1>1, <1>6 DEF RefreshFails, InFlight, Idle
  <2>2. version \in Nat
    BY LowType, <1>6
  <2> QED BY <1>2, <1>3, <2>1, <2>2, NothingReadKeepsOrder DEF LowOf, InFlight
<1>7. CASE Set(r)
  <2>1. /\ ~InFlight(r)' /\ LowOf(r)' = Nothing
        /\ InFlight(r) /\ cache'.snapshot = refresh[r].snapshot
        /\ LowOf(r) = refresh[r].snapshot.low
    BY <1>1, <1>7 DEF Set, InFlight, Idle, LowOf
  <2>2. LowOf(r) # Nothing
    <3>1. refresh[r] \in Setting
      BY <1>1, <1>7 DEF Set, Idle, Aggregating
    <3> QED BY <2>1, <3>1, MarkersAssumption DEF Setting, Snapshots, Versions
  <2>3. \A s \in Refreshes : s # r => LowOf(s)' = LowOf(s) /\ (InFlight(s)' <=> InFlight(s))
    BY <1>2 DEF LowOf, InFlight
  <2>4. AloneOK'
    BY <1>2, <2>1, <2>3 DEF AloneOK, Refreshing
  <2>5. NothingFromTheFuture'
    BY <1>3, <2>1, <2>2, <2>3 DEF NothingFromTheFuture
  <2>6. FreshOK'
    BY <1>2, <2>1, <2>3 DEF FreshOK, AloneOK, Refreshing
  <2> QED BY <2>4, <2>5, <2>6
<1> QED BY <1>4, <1>5, <1>6, <1>7 DEF RefreshStep

LEMMA OrderIsInductive == Spec => []Ordered
<1>1. Init => TypeOK /\ AloneOK /\ NothingFromTheFuture /\ FreshOK
  <2> SUFFICES ASSUME Init PROVE TypeOK /\ AloneOK /\ NothingFromTheFuture /\ FreshOK
    OBVIOUS
  <2>1. TypeOK
    BY TtlAssumption, MaxVersionAssumption DEF Init, TypeOK, Versions, Idle
  <2> QED
    BY <2>1 DEF Init, AloneOK, NothingFromTheFuture, FreshOK, LowOf, Refreshing, InFlight, Idle
<1>2. Ordered /\ TypeOK' /\ [Next]_vars => AloneOK' /\ NothingFromTheFuture' /\ FreshOK'
  <2> SUFFICES ASSUME Ordered, TypeOK', [Next]_vars
               PROVE  AloneOK' /\ NothingFromTheFuture' /\ FreshOK'
    OBVIOUS
  <2>0. version \in Nat /\ TypeOK
    BY MaxVersionAssumption DEF Ordered, TypeOK, Versions
  <2>1. CASE UNCHANGED <<version, refresh>> /\ cache' \in {cache, Nothing}
    BY <2>0, <2>1, NothingReadKeepsOrder DEF InFlight, LowOf
  <2>2. CASE Write
    BY <2>0, <2>2, NothingReadKeepsOrder DEF Write, api, InFlight, LowOf
  <2>3. CASE Tick
    <3>1. cache' # Nothing => cache # Nothing /\ cache'.snapshot = cache.snapshot
      BY <2>0, <2>3 DEF Tick, TypeOK, Entries
    <3>2. ASSUME NEW r \in Refreshes, InFlight(r)'
          PROVE  InFlight(r) /\ refresh'[r].shared = refresh[r].shared /\ LowOf(r)' = LowOf(r)
      <4>1. refresh[r] \in {Idle} \cup Aggregating \cup Setting
        BY <2>0 DEF TypeOK
      <4>2. refresh'[r] = OneTickOlder(refresh[r])
        BY <2>3 DEF Tick
      <4>3. CASE refresh[r] = Idle
        BY <3>2, <4>2, <4>3 DEF OneTickOlder, InFlight, Idle
      <4>4. CASE refresh[r] \in Aggregating
        BY <4>2, <4>4 DEF OneTickOlder, InFlight, LowOf, Aggregating
      <4>5. CASE refresh[r] \in Setting
        BY <4>2, <4>5 DEF OneTickOlder, InFlight, LowOf, Setting
      <4> QED BY <4>1, <4>3, <4>4, <4>5
    <3> QED BY <2>0, <2>3, <3>1, <3>2, NothingReadKeepsOrder DEF Tick
  <2>4. CASE Start
    BY <2>4, BeginKeepsOrder DEF Start
  <2>5. CASE Fire
    BY <2>5, BeginKeepsOrder DEF Fire
  <2>6. CASE Crash
    <3>1. \A r \in Refreshes : ~InFlight(r)'
      BY <2>6 DEF Crash, InFlight, Idle
    <3>2. version' = version /\ cache' = cache
      BY <2>6 DEF Crash
    <3> QED BY <2>0, <3>1, <3>2, NothingReadKeepsOrder
  <2>7. ASSUME NEW r \in Refreshes, RefreshStep(r)
        PROVE  AloneOK' /\ NothingFromTheFuture' /\ FreshOK'
    BY <2>7, RefreshStepKeepsOrder
  <2>8. ASSUME NEW l \in Loads, Load(l) \/ LoadStep(l)
        PROVE  UNCHANGED <<version, refresh, cache>>
    BY <2>8
       DEF Load, LoadStep, Hit, Miss, LoadReadsFirst, LoadReadsLast, LoadFails, Fulfill, Reject,
           services, api
  <2>9. CASE DatabaseChanges \/ RedisChanges \/ Listen \/ Close \/ Exit \/ UNCHANGED vars
    BY <2>1, <2>9 DEF DatabaseChanges, RedisChanges, Listen, Close, Exit, services, api, vars
  <2> QED BY <2>1, <2>2, <2>3, <2>4, <2>5, <2>6, <2>7, <2>8, <2>9 DEF Next
<1> QED BY <1>1, <1>2, DashboardTypeCorrect, ScheduleIsInductive, PTL DEF Spec, Ordered

(* Only a refresh that met another one may put an older snapshot in the    *)
(* cache.                                                                  *)
THEOREM CacheOrder == Spec => CacheGoesBackOnlyByOverlap
<1>1. ASSUME Ordered, TypeOK', [Next]_vars, cache # Nothing, cache' # Nothing,
             cache'.snapshot.low < cache.snapshot.low
      PROVE  \E r \in Refreshes : refresh[r].at = "set" /\ refresh[r].shared /\ ~InFlight(r)'
  <2> USE <1>1
  <2>1. cache'.snapshot # cache.snapshot
    <3>1. cache.snapshot.low \in Nat
      BY VersionType DEF Ordered
    <3> QED BY <3>1
  <2>2. PICK r \in Refreshes : Set(r)
    <3>1. ASSUME NEW l \in Loads, Load(l) \/ LoadStep(l)
          PROVE  cache' = cache
      BY <3>1
         DEF Load, LoadStep, Hit, Miss, LoadReadsFirst, LoadReadsLast, LoadFails, Fulfill, Reject
    <3>2. ~Tick
      BY <2>1 DEF Tick, Ordered, TypeOK, Entries
    <3>3. ASSUME NEW r \in Refreshes, RefreshStep(r)
          PROVE  Set(r)
      BY <2>1, <3>3 DEF RefreshStep, ReadFirst, ReadLast, RefreshFails
    <3> QED
      BY <2>1, <3>1, <3>2, <3>3
         DEF Next, Write, DatabaseChanges, RedisChanges, Start, Listen, Fire, Close, Exit, Crash, vars
  <2>3. /\ refresh[r].at = "set" /\ InFlight(r) /\ ~InFlight(r)'
        /\ cache'.snapshot = refresh[r].snapshot
    BY <2>2 DEF Set, InFlight, Idle, Ordered, TypeOK
  <2>4. LowOf(r) = cache'.snapshot.low /\ LowOf(r) \in Nat
    <3>1. refresh[r] \in Setting
      BY <2>3 DEF Ordered, TypeOK, Idle, Aggregating
    <3> QED BY <2>3, <3>1, MaxVersionAssumption DEF LowOf, Setting, Snapshots, Versions
  <2>5. cache.snapshot.low \in Nat
    BY VersionType DEF Ordered
  <2>6. refresh[r].shared
    BY <2>3, <2>4, <2>5, MarkersAssumption, LowType DEF Ordered, FreshOK, Refreshing
  <2> QED BY <2>3, <2>6
<1> QED
  BY <1>1, OrderIsInductive, DashboardTypeCorrect, PTL DEF Spec, CacheGoesBackOnlyByOverlap

=============================================================================
