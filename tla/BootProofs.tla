----------------------------- MODULE BootProofs -----------------------------
(***************************************************************************)
(* Whatever demonstration data the seed has, wherever the container dies   *)
(* and whatever users do between two starts: no row is there twice, and    *)
(* a seed that inserts and succeeds has inserted everything.               *)
(***************************************************************************)
EXTENDS Boot

(* The stages of the seed before one, whose rows are there.                *)
Before(group) ==
    CASE group = "producers" -> {}
      [] group = "seasons" -> Producers
      [] group = "crops" -> Producers \cup Seasons
      [] group = "farms" -> Producers \cup Catalog
      [] group = "plantings" -> Producers \cup Catalog \cup Farms

(* What is owned has its owner.                                            *)
Owned ==
    /\ \A f \in Farms : Present(f) => Present(ProducerOf[f])
    /\ \A q \in Plantings : Present(q) => Present(FarmOf[q])

(* What a running seed has inserted.                                       *)
Progress ==
    stage \in Groups =>
        /\ pending \subseteq RowsOf(stage)
        /\ \A r \in Before(stage) \cup (RowsOf(stage) \ pending) : Present(r)

(* What is still to be inserted, now or in a later stage, is not there:    *)
(* seasons and crops excepted, which users may have kept.                  *)
Fresh ==
    /\ \A r \in pending \ Catalog : rows[r] = 0
    /\ stage \in {"producers", "seasons", "crops"} => \A f \in Farms : rows[f] = 0
    /\ stage \in {"producers", "seasons", "crops", "farms"} => \A q \in Plantings : rows[q] = 0

(* The creates that a failed Promise.all left in flight.                   *)
LeftInFlight ==
    stage = "failing" =>
        pending \cap Plantings = {} /\ \A f \in pending \cap Farms : Present(ProducerOf[f])

Inv == TypeOK /\ NeverDuplicates /\ Owned /\ Progress /\ Fresh /\ LeftInFlight

(* The start keeps its types.                                              *)
THEOREM BootTypeCorrect == Spec => []TypeOK
<1>1. Init => TypeOK
  BY CrashesAssumption DEF Init, TypeOK
<1>2. TypeOK /\ [Next]_vars => TypeOK'
  <2> SUFFICES ASSUME TypeOK, [Next]_vars
               PROVE  TypeOK'
    OBVIOUS
  <2> USE DEF TypeOK
  <2>1. ASSUME NEW group \in Groups \cup {"seeded"}, Enter(group)
        PROVE  stage' \in Groups \cup {"seeded"} /\ pending' \subseteq Demo
               /\ (stage' \in Groups \/ pending' = {})
    BY <2>1 DEF Enter, RowsOf, Groups, Demo
  <2>2. CASE Count
    BY <2>1, <2>2 DEF Count, Following, Groups
  <2>3. CASE Resolve
    BY <2>1, <2>3 DEF Resolve, Following, Groups
  <2>4. ASSUME NEW S, rows' = Add(S)
        PROVE  rows' \in [Rows -> Nat]
    BY <2>4 DEF Add
  <2>5. ASSUME NEW S, rows' = Drop(S)
        PROVE  rows' \in [Rows -> Nat]
    BY <2>5 DEF Drop
  <2>6. ASSUME NEW r \in pending, Insert(r)
        PROVE  TypeOK'
    BY <2>4, <2>6 DEF Insert, Groups
  <2>7. CASE CreateMany
    BY <2>4, <2>7 DEF CreateMany
  <2>8. CASE UserStep
    <3>1. rows' \in [Rows -> Nat]
      BY <2>4, <2>5, <2>8 DEF UserStep
    <3> QED BY <2>8, <3>1 DEF UserStep
  <2>9. CASE Reject
    BY <2>9 DEF Reject, Groups
  <2>10. CASE Migrate \/ SeedFails \/ Listen \/ MainFails \/ Restart
    BY <2>10 DEF Migrate, SeedFails, Listen, MainFails, Restart, Groups
  <2>11. CASE Crash
    BY <2>11, CrashesAssumption DEF Crash
  <2>12. CASE DatabaseChanges \/ UNCHANGED vars
    BY <2>12 DEF DatabaseChanges, vars
  <2> QED
    BY <2>2, <2>3, <2>6, <2>7, <2>8, <2>9, <2>10, <2>11, <2>12 DEF Next, ContainerStep
<1> QED BY <1>1, <1>2, PTL DEF Spec

-----------------------------------------------------------------------------

(* The seed goes on to the next group of rows, whose rows are not there.   *)
LEMMA EnterKeepsInv ==
    ASSUME Inv, NEW group \in Groups \cup {"seeded"}, Enter(group), UNCHANGED rows,
           group \in Groups => /\ \A r \in Before(group) : Present(r)
                               /\ \A r \in RowsOf(group) \ Catalog : rows[r] = 0,
           group \in {"producers", "seasons", "crops"} => \A f \in Farms : rows[f] = 0,
           group \in {"producers", "seasons", "crops", "farms"} => \A q \in Plantings : rows[q] = 0
    PROVE  NeverDuplicates' /\ Owned' /\ Progress' /\ Fresh' /\ LeftInFlight'
<1>1. NeverDuplicates' /\ Owned'
  BY DEF Inv, NeverDuplicates, Owned, Present
<1>2. stage' = group /\ pending' = RowsOf(group)
  BY DEF Enter
<1>3. Progress'
  BY <1>2 DEF Progress, Present
<1>4. Fresh'
  <2>1. CASE group = "seeded"
    BY <1>2, <2>1 DEF Fresh, RowsOf
  <2>2. CASE group # "seeded"
    BY <1>2, <2>2 DEF Fresh
  <2> QED BY <2>1, <2>2
<1>5. LeftInFlight'
  BY <1>2 DEF LeftInFlight, Groups
<1> QED BY <1>1, <1>3, <1>4, <1>5

(* producer.count(): without a producer there is no farm, and without a    *)
(* farm nothing planted.                                                   *)
LEMMA CountKeepsInv ==
    ASSUME Inv, Count
    PROVE  NeverDuplicates' /\ Owned' /\ Progress' /\ Fresh' /\ LeftInFlight'
<1>1. CASE \E p \in Producers \cup {Guest} : Present(p)
  <2>1. Enter("seeded")
    BY <1>1 DEF Count
  <2> QED BY <2>1, EnterKeepsInv DEF Count, Groups
<1>2. CASE ~\E p \in Producers \cup {Guest} : Present(p)
  <2>1. Enter("producers")
    BY <1>2 DEF Count, Following
  <2>2. \A r \in Rows : rows[r] \in Nat
    BY DEF Inv, TypeOK
  <2>3. \A p \in Producers : rows[p] = 0
    BY <1>2, <2>2 DEF Present, Rows, Demo
  <2>4. \A f \in Farms : rows[f] = 0
    BY <1>2, <2>2, ReferencesAssumption DEF Present, Rows, Demo, Inv, Owned
  <2>5. \A q \in Plantings : rows[q] = 0
    BY <2>2, <2>4, ReferencesAssumption DEF Present, Rows, Demo, Inv, Owned
  <2>6. Before("producers") = {} /\ RowsOf("producers") = Producers
    BY DEF Before, RowsOf
  <2> QED BY <2>1, <2>3, <2>4, <2>5, <2>6, EnterKeepsInv DEF Count, Groups
<1> QED BY <1>1, <1>2

LEMMA ResolveKeepsInv ==
    ASSUME Inv, Resolve
    PROVE  NeverDuplicates' /\ Owned' /\ Progress' /\ Fresh' /\ LeftInFlight'
<1>1. \A r \in Before(stage) \cup RowsOf(stage) : Present(r)
  BY DEF Inv, Progress, Resolve
<1>2. UNCHANGED rows /\ Enter(Following(stage))
  BY DEF Resolve
<1>3. CASE stage = "producers"
  <2>1. Following(stage) = "seasons" /\ Before("seasons") = RowsOf(stage)
        /\ RowsOf("seasons") = Seasons
    BY <1>3 DEF Following, Before, RowsOf
  <2> QED
    BY <1>1, <1>2, <1>3, <2>1, EnterKeepsInv DEF Groups, Inv, Fresh, Catalog
<1>4. CASE stage = "seasons"
  <2>1. Following(stage) = "crops" /\ Before("crops") = Before(stage) \cup RowsOf(stage)
        /\ RowsOf("crops") = Crops
    BY <1>4 DEF Following, Before, RowsOf
  <2> QED
    BY <1>1, <1>2, <1>4, <2>1, EnterKeepsInv DEF Groups, Inv, Fresh, Catalog
<1>5. CASE stage = "crops"
  <2>1. Following(stage) = "farms" /\ Before("farms") = Before(stage) \cup RowsOf(stage)
        /\ RowsOf("farms") = Farms
    BY <1>5 DEF Following, Before, RowsOf, Catalog
  <2> QED
    BY <1>1, <1>2, <1>5, <2>1, EnterKeepsInv DEF Groups, Inv, Fresh
<1>6. CASE stage = "farms"
  <2>1. Following(stage) = "plantings" /\ Before("plantings") = Before(stage) \cup RowsOf(stage)
        /\ RowsOf("plantings") = Plantings
    BY <1>6 DEF Following, Before, RowsOf
  <2> QED
    BY <1>1, <1>2, <1>6, <2>1, EnterKeepsInv DEF Groups, Inv, Fresh
<1>7. CASE stage = "plantings"
  <2>1. Following(stage) = "seeded"
    BY <1>7 DEF Following
  <2> QED BY <1>2, <2>1, EnterKeepsInv DEF Groups
<1> QED BY <1>3, <1>4, <1>5, <1>6, <1>7 DEF Resolve, Groups

(* A create of a Promise.all: its row was not there, its owner is.         *)
LEMMA InsertKeepsInv ==
    ASSUME Inv, NEW r \in pending, Insert(r)
    PROVE  NeverDuplicates' /\ Owned' /\ Progress' /\ Fresh' /\ LeftInFlight'
<1>1. r \in Demo /\ r \in Rows /\ (\A s \in Rows : rows[s] \in Nat) /\ pending \subseteq Demo
  BY DEF Inv, TypeOK, Rows
<1>2. rows[r] = 0
  BY <1>1 DEF Insert, Inv, Fresh, Present
<1>3. \A s \in Rows : rows'[s] = IF s = r THEN 1 ELSE rows[s]
  BY <1>1, <1>2 DEF Insert, Add
<1>4. pending' = pending \ {r} /\ stage' = stage
  BY DEF Insert
<1>5. \A s \in Rows : Present(s) => Present(s)'
  BY <1>3 DEF Present
<1>6. Farms \subseteq Rows /\ Plantings \subseteq Rows /\ Producers \subseteq Rows
  BY DEF Rows, Demo
<1>7. stage \in Groups \cup {"failing"} /\ stage # "plantings"
  BY DEF Inv, TypeOK, Insert
<1>8. r \notin Plantings
  BY <1>7, DisjointAssumption DEF Inv, Progress, LeftInFlight, RowsOf, Groups
<1>9. r \in Farms => Present(ProducerOf[r])
  <2> SUFFICES ASSUME r \in Farms PROVE Present(ProducerOf[r])
    OBVIOUS
  <2>1. CASE stage = "failing"
    BY <2>1 DEF Inv, LeftInFlight
  <2>2. CASE stage \in Groups
    <3>1. stage = "farms"
      BY <1>7, <2>2, DisjointAssumption DEF Inv, Progress, RowsOf, Groups
    <3>2. Producers \subseteq Before(stage)
      BY <3>1 DEF Before
    <3> QED BY <2>2, <3>2, ReferencesAssumption DEF Inv, Progress
  <2> QED BY <1>7, <2>1, <2>2
<1>10. NeverDuplicates'
  BY <1>3 DEF Inv, NeverDuplicates
<1>11. Owned'
  <2>1. ASSUME NEW f \in Farms, Present(f)'
        PROVE  Present(ProducerOf[f])'
    <3>1. ProducerOf[f] \in Rows
      BY <1>6, ReferencesAssumption
    <3> QED BY <1>3, <1>5, <1>6, <1>9, <2>1, <3>1 DEF Inv, Owned, Present
  <2>2. ASSUME NEW q \in Plantings, Present(q)'
        PROVE  Present(FarmOf[q])'
    <3>1. FarmOf[q] \in Rows
      BY <1>6, ReferencesAssumption
    <3> QED BY <1>3, <1>5, <1>6, <1>8, <2>2, <3>1 DEF Inv, Owned, Present
  <2> QED BY <2>1, <2>2 DEF Owned
<1>12. Progress'
  <2> SUFFICES ASSUME stage \in Groups
               PROVE  /\ pending' \subseteq RowsOf(stage)
                      /\ \A s \in Before(stage) \cup (RowsOf(stage) \ pending') : Present(s)'
    BY <1>4 DEF Progress
  <2>1. Before(stage) \cup RowsOf(stage) \subseteq Rows
    BY DEF Before, RowsOf, Groups, Rows, Demo, Catalog
  <2>2. Present(r)'
    BY <1>1, <1>3 DEF Present
  <2> QED BY <1>4, <1>5, <2>1, <2>2 DEF Inv, Progress
<1>13. Fresh'
  <2>1. \A s \in pending' \ Catalog : rows'[s] = 0
    BY <1>1, <1>3, <1>4 DEF Inv, Fresh, Rows
  <2>2. stage \in {"producers", "seasons", "crops"} => r \notin Farms
    BY DisjointAssumption DEF Inv, Progress, RowsOf, Groups
  <2> QED BY <1>3, <1>4, <1>6, <1>8, <2>1, <2>2 DEF Inv, Fresh
<1>14. LeftInFlight'
  <2>1. \A f \in Farms : ProducerOf[f] \in Rows
    BY <1>6, ReferencesAssumption
  <2> QED BY <1>4, <1>5, <2>1 DEF Inv, LeftInFlight
<1> QED BY <1>10, <1>11, <1>12, <1>13, <1>14

(* createMany: every farm is there, and nothing was planted.               *)
LEMMA CreateManyKeepsInv ==
    ASSUME Inv, CreateMany
    PROVE  NeverDuplicates' /\ Owned' /\ Progress' /\ Fresh' /\ LeftInFlight'
<1>1. /\ stage = "plantings" /\ stage' = "plantings" /\ pending' = {}
      /\ pending \subseteq Plantings /\ \A s \in Rows : rows[s] \in Nat
  BY DEF CreateMany, Inv, Progress, RowsOf, Groups, TypeOK
<1>2. Farms \subseteq Rows /\ Plantings \subseteq Rows /\ Producers \subseteq Rows
  BY DEF Rows, Demo
<1>3. \A s \in Rows : rows'[s] = IF s \in pending THEN rows[s] + 1 ELSE rows[s]
  BY DEF CreateMany, Add
<1>4. \A s \in pending : rows[s] = 0
  BY <1>1, DisjointAssumption DEF Inv, Fresh, Catalog
<1>5. \A s \in Rows : Present(s) => Present(s)'
  BY <1>1, <1>3 DEF Present
<1>6. NeverDuplicates'
  BY <1>3, <1>4 DEF Inv, NeverDuplicates
<1>7. \A r \in Before(stage) \cup (RowsOf(stage) \ pending) : Present(r)
  BY <1>1 DEF Inv, Progress, Groups
<1>8. Owned'
  <2>1. \A f \in Farms : f \notin pending
    BY <1>1, DisjointAssumption
  <2>2. \A f \in Farms : Present(f)
    BY <1>1, <1>7 DEF Before
  <2> QED
    BY <1>2, <1>3, <1>5, <2>1, <2>2, ReferencesAssumption DEF Inv, Owned, Present
<1>9. Progress'
  <2>1. Before(stage) \cup RowsOf(stage) \subseteq Rows
    BY <1>1 DEF Before, RowsOf, Rows, Demo, Catalog
  <2>2. \A r \in pending : Present(r)'
    BY <1>1, <1>2, <1>3, <1>4 DEF Present
  <2> QED BY <1>1, <1>5, <1>7, <2>1, <2>2 DEF Progress
<1>10. Fresh' /\ LeftInFlight'
  BY <1>1 DEF Fresh, LeftInFlight
<1> QED BY <1>6, <1>8, <1>9, <1>10

(* Users: a cascade takes what is owned along.                             *)
LEMMA UserKeepsInv ==
    ASSUME Inv, UserStep
    PROVE  NeverDuplicates' /\ Owned' /\ Progress' /\ Fresh' /\ LeftInFlight'
<1>1. /\ stage' = "listening" /\ pending' = {}
      /\ \A s \in Rows : rows[s] \in Nat
  BY DEF UserStep, Inv, TypeOK, Groups
<1>2. /\ Farms \subseteq Rows /\ Plantings \subseteq Rows /\ Producers \subseteq Rows
      /\ Catalog \subseteq Rows /\ Guest \in Rows
  BY DEF Rows, Demo, Catalog
<1>3. Progress' /\ Fresh' /\ LeftInFlight'
  BY <1>1 DEF Progress, Fresh, LeftInFlight, Groups
<1>4. ASSUME NEW r \in Rows, ~Present(r), rows' = Add({r}), r \notin Farms \cup Plantings
      PROVE  NeverDuplicates' /\ Owned'
  <2>1. \A s \in Rows : rows'[s] = IF s = r THEN 1 ELSE rows[s]
    BY <1>1, <1>4 DEF Add, Present
  <2>2. NeverDuplicates'
    BY <2>1 DEF Inv, NeverDuplicates
  <2>3. Owned'
    BY <1>2, <1>4, <2>1, ReferencesAssumption DEF Inv, Owned, Present
  <2> QED BY <2>2, <2>3
<1>5. ASSUME NEW S, rows' = Drop(S),
             \A f \in Farms : ProducerOf[f] \in S => f \in S,
             \A q \in Plantings : FarmOf[q] \in S => q \in S
      PROVE  NeverDuplicates' /\ Owned'
  <2>1. \A s \in Rows : rows'[s] = IF s \in S THEN 0 ELSE rows[s]
    BY <1>5 DEF Drop
  <2>2. NeverDuplicates'
    BY <2>1 DEF Inv, NeverDuplicates
  <2>3. Owned'
    BY <1>2, <1>5, <2>1, ReferencesAssumption DEF Inv, Owned, Present
  <2> QED BY <2>2, <2>3
<1>6. CASE rows' = Add({Guest}) /\ ~Present(Guest)
  BY <1>2, <1>3, <1>4, <1>6, GuestAssumption DEF Demo
<1>7. CASE \E c \in Catalog : ~Present(c) /\ rows' = Add({c})
  BY <1>2, <1>3, <1>4, <1>7, DisjointAssumption DEF Catalog
<1>8. ASSUME NEW p \in Producers \cup {Guest},
             rows' = Drop({p} \cup Farmed({p}) \cup Planted(Farmed({p})))
      PROVE  NeverDuplicates' /\ Owned'
  <2> DEFINE S == {p} \cup Farmed({p}) \cup Planted(Farmed({p}))
  <2>1. p \notin Farms \cup Plantings
    BY GuestAssumption, DisjointAssumption DEF Demo
  <2>2. \A f \in Farms : ProducerOf[f] \in S => f \in S
    BY ReferencesAssumption, DisjointAssumption DEF Farmed, Planted
  <2>3. \A q \in Plantings : FarmOf[q] \in S => q \in S
    BY <2>1, ReferencesAssumption, DisjointAssumption DEF Farmed, Planted
  <2> QED BY <1>5, <1>8, <2>2, <2>3
<1>9. ASSUME NEW f \in Farms, rows' = Drop({f} \cup Planted({f}))
      PROVE  NeverDuplicates' /\ Owned'
  <2> DEFINE S == {f} \cup Planted({f})
  <2>1. \A g \in Farms : ProducerOf[g] \in S => g \in S
    BY ReferencesAssumption, DisjointAssumption DEF Planted
  <2>2. \A q \in Plantings : FarmOf[q] \in S => q \in S
    BY ReferencesAssumption, DisjointAssumption DEF Planted
  <2> QED BY <1>5, <1>9, <2>1, <2>2
<1>10. ASSUME NEW r \in Plantings \cup Catalog, rows' = Drop({r})
       PROVE  NeverDuplicates' /\ Owned'
  <2>1. \A f \in Farms : ProducerOf[f] # r
    BY ReferencesAssumption, DisjointAssumption DEF Catalog
  <2>2. \A q \in Plantings : FarmOf[q] # r
    BY ReferencesAssumption, DisjointAssumption DEF Catalog
  <2> QED BY <1>5, <1>10, <2>1, <2>2
<1> QED BY <1>3, <1>6, <1>7, <1>8, <1>9, <1>10 DEF UserStep

LEMMA InvIsInductive == Spec => []Inv
<1>1. Init => NeverDuplicates /\ Owned /\ Progress /\ Fresh /\ LeftInFlight
  <2>1. Farms \subseteq Rows /\ Plantings \subseteq Rows
    BY DEF Rows, Demo
  <2> QED
    BY <2>1 DEF Init, NeverDuplicates, Owned, Progress, Fresh, LeftInFlight, Present, Groups
<1>2. Inv /\ [Next]_vars => NeverDuplicates' /\ Owned' /\ Progress' /\ Fresh' /\ LeftInFlight'
  <2> SUFFICES ASSUME Inv, [Next]_vars
               PROVE  NeverDuplicates' /\ Owned' /\ Progress' /\ Fresh' /\ LeftInFlight'
    OBVIOUS
  <2>1. ASSUME UNCHANGED rows, stage' \notin Groups \cup {"failing"}, pending' = {}
        PROVE  NeverDuplicates' /\ Owned' /\ Progress' /\ Fresh' /\ LeftInFlight'
    BY <2>1 DEF Inv, NeverDuplicates, Owned, Progress, Fresh, LeftInFlight, Present, Groups
  <2>2. CASE Migrate \/ SeedFails \/ Listen \/ MainFails \/ Restart \/ Crash
    BY <2>1, <2>2
       DEF Migrate, SeedFails, Listen, MainFails, Restart, Crash, Groups, Inv, TypeOK
  <2>3. CASE Reject
    <3>1. /\ stage' = "failing" /\ UNCHANGED rows /\ pending' = pending \ Plantings
          /\ stage \in Groups \/ pending = {}
      BY <2>3 DEF Reject, Inv, TypeOK
    <3>2. ASSUME NEW f \in pending \cap Farms
          PROVE  Present(ProducerOf[f])
      <4>1. stage = "farms"
        BY <3>1, <3>2, DisjointAssumption DEF Inv, Progress, RowsOf, Groups
      <4>2. Producers \subseteq Before(stage) /\ stage \in Groups
        BY <4>1 DEF Before, Groups
      <4> QED BY <3>2, <4>2, ReferencesAssumption DEF Inv, Progress
    <3> QED
      BY <3>1, <3>2
         DEF Inv, NeverDuplicates, Owned, Progress, Fresh, LeftInFlight, Present, Groups
  <2>4. CASE Count
    BY <2>4, CountKeepsInv
  <2>5. CASE Resolve
    BY <2>5, ResolveKeepsInv
  <2>6. CASE CreateMany
    BY <2>6, CreateManyKeepsInv
  <2>7. ASSUME NEW r \in pending, Insert(r)
        PROVE  NeverDuplicates' /\ Owned' /\ Progress' /\ Fresh' /\ LeftInFlight'
    BY <2>7, InsertKeepsInv
  <2>8. CASE UserStep
    BY <2>8, UserKeepsInv
  <2>9. CASE DatabaseChanges \/ UNCHANGED vars
    BY <2>9
       DEF DatabaseChanges, vars, Inv, NeverDuplicates, Owned, Progress, Fresh, LeftInFlight, Present
  <2> QED
    BY <2>2, <2>3, <2>4, <2>5, <2>6, <2>7, <2>8, <2>9 DEF Next, ContainerStep
<1> QED BY <1>1, <1>2, BootTypeCorrect, PTL DEF Spec, Inv

(* No start, complete or cut short, leaves a row twice.                    *)
THEOREM SeedNeverDuplicates == Spec => []NeverDuplicates
BY InvIsInductive, PTL DEF Inv

(* A seed that inserted and ends well has inserted everything.             *)
THEOREM SeedIsAllOrNothing == Spec => StartsWithAllOrNothing
<1>1. ASSUME Inv, [Next]_vars, stage' = "seeded", stage # "seeded", stage # "migrated"
      PROVE  \A r \in Demo : rows'[r] > 0
  <2>1. Resolve
    BY <1>1
       DEF Next, ContainerStep, Migrate, Count, Insert, CreateMany, Reject, SeedFails, Listen,
           MainFails, Restart, Crash, DatabaseChanges, UserStep, vars
  <2>2. stage = "plantings"
    BY <1>1, <2>1 DEF Resolve, Enter, Following, Groups
  <2>3. \A r \in Before(stage) \cup RowsOf(stage) : Present(r)
    BY <1>1, <2>1 DEF Inv, Progress, Resolve
  <2>4. Before(stage) \cup RowsOf(stage) = Demo
    BY <2>2 DEF Before, RowsOf, Demo, Catalog
  <2> QED BY <2>1, <2>3, <2>4 DEF Resolve, Present
<1> QED BY <1>1, InvIsInductive, PTL DEF Spec, StartsWithAllOrNothing

=============================================================================
