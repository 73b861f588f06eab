---------------------------- MODULE ListingProofs ---------------------------
(***************************************************************************)
(* A walk over the pages of a list misses and repeats no more rows than    *)
(* the writes beside it account for, for every number of rows, any limit   *)
(* and any writes; and the total of a page is off by no more than what was *)
(* written between its two queries.                                        *)
(***************************************************************************)
EXTENDS Listing, FiniteSetTheorems, TLAPS

(* Sets in a strict total order R, given as a set of pairs: the members    *)
(* ahead of b, and those with n of the others or more ahead of them.       *)
Ordered(R, S) ==
    /\ \A a \in S : <<a, a>> \notin R
    /\ \A a, b \in S : a = b \/ <<a, b>> \in R \/ <<b, a>> \in R
    /\ \A a, b, c \in S : <<a, b>> \in R /\ <<b, c>> \in R => <<a, c>> \in R

Ahead(R, S, b) == {a \in S : <<a, b>> \in R}
Beyond(R, S, n) == {b \in S : Cardinality(Ahead(R, S, b)) >= n}

LEMMA AheadIsFinite ==
    ASSUME NEW R, NEW S, IsFiniteSet(S), NEW b
    PROVE  /\ IsFiniteSet(Ahead(R, S, b)) /\ Cardinality(Ahead(R, S, b)) \in Nat
           /\ Cardinality(Ahead(R, S, b)) <= Cardinality(S)
BY FS_Subset, FS_CardinalityType DEF Ahead

(* What is further back has more ahead of it.                              *)
LEMMA AheadGrows ==
    ASSUME NEW R, NEW S, IsFiniteSet(S), Ordered(R, S), NEW a \in S, NEW b \in S, <<a, b>> \in R
    PROVE  Cardinality(Ahead(R, S, a)) < Cardinality(Ahead(R, S, b))
<1>1. Ahead(R, S, a) \subseteq Ahead(R, S, b)
  BY DEF Ordered, Ahead
<1>2. a \in Ahead(R, S, b) /\ a \notin Ahead(R, S, a)
  BY DEF Ordered, Ahead
<1>3. /\ Cardinality(Ahead(R, S, a)) <= Cardinality(Ahead(R, S, b))
      /\ Cardinality(Ahead(R, S, a)) # Cardinality(Ahead(R, S, b))
  BY <1>1, <1>2, AheadIsFinite, FS_Subset
<1> QED BY <1>3, AheadIsFinite

LEMMA PlacesDiffer ==
    ASSUME NEW R, NEW S, IsFiniteSet(S), Ordered(R, S), NEW a \in S, NEW b \in S,
           Cardinality(Ahead(R, S, a)) = Cardinality(Ahead(R, S, b))
    PROVE  a = b
<1>1. <<a, b>> \notin R /\ <<b, a>> \notin R
  BY AheadGrows, AheadIsFinite
<1> QED BY <1>1 DEF Ordered

(* All but the first n members are beyond n.                               *)
LEMMA BeyondCounts ==
    ASSUME NEW R, NEW S, IsFiniteSet(S), Ordered(R, S), NEW n \in Nat
    PROVE  /\ IsFiniteSet(Beyond(R, S, n)) /\ Cardinality(Beyond(R, S, n)) \in Nat
           /\ Beyond(R, S, n) = {} \/ Cardinality(Beyond(R, S, n)) + n <= Cardinality(S)
<1>1. IsFiniteSet(Beyond(R, S, n)) /\ Cardinality(Beyond(R, S, n)) \in Nat
  BY FS_Subset, FS_CardinalityType DEF Beyond
<1>2. Cardinality(S) \in Nat
  BY FS_CardinalityType
<1>3. \A b \in Beyond(R, S, n) : Cardinality(Ahead(R, S, b)) \in n .. Cardinality(S) - 1
  <2> SUFFICES ASSUME NEW b \in Beyond(R, S, n)
               PROVE  Cardinality(Ahead(R, S, b)) \in n .. Cardinality(S) - 1
    OBVIOUS
  <2>1. b \in S /\ Ahead(R, S, b) \subseteq S \ {b}
    BY DEF Beyond, Ahead, Ordered
  <2>2. IsFiniteSet(S \ {b}) /\ Cardinality(S \ {b}) = Cardinality(S) - 1
    BY <2>1, FS_RemoveElement
  <2>3. Cardinality(Ahead(R, S, b)) <= Cardinality(S) - 1
    BY <2>1, <2>2, FS_Subset
  <2> QED BY <1>2, <2>3, AheadIsFinite DEF Beyond
<1> DEFINE place == [b \in Beyond(R, S, n) |-> Cardinality(Ahead(R, S, b))]
<1>4. place \in Injection(Beyond(R, S, n), n .. Cardinality(S) - 1)
  <2>1. place \in [Beyond(R, S, n) -> n .. Cardinality(S) - 1]
    BY <1>3
  <2>2. ASSUME NEW a \in Beyond(R, S, n), NEW b \in Beyond(R, S, n), place[a] = place[b]
        PROVE  a = b
    BY <2>2, PlacesDiffer DEF Beyond
  <2> QED BY <2>1, <2>2 DEF Injection, IsInjective
<1>9. n \in Int /\ Cardinality(S) - 1 \in Int
  BY <1>2
<1>5. /\ IsFiniteSet(n .. Cardinality(S) - 1)
      /\ Cardinality(n .. Cardinality(S) - 1) =
            IF n > Cardinality(S) - 1 THEN 0 ELSE Cardinality(S) - 1 - n + 1
  BY <1>9, FS_Interval
<1>6. Cardinality(Beyond(R, S, n)) <= Cardinality(n .. Cardinality(S) - 1)
  BY <1>4, <1>5, FS_Injection
<1>7. CASE n > Cardinality(S) - 1
  BY <1>1, <1>5, <1>6, <1>7, FS_EmptySet
<1>8. CASE n <= Cardinality(S) - 1
  BY <1>1, <1>2, <1>5, <1>6, <1>8
<1> QED BY <1>1, <1>2, <1>7, <1>8

(* One member less: nothing moves back, and one other moves from beyond to *)
(* within at most.                                                         *)
LEMMA AheadWithout ==
    ASSUME NEW R, NEW S, IsFiniteSet(S), NEW x \in S, NEW b
    PROVE  /\ Cardinality(Ahead(R, S, b)) \in Nat /\ Cardinality(Ahead(R, S \ {x}, b)) \in Nat
           /\ <<x, b>> \in R => Cardinality(Ahead(R, S \ {x}, b)) = Cardinality(Ahead(R, S, b)) - 1
           /\ <<x, b>> \notin R => Cardinality(Ahead(R, S \ {x}, b)) = Cardinality(Ahead(R, S, b))
<1>1. Ahead(R, S \ {x}, b) = Ahead(R, S, b) \ {x}
  BY DEF Ahead
<1>2. x \in Ahead(R, S, b) <=> <<x, b>> \in R
  BY DEF Ahead
<1>3. IsFiniteSet(S \ {x})
  BY FS_RemoveElement
<1> QED BY <1>1, <1>2, <1>3, AheadIsFinite, FS_RemoveElement

LEMMA LeavingMovesOne ==
    ASSUME NEW R, NEW S, IsFiniteSet(S), Ordered(R, S), NEW x \in S, NEW n \in Nat
    PROVE  /\ Beyond(R, S \ {x}, n) \subseteq Beyond(R, S, n)
           /\ \E z : Beyond(R, S, n) \subseteq Beyond(R, S \ {x}, n) \cup {x, z}
<1> DEFINE before(b) == Cardinality(Ahead(R, S, b))
           after(b) == Cardinality(Ahead(R, S \ {x}, b))
<1>1. \A b : /\ before(b) \in Nat /\ after(b) \in Nat
             /\ after(b) = before(b) \/ after(b) = before(b) - 1
  BY AheadWithout
<1>5. /\ Beyond(R, S, n) = {b \in S : before(b) >= n}
      /\ Beyond(R, S \ {x}, n) = {b \in S \ {x} : after(b) >= n}
  BY DEF Beyond
<1> HIDE DEF before, after
<1>2. Beyond(R, S \ {x}, n) \subseteq Beyond(R, S, n)
  BY <1>1, <1>5
<1>3. \A b \in Beyond(R, S, n) \ (Beyond(R, S \ {x}, n) \cup {x}) : b \in S /\ before(b) = n
  BY <1>1, <1>5
<1>4. \A a, b \in Beyond(R, S, n) \ (Beyond(R, S \ {x}, n) \cup {x}) : a = b
  BY <1>3, PlacesDiffer DEF before
<1> QED BY <1>2, <1>4

(* One member more: one moves beyond at most, be it the new one.           *)
LEMMA JoiningMovesOne ==
    ASSUME NEW R, NEW S, IsFiniteSet(S), Ordered(R, S), NEW x \in S, NEW n \in Nat
    PROVE  \E z : Beyond(R, S, n) \subseteq Beyond(R, S \ {x}, n) \cup {z}
<1> DEFINE before(b) == Cardinality(Ahead(R, S, b))
           after(b) == Cardinality(Ahead(R, S \ {x}, b))
           new == Beyond(R, S, n) \ Beyond(R, S \ {x}, n)
<1>1. \A b : /\ before(b) \in Nat /\ after(b) \in Nat
             /\ <<x, b>> \in R => after(b) = before(b) - 1
             /\ <<x, b>> \notin R => after(b) = before(b)
  BY AheadWithout
<1>2. \A b \in S : <<x, b>> \in R => before(x) < before(b)
  BY AheadGrows
<1>3. /\ \A a, b \in S : before(a) = before(b) => a = b
      /\ Beyond(R, S, n) = {b \in S : before(b) >= n}
      /\ Beyond(R, S \ {x}, n) = {b \in S \ {x} : after(b) >= n}
  BY PlacesDiffer DEF Beyond
<1> HIDE DEF before, after
<1>4. \A b \in new : b \in S /\ before(b) >= n /\ (b = x \/ ~(after(b) >= n))
  BY <1>3, Zenon
<1> HIDE DEF new
<1>5. \A b \in new : b = x \/ (before(b) = n /\ <<x, b>> \in R)
  BY <1>1, <1>4
<1>6. ASSUME NEW b \in new, b # x
      PROVE  ~(before(x) >= n)
  <2>1. before(b) = n /\ before(x) < before(b)
    BY <1>2, <1>4, <1>5, <1>6
  <2>2. before(x) \in Nat
    BY <1>1
  <2> QED BY <2>1, <2>2
<1>7. x \in new => before(x) >= n
  BY <1>4
<1>8. ASSUME NEW a \in new, NEW b \in new
      PROVE  a = b
  <2>1. a = x <=> b = x
    BY <1>6, <1>7, Zenon
  <2> QED BY <2>1, <1>3, <1>4, <1>5
<1>9. Beyond(R, S, n) \subseteq Beyond(R, S \ {x}, n) \cup new
  BY DEF new
<1> QED BY <1>8, <1>9

(* What writes of one row x, which may be in S, in S2 or in both, do to    *)
(* the members beyond n.                                                   *)
LEMMA OneRowMovesOne ==
    ASSUME NEW R, NEW S, IsFiniteSet(S), Ordered(R, S),
           NEW R2, NEW S2, IsFiniteSet(S2), Ordered(R2, S2),
           NEW x, S \ {x} = S2 \ {x},
           \A a, b \in S \ {x} : <<a, b>> \in R <=> <<a, b>> \in R2,
           NEW n \in Nat
    PROVE  /\ x \notin S2 => Beyond(R2, S2, n) \subseteq Beyond(R, S, n)
           /\ \E z : Beyond(R2, S2, n) \subseteq Beyond(R, S, n) \cup {z}
           /\ x \notin S => Beyond(R, S, n) \subseteq Beyond(R2, S2, n)
           /\ \E z : Beyond(R, S, n) \subseteq Beyond(R2, S2, n) \cup {x, z}
<1> DEFINE T == S \ {x}
<1>1. Beyond(R, T, n) = Beyond(R2, T, n)
  <2>1. \A b \in T : Ahead(R, T, b) = Ahead(R2, T, b)
    BY DEF Ahead
  <2> QED BY <2>1 DEF Beyond
<1>2. T = S2 \ {x} /\ (x \notin S => T = S) /\ (x \notin S2 => T = S2)
  OBVIOUS
<1>3. Beyond(R, T, n) \subseteq Beyond(R, S, n)
  BY <1>2, LeavingMovesOne
<1>4. Beyond(R2, T, n) \subseteq Beyond(R2, S2, n)
  BY <1>2, LeavingMovesOne
<1>5. \E z : Beyond(R2, S2, n) \subseteq Beyond(R2, T, n) \cup {z}
  BY <1>2, JoiningMovesOne
<1>6. \E z : Beyond(R, S, n) \subseteq Beyond(R, T, n) \cup {x, z}
  BY <1>2, LeavingMovesOne
<1> HIDE DEF T
<1>7. x \notin S2 => Beyond(R2, S2, n) \subseteq Beyond(R, S, n)
  BY <1>1, <1>2, <1>3
<1>8. x \notin S => Beyond(R, S, n) \subseteq Beyond(R2, S2, n)
  BY <1>1, <1>2, <1>4
<1>9. \E z : Beyond(R2, S2, n) \subseteq Beyond(R, S, n) \cup {z}
  BY <1>1, <1>3, <1>5
<1>10. \E z : Beyond(R, S, n) \subseteq Beyond(R2, S2, n) \cup {x, z}
  BY <1>1, <1>4, <1>6
<1> QED BY <1>7, <1>8, <1>9, <1>10

(* One member more, or the same ones: the count grows by one at most.      *)
LEMMA OneMoreCounts ==
    ASSUME NEW S, IsFiniteSet(S), NEW S2, NEW z, S2 \subseteq S \cup {z}
    PROVE  /\ Cardinality(S) \in Nat /\ Cardinality(S2) \in Nat
           /\ Cardinality(S2) <= Cardinality(S) + 1
<1>1. Cardinality(S) \in Nat
  BY FS_CardinalityType
<1>2. /\ IsFiniteSet(S \cup {z})
      /\ Cardinality(S \cup {z}) = IF z \in S THEN Cardinality(S) ELSE Cardinality(S) + 1
  BY FS_AddElement
<1>3. IsFiniteSet(S2) /\ Cardinality(S2) <= Cardinality(S \cup {z})
  BY <1>2, FS_Subset
<1>4. Cardinality(S2) \in Nat
  BY <1>3, FS_CardinalityType
<1> QED BY <1>1, <1>2, <1>3, <1>4

LEMMA SubsetCounts ==
    ASSUME NEW S, IsFiniteSet(S), NEW S2, S2 \subseteq S
    PROVE  /\ IsFiniteSet(S2) /\ Cardinality(S) \in Nat /\ Cardinality(S2) \in Nat
           /\ Cardinality(S2) <= Cardinality(S)
BY FS_Subset, FS_CardinalityType

-----------------------------------------------------------------------------
(* The order of a list: by key, rows of equal keys in some fixed order.    *)

Place == CHOOSE f \in [Ids -> Nat] : \A a, b \in Ids : a # b => f[a] # f[b]

Before(l, t, a, b) ==
    \/ t[a] # t[b] /\ IF l.order = "asc" THEN t[a] <= t[b] ELSE t[b] <= t[a]
    \/ t[a] = t[b] /\ Place[a] < Place[b]

KeyOrder(l, t, S) == {p \in S \X S : Before(l, t, p[1], p[2])}

LEMMA PlaceIsInjective ==
    Place \in [Ids -> Nat] /\ \A a, b \in Ids : a # b => Place[a] # Place[b]
<1>1. PICK n \in Nat : ExistsBijection(1 .. n, Ids)
  BY IdsAssumption, FS_NatBijection
<1>2. PICK g \in [1 .. n -> Ids] : \A id \in Ids : \E i \in 1 .. n : g[i] = id
  BY <1>1 DEF ExistsBijection, Bijection, Injection, Surjection
<1> DEFINE f == [id \in Ids |-> CHOOSE i \in 1 .. n : g[i] = id]
<1>3. f \in [Ids -> Nat] /\ \A id \in Ids : g[f[id]] = id
  BY <1>2
<1> HIDE DEF f
<1>4. \E h \in [Ids -> Nat] : \A a, b \in Ids : a # b => h[a] # h[b]
  BY <1>3
<1> QED BY <1>4 DEF Place

LEMMA KeysOrder ==
    ASSUME NEW l, NEW t, NEW S \in SUBSET Ids, \A id \in S : t[id] \in Nat
    PROVE  Ordered(KeyOrder(l, t, S), S) /\ IsFiniteSet(S)
<1> DEFINE R == KeyOrder(l, t, S)
<1>1. \A a, b \in S : <<a, b>> \in R <=> Before(l, t, a, b)
  BY DEF KeyOrder
<1>2. \A a \in S : t[a] \in Nat /\ Place[a] \in Nat
  BY PlaceIsInjective
<1>3. \A a \in S : ~Before(l, t, a, a)
  BY <1>2 DEF Before
<1>4. \A a, b \in S : a = b \/ Before(l, t, a, b) \/ Before(l, t, b, a)
  BY <1>2, PlaceIsInjective DEF Before
<1>5. \A a, b, c \in S : Before(l, t, a, b) /\ Before(l, t, b, c) => Before(l, t, a, c)
  BY <1>2 DEF Before
<1> HIDE DEF R
<1>6. Ordered(R, S)
  BY <1>1, <1>3, <1>4, <1>5 DEF Ordered
<1> QED BY <1>6, IdsAssumption, FS_Subset DEF R

(* Without ties, a query returns the rows in that order, whichever way it  *)
(* breaks them: the k-th row has k - 1 ahead of it.                        *)
LEMMA OrdersRank ==
    ASSUME TypeOK, ~Ties, NEW s \in Orders
    PROVE  LET R == KeyOrder(list, table, Listed)
           IN  /\ \A k \in DOMAIN s : Cardinality(Ahead(R, Listed, s[k])) = k - 1
               /\ \A id \in Listed : \E k \in DOMAIN s : s[k] = id
               /\ \A i, j \in DOMAIN s : s[i] = s[j] => i = j
               /\ Cardinality(Listed) \in Nat /\ DOMAIN s = 1 .. Cardinality(Listed)
<1> DEFINE R == KeyOrder(list, table, Listed)
           N == Cardinality(Listed)
<1>1. Listed \in SUBSET Ids /\ \A id \in Listed : table[id] \in Nat
  BY KeysAssumption DEF TypeOK, Listed, Live
<1>2. Ordered(R, Listed) /\ IsFiniteSet(Listed)
  BY <1>1, KeysOrder
<1>3. N \in Nat /\ IsFiniteSet(1 .. N) /\ Cardinality(1 .. N) = N
  BY <1>2, FS_CardinalityType, FS_Interval
<1>4. s \in [1 .. N -> Listed] /\ \A i, j \in 1 .. N : i < j => s[i] # s[j] /\ InOrder(s[i], s[j])
  BY DEF Orders
<1>5. \A i, j \in 1 .. N : s[i] = s[j] => i = j
  BY <1>3, <1>4
<1>6. \A id \in Listed : \E k \in 1 .. N : s[k] = id
  <2>1. s \in Injection(1 .. N, Listed)
    BY <1>4, <1>5 DEF Injection, IsInjective
  <2>2. s \in Surjection(1 .. N, Listed)
    BY <2>1, <1>2, <1>3, FS_Injection
  <2> QED BY <2>2 DEF Surjection
<1>7. \A i, j \in 1 .. N : i < j => <<s[i], s[j]>> \in R
  BY <1>4 DEF KeyOrder, Before, InOrder, Ties
<1>8. \A i, j \in 1 .. N : <<s[i], s[j]>> \in R => i < j
  <2> SUFFICES ASSUME NEW i \in 1 .. N, NEW j \in 1 .. N, <<s[i], s[j]>> \in R, ~(i < j)
               PROVE  FALSE
    OBVIOUS
  <2>1. s[i] \in Listed /\ s[j] \in Listed
    BY <1>4
  <2>2. CASE i = j
    BY <2>1, <2>2, <1>2 DEF Ordered
  <2>3. CASE j < i
    BY <2>1, <2>3, <1>2, <1>7 DEF Ordered
  <2> QED BY <2>2, <2>3
<1> HIDE DEF R
<1>9. ASSUME NEW k \in 1 .. N
      PROVE  Cardinality(Ahead(R, Listed, s[k])) = k - 1
  <2> DEFINE f == [i \in 1 .. k - 1 |-> s[i]]
             A == Ahead(R, Listed, s[k])
  <2>1. k - 1 \in Nat /\ 1 .. k - 1 \subseteq 1 .. N
    BY <1>3
  <2>2. \A i \in 1 .. k - 1 : s[i] \in A
    BY <1>3, <1>4, <1>7, <2>1 DEF Ahead
  <2>3. \A a \in A : \E i \in 1 .. k - 1 : s[i] = a
    BY <1>3, <1>6, <1>8 DEF Ahead
  <2> HIDE DEF A
  <2>4. f \in Injection(1 .. k - 1, A) /\ f \in Surjection(1 .. k - 1, A)
    BY <1>5, <2>1, <2>2, <2>3 DEF Injection, IsInjective, Surjection
  <2>5. ExistsBijection(1 .. k - 1, A)
    BY <2>4 DEF ExistsBijection, Bijection
  <2> QED BY <2>1, <2>5, FS_CountingElements DEF A
<1> QED BY <1>3, <1>4, <1>5, <1>6, <1>9 DEF R

-----------------------------------------------------------------------------
(* The part of a list of n rows that a page holds.                         *)

Window(n, offset, limit) ==
    IF n <= offset THEN 0 ELSE IF n - offset < limit THEN n - offset ELSE limit

LEMMA WindowFollows ==
    ASSUME NEW n \in Nat, NEW m \in Nat, NEW d \in Nat, NEW offset \in Nat, NEW limit \in Nat,
           n <= m + d
    PROVE  /\ Window(n, offset, limit) \in 0 .. limit
           /\ Window(n, offset, limit) <= Window(m, offset, limit) + d
BY DEF Window

LEMMA PagesFollow ==
    ASSUME NEW page \in Nat \ {0}, NEW limit \in Nat
    PROVE  /\ (page - 1) * limit \in Nat /\ page * limit \in Nat
           /\ (page - 1) * limit + limit = page * limit
<1>1. page - 1 \in Nat
  OBVIOUS
<1>2. \A a, b \in Nat : a * b \in Nat /\ a * b + b = (a + 1) * b
  OBVIOUS
<1> QED BY <1>1, <1>2

LEMMA WalkTypes ==
    ASSUME TypeOK
    PROVE  /\ walk.limit \in Nat /\ Offset \in Nat /\ Offset + walk.limit = walk.page * walk.limit
           /\ walk.page * walk.limit \in Nat
           /\ walk.got \in Seq(Ids) /\ (walk.rows # NotYet => walk.rows \in Seq(Ids))
           /\ walk.total # NotYet => walk.total \in Nat
           /\ Listed \in SUBSET Ids /\ (\A id \in Listed : table[id] \in Nat)
           /\ IsFiniteSet(Listed) /\ Cardinality(Listed) \in Nat
<1>1. walk.limit \in Nat /\ walk.page \in Nat \ {0}
  <2>1. walk.limit \in Limits /\ walk.page \in Nat \ {0}
    BY DEF TypeOK
  <2>2. walk.limit \in 1 .. 100
    BY <2>1, LimitsAssumption
  <2> QED BY <2>1, <2>2
<1>2. /\ Offset \in Nat /\ Offset + walk.limit = walk.page * walk.limit
      /\ walk.page * walk.limit \in Nat
  BY <1>1, PagesFollow DEF Offset
<1>3. Listed \in SUBSET Ids /\ \A id \in Listed : table[id] \in Nat
  BY KeysAssumption DEF TypeOK, Listed, Live
<1>4. IsFiniteSet(Listed) /\ Cardinality(Listed) \in Nat
  BY <1>3, IdsAssumption, FS_Subset, FS_CardinalityType
<1>5. /\ walk.got \in Seq(Ids) /\ (walk.rows # NotYet => walk.rows \in Seq(Ids))
      /\ walk.total # NotYet => walk.total \in Nat
  BY DEF TypeOK
<1> QED BY <1>1, <1>2, <1>3, <1>4, <1>5

(* A page: as many rows as the window holds.                               *)
LEMMA PageTypes ==
    ASSUME TypeOK, NEW s \in Orders
    PROVE  /\ Page(s) \in Seq(Ids) /\ Len(Page(s)) = Window(Cardinality(Listed), Offset, walk.limit)
           /\ DOMAIN Page(s) = 1 .. Len(Page(s))
           /\ \A i \in DOMAIN Page(s) : Offset + i \in DOMAIN s /\ Page(s)[i] = s[Offset + i]
<1> DEFINE N == Cardinality(Listed)
           W == Window(N, Offset, walk.limit)
<1>1. /\ walk.limit \in Nat /\ Offset \in Nat /\ N \in Nat
      /\ Listed \in SUBSET Ids
  BY WalkTypes
<1>2. s \in [1 .. N -> Listed] /\ s \in Seq(Ids) /\ Len(s) = N
  BY <1>1 DEF Orders
<1> HIDE DEF N
<1>3. W \in Nat /\ \A i \in 1 .. W : Offset + i \in 1 .. N
  BY <1>1 DEF Window
<1>4. Page(s) = [i \in 1 .. W |-> s[Offset + i]]
  BY <1>2 DEF Page, Window
<1>5. \A i \in 1 .. W : s[Offset + i] \in Ids
  BY <1>1, <1>2, <1>3
<1> HIDE DEF W
<1>6. Page(s) \in [1 .. W -> Ids]
  BY <1>4, <1>5
<1>7. Page(s) \in Seq(Ids) /\ Len(Page(s)) = W
  BY <1>3, <1>6
<1> QED BY <1>2, <1>3, <1>4, <1>7 DEF W, N

-----------------------------------------------------------------------------
(* What the client has read: the rows before Read, in the order of the     *)
(* list, and what it has been shown.                                       *)

In(s, id) == \E i \in DOMAIN s : s[i] = id
Twice(s, id) == \E i, j \in DOMAIN s : i # j /\ s[i] = id /\ s[j] = id

Order == KeyOrder(list, table, Listed)
Read == IF walk.rows = NotYet THEN Offset ELSE Offset + walk.limit
Unread == Beyond(Order, Listed, Read)

ShownBy(got, rows) ==
    {id \in Ids : In(got, id) \/ (rows # NotYet /\ In(rows, id))}
ShownTwiceBy(got, rows) ==
    {id \in Ids :
        Twice(got, id) \/ (rows # NotYet /\ (Twice(rows, id) \/ (In(got, id) /\ In(rows, id))))}

Shown == ShownBy(walk.got, walk.rows)
ShownTwice == ShownTwiceBy(walk.got, walk.rows)

(* The rows shown twice, or shown and still to be read; the rows that were *)
(* there all along, not shown and no longer to be read.                    *)
MayRepeat == ShownTwice \cup (Unread \cap Shown)
Lost == history.steady \ (Shown \cup Unread)

WalkOK ==
    Asking =>
        /\ history.steady \subseteq Listed
        /\ walk.total # NotYet => Cardinality(Listed) <= walk.total + history.joined
        /\ ~history.tied =>
            /\ Cardinality(MayRepeat) <= history.joined
            /\ Cardinality(Lost) <= history.left

(* With one query of a page answered, the list is no further from what it  *)
(* was than what was written since.                                        *)
HalfOK ==
    Asking =>
        /\ walk.rows # NotYet /\ walk.total = NotYet =>
            /\ Len(walk.rows) <=
                  Window(Cardinality(Listed), Offset, walk.limit) + history.between
            /\ Window(Cardinality(Listed), Offset, walk.limit) <=
                  Len(walk.rows) + history.between
        /\ walk.rows = NotYet /\ walk.total # NotYet =>
            /\ walk.total <= Cardinality(Listed) + history.between
            /\ Cardinality(Listed) <= walk.total + history.between

(* Without ties, a page shows the unread rows up to its end, each once.    *)
LEMMA PageShows ==
    ASSUME TypeOK, ~Ties, NEW s \in Orders
    PROVE  /\ \A id \in Ids : In(Page(s), id) <=>
                  /\ id \in Beyond(Order, Listed, Offset)
                  /\ id \notin Beyond(Order, Listed, Offset + walk.limit)
           /\ \A id \in Ids : ~Twice(Page(s), id)
           /\ Beyond(Order, Listed, Offset + walk.limit) \subseteq Beyond(Order, Listed, Offset)
<1> DEFINE N == Cardinality(Listed)
           P == Page(s)
           rank(id) == Cardinality(Ahead(Order, Listed, id))
<1>1. /\ walk.limit \in Nat /\ Offset \in Nat /\ N \in Nat /\ Listed \in SUBSET Ids
      /\ IsFiniteSet(Listed)
  BY WalkTypes
<1>2. /\ \A k \in 1 .. N : rank(s[k]) = k - 1 /\ s[k] \in Listed
      /\ \A id \in Listed : \E k \in 1 .. N : s[k] = id
      /\ \A i, j \in 1 .. N : s[i] = s[j] => i = j
      /\ DOMAIN s = 1 .. N
  BY OrdersRank DEF Order, Orders
<1>3. \A id : rank(id) \in Nat
  BY <1>1, AheadIsFinite
<1>4. \A n : Beyond(Order, Listed, n) = {id \in Listed : rank(id) >= n}
  BY DEF Beyond
<1>5. /\ DOMAIN P = 1 .. Window(N, Offset, walk.limit)
      /\ \A i \in DOMAIN P : Offset + i \in 1 .. N /\ P[i] = s[Offset + i]
  BY <1>2, PageTypes
<1> HIDE DEF N, P, rank
<1>6. \A id \in Ids : ~Twice(P, id)
  <2> SUFFICES ASSUME NEW i \in DOMAIN P, NEW j \in DOMAIN P, P[i] = P[j]
               PROVE  i = j
    BY DEF Twice
  <2>1. Offset + i = Offset + j
    BY <1>2, <1>5
  <2> QED BY <2>1, <1>1, <1>5
<1>7. ASSUME NEW id \in Ids
      PROVE  In(P, id) <=> id \in Listed /\ rank(id) >= Offset /\ ~(rank(id) >= Offset + walk.limit)
  <2>1. ASSUME NEW i \in DOMAIN P, P[i] = id
        PROVE  id \in Listed /\ rank(id) >= Offset /\ ~(rank(id) >= Offset + walk.limit)
    <3>1. PICK k \in 1 .. N : k = Offset + i /\ s[k] = id
      BY <2>1, <1>5
    <3>2. id \in Listed /\ rank(id) = k - 1
      BY <3>1, <1>2
    <3>3. i \in Nat /\ i >= 1 /\ i <= walk.limit
      BY <1>1, <1>5 DEF Window
    <3> QED BY <3>1, <3>2, <3>3, <1>1
  <2>2. ASSUME id \in Listed, rank(id) >= Offset, ~(rank(id) >= Offset + walk.limit)
        PROVE  In(P, id)
    <3>1. PICK k \in 1 .. N : s[k] = id
      BY <1>2, <2>2
    <3>2. rank(id) = k - 1
      BY <1>2, <3>1
    <3>3. k - Offset \in DOMAIN P /\ Offset + (k - Offset) = k
      BY <1>1, <1>5, <2>2, <3>2 DEF Window
    <3> QED BY <1>5, <3>1, <3>3 DEF In
  <2> QED BY <2>1, <2>2 DEF In
<1>8. \A id \in Listed : rank(id) >= Offset + walk.limit => rank(id) >= Offset
  BY <1>1, <1>3
<1>9. Beyond(Order, Listed, Offset + walk.limit) \subseteq Beyond(Order, Listed, Offset)
  BY <1>4, <1>8
<1>10. \A id \in Ids : In(P, id) <=>
                  /\ id \in Beyond(Order, Listed, Offset)
                  /\ id \notin Beyond(Order, Listed, Offset + walk.limit)
  BY <1>4, <1>7
<1> QED BY <1>6, <1>9, <1>10 DEF P

-----------------------------------------------------------------------------
(* The types.                                                              *)

WalkType ==
    [at : {"idle", "asking", "done"}, limit : Limits, page : Nat \ {0},
     rows : Seq(Ids) \cup {NotYet}, total : Nat \cup {NotYet}, got : Seq(Ids)]
HistoryType == [left : Nat, joined : Nat, between : Nat, tied : BOOLEAN, steady : SUBSET Ids]
TableType == [Ids -> Keys \cup {Unborn, Gone}]

LEMMA TypeParts ==
    TypeOK <=> /\ list \in Lists /\ table \in TableType /\ outside \subseteq Ids
               /\ walk \in WalkType /\ (walk.rows # NotYet => Len(walk.rows) <= walk.limit)
               /\ history \in HistoryType
BY DEF TypeOK, WalkType, HistoryType, TableType

LEMMA NewTypes ==
    ASSUME NEW limit \in Limits, NEW at \in {"idle", "asking", "done"}
    PROVE  /\ Walk(at, limit) \in WalkType /\ Walk(at, limit).rows = NotYet
           /\ table \in TableType => NewHistory \in HistoryType
<1>1. table \in TableType => Listed \in SUBSET Ids
  BY DEF Listed, Live
<1>2. <<>> \in Seq(Ids) /\ 1 \in Nat \ {0} /\ 0 \in Nat
  OBVIOUS
<1> QED BY <1>1, <1>2 DEF Walk, NewHistory, WalkType, HistoryType

(* A write notes at most that a row left and that one joined.              *)
LEMMA NoteTypes ==
    ASSUME history \in HistoryType, NEW id \in Ids, NEW l \in {0, 1}, NEW j \in {0, 1},
           Note(id, l, j)
    PROVE  history' \in HistoryType
<1>1. /\ history.left + l \in Nat /\ history.joined + j \in Nat
      /\ history.between + l + j \in Nat /\ history.between \in Nat
      /\ history.steady \ {id} \in SUBSET Ids /\ history.tied \in BOOLEAN
  BY DEF HistoryType
<1>2. CASE ~Asking
  BY <1>2 DEF Note
<1>3. CASE Asking
  <2>1. history' = [left |-> history.left + l, joined |-> history.joined + j,
                    between |-> IF HalfAnswered THEN history.between + l + j ELSE history.between,
                    tied |-> history.tied, steady |-> history.steady \ {id}]
    BY <1>3 DEF Note, HistoryType
  <2> QED BY <1>1, <2>1 DEF HistoryType
<1> QED BY <1>2, <1>3

LEMMA TypeInit == Init => TypeOK
<1> SUFFICES ASSUME Init PROVE TypeOK
  OBVIOUS
<1>1. PICK limit \in Limits : walk = Walk("idle", limit)
  BY DEF Init
<1>2. table \in TableType
  BY DEF Init, TableType
<1> QED BY <1>1, <1>2, NewTypes, TypeParts DEF Init

LEMMA TypeStep == TypeOK /\ [Next]_vars => TypeOK'
<1> SUFFICES ASSUME TypeOK, [Next]_vars PROVE TypeOK'
  OBVIOUS
<1> DEFINE T == /\ list' \in Lists /\ table' \in TableType /\ outside' \subseteq Ids
                /\ walk' \in WalkType /\ (walk'.rows # NotYet => Len(walk'.rows) <= walk'.limit)
                /\ history' \in HistoryType
<1>0. /\ list \in Lists /\ table \in TableType /\ outside \subseteq Ids
      /\ walk \in WalkType /\ (walk.rows # NotYet => Len(walk.rows) <= walk.limit)
      /\ history \in HistoryType
  BY TypeParts
<1>1. ASSUME NEW limit \in Limits, Start(limit)
      PROVE  T
  BY <1>0, <1>1, NewTypes DEF Start
<1>2. ASSUME FindMany
      PROVE  T
  <2>1. PICK s \in Orders : walk' = [walk EXCEPT !.rows = Page(s)]
    BY <1>2 DEF FindMany
  <2>2. Page(s) \in Seq(Ids) /\ Len(Page(s)) <= walk.limit
    <3>1. walk.limit \in Nat /\ Offset \in Nat /\ Cardinality(Listed) \in Nat
      BY WalkTypes
    <3>2. Window(Cardinality(Listed), Offset, walk.limit) <= walk.limit
      BY <3>1 DEF Window
    <3> QED BY <3>2, PageTypes
  <2>3. walk' \in WalkType /\ Len(walk'.rows) <= walk'.limit
    BY <1>0, <2>1, <2>2 DEF WalkType
  <2>4. history' = [history EXCEPT !.tied = @ \/ Ties]
    BY <1>2 DEF FindMany
  <2>5. history' \in HistoryType
    BY <1>0, <2>4 DEF HistoryType
  <2> QED BY <1>0, <1>2, <2>3, <2>5 DEF FindMany
<1>3. ASSUME Count
      PROVE  T
  <2>1. walk' \in WalkType /\ walk'.rows = walk.rows /\ walk'.limit = walk.limit
    BY <1>0, <1>3, WalkTypes DEF Count, WalkType
  <2> QED BY <1>0, <1>3, <2>1 DEF Count
<1>4. ASSUME Respond
      PROVE  T
  <2>1. walk.got \o walk.rows \in Seq(Ids)
    BY <1>4, WalkTypes DEF Respond
  <2>2. /\ walk' \in WalkType /\ (walk'.rows # NotYet => walk'.rows = walk.rows)
        /\ walk'.limit = walk.limit
    <3>1. CASE walk' = [walk EXCEPT !.at = "done", !.got = @ \o walk.rows]
      BY <1>0, <2>1, <3>1 DEF WalkType
    <3>2. CASE walk' = [walk EXCEPT !.page = @ + 1, !.got = @ \o walk.rows,
                                    !.rows = NotYet, !.total = NotYet]
      <4>1. walk.page + 1 \in Nat \ {0}
        BY <1>0 DEF WalkType
      <4> QED BY <1>0, <2>1, <3>2, <4>1 DEF WalkType
    <3> QED BY <1>4, <3>1, <3>2 DEF Respond
  <2>3. history' \in HistoryType
    BY <1>0, <1>4 DEF Respond, HistoryType
  <2> QED BY <1>0, <1>4, <2>2, <2>3 DEF Respond
<1>5. ASSUME NEW id \in Ids, NEW key \in Keys, Insert(id, key)
      PROVE  T
  BY <1>0, <1>5, NoteTypes DEF Insert, TableType
<1>6. ASSUME NEW id \in Ids, NEW key \in Keys, Rekey(id, key)
      PROVE  T
  BY <1>0, <1>6, NoteTypes DEF Rekey, TableType
<1>7. ASSUME NEW id \in Ids, Delete(id)
      PROVE  T
  <2>1. history' \in HistoryType
    BY <1>0, <1>7, NoteTypes DEF Delete
  <2> QED BY <1>0, <1>7, <2>1 DEF Delete, TableType
<1>8. ASSUME NEW id \in Ids, Move(id)
      PROVE  T
  <2>1. history' \in HistoryType
    BY <1>0, <1>8, NoteTypes DEF Move
  <2> QED BY <1>0, <1>8, <2>1 DEF Move
<1>9. ASSUME UNCHANGED vars
      PROVE  T
  BY <1>0, <1>9 DEF vars
<1>10. T
  BY <1>1, <1>2, <1>3, <1>4, <1>5, <1>6, <1>7, <1>8, <1>9 DEF Next
<1> QED BY <1>10 DEF TypeOK, WalkType, HistoryType, TableType

(* The walk holds what its queries answered, a page no longer than its     *)
(* limit.                                                                  *)
THEOREM ListingTypeCorrect == Spec => []TypeOK
BY TypeInit, TypeStep, PTL DEF Spec

-----------------------------------------------------------------------------
(* The writes.  Each is of one row x, which leaves the list (l = 1), joins *)
(* it (j = 1) or does both.                                                *)

Wrote(x, l, j) ==
    /\ UNCHANGED <<list, walk>> /\ Note(x, l, j)
    /\ Listed \ {x} = Listed' \ {x}
    /\ \A a \in Listed \ {x} : table'[a] = table[a]
    /\ l = 0 => x \notin Listed
    /\ j = 0 => x \notin Listed'

LEMMA EachWritesOneRow ==
    ASSUME TypeOK, NEW id \in Ids,
           (\E key \in Keys : Insert(id, key) \/ Rekey(id, key)) \/ Delete(id) \/ Move(id)
    PROVE  \E l, j \in {0, 1} : Wrote(id, l, j)
<1>0. table \in [Ids -> Keys \cup {Unborn, Gone}]
  BY DEF TypeOK
<1>1. ASSUME NEW key \in Keys, Insert(id, key)
      PROVE  Wrote(id, 0, 1)
  <2>1. \A a \in Ids \ {id} : table'[a] = table[a]
    BY <1>0, <1>1 DEF Insert
  <2>2. Listed \ {id} = Listed' \ {id}
    BY <1>1, <2>1 DEF Insert, Listed, Live
  <2>3. id \notin Listed
    BY <1>1 DEF Insert, Listed, Live
  <2> QED BY <1>1, <2>1, <2>2, <2>3 DEF Insert, Wrote, Listed, Live
<1>2. ASSUME NEW key \in Keys, Rekey(id, key)
      PROVE  Wrote(id, 1, 1)
  <2>1. \A a \in Ids \ {id} : table'[a] = table[a]
    BY <1>0, <1>2 DEF Rekey
  <2>2. Listed \ {id} = Listed' \ {id}
    BY <1>2, <2>1 DEF Rekey, Listed, Live
  <2> QED BY <1>2, <2>1, <2>2 DEF Rekey, Wrote, Listed, Live
<1>3. ASSUME Delete(id)
      PROVE  Wrote(id, IF id \in Listed THEN 1 ELSE 0, 0)
  <2>1. \A a \in Ids \ {id} : table'[a] = table[a]
    BY <1>0, <1>3 DEF Delete
  <2>2. Listed \ {id} = Listed' \ {id}
    BY <1>3, <2>1 DEF Delete, Listed, Live
  <2>3. id \notin Listed'
    BY <1>0, <1>3 DEF Delete, Listed, Live
  <2> QED BY <1>3, <2>1, <2>2, <2>3 DEF Delete, Wrote, Listed, Live
<1>4. ASSUME Move(id)
      PROVE  Wrote(id, IF id \in outside THEN 0 ELSE 1, IF id \in outside THEN 1 ELSE 0)
  <2>1. Listed \ {id} = Listed' \ {id}
    BY <1>4 DEF Move, Listed, Live
  <2>2. (id \in outside => id \notin Listed) /\ (id \notin outside => id \notin Listed')
    BY <1>4 DEF Move, Listed
  <2> QED BY <1>4, <2>1, <2>2 DEF Move, Wrote, Listed, Live
<1> QED BY <1>1, <1>2, <1>3, <1>4

LEMMA WriteMovesOne ==
    ASSUME TypeOK, TypeOK', NEW x, NEW l \in {0, 1}, NEW j \in {0, 1}, Wrote(x, l, j)
    PROVE  /\ j = 0 => Unread' \subseteq Unread
           /\ \E z : Unread' \subseteq Unread \cup {z}
           /\ l = 0 => Unread \subseteq Unread'
           /\ \E z : Unread \subseteq Unread' \cup {x, z}
           /\ Cardinality(Listed') <= Cardinality(Listed) + j
           /\ Cardinality(Listed) <= Cardinality(Listed') + l
           /\ Cardinality(Listed) \in Nat /\ Cardinality(Listed') \in Nat
<1>1. /\ Listed \in SUBSET Ids /\ \A id \in Listed : table[id] \in Nat
      /\ IsFiniteSet(Listed)
  BY WalkTypes
<1>2. /\ Listed' \in SUBSET Ids /\ (\A id \in Listed' : table'[id] \in Nat)
      /\ IsFiniteSet(Listed')
  <2>1. table' \in [Ids -> Keys \cup {Unborn, Gone}]
    BY DEF TypeOK
  <2>2. Listed' \in SUBSET Ids /\ \A id \in Listed' : table'[id] \in Nat
    BY <2>1, KeysAssumption DEF Listed, Live
  <2> QED BY <2>2, IdsAssumption, FS_Subset
<1>3. Ordered(Order, Listed) /\ Ordered(Order', Listed')
  <2>1. Ordered(KeyOrder(list, table, Listed), Listed)
    BY <1>1, KeysOrder
  <2>2. Ordered(KeyOrder(list', table', Listed'), Listed')
    BY <1>2, KeysOrder
  <2> QED BY <2>1, <2>2 DEF Order
<1>4. Listed \ {x} = Listed' \ {x} /\ (l = 0 => x \notin Listed) /\ (j = 0 => x \notin Listed')
  BY DEF Wrote
<1>5. \A a, b \in Listed \ {x} : <<a, b>> \in Order <=> <<a, b>> \in Order'
  <2>1. list' = list /\ \A a \in Listed \ {x} : table'[a] = table[a] /\ a \in Listed'
    BY <1>4 DEF Wrote
  <2>2. \A a, b \in Listed \ {x} : Before(list, table, a, b) <=> Before(list', table', a, b)
    BY <2>1 DEF Before
  <2> QED BY <2>1, <2>2 DEF Order, KeyOrder
<1>6. Read \in Nat /\ Read' = Read
  BY WalkTypes DEF Wrote, Read, Offset
<1>7. /\ x \notin Listed' => Unread' \subseteq Unread
      /\ \E z : Unread' \subseteq Unread \cup {z}
      /\ x \notin Listed => Unread \subseteq Unread'
      /\ \E z : Unread \subseteq Unread' \cup {x, z}
  <2> DEFINE B == Beyond(Order, Listed, Read)
             B2 == Beyond(Order', Listed', Read)
  <2>1. /\ x \notin Listed' => B2 \subseteq B
        /\ \E z : B2 \subseteq B \cup {z}
        /\ x \notin Listed => B \subseteq B2
        /\ \E z : B \subseteq B2 \cup {x, z}
    BY <1>1, <1>2, <1>3, <1>4, <1>5, <1>6, OneRowMovesOne
  <2> QED BY <2>1, <1>6 DEF Unread
<1>8. /\ Cardinality(Listed) \in Nat /\ Cardinality(Listed') \in Nat
      /\ Cardinality(Listed') <= Cardinality(Listed) + j
      /\ Cardinality(Listed) <= Cardinality(Listed') + l
  <2>1. j = 0 => Listed' \subseteq Listed
    BY <1>4
  <2>2. l = 0 => Listed \subseteq Listed'
    BY <1>4
  <2>3. Listed \subseteq Listed' \cup {x} /\ Listed' \subseteq Listed \cup {x}
    BY <1>4
  <2>4. /\ Cardinality(Listed) \in Nat /\ Cardinality(Listed') \in Nat
        /\ Cardinality(Listed) <= Cardinality(Listed') + 1
        /\ Cardinality(Listed') <= Cardinality(Listed) + 1
    BY <1>1, <1>2, <2>3, OneMoreCounts
  <2>5. /\ j = 0 => Cardinality(Listed') <= Cardinality(Listed)
        /\ l = 0 => Cardinality(Listed) <= Cardinality(Listed')
    BY <1>1, <1>2, <2>1, <2>2, FS_Subset
  <2> QED BY <2>4, <2>5
<1> QED BY <1>4, <1>7, <1>8

LEMMA NoteOfWalk ==
    ASSUME TypeOK, Asking, NEW x, NEW l, NEW j, Note(x, l, j)
    PROVE  /\ history'.left = history.left + l /\ history'.joined = history.joined + j
           /\ history'.steady = history.steady \ {x} /\ history'.tied = history.tied
           /\ history'.between = IF HalfAnswered THEN history.between + l + j ELSE history.between
           /\ history.left \in Nat /\ history.joined \in Nat /\ history.between \in Nat
           /\ history.steady \in SUBSET Ids
BY DEF TypeOK, Note

LEMMA TalliesAreFinite ==
    ASSUME TypeOK
    PROVE  /\ IsFiniteSet(MayRepeat) /\ Cardinality(MayRepeat) \in Nat
           /\ IsFiniteSet(Lost) /\ Cardinality(Lost) \in Nat
<1>1. MayRepeat \subseteq Ids
  BY DEF MayRepeat, ShownTwice, Shown, ShownTwiceBy, ShownBy
<1>2. Lost \subseteq Ids
  BY DEF Lost, TypeOK
<1> QED BY <1>1, <1>2, IdsAssumption, SubsetCounts

LEMMA WriteKeepsWalk ==
    ASSUME TypeOK, TypeOK', WalkOK, NEW x, NEW l \in {0, 1}, NEW j \in {0, 1}, Wrote(x, l, j)
    PROVE  WalkOK'
<1> SUFFICES ASSUME Asking'
             PROVE  /\ history'.steady \subseteq Listed'
                    /\ walk'.total # NotYet => Cardinality(Listed') <= walk'.total + history'.joined
                    /\ ~history'.tied => /\ Cardinality(MayRepeat') <= history'.joined
                                         /\ Cardinality(Lost') <= history'.left
  BY DEF WalkOK
<1>1. walk' = walk /\ Asking /\ Listed \ {x} = Listed' \ {x} /\ Note(x, l, j)
  BY DEF Wrote, Asking
<1>2. /\ history'.left = history.left + l /\ history'.joined = history.joined + j
      /\ history'.steady = history.steady \ {x} /\ history'.tied = history.tied
      /\ history.left \in Nat /\ history.joined \in Nat
  BY <1>1, NoteOfWalk
<1>3. /\ j = 0 => Unread' \subseteq Unread
      /\ \E z : Unread' \subseteq Unread \cup {z}
      /\ l = 0 => Unread \subseteq Unread'
      /\ \E z : Unread \subseteq Unread' \cup {x, z}
      /\ Cardinality(Listed') <= Cardinality(Listed) + j
      /\ Cardinality(Listed) \in Nat /\ Cardinality(Listed') \in Nat
  BY WriteMovesOne
<1>4. Shown' = Shown /\ ShownTwice' = ShownTwice
  BY <1>1 DEF Shown, ShownTwice
<1>5. /\ IsFiniteSet(MayRepeat) /\ Cardinality(MayRepeat) \in Nat
      /\ IsFiniteSet(Lost) /\ Cardinality(Lost) \in Nat
  BY TalliesAreFinite
<1>6. Cardinality(MayRepeat') <= Cardinality(MayRepeat) + j /\ Cardinality(MayRepeat') \in Nat
  <2>1. PICK z : Unread' \subseteq Unread \cup {z}
    BY <1>3
  <2>2. MayRepeat' \subseteq MayRepeat \cup {z} /\ (j = 0 => MayRepeat' \subseteq MayRepeat)
    BY <1>3, <1>4, <2>1 DEF MayRepeat
  <2>3. /\ Cardinality(MayRepeat') \in Nat /\ Cardinality(MayRepeat') <= Cardinality(MayRepeat) + 1
        /\ j = 0 => Cardinality(MayRepeat') <= Cardinality(MayRepeat)
    BY <1>5, <2>2, OneMoreCounts, SubsetCounts
  <2> QED BY <1>5, <2>3
<1>7. Cardinality(Lost') <= Cardinality(Lost) + l /\ Cardinality(Lost') \in Nat
  <2>1. PICK z : Unread \subseteq Unread' \cup {x, z}
    BY <1>3
  <2>2. Lost' \subseteq Lost \cup {z} /\ (l = 0 => Lost' \subseteq Lost)
    BY <1>2, <1>3, <1>4, <2>1 DEF Lost
  <2>3. /\ Cardinality(Lost') \in Nat /\ Cardinality(Lost') <= Cardinality(Lost) + 1
        /\ l = 0 => Cardinality(Lost') <= Cardinality(Lost)
    BY <1>5, <2>2, OneMoreCounts, SubsetCounts
  <2> QED BY <1>5, <2>3
<1>8. /\ history.steady \subseteq Listed
      /\ walk.total # NotYet => Cardinality(Listed) <= walk.total + history.joined
      /\ ~history.tied => /\ Cardinality(MayRepeat) <= history.joined
                          /\ Cardinality(Lost) <= history.left
  BY <1>1 DEF WalkOK
<1>9. history'.steady \subseteq Listed'
  BY <1>1, <1>2, <1>8
<1>10. walk'.total # NotYet => Cardinality(Listed') <= walk'.total + history'.joined
  <2>1. walk.total # NotYet => walk.total \in Nat
    BY DEF TypeOK
  <2> QED BY <1>1, <1>2, <1>3, <1>8, <2>1
<1>11. ~history'.tied => /\ Cardinality(MayRepeat') <= history'.joined
                         /\ Cardinality(Lost') <= history'.left
  BY <1>2, <1>5, <1>6, <1>7, <1>8
<1> QED BY <1>9, <1>10, <1>11

(* The part of the list in a page moves no further than the list.          *)
LEMMA WriteKeepsHalf ==
    ASSUME TypeOK, TypeOK', HalfOK, NEW x, NEW l \in {0, 1}, NEW j \in {0, 1}, Wrote(x, l, j)
    PROVE  HalfOK'
<1> DEFINE n == Cardinality(Listed)
           m == Cardinality(Listed')
           W(k) == Window(k, Offset, walk.limit)
<1> SUFFICES ASSUME Asking'
             PROVE  /\ walk'.rows # NotYet /\ walk'.total = NotYet =>
                         /\ Len(walk'.rows) <= W(m) + history'.between
                         /\ W(m) <= Len(walk'.rows) + history'.between
                    /\ walk'.rows = NotYet /\ walk'.total # NotYet =>
                         /\ walk'.total <= m + history'.between
                         /\ m <= walk'.total + history'.between
  BY DEF HalfOK, Wrote, Offset
<1>1. walk' = walk /\ Asking /\ Note(x, l, j)
  BY DEF Wrote, Asking
<1>2. /\ history'.between = IF HalfAnswered THEN history.between + l + j ELSE history.between
      /\ history.between \in Nat
  BY <1>1, NoteOfWalk
<1>3. n \in Nat /\ m \in Nat /\ m <= n + j /\ n <= m + l
  BY WriteMovesOne
<1>4. /\ walk.rows # NotYet /\ walk.total = NotYet =>
           Len(walk.rows) <= W(n) + history.between /\ W(n) <= Len(walk.rows) + history.between
      /\ walk.rows = NotYet /\ walk.total # NotYet =>
           walk.total <= n + history.between /\ n <= walk.total + history.between
  BY <1>1 DEF HalfOK
<1>5. /\ walk.limit \in Nat /\ Offset \in Nat /\ (walk.total # NotYet => walk.total \in Nat)
      /\ walk.rows # NotYet => Len(walk.rows) \in Nat
  BY WalkTypes
<1> HIDE DEF n, m
<1>6. l \in Nat /\ j \in Nat
  OBVIOUS
<1>9. W(m) \in 0 .. walk.limit /\ W(m) <= W(n) + j
  BY <1>3, <1>5, <1>6, WindowFollows
<1>10. W(n) \in 0 .. walk.limit /\ W(n) <= W(m) + l
  BY <1>3, <1>5, <1>6, WindowFollows
<1> HIDE DEF W
<1>7. ASSUME walk.rows # NotYet, walk.total = NotYet
      PROVE  /\ Len(walk.rows) <= W(m) + history'.between
             /\ W(m) <= Len(walk.rows) + history'.between
  <2>1. history'.between = history.between + l + j
    BY <1>2, <1>7 DEF HalfAnswered
  <2>2. Len(walk.rows) <= W(n) + history.between /\ W(n) <= Len(walk.rows) + history.between
    BY <1>4, <1>7
  <2>3. /\ Len(walk.rows) \in Nat /\ W(n) \in Nat /\ W(m) \in Nat /\ history.between \in Nat
        /\ W(m) <= W(n) + j /\ W(n) <= W(m) + l
    BY <1>2, <1>5, <1>7, <1>9, <1>10
  <2>4. \A r, a, b, d \in Nat :
            (r <= a + d /\ a <= r + d /\ a <= b + l /\ b <= a + j) =>
                r <= b + (d + l + j) /\ b <= r + (d + l + j)
    BY <1>6
  <2> QED BY <2>1, <2>2, <2>3, <2>4
<1>8. ASSUME walk.rows = NotYet, walk.total # NotYet
      PROVE  walk.total <= m + history'.between /\ m <= walk.total + history'.between
  <2>1. history'.between = history.between + l + j
    BY <1>2, <1>8 DEF HalfAnswered
  <2> QED BY <1>2, <1>3, <1>4, <1>5, <1>8, <2>1
<1> QED BY <1>1, <1>7, <1>8

-----------------------------------------------------------------------------
(* The steps of the walk.                                                  *)

LEMMA ListStays ==
    ASSUME UNCHANGED <<list, table, outside>>
    PROVE  Listed' = Listed /\ Order' = Order /\ Live' = Live
<1>1. Live' = Live
  BY DEF Live
<1>2. Listed' = Listed
  BY <1>1 DEF Listed
<1>3. KeyOrder(list, table, Listed)' = KeyOrder(list, table, Listed)
  BY <1>2 DEF KeyOrder, Before
<1> QED BY <1>1, <1>2, <1>3 DEF Order

LEMMA StartBegins ==
    ASSUME TypeOK, TypeOK', NEW limit \in Limits, Start(limit)
    PROVE  WalkOK' /\ HalfOK' /\ walk'.rows = NotYet /\ Asking'
<1>1. /\ walk'.at = "asking" /\ walk'.page = 1 /\ walk'.rows = NotYet /\ walk'.total = NotYet
      /\ walk'.got = <<>>
  BY DEF Start, Walk
<1>2. /\ history'.steady = Listed /\ history'.left = 0 /\ history'.joined = 0
      /\ Listed' = Listed
  BY ListStays DEF Start, NewHistory
<1>3. Read' = 0
  <2>1. walk'.limit \in Nat
    BY LimitsAssumption DEF Start, Walk
  <2> QED BY <1>1, <2>1 DEF Read, Offset
<1>4. Listed' \subseteq Unread'
  <2>1. IsFiniteSet(Listed')
    BY <1>2, WalkTypes
  <2>2. \A b : Cardinality(Ahead(Order', Listed', b)) >= 0
    BY <2>1, AheadIsFinite
  <2> QED BY <1>3, <2>2 DEF Unread, Beyond
<1>5. Shown' = {} /\ ShownTwice' = {}
  BY <1>1 DEF Shown, ShownTwice, ShownBy, ShownTwiceBy, In, Twice
<1>6. MayRepeat' = {} /\ Lost' = {}
  BY <1>2, <1>4, <1>5 DEF MayRepeat, Lost
<1>7. WalkOK'
  BY <1>1, <1>2, <1>6, FS_EmptySet DEF WalkOK
<1> QED BY <1>1, <1>7 DEF HalfOK, Asking

LEMMA FindManyReads ==
    ASSUME TypeOK, TypeOK', WalkOK, HalfOK, FindMany
    PROVE  WalkOK' /\ HalfOK' /\ TotalFitsPage'
<1>1. PICK s \in Orders : walk' = [walk EXCEPT !.rows = Page(s)]
  BY DEF FindMany
<1>2. /\ walk'.rows = Page(s) /\ walk'.at = walk.at /\ walk'.page = walk.page
      /\ walk'.limit = walk.limit /\ walk'.total = walk.total /\ walk'.got = walk.got
      /\ Asking /\ walk.rows = NotYet
  BY <1>1 DEF FindMany, TypeOK
<1>3. /\ history'.tied = (history.tied \/ Ties) /\ history'.left = history.left
      /\ history'.joined = history.joined /\ history'.steady = history.steady
      /\ history'.between = history.between
  BY DEF FindMany, TypeOK
<1>4. Listed' = Listed /\ Order' = Order
  BY ListStays DEF FindMany
<1>5. Page(s) \in Seq(Ids) /\ Len(Page(s)) = Window(Cardinality(Listed), Offset, walk.limit)
  BY PageTypes
<1>6. Page(s) # NotYet
  BY <1>5, MarksAssumption
<1>7. Read = Offset /\ Read' = Offset + walk.limit /\ Offset' = Offset
  BY <1>2, <1>6 DEF Read, Offset
<1>8. /\ history.steady \subseteq Listed
      /\ walk.total # NotYet => Cardinality(Listed) <= walk.total + history.joined
      /\ ~history.tied => /\ Cardinality(MayRepeat) <= history.joined
                          /\ Cardinality(Lost) <= history.left
  BY <1>2 DEF WalkOK
<1>9. ASSUME ~history'.tied
      PROVE  MayRepeat' \subseteq MayRepeat /\ Lost' \subseteq Lost
  <2>1. ~Ties
    BY <1>3, <1>9
  <2>2. /\ \A id \in Ids : In(Page(s), id) <=> id \in Unread /\ id \notin Unread'
        /\ \A id \in Ids : ~Twice(Page(s), id)
        /\ Unread' \subseteq Unread
    BY <2>1, <1>4, <1>7, PageShows DEF Unread
  <2>3. Shown' = Shown \cup {id \in Ids : In(Page(s), id)}
    BY <1>2, <1>6 DEF Shown, ShownBy
  <2>4. ShownTwice' \subseteq ShownTwice \cup {id \in Shown : In(Page(s), id)}
    BY <1>2, <1>6, <2>2 DEF ShownTwice, Shown, ShownTwiceBy, ShownBy
  <2>5. Shown \subseteq Ids
    BY DEF Shown, ShownBy
  <2>6. MayRepeat' \subseteq MayRepeat
    BY <2>2, <2>3, <2>4, <2>5 DEF MayRepeat
  <2>7. history.steady \subseteq Ids
    BY DEF TypeOK
  <2>8. Lost' \subseteq Lost
    BY <1>3, <2>2, <2>3, <2>7 DEF Lost
  <2> QED BY <2>6, <2>8
<1>10. ASSUME ~history'.tied
       PROVE  Cardinality(MayRepeat') <= history'.joined /\ Cardinality(Lost') <= history'.left
  <2>1. /\ IsFiniteSet(MayRepeat) /\ Cardinality(MayRepeat) \in Nat
        /\ IsFiniteSet(Lost) /\ Cardinality(Lost) \in Nat
    BY TalliesAreFinite
  <2>2. /\ Cardinality(MayRepeat') \in Nat /\ Cardinality(MayRepeat') <= Cardinality(MayRepeat)
        /\ Cardinality(Lost') \in Nat /\ Cardinality(Lost') <= Cardinality(Lost)
    BY <1>9, <1>10, <2>1, SubsetCounts
  <2>3. Cardinality(MayRepeat) <= history.joined /\ Cardinality(Lost) <= history.left
    BY <1>3, <1>8, <1>10
  <2>4. history.joined \in Nat /\ history.left \in Nat
    BY DEF TypeOK
  <2> QED BY <1>3, <2>1, <2>2, <2>3, <2>4
<1>11. WalkOK'
  BY <1>2, <1>3, <1>4, <1>8, <1>10 DEF WalkOK
<1>12. /\ history.between \in Nat /\ Cardinality(Listed) \in Nat /\ walk.limit \in Nat
       /\ Offset \in Nat /\ (walk.total # NotYet => walk.total \in Nat)
  BY WalkTypes DEF TypeOK
<1>13. Window(Cardinality(Listed), Offset, walk.limit) \in Nat
  BY <1>12 DEF Window
<1>14. HalfOK'
  BY <1>2, <1>3, <1>4, <1>5, <1>6, <1>7, <1>12, <1>13 DEF HalfOK
<1>15. ASSUME walk.total # NotYet
       PROVE  /\ Len(walk'.rows) <= Expected' + history'.between
              /\ Expected' <= Len(walk'.rows) + history'.between
  <2>1. Expected' = Window(walk.total, Offset, walk.limit)
    BY <1>2, <1>7 DEF Expected, Window
  <2>2. /\ walk.total <= Cardinality(Listed) + history.between
        /\ Cardinality(Listed) <= walk.total + history.between
    BY <1>2, <1>15 DEF HalfOK
  <2>3. /\ Window(walk.total, Offset, walk.limit) <=
              Window(Cardinality(Listed), Offset, walk.limit) + history.between
        /\ Window(Cardinality(Listed), Offset, walk.limit) <=
              Window(walk.total, Offset, walk.limit) + history.between
    BY <1>12, <1>15, <2>2, WindowFollows
  <2> QED BY <1>2, <1>3, <1>5, <2>1, <2>3
<1>16. TotalFitsPage'
  BY <1>2, <1>15 DEF TotalFitsPage
<1> QED BY <1>11, <1>14, <1>16

LEMMA CountReads ==
    ASSUME TypeOK, TypeOK', WalkOK, HalfOK, Count
    PROVE  WalkOK' /\ HalfOK' /\ TotalFitsPage'
<1>1. /\ walk'.rows = walk.rows /\ walk'.at = walk.at /\ walk'.page = walk.page
      /\ walk'.limit = walk.limit /\ walk'.total = Cardinality(Listed) /\ walk'.got = walk.got
      /\ Asking /\ walk.total = NotYet /\ history' = history
  BY DEF Count, TypeOK
<1>2. Listed' = Listed /\ Order' = Order
  BY ListStays DEF Count
<1>3. Cardinality(Listed) \in Nat /\ history.joined \in Nat /\ history.between \in Nat
  BY WalkTypes DEF TypeOK
<1>4. walk'.total # NotYet
  BY <1>1, <1>3, MarksAssumption
<1>5. Read' = Read /\ Offset' = Offset
  BY <1>1 DEF Read, Offset
<1>6. Shown' = Shown /\ ShownTwice' = ShownTwice /\ Unread' = Unread
  BY <1>1, <1>2, <1>5 DEF Shown, ShownTwice, Unread
<1>7. MayRepeat' = MayRepeat /\ Lost' = Lost
  BY <1>1, <1>6 DEF MayRepeat, Lost
<1>8. WalkOK'
  BY <1>1, <1>2, <1>3, <1>7 DEF WalkOK
<1>9. HalfOK'
  BY <1>1, <1>2, <1>3, <1>4 DEF HalfOK
<1>10. Expected' = Window(Cardinality(Listed), Offset, walk.limit)
  BY <1>1, <1>5 DEF Expected, Window
<1>11. TotalFitsPage'
  BY <1>1, <1>10 DEF TotalFitsPage, HalfOK
<1> QED BY <1>8, <1>9, <1>11

(* Two pages on end show what the one and the other did.                   *)
LEMMA JoinedShows ==
    ASSUME NEW got \in Seq(Ids), NEW rows \in Seq(Ids), NEW id
    PROVE  /\ In(got \o rows, id) <=> In(got, id) \/ In(rows, id)
           /\ Twice(got \o rows, id) <=>
                Twice(got, id) \/ Twice(rows, id) \/ (In(got, id) /\ In(rows, id))
<1> DEFINE n == Len(got)
           m == Len(rows)
           all == got \o rows
<1>1. /\ n \in Nat /\ m \in Nat /\ DOMAIN got = 1 .. n /\ DOMAIN rows = 1 .. m
      /\ DOMAIN all = 1 .. n + m
  OBVIOUS
<1>2. \A i \in 1 .. n : i \in 1 .. n + m /\ all[i] = got[i]
  BY <1>1
<1>3. \A i \in 1 .. m : n + i \in 1 .. n + m /\ all[n + i] = rows[i]
  BY <1>1
<1>4. \A i \in 1 .. n + m : i \in 1 .. n \/ \E k \in 1 .. m : i = n + k
  <2> SUFFICES ASSUME NEW i \in 1 .. n + m, i \notin 1 .. n
               PROVE  \E k \in 1 .. m : i = n + k
    OBVIOUS
  <2>1. i - n \in 1 .. m /\ i = n + (i - n)
    BY <1>1
  <2> QED BY <2>1
<1> HIDE DEF n, m, all
<1>5. In(all, id) <=> In(got, id) \/ In(rows, id)
  <2>1. ASSUME NEW i \in 1 .. n + m, all[i] = id
        PROVE  In(got, id) \/ In(rows, id)
    <3>1. CASE i \in 1 .. n
      BY <1>1, <1>2, <2>1, <3>1 DEF In
    <3>2. ASSUME NEW k \in 1 .. m, i = n + k
          PROVE  In(rows, id)
      BY <1>1, <1>3, <2>1, <3>2 DEF In
    <3> QED BY <1>4, <3>1, <3>2
  <2>2. In(got, id) => In(all, id)
    BY <1>1, <1>2 DEF In
  <2>3. In(rows, id) => In(all, id)
    BY <1>1, <1>3 DEF In
  <2> QED BY <1>1, <2>1, <2>2, <2>3 DEF In
<1>6. ASSUME Twice(all, id)
      PROVE  Twice(got, id) \/ Twice(rows, id) \/ (In(got, id) /\ In(rows, id))
  <2>1. PICK i, j \in 1 .. n + m : i # j /\ all[i] = id /\ all[j] = id
    BY <1>1, <1>6 DEF Twice
  <2>2. CASE i \in 1 .. n /\ j \in 1 .. n
    BY <1>1, <1>2, <2>1, <2>2 DEF Twice
  <2>3. ASSUME NEW k \in 1 .. m, i = n + k, j \in 1 .. n
        PROVE  In(got, id) /\ In(rows, id)
    BY <1>1, <1>2, <1>3, <2>1, <2>3 DEF In
  <2>4. ASSUME NEW k \in 1 .. m, j = n + k, i \in 1 .. n
        PROVE  In(got, id) /\ In(rows, id)
    BY <1>1, <1>2, <1>3, <2>1, <2>4 DEF In
  <2>5. ASSUME NEW k \in 1 .. m, NEW h \in 1 .. m, i = n + k, j = n + h
        PROVE  Twice(rows, id)
    BY <1>1, <1>3, <2>1, <2>5 DEF Twice
  <2> QED BY <1>4, <2>1, <2>2, <2>3, <2>4, <2>5
<1>7. Twice(got, id) => Twice(all, id)
  BY <1>1, <1>2 DEF Twice
<1>8. Twice(rows, id) => Twice(all, id)
  <2> SUFFICES ASSUME NEW i \in 1 .. m, NEW j \in 1 .. m, i # j, rows[i] = id, rows[j] = id
               PROVE  Twice(all, id)
    BY <1>1 DEF Twice
  <2>1. n + i # n + j
    BY <1>1
  <2> QED BY <1>1, <1>3, <2>1 DEF Twice
<1>9. In(got, id) /\ In(rows, id) => Twice(all, id)
  <2> SUFFICES ASSUME NEW i \in 1 .. n, NEW j \in 1 .. m, got[i] = id, rows[j] = id
               PROVE  Twice(all, id)
    BY <1>1 DEF In
  <2>1. i # n + j
    BY <1>1
  <2> QED BY <1>1, <1>2, <1>3, <2>1 DEF Twice
<1> QED BY <1>5, <1>6, <1>7, <1>8, <1>9 DEF all

(* What the counts of the properties say of a row.                         *)
LEMMA TimesShown ==
    ASSUME NEW s \in Seq(Ids), NEW id
    PROVE  LET times == Cardinality({i \in DOMAIN s : s[i] = id})
           IN  /\ times = 0 => ~In(s, id)
               /\ times > 1 => Twice(s, id)
<1> DEFINE I == {i \in DOMAIN s : s[i] = id}
<1>1. IsFiniteSet(I) /\ Cardinality(I) \in Nat
  <2>1. Len(s) \in Nat /\ DOMAIN s = 1 .. Len(s)
    OBVIOUS
  <2>2. IsFiniteSet(DOMAIN s)
    BY <2>1, FS_Interval
  <2>3. I \subseteq DOMAIN s
    OBVIOUS
  <2> QED BY <2>2, <2>3, SubsetCounts
<1>2. Cardinality(I) = 0 => ~In(s, id)
  BY <1>1, FS_EmptySet DEF In
<1>3. ASSUME ~Twice(s, id)
      PROVE  ~(Cardinality(I) > 1)
  <2>1. \A i, j \in I : i = j
    BY <1>3 DEF Twice
  <2>2. I = {} \/ \E i : I = {i}
    BY <2>1
  <2> HIDE DEF I
  <2>3. Cardinality(I) = 0 \/ Cardinality(I) = 1
    BY <2>2, FS_EmptySet, FS_Singleton
  <2> QED BY <2>3
<1> QED BY <1>2, <1>3

LEMMA RespondTurns ==
    ASSUME TypeOK, TypeOK', WalkOK, Respond
    PROVE  WalkOK' /\ HalfOK' /\ TotalFitsPage' /\ MissesOnlyByWrites' /\ RepeatsOnlyByWrites'
<1>1. /\ Asking /\ walk.rows # NotYet /\ walk.total # NotYet
      /\ history'.left = history.left /\ history'.joined = history.joined
      /\ history'.tied = history.tied /\ history'.steady = history.steady
      /\ Listed' = Listed /\ Order' = Order
  BY ListStays DEF Respond, TypeOK
<1>2. /\ walk'.got = walk.got \o walk.rows /\ walk'.limit = walk.limit
      /\ \/ walk'.at = "done" /\ walk.page * walk.limit >= walk.total
         \/ /\ walk'.at = "asking" /\ walk'.page = walk.page + 1
            /\ walk'.rows = NotYet /\ walk'.total = NotYet
  BY <1>1 DEF Respond, TypeOK, Asking
<1>3. /\ walk.got \in Seq(Ids) /\ walk.rows \in Seq(Ids) /\ walk.total \in Nat
      /\ IsFiniteSet(Listed) /\ Cardinality(Listed) \in Nat
      /\ Read = walk.page * walk.limit /\ Read \in Nat
      /\ history.joined \in Nat /\ history.left \in Nat /\ history.steady \in SUBSET Ids
  BY <1>1, WalkTypes DEF Read, TypeOK
<1>4. \A id : /\ In(walk'.got, id) <=> In(walk.got, id) \/ In(walk.rows, id)
              /\ Twice(walk'.got, id) <=>
                   \/ Twice(walk.got, id) \/ Twice(walk.rows, id)
                   \/ In(walk.got, id) /\ In(walk.rows, id)
  BY <1>2, <1>3, JoinedShows
<1>5. /\ \A id \in Ids : id \in Shown <=> In(walk'.got, id)
      /\ \A id \in Ids : id \in ShownTwice <=> Twice(walk'.got, id)
  BY <1>1, <1>4 DEF Shown, ShownTwice, ShownBy, ShownTwiceBy
<1>6. /\ history.steady \subseteq Listed /\ Cardinality(Listed) <= walk.total + history.joined
      /\ ~history.tied => /\ Cardinality(MayRepeat) <= history.joined
                          /\ Cardinality(Lost) <= history.left
  BY <1>1 DEF WalkOK
<1>7. CASE walk'.at = "asking" /\ walk'.page = walk.page + 1
              /\ walk'.rows = NotYet /\ walk'.total = NotYet
  <2>1. Read' = Read
    <3>1. Read' = (walk'.page - 1) * walk'.limit
      BY <1>7 DEF Read, Offset
    <3>2. walk.page \in Nat
      BY DEF TypeOK
    <3>3. walk'.page - 1 = walk.page /\ walk'.limit = walk.limit
      BY <1>2, <1>7, <3>2
    <3> QED BY <1>3, <3>1, <3>3
  <2>2. Unread' = Unread
    BY <1>1, <2>1 DEF Unread
  <2>3. Shown' = Shown /\ ShownTwice' = ShownTwice
    <3>1. /\ Shown' = {id \in Ids : In(walk'.got, id)}
          /\ ShownTwice' = {id \in Ids : Twice(walk'.got, id)}
      BY <1>7 DEF Shown, ShownTwice, ShownBy, ShownTwiceBy
    <3>2. Shown \subseteq Ids /\ ShownTwice \subseteq Ids
      BY DEF Shown, ShownTwice, ShownBy, ShownTwiceBy
    <3> QED BY <1>5, <3>1, <3>2
  <2>4. MayRepeat' = MayRepeat /\ Lost' = Lost
    BY <1>1, <2>2, <2>3 DEF MayRepeat, Lost
  <2>5. WalkOK'
    BY <1>1, <1>6, <1>7, <2>4 DEF WalkOK
  <2> QED BY <1>7, <2>5 DEF HalfOK, TotalFitsPage, MissesOnlyByWrites, RepeatsOnlyByWrites, Done
<1>8. CASE walk'.at = "done" /\ walk.page * walk.limit >= walk.total
  <2>1. WalkOK' /\ HalfOK' /\ TotalFitsPage'
    BY <1>8 DEF WalkOK, HalfOK, TotalFitsPage, Asking
  <2>2. /\ IsFiniteSet(MayRepeat) /\ Cardinality(MayRepeat) \in Nat
        /\ IsFiniteSet(Lost) /\ Cardinality(Lost) \in Nat
    BY TalliesAreFinite
  <2>3. walk'.got \in Seq(Ids)
    BY <1>2, <1>3
  <2>4. \A id : (Times(id)' = 0 => ~In(walk'.got, id)) /\ (Times(id)' > 1 => Twice(walk'.got, id))
    BY <2>3, TimesShown DEF Times
  <2>5. Repeated' \subseteq MayRepeat
    BY <1>5, <2>4 DEF Repeated, MayRepeat
  <2>6. Missed' \subseteq Lost \cup Unread
    BY <1>1, <1>3, <1>5, <2>4 DEF Missed, Lost
  <2>7. /\ IsFiniteSet(Unread) /\ Cardinality(Unread) \in Nat
        /\ Cardinality(Unread) <= history.joined
    <3>1. Ordered(Order, Listed)
      BY WalkTypes, KeysOrder DEF Order
    <3>2. /\ IsFiniteSet(Unread) /\ Cardinality(Unread) \in Nat
          /\ Unread = {} \/ Cardinality(Unread) + Read <= Cardinality(Listed)
      BY <1>3, <3>1, BeyondCounts DEF Unread
    <3>3. Cardinality({}) = 0
      BY FS_EmptySet
    <3>4. Read >= walk.total /\ Cardinality(Listed) <= walk.total + history.joined
      BY <1>3, <1>6, <1>8
    <3>5. CASE Unread = {}
      BY <1>3, <3>2, <3>3, <3>5
    <3>6. CASE Cardinality(Unread) + Read <= Cardinality(Listed)
      BY <1>3, <3>2, <3>4, <3>6
    <3> QED BY <3>2, <3>5, <3>6
  <2>8. Cardinality(Missed') <= Cardinality(Lost) + Cardinality(Unread)
    <3>1. /\ IsFiniteSet(Lost \cup Unread)
          /\ Cardinality(Lost \cup Unread) =
                Cardinality(Lost) + Cardinality(Unread) - Cardinality(Lost \cap Unread)
      BY <2>2, <2>7, FS_Union
    <3>2. Cardinality(Lost \cap Unread) \in Nat
      BY <2>2, SubsetCounts
    <3>3. /\ Cardinality(Missed') \in Nat /\ Cardinality(Lost \cup Unread) \in Nat
          /\ Cardinality(Missed') <= Cardinality(Lost \cup Unread)
      BY <2>6, <3>1, SubsetCounts
    <3> QED BY <2>2, <2>7, <3>1, <3>2, <3>3
  <2>9. /\ Cardinality(Repeated') \in Nat /\ Cardinality(Missed') \in Nat
        /\ Cardinality(Repeated') <= Cardinality(MayRepeat)
    <3>1. Missed' \subseteq Ids
      BY <1>1, <1>3 DEF Missed
    <3> QED BY <2>2, <2>5, <3>1, IdsAssumption, SubsetCounts
  <2>10. RepeatsOnlyByWrites'
    BY <1>1, <1>3, <1>6, <2>2, <2>9 DEF RepeatsOnlyByWrites
  <2>11. MissesOnlyByWrites'
    BY <1>1, <1>3, <1>6, <2>2, <2>7, <2>8, <2>9 DEF MissesOnlyByWrites
  <2> QED BY <2>1, <2>10, <2>11
<1> QED BY <1>2, <1>7, <1>8

-----------------------------------------------------------------------------
(* The invariant.  The bounds hold at the end of a walk because during it  *)
(* the rows that may still be shown twice are no more than joined, and     *)
(* those that are lost no more than left; the writes after its end change  *)
(* neither what it has shown nor what was counted.                         *)

WalkInv ==
    /\ TypeOK /\ WalkOK /\ HalfOK
    /\ TotalFitsPage /\ MissesOnlyByWrites /\ RepeatsOnlyByWrites

LEMMA WriteKeepsAll ==
    ASSUME WalkInv, TypeOK', NEW x, NEW l \in {0, 1}, NEW j \in {0, 1}, Wrote(x, l, j)
    PROVE  WalkInv'
<1>1. WalkOK' /\ HalfOK'
  BY WriteKeepsWalk, WriteKeepsHalf DEF WalkInv
<1>2. walk' = walk
  BY DEF Wrote
<1>3. Done => history' = history
  BY DEF Done, Wrote, Note, Asking
<1>4. MissesOnlyByWrites' /\ RepeatsOnlyByWrites'
  <2>1. Done' => Done
    BY <1>2 DEF Done
  <2>2. Done => Missed' = Missed /\ Repeated' = Repeated
    BY <1>2, <1>3 DEF Missed, Repeated, Times
  <2> QED BY <1>3, <2>1, <2>2 DEF WalkInv, MissesOnlyByWrites, RepeatsOnlyByWrites
<1>5. TotalFitsPage'
  <2>1. Asking /\ walk.rows # NotYet /\ walk.total # NotYet => history'.between = history.between
    BY NoteOfWalk DEF Wrote, HalfAnswered, WalkInv
  <2>2. Expected' = Expected
    BY <1>2 DEF Expected, Offset
  <2> QED BY <1>2, <2>1, <2>2 DEF WalkInv, TotalFitsPage, Asking
<1> QED BY <1>1, <1>4, <1>5 DEF WalkInv

LEMMA WalkInvStep == WalkInv /\ [Next]_vars => WalkInv'
<1> SUFFICES ASSUME WalkInv, [Next]_vars PROVE WalkInv'
  OBVIOUS
<1>1. TypeOK /\ TypeOK'
  BY TypeStep DEF WalkInv
<1>2. ASSUME NEW limit \in Limits, Start(limit)
      PROVE  WalkInv'
  BY <1>1, <1>2, StartBegins
     DEF WalkInv, TotalFitsPage, MissesOnlyByWrites, RepeatsOnlyByWrites, Done, Asking
<1>3. ASSUME FindMany \/ Count
      PROVE  WalkInv'
  <2>1. Asking'
    BY <1>1, <1>3 DEF FindMany, Count, Asking, TypeOK
  <2>2. WalkOK' /\ HalfOK' /\ TotalFitsPage'
    BY <1>1, <1>3, FindManyReads, CountReads DEF WalkInv
  <2> QED BY <1>1, <2>1, <2>2
          DEF WalkInv, MissesOnlyByWrites, RepeatsOnlyByWrites, Done, Asking
<1>4. ASSUME Respond
      PROVE  WalkInv'
  BY <1>1, <1>4, RespondTurns DEF WalkInv
<1>5. ASSUME NEW id \in Ids,
             (\E key \in Keys : Insert(id, key) \/ Rekey(id, key)) \/ Delete(id) \/ Move(id)
      PROVE  WalkInv'
  BY <1>1, <1>5, EachWritesOneRow, WriteKeepsAll
<1>6. ASSUME UNCHANGED vars
      PROVE  WalkInv'
  <2>1. walk' = walk /\ history' = history /\ Listed' = Listed /\ Order' = Order
    BY <1>6, ListStays DEF vars
  <2>2. WalkOK' /\ HalfOK'
    BY <1>1, <2>1 DEF WalkInv, WalkOK, HalfOK, Asking, MayRepeat, Lost, Shown, ShownTwice,
                      Unread, Read, Offset
  <2>3. TotalFitsPage' /\ MissesOnlyByWrites' /\ RepeatsOnlyByWrites'
    BY <2>1 DEF WalkInv, TotalFitsPage, MissesOnlyByWrites, RepeatsOnlyByWrites, Done, Asking,
                Missed, Repeated, Times, Expected, Offset
  <2> QED BY <1>1, <2>2, <2>3 DEF WalkInv
<1> QED BY <1>2, <1>3, <1>4, <1>5, <1>6 DEF Next

THEOREM WalkInvariant == Spec => []WalkInv
<1>1. Init => WalkInv
  <2> SUFFICES ASSUME Init PROVE WalkInv
    OBVIOUS
  <2>1. walk.at = "idle" /\ walk.rows = NotYet
    BY DEF Init, Walk
  <2> QED BY <2>1, TypeInit
          DEF WalkInv, WalkOK, HalfOK, TotalFitsPage, MissesOnlyByWrites, RepeatsOnlyByWrites,
              Done, Asking
<1> QED BY <1>1, WalkInvStep, PTL DEF Spec

(* A client that reads a list page by page misses no more of the rows that *)
(* stayed in it than rows left and joined meanwhile, if createdAt never    *)
(* tied.                                                                   *)
THEOREM WalkMissesOnlyByWrites == Spec => []MissesOnlyByWrites
<1>1. WalkInv => MissesOnlyByWrites
  BY DEF WalkInv
<1> QED BY <1>1, WalkInvariant, PTL

(* It is shown no more rows twice than joined.                             *)
THEOREM WalkRepeatsOnlyByWrites == Spec => []RepeatsOnlyByWrites
<1>1. WalkInv => RepeatsOnlyByWrites
  BY DEF WalkInv
<1> QED BY <1>1, WalkInvariant, PTL

(* The rows of a page and its meta.total differ by no more than what was   *)
(* written between the two queries.                                        *)
THEOREM PageFitsTotal == Spec => []TotalFitsPage
<1>1. WalkInv => TotalFitsPage
  BY DEF WalkInv
<1> QED BY <1>1, WalkInvariant, PTL

-----------------------------------------------------------------------------
(* Seasons and crops are listed by a unique key: their rows never tie.     *)

UniqueOK ==
    list.unique =>
        /\ ~history.tied
        /\ \A a, b \in Live : table[a] = table[b] => a = b

LEMMA WriteKeepsUnique ==
    ASSUME TypeOK, UniqueOK, list.unique, NEW id \in Ids,
           (\E key \in Keys : Insert(id, key) \/ Rekey(id, key)) \/ Delete(id) \/ Move(id)
    PROVE  \A a, b \in Live' : table'[a] = table'[b] => a = b
<1>0. table \in [Ids -> Keys \cup {Unborn, Gone}]
  BY DEF TypeOK
<1>1. \A a, b \in Live : table[a] = table[b] => a = b
  BY DEF UniqueOK
<1>2. ASSUME NEW key \in Keys, Insert(id, key) \/ Rekey(id, key)
      PROVE  \A a, b \in Live' : table'[a] = table'[b] => a = b
  <2>1. table' = [table EXCEPT ![id] = key] /\ \A a \in Live : table[a] # key
    BY <1>2 DEF Insert, Rekey, Free
  <2>2. table'[id] = key /\ \A a \in Ids \ {id} : table'[a] = table[a]
    BY <1>0, <2>1
  <2>3. \A a \in Live' \ {id} : a \in Live /\ a \in Ids /\ table'[a] = table[a]
    BY <2>2 DEF Live
  <2> QED BY <1>1, <2>1, <2>2, <2>3
<1>3. ASSUME Delete(id)
      PROVE  \A a, b \in Live' : table'[a] = table'[b] => a = b
  <2>1. table'[id] = Gone /\ \A a \in Ids \ {id} : table'[a] = table[a]
    BY <1>0, <1>3 DEF Delete
  <2>2. \A a \in Live' : a \in Live /\ table'[a] = table[a]
    BY <2>1 DEF Live
  <2> QED BY <1>1, <2>2
<1>4. ASSUME Move(id)
      PROVE  \A a, b \in Live' : table'[a] = table'[b] => a = b
  BY <1>1, <1>4 DEF Move, Live
<1> QED BY <1>2, <1>3, <1>4

THEOREM UniqueKeysNeverTie == Spec => []UniqueOK
<1>1. Init => UniqueOK
  <2> SUFFICES ASSUME Init, list.unique
               PROVE  ~history.tied /\ \A a, b \in Live : table[a] = table[b] => a = b
    BY DEF UniqueOK
  <2>1. ~history.tied /\ ~Ties /\ Listed = Live
    BY DEF Init, NewHistory, Listed
  <2> QED BY <2>1 DEF Ties
<1>2. TypeOK /\ UniqueOK /\ [Next]_vars => UniqueOK'
  <2> SUFFICES ASSUME TypeOK, UniqueOK, [Next]_vars, list'.unique
               PROVE  ~history'.tied /\ \A a, b \in Live' : table'[a] = table'[b] => a = b
    BY DEF UniqueOK
  <2>1. ASSUME ~UNCHANGED <<list, table, outside>>
        PROVE  /\ list' = list /\ (history'.tied = history.tied)
               /\ \A a, b \in Live' : table'[a] = table'[b] => a = b
    <3>1. PICK id \in Ids :
              (\E key \in Keys : Insert(id, key) \/ Rekey(id, key)) \/ Delete(id) \/ Move(id)
      BY <2>1 DEF Next, Start, FindMany, Count, Respond, vars
    <3>2. PICK l \in {0, 1}, j \in {0, 1} : Wrote(id, l, j)
      BY <3>1, EachWritesOneRow
    <3>3. list' = list /\ history'.tied = history.tied
      BY <3>2, NoteOfWalk DEF Wrote, Note
    <3> QED BY <3>1, <3>3, WriteKeepsUnique
  <2>2. ASSUME UNCHANGED <<list, table, outside>>
        PROVE  /\ ~history'.tied
               /\ \A a, b \in Live' : table'[a] = table'[b] => a = b
    <3>1. ~history.tied /\ (\A a, b \in Live : table[a] = table[b] => a = b) /\ Live' = Live
      BY <2>2, ListStays DEF UniqueOK
    <3>2. ~Ties
      BY <3>1 DEF Ties, Listed
    <3>3. ~history'.tied
      <4>1. ASSUME NEW id \in Ids,
                   (\E key \in Keys : Insert(id, key) \/ Rekey(id, key)) \/ Delete(id) \/ Move(id)
            PROVE  history'.tied = history.tied
        <5>1. PICK l \in {0, 1}, j \in {0, 1} : Wrote(id, l, j)
          BY <4>1, EachWritesOneRow
        <5> QED BY <5>1, NoteOfWalk DEF Wrote, Note
      <4>2. ASSUME NEW limit \in Limits, Start(limit)
            PROVE  history'.tied = FALSE
        BY <4>2 DEF Start, NewHistory
      <4>3. ASSUME FindMany
            PROVE  history'.tied = (history.tied \/ Ties)
        BY <4>3 DEF FindMany, TypeOK
      <4>4. ASSUME Count \/ Respond \/ UNCHANGED vars
            PROVE  history'.tied = history.tied
        BY <4>4 DEF Count, Respond, TypeOK, vars
      <4> QED BY <3>1, <3>2, <4>1, <4>2, <4>3, <4>4 DEF Next
    <3> QED BY <2>2, <3>1, <3>3
  <2> QED BY <2>1, <2>2 DEF UniqueOK
<1> QED BY <1>1, <1>2, ListingTypeCorrect, PTL DEF Spec

(* The walks of seasons and crops keep to the bounds whatever happens.     *)
THEOREM UniqueWalksKeepToTheBounds ==
    Spec => [](Done /\ list.unique =>
                  /\ Cardinality(Missed) <= history.left + history.joined
                  /\ Cardinality(Repeated) <= history.joined)
<1>1. WalkInv /\ UniqueOK =>
          (Done /\ list.unique =>
              /\ Cardinality(Missed) <= history.left + history.joined
              /\ Cardinality(Repeated) <= history.joined)
  BY DEF WalkInv, UniqueOK, MissesOnlyByWrites, RepeatsOnlyByWrites
<1> QED BY <1>1, WalkInvariant, UniqueKeysNeverTie, PTL

=============================================================================
