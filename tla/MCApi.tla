-------------------------------- MODULE MCApi -------------------------------
(***************************************************************************)
(* Instances of Api for TLC: the ids and the request slots come from the   *)
(* configurations, the seeds and the bodies of the requests from here.     *)
(***************************************************************************)
EXTENDS Contract, TLC

(* The first n rows of a table, the others unborn.                         *)
Rows(ids, first) == [id \in ids |-> IF id \in DOMAIN first THEN first[id] ELSE Unborn]

FarmOf(p, total, arable, vegetation) ==
    [producerId |-> p, total |-> total, arable |-> arable, vegetation |-> vegetation]

P1 == CHOOSE p \in ProducerIds : TRUE
F1 == CHOOSE f \in FarmIds : TRUE
S1 == CHOOSE s \in SeasonIds : TRUE
C1 == CHOOSE c \in CropIds : TRUE
OneOf(S) == CHOOSE x \in S : TRUE

(* An empty, migrated database.                                            *)
EmptySeed ==
    [producers |-> Rows(ProducerIds, <<>>), farms |-> Rows(FarmIds, <<>>),
     seasons |-> Rows(SeasonIds, <<>>), crops |-> Rows(CropIds, <<>>),
     planted |-> Rows(PlantedIds, <<>>)]

(* One producer with one farm of 0.10 ha, 0.06 arable and 0.03 of          *)
(* vegetation, one season and one crop, nothing planted.                   *)
OneFarmSeed ==
    [EmptySeed EXCEPT !.producers[P1] = OneOf(Documents),
                      !.farms[F1] = FarmOf(P1, 100, 60, 30),
                      !.seasons[S1] = OneOf(Years),
                      !.crops[C1] = OneOf(Names)]

(* Every farm, season and crop exists.                                     *)
FullSeed ==
    [EmptySeed EXCEPT !.producers[P1] = OneOf(Documents),
                      !.farms = [f \in FarmIds |-> FarmOf(P1, 100, 60, 30)],
                      !.seasons = OneOf({g \in [SeasonIds -> Years] : \A i, j \in SeasonIds : g[i] = g[j] => i = j}),
                      !.crops = OneOf({g \in [CropIds -> Names] : \A i, j \in CropIds : g[i] = g[j] => i = j})]

(* POST bodies: one that fits, one that does not.                          *)
PostBodies == {FarmOf(p, 100, 60, v) : p \in ProducerIds, v \in {30, 50}}

(* Bodies the columns do not hold exactly: in one the sum fits and the     *)
(* rounded sum does not, another has no room in the column.                *)
FineBodies ==
    {FarmOf(p, 10, 5, 5) : p \in ProducerIds} \cup {FarmOf(p, 995, 60, 30) : p \in ProducerIds}

RaceBodies == PostBodies \cup FineBodies

(* POST bodies that all fit.                                               *)
FittingBodies == {FarmOf(p, 100, 60, 30) : p \in ProducerIds}

Patch0 == [producerId |-> Omitted, total |-> Omitted, arable |-> Omitted, vegetation |-> Omitted]

(* PATCH bodies: one refused before it is merged, four that are legal over *)
(* the seeded row but not two by two, one refused over it.                 *)
AreaPatches == {[Patch0 EXCEPT !.total = 100, !.arable = 60, !.vegetation = 50],
                [Patch0 EXCEPT !.arable = 70],
                [Patch0 EXCEPT !.vegetation = 40],
                [Patch0 EXCEPT !.total = 90],
                [Patch0 EXCEPT !.total = 80, !.arable = 50],
                [Patch0 EXCEPT !.total = 50]}

(* A PATCH that moves the farm, and one that makes it smaller.             *)
MovePatches == {[Patch0 EXCEPT !.producerId = p] : p \in ProducerIds}
                 \cup {[Patch0 EXCEPT !.total = 90]}

(* The two PATCHes of a race, each legal over the seeded row.              *)
RacingPatches == {[Patch0 EXCEPT !.arable = 70], [Patch0 EXCEPT !.vegetation = 40]}

Nothing == {}

AllItems == {[seasonId |-> s, cropId |-> c] : s \in SeasonIds, c \in CropIds}

OneItem == {<<i>> : i \in AllItems}

(* Batches of one or two items, with repetitions.                          *)
UpToTwoItems == {<<i>> : i \in AllItems} \cup {<<i, j>> : i, j \in AllItems}

(* Neither the ids of planted crops nor the slots of batches are named by  *)
(* a seed, so they are interchangeable.                                    *)
BatchSymmetry == Permutations(PlantedIds) \cup Permutations(Batches)

=============================================================================
