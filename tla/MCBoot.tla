------------------------------- MODULE MCBoot ------------------------------
(***************************************************************************)
(* Instances of Boot for TLC: a smaller set of demonstration rows, of the  *)
(* shape of the one in prisma/seed.ts.                                     *)
(***************************************************************************)
EXTENDS Boot, TLC

CONSTANTS joao, maria, techFarm, y2023, y2024, soja, milho, f1, f2, f3, q1, q2, q3

Owners == f1 :> joao @@ f2 :> maria @@ f3 :> techFarm
PlantedFarms == q1 :> f1 @@ q2 :> f1 @@ q3 :> f2
PlantedSeasons == q1 :> y2024 @@ q2 :> y2023 @@ q3 :> y2024
PlantedSpecies == q1 :> soja @@ q2 :> soja @@ q3 :> milho

=============================================================================
