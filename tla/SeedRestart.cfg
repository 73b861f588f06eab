CONSTANTS
  joao = joao
  maria = maria
  techFarm = techFarm
  y2023 = y2023
  y2024 = y2024
  soja = soja
  milho = milho
  f1 = f1
  f2 = f2
  f3 = f3
  q1 = q1
  q2 = q2
  q3 = q3
  Producers = {joao, maria, techFarm}
  Seasons = {y2023, y2024}
  Crops = {soja, milho}
  Farms = {f1, f2, f3}
  Plantings = {q1, q2, q3}
  Guest = Guest
  ProducerOf <- Owners
  FarmOf <- PlantedFarms
  SeasonOf <- PlantedSeasons
  CropOf <- PlantedSpecies
  MaxCrashes = 1
  Faults = FALSE
SPECIFICATION Spec
INVARIANTS SafeAtEveryRestart
