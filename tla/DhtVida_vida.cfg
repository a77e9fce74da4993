CONSTANTS
  h1 = h1
  t1 = t1
  Hash <- UnHash
  Toques <- UnToque
  MaxGen = 3
  MaxCola = 1
  Fallas <- TodasLasFallas
SPECIFICATION SpecJusta
INVARIANTS
  MotorCoherente
  EnMarcha
  CorriendoFiel
PROPERTIES
  TodoParaAlFin
  BucleViejoTermina
