CONSTANTS
  p1 = p1
  Nav = Nav
  Pantallas <- UnaPantalla
  MaxCli = 2
  MaxTun = 2
  Fallas <- TodasLasFallas
SPECIFICATION SpecJusta
INVARIANTS
  UnArranque
  UnTunel
  ParadoSuelta
  RunningAlDia
PROPERTIES
  BusyTermina
