CONSTANTS
  h1 = h1
  h2 = h2
  t1 = t1
  Hash <- DosHashes
  Toques <- UnToque
  MaxGen = 1
  MaxCola = 1
  Fallas <- TodasLasFallas
  MaxMeta = 1
  TopeCapturas = 2
  TopeIndice = 1
  MaxConc = 1
  MaxEspera = 1
SPECIFICATION SpecBusca
INVARIANTS
  Topes
  CapturaAlDia
  ResueltoIndexado
PROPERTIES
  DiscoNoOlvida
  ImplementaVida
  ImplementaHallados
