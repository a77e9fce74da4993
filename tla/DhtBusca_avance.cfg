CONSTANTS
  h1 = h1
  h2 = h2
  t1 = t1
  Hash <- DosHashes
  Toques <- UnToque
  MaxGen = 1
  MaxCola = 1
  Fallas <- SinFallas
  MaxMeta = 1
  TopeCapturas = 1
  TopeIndice = 2
  MaxConc = 1
  MaxEspera = 1
SPECIFICATION SpecBuscaJusta
PROPERTIES
  PermisoLlega
  ResueltoSeIndexa
