CONSTANTS
  ana = ana
  beto = beto
  gordo = gordo
  h1 = h1
  v1 = v1
  vg = vg
  s1 = s1
  sg = sg
  Nada = Nada
  Clientes <- LosClientes
  Hashes <- UnHash
  Valores <- DosValores
  Sales <- LasSales
  ValoresGrandes <- UnValor
  SalesGrandes <- UnaSal
  Gordos <- UnGordo
  Repartos <- LosRepartos
  Cercanos <- UnVecino
  TOKEN_ROTATE_INTERVAL = 1
  MAX_INFO_HASHES = 1
  MAX_PEERS = 1
  MAX_VALUES = 1
  Muestra = 1
  TopeTiempo = 4
  TopeSeq <- TresODos
SPECIFICATION Spec
INVARIANTS
  TypeOK
  IdaYVuelta
  ConfirmadoPerdura
  TokenFrescoSirve
PROPERTIES
  SeqNoRetrocede
CHECK_DEADLOCK FALSE
