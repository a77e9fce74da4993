CONSTANTS
  p1 = p1
  p2 = p2
  casa = casa
  Nada = Nada
  ID_SIZE = 3
  BITS_PREFIJO = 2
  BITS_R = 1
  Ips <- TresIps
  IpsLocales <- UnaCasa
  Crc <- CrcChica
  Subred <- SubredChica
  MAX_BUCKET_SIZE_K = 2
  STALE_TIME = 1
  TOKEN_ROTATE_INTERVAL = 1
  IdsIniciales <- UnIdInvalido
  Vecinos <- CincoVecinos
  Votos <- TresVotos
  Objetivos <- UnIdInvalido
  Modos <- Adaptativo
  REFRESH_TABLE_INTERVAL = 2
  PING_TABLE_INTERVAL = 1
  MIN_PING_BACKOFF = 0
  TopeTiempo = 3
SPECIFICATION Spec
CONSTRAINT PocasConsultas
INVARIANTS
  CubosSanos
  UnoPorIp
  AbiertoSeguro
  Reciente
  CierraBien
PROPERTIES
  SoloRanciosSalen
CHECK_DEADLOCK FALSE
