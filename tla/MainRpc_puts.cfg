CONSTANTS
  c1 = c1
  c2 = c2
  c3 = c3
  t1 = t1
  t2 = t2
  n1 = n1
  n2 = n2
  Nada = Nada
  Llamantes <- TresLlamantes
  Menus <- LosMenus
  Objetivos <- DosObjetivos
  Nodos <- DosNodos
  Orden <- PorOrden
  Conoce <- Siguiente
  bootstrap <- UnBootstrap
  Tablas <- LasTablas
  Trae <- LosValores
  Codigos <- DosCodigos
  MAX_BUCKET_SIZE_K = 1
  MAX_CACHED_ITERATIVE_QUERIES = 1
  MasSeguros = 1
SPECIFICATION SpecJusta
PROPERTIES
  PutsContestados
CHECK_DEADLOCK FALSE
