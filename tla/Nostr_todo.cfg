SPECIFICATION Spec
CONSTANTS
  Autores = {"ana", "beto", "caro"}
  Relays = {"r1", "r2", "pub"}
  FALLBACK_PUBLIC_RELAYS = {"pub"}
  Nombres = {"a", "b", "c"}
  Planes <- PlanesMC
  TopeEventos = 2
  TopeBuzon = 1
  Nada = Nada
INVARIANTS
  LeidoFiel
  VistaFiel
  CargaFiel
PROPERTY EnviadoLlega
CHECK_DEADLOCK FALSE
