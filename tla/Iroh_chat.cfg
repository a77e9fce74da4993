SPECIFICATION SpecJusta
CONSTANTS
  Nodos = {"x", "y"}
  Textos <- TextosMC
  Topes <- TopesMC
  Bloque = 3
  TopeCanales = 2
  Nada = Nada
INVARIANT EnOrden
PROPERTY LineaLlega
CHECK_DEADLOCK FALSE
