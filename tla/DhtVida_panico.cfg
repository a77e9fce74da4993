CONSTANTS
  h1 = h1
  t1 = t1
  Hash <- UnHash
  Toques <- UnToque
  MaxGen = 2
  MaxCola = 1
  Fallas <- SinFallas
SPECIFICATION Spec
INVARIANT SinPanico
