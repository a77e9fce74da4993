----------------------------- MODULE DhtBuscaMC -----------------------------
(* Model values for the checks of DhtBusca. *)
EXTENDS DhtBusca

CONSTANTS h1, h2, t1

UnHash == {h1}
DosHashes == {h1, h2}
UnToque == {t1}
SinFallas == {}
TodasLasFallas == FallasPosibles
=============================================================================
