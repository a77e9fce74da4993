----------------------------- MODULE DhtVidaMC -----------------------------
(* Model values for the checks of DhtVida. *)
EXTENDS DhtVida

CONSTANTS h1, t1

UnHash == {h1}
UnToque == {t1}
SinFallas == {}
TodasLasFallas == FallasPosibles
=============================================================================
