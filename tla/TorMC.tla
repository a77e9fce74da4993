------------------------------- MODULE TorMC -------------------------------
(* Model values for the checks of Tor. *)
EXTENDS Tor

CONSTANT p1

UnaPantalla == {p1}
SinFallas == {}
TodasLasFallas == {"tunel", "override"}
=============================================================================
