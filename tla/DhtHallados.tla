---------------------------- MODULE DhtHallados ----------------------------
(***************************************************************************)
(* What the store of findings of the DHT spider promises (index, cache     *)
(* file and announcements of gt/dhtbusca/mod.rs), without loops, channels, *)
(* sessions or the order of the index: module DhtBusca implements it.      *)
(***************************************************************************)
EXTENDS Naturals, FiniteSets

CONSTANTS Hash, TopeIndice

VARIABLES
  hallados,    \* torrents the screen can list
  guardados,   \* torrents in the cache file
  avisos,      \* announced and not yet delivered by poll_nuevos
  cortados     \* torrents the cap dropped at some time

Init ==
  /\ hallados = {}
  /\ guardados = {}
  /\ avisos = {}
  /\ cortados = {}

(* A batch is found: nothing is dropped below the cap, and never more than *)
(* what the cap requires.                                                  *)
Hallar ==
  \E S \in SUBSET (Hash \ hallados), C \in SUBSET Hash :
    /\ C \subseteq hallados \cup S
    /\ hallados' = (hallados \cup S) \ C
    /\ cortados' = cortados \cup C
    /\ Cardinality(hallados') <= TopeIndice
    /\ C # {} => Cardinality(hallados') = TopeIndice
    /\ UNCHANGED <<guardados, avisos>>

(* Only what was found is announced. *)
Avisar ==
  /\ avisos \subseteq avisos'
  /\ avisos' \subseteq avisos \cup hallados \cup cortados
  /\ UNCHANGED <<hallados, guardados, cortados>>

Entregar ==
  /\ avisos' = {}
  /\ UNCHANGED <<hallados, guardados, cortados>>

Guardar ==
  /\ guardados' = hallados
  /\ UNCHANGED <<hallados, avisos, cortados>>

(* Closing saves; a crash keeps the last saved version. *)
Cerrar ==
  /\ guardados' \in {guardados, hallados}
  /\ hallados' = guardados'
  /\ avisos' = {}
  /\ UNCHANGED cortados

Next == Hallar \/ Avisar \/ Entregar \/ Guardar \/ Cerrar

Spec == Init /\ [][Next]_<<hallados, guardados, avisos, cortados>>
=============================================================================
