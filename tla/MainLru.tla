------------------------------ MODULE MainLru ------------------------------
(***************************************************************************)
(* The lru crate's cache, as the mainline crate uses it: a sequence of     *)
(* <<key, value>>, last used first.                                        *)
(***************************************************************************)
EXTENDS Integers, SequencesExt

Claves(lru) == {lru[i][1] : i \in DOMAIN lru}
Posicion(lru, k) == CHOOSE i \in DOMAIN lru : lru[i][1] = k
Valor(lru, k) == lru[Posicion(lru, k)][2]
Sin(lru, k) == IF k \in Claves(lru) THEN RemoveAt(lru, Posicion(lru, k)) ELSE lru

(* get: a hit becomes the last used. *)
Tocar(lru, k) == IF k \in Claves(lru) THEN <<<<k, Valor(lru, k)>>>> \o Sin(lru, k) ELSE lru

(* Mutant: nothing is evicted. *)
MeterSinTope(lru, k, v, tope) == <<<<k, v>>>> \o Sin(lru, k)

(* put *)
Meter(lru, k, v, tope) ==
  LET con == <<<<k, v>>>> \o Sin(lru, k)
  IN SubSeq(con, 1, IF Len(con) > tope THEN tope ELSE Len(con))

(* pop_lru *)
SinUltimo(lru) == IF lru = <<>> THEN lru ELSE Front(lru)
=============================================================================
