--------------------------- MODULE MainServidorMC ---------------------------
(* Model values for the checks of MainServidor. *)
EXTENDS MainServidor

CONSTANTS ana, beto, gordo, h1, v1, vg, s1, sg

LosClientes == {ana, beto, gordo}
UnHash == {h1}
DosValores == {v1, vg}
UnValor == {vg}
LasSales == {Nada, s1, sg}
UnaSal == {sg}
UnGordo == {gordo}

(* Two writers of one item, a writer of two (one must go) beside one of    *)
(* what is too big, or a reader and writer of everything else.             *)
DosEscritores ==
  (ana :> {"get_value", "put_mutable", s1}) @@ (beto :> {"get_value", "put_mutable", s1})
    @@ (gordo :> {})
LosRepartos ==
  { DosEscritores,
    (ana :> {"get_value", "put_mutable", Nada, s1}) @@ (beto :> {})
      @@ (gordo :> {"get_value", "put_mutable", s1, sg}),
    (ana :> {"get_value", "put_immutable", "ping"})
      @@ (beto :> {"find_node", "get_peers", "announce_peer"}) @@ (gordo :> {}),
    (ana :> {"get_value"}) @@ (beto :> {"get_value", "put_mutable", sg}) @@ (gordo :> {}) }

(* The two writers get to write after reading what was written after a     *)
(* reading.                                                                *)
TresODos == [r \in LosRepartos |-> IF r = DosEscritores THEN 3 ELSE 2]

UnVecino == <<[id |-> "vecino", dir |-> "direccion", token |-> Nada, visto |-> 0]>>
=============================================================================
