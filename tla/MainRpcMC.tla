----------------------------- MODULE MainRpcMC -----------------------------
(* Model values for the checks of MainRpc. *)
EXTENDS MainRpc

CONSTANTS c1, c2, c3, t1, t2, n1, n2

TresLlamantes == {c1, c2, c3}
DosObjetivos == {t1, t2}
DosNodos == {n1, n2}
PorOrden == [t \in DosObjetivos |-> IF t = t1 THEN (n1 :> 2 @@ n2 :> 1) ELSE (n1 :> 1 @@ n2 :> 2)]
Siguiente == (n1 :> {n2}) @@ (n2 :> {})
UnBootstrap == {n1}
LasTablas == {{}, {n2}}

Item(s, v) == [seq |-> s, v |-> v]

LosValores ==
  (t1 :> {[tipo |-> "mutable", item |-> Item(1, 1), bien |-> TRUE],
          [tipo |-> "immutable", item |-> Item(0, 1), bien |-> FALSE]})
    @@ (t2 :> {[tipo |-> "peers", item |-> Item(0, 1), bien |-> TRUE],
               [tipo |-> "immutable", item |-> Item(0, 1), bien |-> TRUE]})
DosCodigos == {301, 203}

Primera == put_mutable(t1, Item(1, 1), Nada)
Segunda == put_mutable(t1, Item(2, 2), 1)
Ciega == put_mutable(t1, Item(2, 3), Nada)

(* Three writers of an item; a put beside a reader or beside lookups of    *)
(* its target; lookups that join each other; two announces; two targets    *)
(* and a cache of one.                                                     *)
LosMenus ==
  { (c1 :> {Primera}) @@ (c2 :> {Segunda}) @@ (c3 :> {Ciega}),
    (c1 :> {Primera}) @@ (c2 :> {get_mutable(t1)}) @@ (c3 :> {}),
    (c1 :> {Primera}) @@ (c2 :> {find_node(t1), get_closest_nodes(t1)})
      @@ (c3 :> {}),
    (c1 :> {get_peers(t2)}) @@ (c2 :> {get_immutable(t2)})
      @@ (c3 :> {info(t2)}),
    (c1 :> {announce_peer(t2, Item(0, 1))}) @@ (c2 :> {announce_peer(t2, Item(0, 2))})
      @@ (c3 :> {}),
    (c1 :> {put_immutable(t2, Item(0, 1))}) @@ (c2 :> {find_node(t1)})
      @@ (c3 :> {}) }
=============================================================================
