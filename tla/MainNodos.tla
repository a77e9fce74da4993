----------------------------- MODULE MainNodos -----------------------------
(***************************************************************************)
(* Pure part of the vendored mainline crate: ids and their XOR metric      *)
(* (common/id.rs), nodes and BEP 42 security (common/node.rs), the list of *)
(* closest nodes of a query (rpc/closest_nodes.rs) and the routing table   *)
(* with its k-buckets (common/routing_table.rs).                           *)
(*                                                                         *)
(* An id is a vector of ID_SIZE bits, most significant first.  The CRC of  *)
(* BEP 42 is the constant function Crc: an address and the last bits of an *)
(* id give the first bits the id must have.  Times are Nat, "ahora" is the *)
(* present.  Tokens are left to the module of the server.                  *)
(***************************************************************************)
EXTENDS Secuencias, SequencesExt

CONSTANTS
  ID_SIZE,           \* bits of an id (160 in the code)
  BITS_PREFIJO,      \* leading bits BEP 42 fixes (21)
  BITS_R,            \* trailing bits that select the variant (the r of BEP 42)
  Ips,               \* addresses
  IpsLocales,        \* private, link local and loopback ones
  Crc,               \* [Ips \X variants -> prefixes], id_prefix_ipv4
  Subred,            \* [Ips -> Nat], the first 6 bits of an address
  MAX_BUCKET_SIZE_K, \* 20
  STALE_TIME,        \* 15 minutes
  TOKEN_ROTATE_INTERVAL  \* 5 minutes

Bits(n) == [1 .. n -> {0, 1}]
Id == Bits(ID_SIZE)

ASSUME SupuestoNodos ==
  /\ ID_SIZE \in Nat \ {0}
  /\ BITS_PREFIJO \in 1 .. ID_SIZE
  /\ BITS_R \in 1 .. ID_SIZE
  /\ IpsLocales \subseteq Ips
  /\ Crc \in [Ips \X Bits(BITS_R) -> Bits(BITS_PREFIJO)]
  /\ Subred \in [Ips -> Nat]
  /\ MAX_BUCKET_SIZE_K \in Nat \ {0}
  /\ STALE_TIME \in Nat
  /\ TOKEN_ROTATE_INTERVAL \in Nat

-----------------------------------------------------------------------------
(* Ids. *)

xor(a, b) == [i \in 1 .. ID_SIZE |-> IF a[i] = b[i] THEN 0 ELSE 1]

leading_zeros(a) ==
  CHOOSE n \in 0 .. ID_SIZE :
    /\ \A i \in 1 .. n : a[i] = 0
    /\ n < ID_SIZE => a[n + 1] # 0

distance(a, b) == ID_SIZE - leading_zeros(xor(a, b))

(* The derived order of Id: big-endian. *)
Menor(a, b) ==
  \E i \in 1 .. ID_SIZE : a[i] < b[i] /\ \A j \in 1 .. i - 1 : a[j] = b[j]

first_21_bits(a) == [i \in 1 .. BITS_PREFIJO |-> a[i]]
Variante(a) == [i \in 1 .. BITS_R |-> a[ID_SIZE - BITS_R + i]]

is_valid_for_ip(a, ip) ==
  \/ ip \in IpsLocales
  \/ first_21_bits(a) = Crc[<<ip, Variante(a)>>]

(* What from_ipv4 can draw: any id with a valid prefix for its variant. *)
from_ipv4(ip) == {a \in Id : first_21_bits(a) = Crc[<<ip, Variante(a)>>]}

-----------------------------------------------------------------------------
(* Nodes. *)

Direccion == [ip : Ips, puerto : Nat]
Node(i, dir, t) == [id |-> i, dir |-> dir, visto |-> t]

is_stale(n, ahora) == ahora - n.visto > STALE_TIME
valid_token(n, ahora) == ahora - n.visto <= TOKEN_ROTATE_INTERVAL
same_ip(a, b) == a.dir.ip = b.dir.ip
is_secure(n) == is_valid_for_ip(n.id, n.dir.ip)

(* Mutant: only the insecure node of an address collides. *)
ChocaInsegura(n, e) == same_ip(n, e) /\ ~is_secure(e)

(* n is refused because of e: same address, and e is insecure or has the   *)
(* same prefix.                                                            *)
Choca(n, e) ==
  same_ip(n, e) /\ (~is_secure(e) \/ first_21_bits(n.id) = first_21_bits(e.id))

already_exists(n, nodes) == \E e \in nodes : Choca(n, e)

-----------------------------------------------------------------------------
(* Closest nodes: secure nodes first, then by distance to the target. *)

Antes(p, n, target) ==
  \/ is_secure(p) /\ ~is_secure(n)
  \/ /\ is_secure(p) <=> is_secure(n)
     /\ p.id # n.id
     /\ Menor(xor(p.id, target), xor(n.id, target))

Empata(p, n) == (is_secure(p) <=> is_secure(n)) /\ p.id = n.id

AgregarCercano(nodes, target, n) ==
  IF already_exists(n, Range(nodes)) \/ \E p \in Range(nodes) : Empata(p, n)
  THEN nodes
  ELSE InsertAt(nodes,
                1 + Cardinality({i \in DOMAIN nodes : Antes(nodes[i], n, target)}),
                n)

Cercanos(target, nodes) ==
  LET hasta[i \in 0 .. Len(nodes)] ==
        IF i = 0 THEN <<>> ELSE AgregarCercano(hasta[i - 1], target, nodes[i])
  IN hasta[Len(nodes)]

Primeros(s, k) == SubSeq(s, 1, IF Len(s) < k THEN Len(s) ELSE k)

SubredesDe(s) == {Subred[n.dir.ip] : n \in Range(s)}

(* edk: the expected distance of the K-th node, as an id.  It stops at the *)
(* first node that is that far when enough subnets were seen.              *)
take_until_secure(nodes, target, edk, subredes) ==
  LET corta(i) ==
        /\ ~Menor(xor(nodes[i].id, target), edk)
        /\ Cardinality(SubredesDe(SubSeq(nodes, 1, i))) >= subredes
      cortes == {i \in DOMAIN nodes : corta(i)}
      hasta == IF cortes = {} THEN Len(nodes)
               ELSE (CHOOSE i \in cortes : \A j \in cortes : i <= j) - 1
  IN Primeros(nodes, IF hasta < MAX_BUCKET_SIZE_K THEN MAX_BUCKET_SIZE_K ELSE hasta)

subnets_count(nodes) ==
  IF nodes = <<>> THEN 20
  ELSE Cardinality(SubredesDe(Primeros(nodes, MAX_BUCKET_SIZE_K)))

-----------------------------------------------------------------------------
(* The routing table of an id: one bucket per distance, oldest first. *)

TablaVacia == [d \in 1 .. ID_SIZE |-> <<>>]

NodosDe(tabla) == FlattenSeq(tabla)

Presentes(tabla) == UNION {Range(tabla[d]) : d \in 1 .. ID_SIZE}

(* Mutant: a full bucket drops its oldest node, stale or not. *)
AgregarACuboLleno(cubo, n, ahora) ==
  LET iguales == {i \in DOMAIN cubo : cubo[i].id = n.id}
  IN IF iguales # {} THEN cubo
     ELSE IF Len(cubo) < MAX_BUCKET_SIZE_K THEN Append(cubo, n)
     ELSE Append(Tail(cubo), n)

(* KBucket::add. *)
AgregarACubo(cubo, n, ahora) ==
  LET iguales == {i \in DOMAIN cubo : cubo[i].id = n.id}
  IN IF iguales # {}
     THEN LET i == CHOOSE i \in iguales : \A j \in iguales : i <= j
          IN IF is_secure(n) \/ (~is_secure(cubo[i]) /\ same_ip(cubo[i], n))
             THEN Append(RemoveAt(cubo, i), n)
             ELSE cubo
     ELSE IF Len(cubo) < MAX_BUCKET_SIZE_K THEN Append(cubo, n)
     ELSE IF is_stale(cubo[1], ahora) THEN Append(Tail(cubo), n)
     ELSE cubo

(* RoutingTable::add. *)
AgregarATabla(tabla, propio, n, ahora) ==
  LET d == distance(propio, n.id)
  IN IF d = 0 \/ already_exists(n, Presentes(tabla)) THEN tabla
     ELSE [tabla EXCEPT ![d] = AgregarACubo(@, n, ahora)]

(* Mutant: the bucket of the neighbouring distance is searched. *)
QuitarDelVecino(tabla, propio, ids) ==
  [d \in 1 .. ID_SIZE |->
     Retiene(tabla[d], {k \in DOMAIN tabla[d] :
       tabla[d][k].id \in ids => distance(propio, tabla[d][k].id) # d + 1})]

(* RoutingTable::remove of each of some ids: each is sought in the bucket  *)
(* of its distance.                                                        *)
QuitarDeTabla(tabla, propio, ids) ==
  [d \in 1 .. ID_SIZE |->
     Retiene(tabla[d], {k \in DOMAIN tabla[d] :
       tabla[d][k].id \in ids => distance(propio, tabla[d][k].id) # d})]

(* Mutant: one node too few. *)
closestDeMenos(tabla, target) ==
  Primeros(Cercanos(target, NodosDe(tabla)), MAX_BUCKET_SIZE_K - 1)

closest(tabla, target) ==
  Primeros(Cercanos(target, NodosDe(tabla)), MAX_BUCKET_SIZE_K)

closest_secure(tabla, target, edk, subredes) ==
  take_until_secure(Cercanos(target, NodosDe(tabla)), target, edk, subredes)

is_empty(tabla) == \A d \in 1 .. ID_SIZE : tabla[d] = <<>>

to_bootstrap(tabla, ahora) ==
  {n.dir : n \in {m \in Presentes(tabla) : ~is_stale(m, ahora)}}
=============================================================================
