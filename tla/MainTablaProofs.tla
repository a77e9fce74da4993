-------------------------- MODULE MainTablaProofs --------------------------
(***************************************************************************)
(* Proofs about the upkeep of the routing table, for any ids, addresses,   *)
(* intervals and votes.                                                    *)
(***************************************************************************)
EXTENDS MainTabla, SecuenciasProofs

(* An id drawn for an address is valid for it (Id::from_ipv4). *)
LEMMA SorteadoVale ==
  ASSUME NEW ip, NEW i \in from_ipv4(ip)
  PROVE  is_valid_for_ip(i, ip)
  BY DEF from_ipv4, is_valid_for_ip

(* The end of a lookup keeps address and id, or doubts the new address. *)
LEMMA FinConsultaDuda ==
  ASSUME NEW t, NEW voto, AbiertoSeguro, FinConsulta(t, voto)
  PROVE  AbiertoSeguro'
<1>1. CASE voto = Nada
  BY <1>1 DEF FinConsulta, AbiertoSeguro
<1>2. CASE voto # Nada /\ voto = public_address
  BY <1>2 DEF FinConsulta, AbiertoSeguro
<1>3. CASE voto # Nada /\ voto # public_address
  BY <1>3 DEF FinConsulta, AbiertoSeguro
<1> QED
  BY <1>1, <1>2, <1>3

(* The node's own ping opens it with an id its address may have. *)
LEMMA RecibePingVale ==
  ASSUME NEW nuevo, RecibePing(nuevo)
  PROVE  AbiertoSeguro'
<1>1. /\ public_address' = public_address /\ public_address # Nada
      /\ alcanzada' = public_address
  BY DEF RecibePing
<1>2. CASE is_valid_for_ip(id, public_address.ip)
  BY <1>1, <1>2 DEF RecibePing, AbiertoSeguro
<1>3. CASE ~is_valid_for_ip(id, public_address.ip)
  <2>1. id' = nuevo /\ nuevo \in from_ipv4(public_address.ip)
    BY <1>3 DEF RecibePing
  <2>2. is_valid_for_ip(id', public_address.ip)
    BY <2>1, SorteadoVale
  <2> QED
    BY <1>1, <2>2 DEF AbiertoSeguro
<1> QED
  BY <1>2, <1>3

LEMMA PasoAbierto ==
  ASSUME AbiertoSeguro, [Next]_tablaVars
  PROVE  AbiertoSeguro'
<1>1. ASSUME NEW v \in Vecinos, Responde(v) \/ PideFindNode(v)
      PROVE  AbiertoSeguro'
  BY <1>1 DEF Responde, PideFindNode, AbiertoSeguro
<1>2. ASSUME NEW t \in Objetivos, Consulta(t)
      PROVE  AbiertoSeguro'
  BY <1>2 DEF Consulta, AbiertoSeguro
<1>3. ASSUME NEW t \in consultas, NEW voto \in Votos \cup {Nada}, FinConsulta(t, voto)
      PROVE  AbiertoSeguro'
  BY <1>3, FinConsultaDuda
<1>4. ASSUME NEW nuevo \in Id, RecibePing(nuevo)
      PROVE  AbiertoSeguro'
  BY <1>4, RecibePingVale
<1>5. CASE periodic_node_maintenance
  BY <1>5 DEF periodic_node_maintenance, AbiertoSeguro
<1>6. CASE Pasa
  BY <1>6 DEF Pasa, AbiertoSeguro
<1>7. CASE UNCHANGED tablaVars
  BY <1>7 DEF tablaVars, AbiertoSeguro
<1> QED
  BY <1>1, <1>2, <1>3, <1>4, <1>5, <1>6, <1>7 DEF Next

(* A node that holds itself reachable got its own ping back from the       *)
(* address and port it publishes now, with an id BEP 42 allows there,      *)
(* across votes, pings, changes of id and upkeep (rpc.rs,                  *)
(* update_address_votes_from_iterative_query and handle_request).          *)
THEOREM AbiertoEsSeguro == Spec => []AbiertoSeguro
<1>1. Init => AbiertoSeguro
  BY DEF Init, AbiertoSeguro
<1>2. AbiertoSeguro /\ [Next]_tablaVars => AbiertoSeguro'
  BY PasoAbierto
<1> QED
  BY <1>1, <1>2, PTL DEF Spec

-----------------------------------------------------------------------------
(* Buckets. *)

Nodo == [id : Id, dir : Direccion, visto : Nat]

(* One bucket of CubosSanos: not too long, one entry for an id, oldest first. *)
CuboSano(c) ==
  /\ Len(c) <= MAX_BUCKET_SIZE_K
  /\ \A i, j \in DOMAIN c : i < j => /\ c[i].id # c[j].id
                                     /\ c[i].visto <= c[j].visto

(* r keeps entries of c, in their order. *)
SubDe(r, c) ==
  /\ Len(r) <= Len(c)
  /\ \E f \in [DOMAIN r -> DOMAIN c] :
       /\ \A i, j \in DOMAIN r : i < j => f[i] < f[j]
       /\ \A i \in DOMAIN r : r[i] = c[f[i]]

LEMMA SubSana ==
  ASSUME NEW c \in Seq(Nodo), NEW r \in Seq(Nodo), CuboSano(c), SubDe(r, c)
  PROVE  CuboSano(r) /\ Range(r) \subseteq Range(c)
<1>1. PICK f \in [DOMAIN r -> DOMAIN c] :
        /\ \A i, j \in DOMAIN r : i < j => f[i] < f[j]
        /\ \A i \in DOMAIN r : r[i] = c[f[i]]
  BY DEF SubDe
<1>2. Len(r) <= MAX_BUCKET_SIZE_K
  <2>1. Len(r) \in Nat /\ Len(c) \in Nat /\ MAX_BUCKET_SIZE_K \in Nat
    BY SupuestoNodos
  <2>2. Len(r) <= Len(c) /\ Len(c) <= MAX_BUCKET_SIZE_K
    BY DEF SubDe, CuboSano
  <2> QED
    BY <2>1, <2>2
<1>3. ASSUME NEW i \in DOMAIN r, NEW j \in DOMAIN r, i < j
      PROVE  r[i].id # r[j].id /\ r[i].visto <= r[j].visto
  <2>1. f[i] \in DOMAIN c /\ f[j] \in DOMAIN c /\ f[i] < f[j]
    BY <1>1, <1>3
  <2> QED
    BY <1>1, <2>1 DEF CuboSano
<1>4. Range(r) \subseteq Range(c)
  BY <1>1 DEF Range
<1> QED
  BY <1>2, <1>3, <1>4 DEF CuboSano

LEMMA QuitaUno ==
  ASSUME NEW c \in Seq(Nodo), NEW p \in 1 .. Len(c)
  PROVE  /\ RemoveAt(c, p) \in Seq(Nodo)
         /\ Len(RemoveAt(c, p)) = Len(c) - 1
         /\ SubDe(RemoveAt(c, p), c)
         /\ \A i \in DOMAIN c : i # p => c[i] \in Range(RemoveAt(c, p))
         /\ \A i \in DOMAIN RemoveAt(c, p) : \E j \in DOMAIN c : j # p /\ RemoveAt(c, p)[i] = c[j]
<1>1. PICK r : r = RemoveAt(c, p)
  OBVIOUS
<1>2. PICK l \in Nat : l = Len(c)
  OBVIOUS
<1>3. /\ r \in Seq(Nodo) /\ Len(r) = l - 1
      /\ \A i \in 1 .. l - 1 : r[i] = IF i < p THEN c[i] ELSE c[i + 1]
  BY <1>1, <1>2, RemoveAtEs
<1>4. DOMAIN r = 1 .. l - 1 /\ DOMAIN c = 1 .. l /\ p \in 1 .. l
  BY <1>2, <1>3
<1> DEFINE f == [i \in 1 .. l - 1 |-> IF i < p THEN i ELSE i + 1]
<1>5. f \in [1 .. l - 1 -> 1 .. l] /\ \A i \in 1 .. l - 1 : f[i] # p /\ r[i] = c[f[i]]
  BY <1>2, <1>3, <1>4
<1>6. \A i, j \in 1 .. l - 1 : i < j => f[i] < f[j]
  BY <1>2, <1>4
<1>7. SubDe(r, c)
  <2>1. Len(r) <= Len(c)
    BY <1>2, <1>3
  <2> HIDE DEF f
  <2> QED
    BY <1>4, <1>5, <1>6, <2>1 DEF SubDe
<1>8. ASSUME NEW i \in 1 .. l, i # p
      PROVE  c[i] \in Range(r)
  <2>1. CASE i < p
    <3>1. i \in 1 .. l - 1 /\ r[i] = c[i]
      BY <1>2, <1>3, <1>4, <2>1
    <3> QED
      BY <1>4, <3>1 DEF Range
  <2>2. CASE ~(i < p)
    <3>1. i - 1 \in 1 .. l - 1 /\ ~(i - 1 < p) /\ i - 1 + 1 = i
      BY <1>2, <1>4, <1>8, <2>2
    <3>2. r[i - 1] = c[i]
      BY <1>3, <3>1
    <3> QED
      BY <1>4, <3>1, <3>2 DEF Range
  <2> QED
    BY <2>1, <2>2
<1> HIDE DEF f
<1> QED
  BY <1>1, <1>2, <1>3, <1>4, <1>5, <1>7, <1>8

(* The first entry leaves as any other. *)
LEMMA QuitaPrimero ==
  ASSUME NEW c \in Seq(Nodo), c # <<>>
  PROVE  /\ Tail(c) \in Seq(Nodo)
         /\ Len(Tail(c)) = Len(c) - 1
         /\ SubDe(Tail(c), c)
         /\ \A i \in DOMAIN c : i # 1 => c[i] \in Range(Tail(c))
<1>1. PICK r : r = Tail(c)
  OBVIOUS
<1>2. PICK l \in Nat : l = Len(c)
  OBVIOUS
<1>3. l # 0 /\ r \in Seq(Nodo) /\ Len(r) = l - 1 /\ \A i \in 1 .. l - 1 : r[i] = c[i + 1]
  BY <1>1, <1>2
<1>4. DOMAIN r = 1 .. l - 1 /\ DOMAIN c = 1 .. l
  BY <1>2, <1>3
<1> DEFINE f == [i \in 1 .. l - 1 |-> i + 1]
<1>5. f \in [1 .. l - 1 -> 1 .. l] /\ \A i \in 1 .. l - 1 : r[i] = c[f[i]]
  BY <1>2, <1>3
<1>6. \A i, j \in 1 .. l - 1 : i < j => f[i] < f[j]
  BY <1>2
<1>7. SubDe(r, c)
  <2>1. Len(r) <= Len(c)
    BY <1>2, <1>3
  <2> HIDE DEF f
  <2> QED
    BY <1>4, <1>5, <1>6, <2>1 DEF SubDe
<1>8. ASSUME NEW i \in 1 .. l, i # 1
      PROVE  c[i] \in Range(r)
  <2>1. i - 1 \in 1 .. l - 1 /\ i - 1 + 1 = i
    BY <1>2, <1>8
  <2>2. r[i - 1] = c[i]
    BY <1>3, <2>1
  <2> QED
    BY <1>4, <2>1, <2>2 DEF Range
<1> QED
  BY <1>1, <1>2, <1>3, <1>4, <1>7, <1>8

(* The newest node goes to the end of a bucket with room and without its id. *)
LEMMA PonAlFinal ==
  ASSUME NEW c \in Seq(Nodo), NEW n \in Nodo, CuboSano(c), Len(c) < MAX_BUCKET_SIZE_K,
         \A i \in DOMAIN c : c[i].id # n.id /\ c[i].visto <= n.visto
  PROVE  /\ Append(c, n) \in Seq(Nodo)
         /\ CuboSano(Append(c, n))
         /\ Range(Append(c, n)) = Range(c) \cup {n}
<1>1. PICK r : r = Append(c, n)
  OBVIOUS
<1>2. PICK l \in Nat : l = Len(c)
  OBVIOUS
<1>3. r \in Seq(Nodo) /\ Len(r) = l + 1 /\ r[l + 1] = n /\ \A i \in 1 .. l : r[i] = c[i]
  BY <1>1, <1>2
<1>4. DOMAIN r = 1 .. l + 1 /\ DOMAIN c = 1 .. l
  BY <1>2, <1>3
<1>5. ASSUME NEW i \in 1 .. l + 1, NEW j \in 1 .. l + 1, i < j
      PROVE  r[i].id # r[j].id /\ r[i].visto <= r[j].visto
  <2>1. i \in 1 .. l /\ r[i] = c[i]
    BY <1>2, <1>3, <1>5
  <2>2. CASE j = l + 1
    BY <1>3, <1>4, <2>1, <2>2
  <2>3. CASE j # l + 1
    <3>1. j \in 1 .. l /\ r[j] = c[j]
      BY <1>2, <1>3, <2>3
    <3> QED
      BY <1>4, <1>5, <2>1, <3>1 DEF CuboSano
  <2> QED
    BY <2>2, <2>3
<1>6. Len(r) <= MAX_BUCKET_SIZE_K
  BY <1>2, <1>3, SupuestoNodos
<1>7. CuboSano(r)
  BY <1>4, <1>5, <1>6 DEF CuboSano
<1>8. Range(r) = Range(c) \cup {n}
  <2>1. ASSUME NEW i \in 1 .. l + 1
        PROVE  r[i] \in Range(c) \cup {n}
    <3>1. CASE i = l + 1
      BY <1>3, <3>1
    <3>2. CASE i # l + 1
      <4>1. i \in 1 .. l
        BY <3>2
      <4> QED
        BY <1>3, <1>4, <4>1 DEF Range
    <3> QED
      BY <3>1, <3>2
  <2>2. n \in Range(r)
    BY <1>3, <1>4 DEF Range
  <2>3. ASSUME NEW i \in 1 .. l
        PROVE  c[i] \in Range(r)
    BY <1>3, <1>4 DEF Range
  <2>4. Range(r) \subseteq Range(c) \cup {n}
    BY <1>4, <2>1 DEF Range
  <2>5. Range(c) \subseteq Range(r)
    BY <1>4, <2>3 DEF Range
  <2> QED
    BY <2>2, <2>4, <2>5
<1> QED
  BY <1>1, <1>3, <1>7, <1>8

(* KBucket::add keeps a bucket sane, and lets go of a node only if it is   *)
(* stale or the newcomer takes its id.                                     *)
LEMMA AgregarACuboEs ==
  ASSUME NEW c \in Seq(Nodo), NEW n \in Nodo, NEW t, CuboSano(c), n.visto = t,
         \A i \in DOMAIN c : c[i].visto <= t
  PROVE  /\ AgregarACubo(c, n, t) \in Seq(Nodo)
         /\ CuboSano(AgregarACubo(c, n, t))
         /\ Range(AgregarACubo(c, n, t)) \subseteq Range(c) \cup {n}
         /\ \A m \in Range(c) :
              \/ m \in Range(AgregarACubo(c, n, t))
              \/ is_stale(m, t)
              \/ /\ n \in Range(AgregarACubo(c, n, t)) /\ n.id = m.id
                 /\ is_secure(n) \/ (~is_secure(m) /\ same_ip(m, n))
<1>1. PICK r : r = AgregarACubo(c, n, t)
  OBVIOUS
<1>2. PICK l \in Nat : l = Len(c)
  OBVIOUS
<1>3. DOMAIN c = 1 .. l /\ \A i \in 1 .. l : c[i] \in Nodo
  BY <1>2
<1> DEFINE iguales == {i \in DOMAIN c : c[i].id = n.id}
           Bien(s) == /\ s \in Seq(Nodo) /\ CuboSano(s) /\ Range(s) \subseteq Range(c) \cup {n}
                      /\ \A m \in Range(c) :
                           \/ m \in Range(s)
                           \/ is_stale(m, t)
                           \/ /\ n \in Range(s) /\ n.id = m.id
                              /\ is_secure(n) \/ (~is_secure(m) /\ same_ip(m, n))
<1>4. Bien(c)
  OBVIOUS
<1>5. CASE iguales # {}
  <2>1. PICK p : p = CHOOSE i \in iguales : \A j \in iguales : i <= j
    OBVIOUS
  <2>2. p \in iguales
    <3>1. iguales \subseteq Nat
      BY <1>2, <1>3
    <3>2. \E i \in iguales : \A j \in iguales : i <= j
      <4> HIDE DEF iguales
      <4> QED
        BY <1>5, <3>1, MinimoNat
    <3> QED
      BY <2>1, <3>2
  <2>3. r = IF is_secure(n) \/ (~is_secure(c[p]) /\ same_ip(c[p], n))
            THEN Append(RemoveAt(c, p), n) ELSE c
    BY <1>1, <1>5, <2>1 DEF AgregarACubo
  <2>4. CASE ~(is_secure(n) \/ (~is_secure(c[p]) /\ same_ip(c[p], n)))
    <3>1. r = c
      BY <2>3, <2>4
    <3> QED
      BY <1>1, <1>4, <3>1
  <2>5. CASE is_secure(n) \/ (~is_secure(c[p]) /\ same_ip(c[p], n))
    <3>1. PICK s : s = RemoveAt(c, p)
      OBVIOUS
    <3>2. p \in 1 .. l /\ c[p].id = n.id
      BY <1>3, <2>2
    <3>3. /\ s \in Seq(Nodo) /\ Len(s) = l - 1 /\ SubDe(s, c)
          /\ \A i \in DOMAIN c : i # p => c[i] \in Range(s)
          /\ \A i \in DOMAIN s : \E j \in DOMAIN c : j # p /\ s[i] = c[j]
      BY <1>2, <3>1, <3>2, QuitaUno
    <3>4. CuboSano(s) /\ Range(s) \subseteq Range(c)
      BY <3>3, SubSana
    <3>5. Len(s) < MAX_BUCKET_SIZE_K
      BY <1>2, <3>3, SupuestoNodos DEF CuboSano
    <3>6. ASSUME NEW j \in DOMAIN c, j # p
          PROVE  c[j].id # n.id
      <4>1. j \in Nat /\ p \in Nat
        BY <1>2, <1>3, <3>2
      <4>2. j < p \/ p < j
        BY <3>6, <4>1
      <4> QED
        BY <1>3, <3>2, <4>2 DEF CuboSano
    <3>7. \A i \in DOMAIN s : s[i].id # n.id /\ s[i].visto <= n.visto
      BY <3>3, <3>6
    <3>8. Append(s, n) \in Seq(Nodo) /\ CuboSano(Append(s, n)) /\ Range(Append(s, n)) = Range(s) \cup {n}
      BY <3>3, <3>4, <3>5, <3>7, PonAlFinal
    <3>9. r = Append(s, n)
      BY <2>3, <2>5, <3>1
    <3>10. ASSUME NEW m \in Range(c)
           PROVE  \/ m \in Range(r)
                  \/ /\ n \in Range(r) /\ n.id = m.id
                     /\ is_secure(n) \/ (~is_secure(m) /\ same_ip(m, n))
      <4>1. PICK i \in DOMAIN c : m = c[i]
        BY DEF Range
      <4>2. CASE i = p
        BY <2>5, <3>2, <3>8, <3>9, <4>1, <4>2
      <4>3. CASE i # p
        BY <3>3, <3>8, <3>9, <4>1, <4>3
      <4> QED
        BY <4>2, <4>3
    <3>11. Bien(r)
      BY <3>4, <3>8, <3>9, <3>10
    <3> QED
      BY <1>1, <3>11
  <2> QED
    BY <2>4, <2>5
<1>6. CASE iguales = {}
  <2>1. \A i \in DOMAIN c : c[i].id # n.id /\ c[i].visto <= n.visto
    BY <1>6
  <2>2. CASE Len(c) < MAX_BUCKET_SIZE_K
    <3>1. r = Append(c, n)
      BY <1>1, <1>6, <2>2 DEF AgregarACubo
    <3>2. Bien(r)
      BY <2>1, <2>2, <3>1, PonAlFinal
    <3> QED
      BY <1>1, <3>2
  <2>3. CASE ~(Len(c) < MAX_BUCKET_SIZE_K) /\ ~is_stale(c[1], t)
    <3>1. r = c
      BY <1>1, <1>6, <2>3 DEF AgregarACubo
    <3> QED
      BY <1>1, <1>4, <3>1
  <2>4. CASE ~(Len(c) < MAX_BUCKET_SIZE_K) /\ is_stale(c[1], t)
    <3>1. PICK s : s = Tail(c)
      OBVIOUS
    <3>2. r = Append(s, n)
      BY <1>1, <1>6, <2>4, <3>1 DEF AgregarACubo
    <3>3. c # <<>>
      BY <2>4, SupuestoNodos
    <3>4. /\ s \in Seq(Nodo) /\ Len(s) = l - 1 /\ SubDe(s, c)
          /\ \A i \in DOMAIN c : i # 1 => c[i] \in Range(s)
      BY <1>2, <3>1, <3>3, QuitaPrimero
    <3>5. CuboSano(s) /\ Range(s) \subseteq Range(c)
      BY <3>4, SubSana
    <3>6. Len(s) < MAX_BUCKET_SIZE_K
      BY <1>2, <3>4, SupuestoNodos DEF CuboSano
    <3>7. \A i \in DOMAIN s : s[i].id # n.id /\ s[i].visto <= n.visto
      <4>1. \A i \in DOMAIN s : \E j \in DOMAIN c : s[i] = c[j]
        BY <3>5 DEF Range
      <4> QED
        BY <2>1, <4>1
    <3>8. Append(s, n) \in Seq(Nodo) /\ CuboSano(Append(s, n)) /\ Range(Append(s, n)) = Range(s) \cup {n}
      BY <3>4, <3>5, <3>6, <3>7, PonAlFinal
    <3>9. ASSUME NEW m \in Range(c)
          PROVE  m \in Range(r) \/ is_stale(m, t)
      <4>1. PICK i \in DOMAIN c : m = c[i]
        BY DEF Range
      <4> QED
        BY <2>4, <3>2, <3>4, <3>8, <4>1
    <3>10. Bien(r)
      BY <3>2, <3>5, <3>8, <3>9
    <3> QED
      BY <1>1, <3>10
  <2> QED
    BY <2>2, <2>3, <2>4
<1> QED
  BY <1>5, <1>6

-----------------------------------------------------------------------------
(* Tables. *)

(* CubosSanos of a table of an id, with its type. *)
TablaSana(t, propio) ==
  /\ t \in [1 .. ID_SIZE -> Seq(Nodo)]
  /\ \A d \in 1 .. ID_SIZE :
       CuboSano(t[d]) /\ \A n \in Range(t[d]) : distance(propio, n.id) = d

(* UnoPorIp of a set of nodes. *)
UnoPorIpEn(nodos) ==
  \A a, b \in nodos :
    (a # b /\ same_ip(a, b)) =>
      /\ is_secure(a) \/ is_secure(b)
      /\ first_21_bits(a.id) # first_21_bits(b.id)

LEMMA RangoDeNodos ==
  ASSUME NEW c \in Seq(Nodo)
  PROVE  Range(c) \subseteq Nodo
<1>1. \A i \in DOMAIN c : c[i] \in Nodo
  OBVIOUS
<1> QED
  BY <1>1 DEF Range

LEMMA VaciaSana ==
  ASSUME NEW propio
  PROVE  TablaSana(TablaVacia, propio) /\ Presentes(TablaVacia) = {}
<1>1. Range(<<>>) = {}
  BY DEF Range
<1>2. CuboSano(<<>>)
  BY SupuestoNodos DEF CuboSano
<1>3. TablaVacia \in [1 .. ID_SIZE -> Seq(Nodo)] /\ \A d \in 1 .. ID_SIZE : TablaVacia[d] = <<>>
  BY DEF TablaVacia
<1> QED
  BY <1>1, <1>2, <1>3 DEF TablaSana, Presentes

(* An id is in one place of a table. *)
LEMMA UnLugar ==
  ASSUME NEW t, NEW propio, TablaSana(t, propio),
         NEW a \in Presentes(t), NEW b \in Presentes(t), a.id = b.id
  PROVE  a = b
<1>1. PICK d \in 1 .. ID_SIZE : a \in Range(t[d])
  BY DEF Presentes
<1>2. PICK e \in 1 .. ID_SIZE : b \in Range(t[e])
  BY DEF Presentes
<1>3. d = e
  BY <1>1, <1>2 DEF TablaSana
<1>4. PICK c \in Seq(Nodo) : c = t[d] /\ CuboSano(c)
  BY DEF TablaSana
<1>5. PICK i \in DOMAIN c : a = c[i]
  BY <1>1, <1>4 DEF Range
<1>6. PICK j \in DOMAIN c : b = c[j]
  BY <1>2, <1>3, <1>4 DEF Range
<1>7. ~(i < j) /\ ~(j < i)
  BY <1>5, <1>6, <1>4 DEF CuboSano
<1>8. i \in Nat /\ j \in Nat
  BY <1>4
<1> QED
  BY <1>5, <1>6, <1>7, <1>8

(* RoutingTable::add: sane buckets stay so, nobody else enters, and who    *)
(* leaves is stale or gives way to a secure node of its id.                *)
LEMMA AgregarATablaEs ==
  ASSUME NEW t, NEW propio, TablaSana(t, propio), NEW n \in Nodo, NEW h, n.visto = h,
         \A m \in Presentes(t) : m.visto <= h
  PROVE  /\ TablaSana(AgregarATabla(t, propio, n, h), propio)
         /\ Presentes(AgregarATabla(t, propio, n, h)) \subseteq Presentes(t) \cup {n}
         /\ n \in Presentes(AgregarATabla(t, propio, n, h)) =>
              n \in Presentes(t) \/ ~already_exists(n, Presentes(t))
         /\ \A m \in Presentes(t) :
              \/ m \in Presentes(AgregarATabla(t, propio, n, h))
              \/ is_stale(m, h)
              \/ \E x \in Presentes(AgregarATabla(t, propio, n, h)) : x.id = m.id /\ is_secure(x)
<1>1. PICK d : d = distance(propio, n.id)
  OBVIOUS
<1>2. PICK u : u = AgregarATabla(t, propio, n, h)
  OBVIOUS
<1>3. CASE d = 0 \/ already_exists(n, Presentes(t)) \/ d \notin 1 .. ID_SIZE
  <2>1. u = t
    <3>1. CASE d = 0 \/ already_exists(n, Presentes(t))
      BY <1>1, <1>2, <3>1 DEF AgregarATabla
    <3>2. CASE ~(d = 0 \/ already_exists(n, Presentes(t)))
      <4>1. u = [t EXCEPT ![d] = AgregarACubo(@, n, h)]
        BY <1>1, <1>2, <3>2 DEF AgregarATabla
      <4>2. d \notin DOMAIN t /\ t = [x \in DOMAIN t |-> t[x]]
        BY <1>3, <3>2 DEF TablaSana
      <4> QED
        BY <4>1, <4>2
    <3> QED
      BY <3>1, <3>2
  <2> QED
    BY <1>2, <2>1
<1>4. CASE d \in 1 .. ID_SIZE /\ ~already_exists(n, Presentes(t))
  <2>1. PICK c \in Seq(Nodo) : c = t[d] /\ CuboSano(c)
    BY <1>4 DEF TablaSana
  <2>2. \A i \in DOMAIN c : c[i].visto <= h
    <3>1. Range(c) \subseteq Presentes(t)
      BY <1>4, <2>1 DEF Presentes
    <3> QED
      BY <3>1 DEF Range
  <2>3. PICK r : r = AgregarACubo(c, n, h)
    OBVIOUS
  <2>4. /\ r \in Seq(Nodo) /\ CuboSano(r) /\ Range(r) \subseteq Range(c) \cup {n}
        /\ \A m \in Range(c) :
             \/ m \in Range(r)
             \/ is_stale(m, h)
             \/ /\ n \in Range(r) /\ n.id = m.id
                /\ is_secure(n) \/ (~is_secure(m) /\ same_ip(m, n))
    BY <2>1, <2>2, <2>3, AgregarACuboEs
  <2>5. u = [t EXCEPT ![d] = r]
    BY <1>1, <1>2, <1>4, <2>1, <2>3 DEF AgregarATabla
  <2>6. t \in [1 .. ID_SIZE -> Seq(Nodo)]
    BY DEF TablaSana
  <2>7. /\ u \in [1 .. ID_SIZE -> Seq(Nodo)] /\ u[d] = r
        /\ \A e \in 1 .. ID_SIZE : e # d => u[e] = t[e]
    BY <1>4, <2>4, <2>5, <2>6
  <2>8. TablaSana(u, propio)
    <3>1. \A x \in Range(r) : distance(propio, x.id) = d
      BY <1>1, <1>4, <2>1, <2>4 DEF TablaSana
    <3> QED
      BY <2>4, <2>7, <3>1 DEF TablaSana
  <2>9. Presentes(u) \subseteq Presentes(t) \cup {n}
    <3>1. ASSUME NEW e \in 1 .. ID_SIZE, NEW x \in Range(u[e])
          PROVE  x \in Presentes(t) \cup {n}
      <4>1. CASE e = d
        <5>1. x \in Range(t[d]) \cup {n}
          BY <2>1, <2>4, <2>7, <3>1, <4>1
        <5> QED
          BY <1>4, <5>1 DEF Presentes
      <4>2. CASE e # d
        BY <2>7, <3>1, <4>2 DEF Presentes
      <4> QED
        BY <4>1, <4>2
    <3> QED
      BY <3>1 DEF Presentes
  <2>10. ASSUME NEW m \in Presentes(t)
         PROVE  \/ m \in Presentes(u)
                \/ is_stale(m, h)
                \/ \E x \in Presentes(u) : x.id = m.id /\ is_secure(x)
    <3>1. PICK e \in 1 .. ID_SIZE : m \in Range(t[e])
      BY DEF Presentes
    <3>2. CASE e # d
      BY <2>7, <3>1, <3>2 DEF Presentes
    <3>3. CASE e = d
      <4>1. m \in Range(c)
        BY <2>1, <3>1, <3>3
      <4>2. Range(r) \subseteq Presentes(u)
        BY <1>4, <2>7 DEF Presentes
      <4>3. ~(~is_secure(m) /\ same_ip(m, n))
        BY <1>4 DEF already_exists, Choca, same_ip
      <4> QED
        BY <2>4, <4>1, <4>2, <4>3
    <3> QED
      BY <3>2, <3>3
  <2> QED
    BY <1>2, <1>4, <2>8, <2>9, <2>10
<1> QED
  BY <1>3, <1>4

(* RoutingTable::remove of some ids: the nodes that have none of them stay,*)
(* in their order, and only they.                                          *)
LEMMA QuitarDeTablaEs ==
  ASSUME NEW t, NEW propio, TablaSana(t, propio), NEW ids
  PROVE  /\ TablaSana(QuitarDeTabla(t, propio, ids), propio)
         /\ Presentes(QuitarDeTabla(t, propio, ids)) = {n \in Presentes(t) : n.id \notin ids}
<1>1. PICK u : u = QuitarDeTabla(t, propio, ids)
  OBVIOUS
<1>2. ASSUME NEW d \in 1 .. ID_SIZE
      PROVE  /\ u[d] \in Seq(Nodo) /\ CuboSano(u[d])
             /\ Range(u[d]) = {n \in Range(t[d]) : n.id \notin ids}
  <2>1. PICK c \in Seq(Nodo) : c = t[d] /\ CuboSano(c) /\ \A n \in Range(c) : distance(propio, n.id) = d
    BY DEF TablaSana
  <2>2. PICK K : K = {k \in DOMAIN c : c[k].id \in ids => distance(propio, c[k].id) # d}
    OBVIOUS
  <2>3. K \in SUBSET (1 .. Len(c)) /\ K = {k \in DOMAIN c : c[k].id \notin ids}
    <3>1. \A k \in DOMAIN c : distance(propio, c[k].id) = d
      BY <2>1 DEF Range
    <3> QED
      BY <2>2, <3>1
  <2>4. PICK r : r = Retiene(c, K)
    OBVIOUS
  <2>5. u[d] = r
    BY <1>1, <2>1, <2>2, <2>4 DEF QuitarDeTabla
  <2>6. PICK k : k = Cardinality(K)
    OBVIOUS
  <2>7. /\ r \in Seq(Nodo) /\ Len(r) = k /\ k \in 0 .. Len(c)
        /\ \E f \in [1 .. k -> K] :
             /\ \A i, j \in 1 .. k : i < j => f[i] < f[j]
             /\ \A i \in 1 .. k : r[i] = c[f[i]]
    <3>1. Retenidas(Retiene(c, K), Cardinality(K), Nodo, c, K)
      BY <2>3, RetieneEs
    <3>2. Retenidas(r, k, Nodo, c, K)
      BY <2>4, <2>6, <3>1
    <3>3. r \in Seq(Nodo) /\ Len(r) = k /\ k \in 0 .. Len(c)
      BY <3>2 DEF Retenidas
    <3>4. \E f \in [1 .. k -> K] :
            /\ \A i, j \in 1 .. k : i < j => f[i] < f[j]
            /\ \A i \in 1 .. k : r[i] = c[f[i]]
      BY <3>2 DEF Retenidas
    <3> QED
      BY <3>3, <3>4
  <2>8. SubDe(r, c)
    <3>1. PICK f \in [1 .. k -> K] :
            /\ \A i, j \in 1 .. k : i < j => f[i] < f[j]
            /\ \A i \in 1 .. k : r[i] = c[f[i]]
      BY <2>7
    <3>2. DOMAIN r = 1 .. k /\ f \in [1 .. k -> DOMAIN c]
      BY <2>3, <2>7
    <3>3. Len(r) <= Len(c)
      BY <2>7
    <3> QED
      BY <3>1, <3>2, <3>3 DEF SubDe
  <2>9. CuboSano(r)
    BY <2>1, <2>7, <2>8, SubSana
  <2>10. Range(r) = {c[i] : i \in K}
    BY <2>3, <2>4, RetieneRango
  <2>11. {c[i] : i \in K} = {n \in Range(c) : n.id \notin ids}
    <3>1. {c[i] : i \in K} \subseteq {n \in Range(c) : n.id \notin ids}
      BY <2>3 DEF Range
    <3>2. {n \in Range(c) : n.id \notin ids} \subseteq {c[i] : i \in K}
      BY <2>3 DEF Range
    <3> QED
      BY <3>1, <3>2
  <2> QED
    BY <2>1, <2>5, <2>7, <2>9, <2>10, <2>11
<1>3. u \in [1 .. ID_SIZE -> Seq(Nodo)]
  <2>1. u = [d \in 1 .. ID_SIZE |-> u[d]]
    BY <1>1 DEF QuitarDeTabla
  <2> QED
    BY <1>2, <2>1
<1>4. TablaSana(u, propio)
  BY <1>2, <1>3 DEF TablaSana
<1>5. Presentes(u) = {n \in Presentes(t) : n.id \notin ids}
  <2>1. Presentes(u) \subseteq {n \in Presentes(t) : n.id \notin ids}
    BY <1>2 DEF Presentes
  <2>2. {n \in Presentes(t) : n.id \notin ids} \subseteq Presentes(u)
    BY <1>2 DEF Presentes
  <2> QED
    BY <2>1, <2>2
<1> QED
  BY <1>1, <1>4, <1>5

(* A node that collides with none of the table keeps BEP 42 in it. *)
LEMMA EntraUnoPorIp ==
  ASSUME NEW viejos, NEW nuevos, NEW n, UnoPorIpEn(viejos), nuevos \subseteq viejos \cup {n},
         n \in nuevos => n \in viejos \/ ~already_exists(n, viejos)
  PROVE  UnoPorIpEn(nuevos)
<1>1. SUFFICES ASSUME NEW a \in nuevos, NEW b \in nuevos, a # b, same_ip(a, b)
               PROVE  /\ is_secure(a) \/ is_secure(b)
                      /\ first_21_bits(a.id) # first_21_bits(b.id)
  BY DEF UnoPorIpEn
<1>2. CASE a \in viejos /\ b \in viejos
  BY <1>1, <1>2 DEF UnoPorIpEn
<1>3. CASE a \notin viejos
  <2>1. a = n /\ b \in viejos /\ ~already_exists(n, viejos)
    BY <1>1, <1>3
  <2> QED
    BY <1>1, <2>1 DEF already_exists, Choca
<1>4. CASE b \notin viejos
  <2>1. b = n /\ a \in viejos /\ ~already_exists(n, viejos)
    BY <1>1, <1>4
  <2>2. same_ip(b, a)
    BY <1>1 DEF same_ip
  <2> QED
    BY <1>1, <2>1, <2>2 DEF already_exists, Choca
<1> QED
  BY <1>2, <1>3, <1>4

-----------------------------------------------------------------------------
(* The inductive invariant: the table is sane, BEP 42 holds in it, and     *)
(* nobody in it was stale at the last purge, which is not overdue.         *)

InvTabla ==
  /\ ahora \in Nat /\ last_table_ping \in Nat
  /\ last_table_ping <= ahora /\ ahora <= last_table_ping + PING_TABLE_INTERVAL
  /\ TablaSana(tabla, id)
  /\ UnoPorIpEn(Presentes(tabla))
  /\ \A n \in Presentes(tabla) : n.visto <= ahora /\ last_table_ping <= n.visto + STALE_TIME

(* What a step may do to who is in the table. *)
Salida ==
  \A n \in Presentes(tabla) :
    \/ n \in Presentes(tabla')
    \/ is_stale(n, ahora)
    \/ id' # id
    \/ \E m \in Presentes(tabla') : m.id = n.id /\ is_secure(m)

LEMMA PresentesNodos ==
  ASSUME NEW t, NEW propio, TablaSana(t, propio)
  PROVE  Presentes(t) \subseteq Nodo
<1>1. \A d \in 1 .. ID_SIZE : Range(t[d]) \subseteq Nodo
  BY RangoDeNodos DEF TablaSana
<1> QED
  BY <1>1 DEF Presentes

LEMMA InicioTabla ==
  ASSUME Init
  PROVE  InvTabla
<1>1. TablaSana(tabla, id) /\ Presentes(tabla) = {}
  BY VaciaSana DEF Init
<1> QED
  BY <1>1, SupuestoTabla DEF Init, InvTabla, UnoPorIpEn

LEMMA PasoAgrega ==
  ASSUME InvTabla, NEW v \in Vecinos, Responde(v) \/ PideFindNode(v)
  PROVE  InvTabla' /\ Salida
<1>1. PICK n : n = Node(v.id, v.dir, ahora)
  OBVIOUS
<1>2. n \in Nodo /\ n.visto = ahora
  BY <1>1, SupuestoTabla DEF Node, Nodo, InvTabla
<1>3. \A m \in Presentes(tabla) : m.visto <= ahora
  BY DEF InvTabla
<1>4. tabla' = AgregarATabla(tabla, id, n, ahora)
  BY <1>1 DEF Responde, PideFindNode
<1>5. UNCHANGED <<ahora, id, last_table_ping>>
  BY DEF Responde, PideFindNode
<1>6. TablaSana(tabla, id)
  BY DEF InvTabla
<1>7. /\ TablaSana(tabla', id)
      /\ Presentes(tabla') \subseteq Presentes(tabla) \cup {n}
      /\ n \in Presentes(tabla') => n \in Presentes(tabla) \/ ~already_exists(n, Presentes(tabla))
      /\ \A m \in Presentes(tabla) :
           \/ m \in Presentes(tabla')
           \/ is_stale(m, ahora)
           \/ \E x \in Presentes(tabla') : x.id = m.id /\ is_secure(x)
  BY <1>2, <1>3, <1>4, <1>6, AgregarATablaEs
<1>8. UnoPorIpEn(Presentes(tabla'))
  BY <1>7, EntraUnoPorIp DEF InvTabla
<1>9. \A m \in Presentes(tabla') : m.visto <= ahora /\ last_table_ping <= m.visto + STALE_TIME
  <2>1. n.visto <= ahora /\ last_table_ping <= n.visto + STALE_TIME
    BY <1>2, SupuestoNodos DEF InvTabla
  <2> QED
    BY <1>7, <2>1 DEF InvTabla
<1>10. InvTabla'
  BY <1>5, <1>7, <1>8, <1>9 DEF InvTabla
<1> QED
  BY <1>7, <1>10 DEF Salida

LEMMA PasoPing ==
  ASSUME InvTabla, NEW nuevo, RecibePing(nuevo)
  PROVE  InvTabla' /\ Salida
<1>1. UNCHANGED <<ahora, last_table_ping>>
  BY DEF RecibePing
<1>2. CASE is_valid_for_ip(id, public_address.ip)
  BY <1>1, <1>2 DEF RecibePing, InvTabla, Salida
<1>3. CASE ~is_valid_for_ip(id, public_address.ip)
  <2>1. id' = nuevo /\ tabla' = TablaVacia /\ nuevo \in from_ipv4(public_address.ip)
    BY <1>3 DEF RecibePing
  <2>2. id' # id
    BY <1>3, <2>1, SorteadoVale
  <2>3. TablaSana(tabla', id') /\ Presentes(tabla') = {}
    BY <2>1, VaciaSana
  <2> QED
    BY <1>1, <2>2, <2>3 DEF InvTabla, Salida, UnoPorIpEn
<1> QED
  BY <1>2, <1>3

LEMMA PasoMantenimiento ==
  ASSUME InvTabla, periodic_node_maintenance
  PROVE  InvTabla' /\ Salida
<1>1. UNCHANGED <<ahora, id>>
  BY DEF periodic_node_maintenance
<1>2. CASE ~ping_is_due
  <2>1. UNCHANGED <<tabla, last_table_ping>>
    BY <1>2 DEF periodic_node_maintenance, ping_and_purge
  <2> QED
    BY <1>1, <2>1 DEF InvTabla, Salida
<1>3. CASE ping_is_due
  <2>1. last_table_ping' = ahora /\ tabla' = Purgada
    BY <1>3 DEF periodic_node_maintenance, ping_and_purge
  <2>2. PICK ids : ids = {n.id : n \in {m \in Presentes(tabla) : is_stale(m, ahora)}}
    OBVIOUS
  <2>3. tabla' = QuitarDeTabla(tabla, id, ids) /\ TablaSana(tabla, id)
    BY <2>1, <2>2 DEF Purgada, InvTabla
  <2>4. TablaSana(tabla', id) /\ Presentes(tabla') = {n \in Presentes(tabla) : n.id \notin ids}
    BY <2>3, QuitarDeTablaEs
  <2>5. ASSUME NEW n \in Presentes(tabla)
        PROVE  n \in Presentes(tabla') <=> ~is_stale(n, ahora)
    <3>1. CASE is_stale(n, ahora)
      BY <2>2, <2>4, <3>1
    <3>2. CASE ~is_stale(n, ahora)
      <4>1. ASSUME n.id \in ids
            PROVE  FALSE
        <5>1. PICK m \in Presentes(tabla) : is_stale(m, ahora) /\ m.id = n.id
          BY <2>2, <4>1
        <5>2. m = n
          BY <2>3, <5>1, UnLugar
        <5> QED
          BY <3>2, <5>1, <5>2
      <4> QED
        BY <2>4, <3>2, <4>1
    <3> QED
      BY <3>1, <3>2
  <2>6. Salida
    BY <2>5 DEF Salida
  <2>7. ASSUME NEW n \in Presentes(tabla')
        PROVE  n.visto <= ahora /\ ahora <= n.visto + STALE_TIME
    <3>1. n \in Presentes(tabla) /\ ~is_stale(n, ahora)
      BY <2>4, <2>5
    <3>2. n.visto \in Nat
      BY <2>3, <3>1, PresentesNodos DEF Nodo
    <3>3. ~(ahora - n.visto > STALE_TIME) /\ n.visto <= ahora
      BY <3>1 DEF is_stale, InvTabla
    <3> QED
      BY <3>2, <3>3, SupuestoNodos DEF InvTabla
  <2>8. UnoPorIpEn(Presentes(tabla'))
    BY <2>4 DEF InvTabla, UnoPorIpEn
  <2>9. ahora \in Nat /\ ahora <= ahora + PING_TABLE_INTERVAL
    BY SupuestoTabla DEF InvTabla
  <2> QED
    BY <1>1, <2>1, <2>4, <2>6, <2>7, <2>8, <2>9 DEF InvTabla
<1> QED
  BY <1>2, <1>3

LEMMA PasoPasa ==
  ASSUME InvTabla, Pasa
  PROVE  InvTabla' /\ Salida
<1>1. ahora' = ahora + 1 /\ UNCHANGED <<id, tabla, last_table_ping>> /\ ~ping_is_due
  BY DEF Pasa
<1>2. /\ ahora' \in Nat /\ last_table_ping' \in Nat
      /\ last_table_ping' <= ahora' /\ ahora' <= last_table_ping' + PING_TABLE_INTERVAL
  BY <1>1, SupuestoTabla DEF InvTabla, ping_is_due
<1>3. ASSUME NEW n \in Presentes(tabla')
      PROVE  n.visto <= ahora' /\ last_table_ping' <= n.visto + STALE_TIME
  <2>1. n \in Presentes(tabla) /\ n.visto \in Nat
    BY <1>1, PresentesNodos DEF InvTabla, Nodo
  <2> QED
    BY <1>1, <2>1 DEF InvTabla
<1> QED
  BY <1>1, <1>2, <1>3 DEF InvTabla, Salida

LEMMA PasoTabla ==
  ASSUME InvTabla, [Next]_tablaVars
  PROVE  InvTabla' /\ Salida
<1>1. ASSUME NEW v \in Vecinos, Responde(v) \/ PideFindNode(v)
      PROVE  InvTabla' /\ Salida
  BY <1>1, PasoAgrega
<1>2. ASSUME NEW t \in Objetivos, Consulta(t)
      PROVE  InvTabla' /\ Salida
  BY <1>2 DEF Consulta, InvTabla, Salida
<1>3. ASSUME NEW t \in consultas, NEW voto \in Votos \cup {Nada}, FinConsulta(t, voto)
      PROVE  InvTabla' /\ Salida
  BY <1>3 DEF FinConsulta, InvTabla, Salida
<1>4. ASSUME NEW nuevo \in Id, RecibePing(nuevo)
      PROVE  InvTabla' /\ Salida
  BY <1>4, PasoPing
<1>5. CASE periodic_node_maintenance
  BY <1>5, PasoMantenimiento
<1>6. CASE Pasa
  BY <1>6, PasoPasa
<1>7. CASE UNCHANGED tablaVars
  BY <1>7 DEF tablaVars, InvTabla, Salida
<1> QED
  BY <1>1, <1>2, <1>3, <1>4, <1>5, <1>6, <1>7 DEF Next

LEMMA TablaInv == Spec => []InvTabla
<1>1. Init => InvTabla
  BY InicioTabla
<1>2. InvTabla /\ [Next]_tablaVars => InvTabla'
  BY PasoTabla
<1> QED
  BY <1>1, <1>2, PTL DEF Spec

(* Buckets within their size, each node in the bucket of its distance to   *)
(* the present id, once, the least recently seen first: what KBucket::add  *)
(* takes for granted when it looks at nodes[0] only.                       *)
THEOREM CubosSonSanos == Spec => []CubosSanos
<1>1. ASSUME InvTabla
      PROVE  CubosSanos
  <2>1. SUFFICES ASSUME NEW d \in 1 .. ID_SIZE
                 PROVE  /\ Len(tabla[d]) <= MAX_BUCKET_SIZE_K
                        /\ \A i, j \in DOMAIN tabla[d] :
                             /\ distance(id, tabla[d][i].id) = d
                             /\ i < j => /\ tabla[d][i].id # tabla[d][j].id
                                         /\ tabla[d][i].visto <= tabla[d][j].visto
    BY DEF CubosSanos
  <2>2. CuboSano(tabla[d]) /\ \A n \in Range(tabla[d]) : distance(id, n.id) = d
    BY <1>1 DEF InvTabla, TablaSana
  <2>3. \A i \in DOMAIN tabla[d] : tabla[d][i] \in Range(tabla[d])
    BY DEF Range
  <2> QED
    BY <2>2, <2>3 DEF CuboSano
<1> QED
  BY <1>1, TablaInv, PTL

(* BEP 42 in the whole table, over answers, find_node requests, purges and *)
(* changes of id: an address has at most one insecure node, and never two  *)
(* with one prefix (Node::already_exists, which looks at one side only).   *)
THEOREM UnoPorIpSiempre == Spec => []UnoPorIp
<1>1. InvTabla => UnoPorIp
  BY DEF InvTabla, UnoPorIpEn, UnoPorIp
<1> QED
  BY <1>1, TablaInv, PTL

(* No node outlives STALE_TIME by more than one round of the upkeep: a     *)
(* purge finds every stale node in the bucket it looks in.                 *)
THEOREM NadieEsRancio == Spec => []Reciente
<1>1. ASSUME InvTabla
      PROVE  Reciente
  <2>1. SUFFICES ASSUME NEW n \in Presentes(tabla)
                 PROVE  ahora - n.visto <= STALE_TIME + PING_TABLE_INTERVAL
    BY DEF Reciente
  <2>2. n.visto \in Nat
    BY <1>1, PresentesNodos DEF InvTabla, Nodo
  <2>3. ahora \in Nat /\ last_table_ping \in Nat /\ STALE_TIME \in Nat /\ PING_TABLE_INTERVAL \in Nat
    BY <1>1, SupuestoNodos, SupuestoTabla DEF InvTabla
  <2>4. last_table_ping <= n.visto + STALE_TIME /\ ahora <= last_table_ping + PING_TABLE_INTERVAL
    BY <1>1 DEF InvTabla
  <2> QED
    BY <2>2, <2>3, <2>4
<1> QED
  BY <1>1, TablaInv, PTL

(* A node leaves the table only stale, with a change of id, or for a       *)
(* secure node of its own id: no fresh node is lost to another.            *)
THEOREM SoloRanciosSeVan == Spec => SoloRanciosSalen
<1>1. InvTabla /\ [Next]_tablaVars =>
        [\A n \in Presentes(tabla) :
           \/ n \in Presentes(tabla')
           \/ is_stale(n, ahora)
           \/ id' # id
           \/ \E m \in Presentes(tabla') : m.id = n.id /\ is_secure(m)]_tablaVars
  BY PasoTabla DEF Salida
<1> QED
  BY <1>1, TablaInv, PTL DEF Spec, SoloRanciosSalen

(* Ids of the same bits are the same. *)
LEMMA IdIgual ==
  ASSUME NEW a \in Id, NEW b \in Id, \A i \in 1 .. ID_SIZE : a[i] = b[i]
  PROVE  a = b
<1>1. a = [i \in 1 .. ID_SIZE |-> a[i]] /\ b = [i \in 1 .. ID_SIZE |-> b[i]]
  BY DEF Id, Bits
<1> QED
  BY <1>1

(* The order of the ids is total, transitive and strict. *)
LEMMA MenorTotal ==
  ASSUME NEW a \in Id, NEW b \in Id, a # b
  PROVE  Menor(a, b) \/ Menor(b, a)
<1> DEFINE T == {i \in 1 .. ID_SIZE : a[i] # b[i]}
<1>1. T \subseteq Nat /\ T # {}
  BY IdIgual, SupuestoNodos
<1>2. PICK i \in T : \A j \in T : i <= j
  BY <1>1, MinimoNat
<1>3. i \in 1 .. ID_SIZE /\ a[i] \in {0, 1} /\ b[i] \in {0, 1} /\ a[i] # b[i]
  BY DEF Id, Bits
<1>4. \A j \in 1 .. i - 1 : a[j] = b[j]
  BY <1>2, <1>3, SupuestoNodos
<1>5. a[i] < b[i] \/ b[i] < a[i]
  BY <1>3
<1> QED
  BY <1>3, <1>4, <1>5 DEF Menor

LEMMA MenorPasa ==
  ASSUME NEW a \in Id, NEW b \in Id, NEW c \in Id, Menor(a, b), Menor(b, c)
  PROVE  Menor(a, c)
<1>1. PICK i \in 1 .. ID_SIZE : a[i] < b[i] /\ \A j \in 1 .. i - 1 : a[j] = b[j]
  BY DEF Menor
<1>2. PICK k \in 1 .. ID_SIZE : b[k] < c[k] /\ \A j \in 1 .. k - 1 : b[j] = c[j]
  BY DEF Menor
<1>3. i \in Nat /\ k \in Nat /\ \A j \in 1 .. ID_SIZE : a[j] \in Int /\ b[j] \in Int /\ c[j] \in Int
  BY SupuestoNodos DEF Id, Bits
<1>4. CASE i <= k
  <2>1. a[i] < c[i]
    <3>1. b[i] <= c[i]
      <4>1. CASE i = k
        BY <1>2, <1>3, <4>1
      <4>2. CASE i # k
        BY <1>2, <1>3, <1>4, <4>2
      <4> QED
        BY <4>1, <4>2
    <3> QED
      BY <1>1, <1>3, <3>1
  <2>2. \A j \in 1 .. i - 1 : a[j] = c[j]
    BY <1>1, <1>2, <1>3, <1>4
  <2> QED
    BY <2>1, <2>2 DEF Menor
<1>5. CASE k < i
  <2>1. a[k] < c[k]
    BY <1>1, <1>2, <1>3, <1>5
  <2>2. \A j \in 1 .. k - 1 : a[j] = c[j]
    BY <1>1, <1>2, <1>3, <1>5
  <2> QED
    BY <2>1, <2>2 DEF Menor
<1> QED
  BY <1>3, <1>4, <1>5

LEMMA MenorNoVuelve ==
  ASSUME NEW a \in Id, NEW b \in Id, Menor(a, b), Menor(b, a)
  PROVE  FALSE
<1>1. Menor(a, a)
  BY MenorPasa
<1> QED
  BY <1>1, SupuestoNodos DEF Menor, Id, Bits

(* Two ids at the same distance from a target are the same. *)
LEMMA XorEs ==
  ASSUME NEW a \in Id, NEW b \in Id, NEW t \in Id
  PROVE  /\ xor(a, t) \in Id
         /\ xor(a, t) = xor(b, t) => a = b
<1>1. xor(a, t) \in Id
  BY DEF xor, Id, Bits
<1>2. ASSUME xor(a, t) = xor(b, t)
      PROVE  a = b
  <2>1. ASSUME NEW i \in 1 .. ID_SIZE
        PROVE  a[i] = b[i]
    <3>1. (IF a[i] = t[i] THEN 0 ELSE 1) = (IF b[i] = t[i] THEN 0 ELSE 1)
      <4>1. xor(a, t)[i] = xor(b, t)[i]
        BY <1>2
      <4> QED
        BY <4>1 DEF xor
    <3>2. a[i] \in {0, 1} /\ b[i] \in {0, 1} /\ t[i] \in {0, 1}
      BY DEF Id, Bits
    <3> QED
      BY <3>1, <3>2
  <2> QED
    BY <2>1, IdIgual
<1> QED
  BY <1>1, <1>2

(* The order of a list of closest nodes: transitive, strict, and total but *)
(* for ties.                                                               *)
LEMMA AntesEsOrden ==
  ASSUME NEW t \in Id, NEW p \in Nodo, NEW q \in Nodo, NEW r \in Nodo
  PROVE  /\ Antes(p, q, t) /\ Antes(q, r, t) => Antes(p, r, t)
         /\ ~ (Antes(p, q, t) /\ Antes(q, p, t))
         /\ Empata(p, q) \/ Antes(p, q, t) \/ Antes(q, p, t)
<1>1. PICK a, b, c : a = xor(p.id, t) /\ b = xor(q.id, t) /\ c = xor(r.id, t)
  OBVIOUS
<1>2. p.id \in Id /\ q.id \in Id /\ r.id \in Id
  BY DEF Nodo
<1>3. /\ a \in Id /\ b \in Id /\ c \in Id
      /\ (a = b => p.id = q.id) /\ (a = c => p.id = r.id) /\ (b = c => q.id = r.id)
  BY <1>1, <1>2, XorEs
<1>4. /\ Antes(p, q, t) <=> \/ is_secure(p) /\ ~is_secure(q)
                            \/ (is_secure(p) <=> is_secure(q)) /\ p.id # q.id /\ Menor(a, b)
      /\ Antes(q, p, t) <=> \/ is_secure(q) /\ ~is_secure(p)
                            \/ (is_secure(q) <=> is_secure(p)) /\ q.id # p.id /\ Menor(b, a)
      /\ Antes(q, r, t) <=> \/ is_secure(q) /\ ~is_secure(r)
                            \/ (is_secure(q) <=> is_secure(r)) /\ q.id # r.id /\ Menor(b, c)
      /\ Antes(p, r, t) <=> \/ is_secure(p) /\ ~is_secure(r)
                            \/ (is_secure(p) <=> is_secure(r)) /\ p.id # r.id /\ Menor(a, c)
  BY <1>1 DEF Antes
<1>5. /\ Menor(a, b) /\ Menor(b, c) => Menor(a, c)
      /\ ~ (Menor(a, b) /\ Menor(b, a)) /\ ~Menor(a, a)
      /\ a # b => Menor(a, b) \/ Menor(b, a)
  BY <1>3, MenorPasa, MenorNoVuelve, MenorTotal
<1>6. p.id = r.id => a = c
  BY <1>1
<1>7. Antes(p, q, t) /\ Antes(q, r, t) => Antes(p, r, t)
  <2>1. ASSUME Menor(a, b), Menor(b, c)
        PROVE  p.id # r.id /\ Menor(a, c)
    BY <1>5, <1>6, <2>1
  <2> QED
    BY <1>4, <2>1
<1>8. Empata(p, q) \/ Antes(p, q, t) \/ Antes(q, p, t)
  BY <1>3, <1>4, <1>5 DEF Empata
<1>9. ~ (Antes(p, q, t) /\ Antes(q, p, t))
  BY <1>4, <1>5
<1> QED
  BY <1>7, <1>8, <1>9

(* A list of closest nodes: each goes before the later ones. *)
Ordenada(c, t) == \A i, j \in DOMAIN c : i < j => Antes(c[i], c[j], t)

(* Nobody is left out of a list but for a collision or a tie. *)
Cabe(c, n) == n \in Range(c) \/ \E p \in Range(c) : Choca(n, p) \/ Empata(p, n)

(* ClosestNodes::add keeps the list sorted, loses nobody of it, and adds    *)
(* the node or leaves it out for a collision or a tie.                     *)
LEMMA AgregarCercanoEs ==
  ASSUME NEW t \in Id, NEW c \in Seq(Nodo), Ordenada(c, t), NEW n \in Nodo
  PROVE  /\ AgregarCercano(c, t, n) \in Seq(Nodo)
         /\ Ordenada(AgregarCercano(c, t, n), t)
         /\ Range(c) \subseteq Range(AgregarCercano(c, t, n))
         /\ Range(AgregarCercano(c, t, n)) \subseteq Range(c) \cup {n}
         /\ Cabe(AgregarCercano(c, t, n), n)
<1>1. CASE already_exists(n, Range(c)) \/ \E p \in Range(c) : Empata(p, n)
  <2>1. AgregarCercano(c, t, n) = c
    BY <1>1 DEF AgregarCercano
  <2>2. Cabe(c, n)
    BY <1>1 DEF Cabe, already_exists
  <2> QED
    BY <2>1, <2>2
<1>2. CASE ~ (already_exists(n, Range(c)) \/ \E p \in Range(c) : Empata(p, n))
  <2> DEFINE D == {i \in DOMAIN c : Antes(c[i], n, t)}
  <2>1. PICK k : k = Cardinality(D)
    OBVIOUS
  <2>2. PICK N \in Nat : N = Len(c) /\ DOMAIN c = 1 .. N
    OBVIOUS
  <2>3. \A i \in 1 .. N : c[i] \in Nodo
    BY <2>2
  <2>4. ASSUME NEW j \in D, NEW i \in 1 .. j
        PROVE  i \in D
    <3>1. j \in 1 .. N /\ i \in 1 .. N /\ Antes(c[j], n, t)
      BY <2>2
    <3>2. i = j \/ Antes(c[i], c[j], t)
      BY <2>2, <3>1 DEF Ordenada
    <3>3. Antes(c[i], n, t)
      BY <2>3, <3>1, <3>2, AntesEsOrden
    <3> QED
      BY <2>2, <3>1, <3>3
  <2>5. k \in 0 .. N /\ D = 1 .. k
    <3>1. D \in SUBSET (1 .. N)
      BY <2>2
    <3> HIDE DEF D
    <3> QED
      BY <2>1, <2>4, <3>1, Inicial
  <2>6. PICK r : r = InsertAt(c, k + 1, n)
    OBVIOUS
  <2>7. AgregarCercano(c, t, n) = r
    <3>1. k + 1 = 1 + k
      BY <2>5
    <3> QED
      BY <1>2, <2>1, <2>6, <3>1 DEF AgregarCercano
  <2>8. /\ r \in Seq(Nodo) /\ Len(r) = N + 1
        /\ \A i \in 1 .. k : r[i] = c[i]
        /\ r[k + 1] = n
        /\ \A i \in k + 2 .. N + 1 : r[i] = c[i - 1]
    <3>1. k \in 0 .. Len(c)
      BY <2>2, <2>5
    <3>2. /\ r \in Seq(Nodo) /\ Len(r) = Len(c) + 1
          /\ \A i \in 1 .. k : r[i] = c[i]
          /\ r[k + 1] = n
          /\ \A i \in k + 2 .. Len(c) + 1 : r[i] = c[i - 1]
      <4>1. EsInsercion(InsertAt(c, k + 1, n), Nodo, c, k, n)
        BY <3>1, InsertAtEs
      <4> QED
        BY <2>6, <4>1 DEF EsInsercion
    <3> QED
      BY <2>2, <3>2
  <2>9. DOMAIN r = 1 .. N + 1
    BY <2>8
  <2>10. \A i \in 1 .. k : Antes(c[i], n, t)
    BY <2>5
  <2>11. \A i \in k + 1 .. N : Antes(n, c[i], t)
    <3>1. ASSUME NEW i \in k + 1 .. N
          PROVE  Antes(n, c[i], t)
      <4>1. i \in 1 .. N /\ i \notin 1 .. k
        BY <2>2, <2>5
      <4>2. ~Antes(c[i], n, t)
        BY <2>2, <2>5, <4>1
      <4>3. ~Empata(c[i], n)
        BY <1>2, <2>2, <4>1 DEF Range
      <4> QED
        BY <2>3, <4>1, <4>2, <4>3, AntesEsOrden
    <3> QED
      BY <3>1
  <2>12. ASSUME NEW i \in 1 .. N + 1, NEW j \in 1 .. N + 1, i < j
         PROVE  Antes(r[i], r[j], t)
    <3>1. \A x, y \in 1 .. N : x < y => Antes(c[x], c[y], t)
      BY <2>2 DEF Ordenada
    <3>2. CASE j <= k
      <4>1. r[i] = c[i] /\ r[j] = c[j] /\ i \in 1 .. N /\ j \in 1 .. N
        BY <2>2, <2>5, <2>8, <2>12, <3>2
      <4> QED
        BY <2>12, <3>1, <4>1
    <3>3. CASE j = k + 1
      <4>1. i \in 1 .. k
        BY <2>5, <2>12, <3>3
      <4> QED
        BY <2>8, <2>10, <3>3, <4>1
    <3>4. CASE j > k + 1
      <4>1. r[j] = c[j - 1] /\ j - 1 \in k + 1 .. N
        BY <2>5, <2>8, <3>4
      <4>2. CASE i <= k
        <5>1. r[i] = c[i] /\ i \in 1 .. N /\ j - 1 \in 1 .. N /\ i < j - 1
          BY <2>2, <2>5, <2>8, <3>4, <4>2
        <5> QED
          BY <3>1, <4>1, <5>1
      <4>3. CASE i = k + 1
        BY <2>8, <2>11, <4>1, <4>3
      <4>4. CASE i > k + 1
        <5>1. r[i] = c[i - 1] /\ i - 1 \in 1 .. N /\ j - 1 \in 1 .. N /\ i - 1 < j - 1
          BY <2>2, <2>5, <2>8, <2>12, <4>4
        <5> QED
          BY <3>1, <4>1, <5>1
      <4> QED
        BY <2>5, <4>2, <4>3, <4>4
    <3> QED
      BY <2>5, <3>2, <3>3, <3>4
  <2>13. ASSUME NEW p \in Range(c)
         PROVE  p \in Range(r)
    <3>1. PICK i \in 1 .. N : p = c[i]
      BY <2>2 DEF Range
    <3>2. CASE i <= k
      <4>1. r[i] = p /\ i \in 1 .. N + 1
        BY <2>2, <2>8, <3>1, <3>2
      <4> QED
        BY <2>9, <4>1 DEF Range
    <3>3. CASE i > k
      <4>1. r[i + 1] = c[(i + 1) - 1] /\ i + 1 \in 1 .. N + 1 /\ (i + 1) - 1 = i
        BY <2>2, <2>5, <2>8, <3>3
      <4> QED
        BY <2>9, <3>1, <4>1 DEF Range
    <3> QED
      BY <2>5, <3>2, <3>3
  <2>14. ASSUME NEW p \in Range(r)
         PROVE  p \in Range(c) \cup {n}
    <3>1. PICK i \in 1 .. N + 1 : p = r[i]
      BY <2>9 DEF Range
    <3>2. CASE i <= k
      <4>1. p = c[i] /\ i \in 1 .. N
        BY <2>5, <2>8, <3>1, <3>2
      <4> QED
        BY <2>2, <4>1 DEF Range
    <3>3. CASE i = k + 1
      BY <2>8, <3>1, <3>3
    <3>4. CASE i > k + 1
      <4>1. p = c[i - 1] /\ i - 1 \in 1 .. N
        BY <2>2, <2>5, <2>8, <3>1, <3>4
      <4> QED
        BY <2>2, <4>1 DEF Range
    <3> QED
      BY <2>5, <3>2, <3>3, <3>4
  <2>15. n \in Range(r)
    <3>1. k + 1 \in 1 .. N + 1
      BY <2>2, <2>5
    <3> QED
      BY <2>8, <2>9, <3>1 DEF Range
  <2>16. Ordenada(r, t)
    BY <2>9, <2>12 DEF Ordenada
  <2> QED
    BY <2>7, <2>8, <2>13, <2>14, <2>15, <2>16 DEF Cabe
<1> QED
  BY <1>1, <1>2

(* The list of closest nodes of a sequence of nodes. *)
LEMMA CercanosEs ==
  ASSUME NEW t \in Id, NEW s \in Seq(Nodo)
  PROVE  /\ Cercanos(t, s) \in Seq(Nodo) /\ Ordenada(Cercanos(t, s), t)
         /\ Range(Cercanos(t, s)) \subseteq Range(s)
         /\ \A n \in Range(s) : Cabe(Cercanos(t, s), n)
<1>1. PICK N \in Nat : N = Len(s) /\ DOMAIN s = 1 .. N /\ \A i \in 1 .. N : s[i] \in Nodo
  OBVIOUS
<1> DEFINE V == {c \in Seq(Nodo) : Ordenada(c, t)}
<1> DEFINE F == CHOOSE f : f = [i \in 0 .. N |-> IF i = 0 THEN <<>> ELSE AgregarCercano(f[i - 1], t, s[i])]
<1>2. Cercanos(t, s) = F[N]
  BY <1>1 DEF Cercanos
<1>3. <<>> \in V
  <2>1. <<>> \in Seq(Nodo) /\ DOMAIN <<>> = {}
    OBVIOUS
  <2> QED
    BY <2>1 DEF Ordenada
<1>4. F = [i \in 0 .. N |-> IF i = 0 THEN <<>> ELSE AgregarCercano(F[i - 1], t, s[i])]
  <2>1. PICK G : G = [x \in (1 .. N) \X V |-> AgregarCercano(x[2], t, s[x[1]])]
    OBVIOUS
  <2>2. G \in [(1 .. N) \X V -> V]
    <3>1. ASSUME NEW x \in (1 .. N) \X V
          PROVE  AgregarCercano(x[2], t, s[x[1]]) \in V
      <4>1. PICK c, n : c = x[2] /\ n = s[x[1]]
        OBVIOUS
      <4>2. c \in Seq(Nodo) /\ Ordenada(c, t) /\ n \in Nodo
        BY <1>1, <4>1
      <4>3. AgregarCercano(c, t, n) \in V
        BY <4>2, AgregarCercanoEs
      <4> QED
        BY <4>1, <4>3
    <3> QED
      BY <2>1, <3>1
  <2>3. PICK b \in V : b = <<>>
    BY <1>3
  <2>4. SeDefine(V, b, N, G)
    <3> HIDE DEF V
    <3> QED
      BY <1>1, <2>2, Recursion
  <2>5. PICK f \in [0 .. N -> V] : f[0] = <<>> /\ \A i \in 1 .. N : f[i] = G[<<i, f[i - 1]>>]
    BY <2>3, <2>4 DEF SeDefine
  <2>6. PICK g : g = [i \in 0 .. N |-> f[i]]
    OBVIOUS
  <2>7. ASSUME NEW i \in 0 .. N
        PROVE  f[i] = IF i = 0 THEN <<>> ELSE AgregarCercano(g[i - 1], t, s[i])
    <3>1. CASE i = 0
      BY <2>5, <3>1
    <3>2. CASE i # 0
      <4>1. i \in 1 .. N /\ i - 1 \in 0 .. N
        BY <1>1, <3>2
      <4>2. <<i, f[i - 1]>> \in (1 .. N) \X V /\ g[i - 1] = f[i - 1]
        BY <2>5, <2>6, <4>1
      <4>3. G[<<i, f[i - 1]>>] = AgregarCercano(f[i - 1], t, s[i])
        BY <2>1, <4>2
      <4> QED
        BY <2>5, <3>2, <4>1, <4>2, <4>3
    <3> QED
      BY <3>1, <3>2
  <2>8. g = [i \in 0 .. N |-> IF i = 0 THEN <<>> ELSE AgregarCercano(g[i - 1], t, s[i])]
    BY <2>6, <2>7
  <2> QED
    BY <2>8
<1> HIDE DEF F
<1> DEFINE Bien(i) == /\ F[i] \in V /\ Range(F[i]) \subseteq Range(s)
                      /\ \A j \in 1 .. i : Cabe(F[i], s[j])
<1> DEFINE T == {i \in 0 .. N : Bien(i)}
<1>5. 0 \in T
  <2>1. 0 \in 0 .. N
    BY <1>1
  <2>2. F[0] = <<>>
    BY <1>4, <2>1
  <2>3. F[0] \in V /\ Range(F[0]) \subseteq Range(s)
    BY <1>3, <2>2 DEF Range
  <2>4. \A j \in 1 .. 0 : Cabe(F[0], s[j])
    <3>1. \A j \in 1 .. 0 : FALSE
      OBVIOUS
    <3> QED
      BY <3>1
  <2> QED
    BY <2>1, <2>3, <2>4
<1>6. ASSUME NEW i \in 1 .. N, i - 1 \in T
      PROVE  i \in T
  <2>1. PICK c : c = F[i - 1]
    OBVIOUS
  <2>2. c \in Seq(Nodo) /\ Ordenada(c, t) /\ s[i] \in Nodo
    BY <1>1, <1>6, <2>1
  <2>3. PICK r : r = AgregarCercano(c, t, s[i])
    OBVIOUS
  <2>4. F[i] = r
    BY <1>1, <1>4, <2>1, <2>3
  <2>5. /\ r \in V /\ Range(c) \subseteq Range(r) /\ Cabe(r, s[i])
        /\ Range(r) \subseteq Range(c) \cup {s[i]}
    BY <2>2, <2>3, AgregarCercanoEs
  <2>6. ASSUME NEW j \in 1 .. i
        PROVE  Cabe(r, s[j])
    <3>1. CASE j = i
      BY <2>5, <3>1
    <3>2. CASE j # i
      <4>1. j \in 1 .. i - 1
        BY <3>2
      <4>2. Cabe(c, s[j])
        BY <1>6, <2>1, <4>1
      <4> QED
        BY <2>5, <4>2 DEF Cabe
    <3> QED
      BY <3>1, <3>2
  <2>7. Range(r) \subseteq Range(s)
    <3>1. Range(c) \subseteq Range(s) /\ s[i] \in Range(s)
      BY <1>1, <1>6, <2>1 DEF Range
    <3> QED
      BY <2>5, <3>1
  <2> QED
    BY <2>4, <2>5, <2>6, <2>7
<1>7. Bien(N)
  <2>1. 0 .. N \subseteq T
    <3> HIDE DEF T
    <3> QED
      BY <1>1, <1>5, <1>6, HastaN
  <2>2. N \in T
    <3> HIDE DEF T
    <3> QED
      BY <2>1
  <2> QED
    BY <2>2
<1> QED
  BY <1>1, <1>2, <1>7 DEF Range

(* The first elements of a sequence. *)
EsInicio(r, S, s, k) ==
  /\ r \in Seq(S)
  /\ Len(r) = IF Len(s) < k THEN Len(s) ELSE k
  /\ \A i \in 1 .. Len(r) : r[i] = s[i]

LEMMA PrimerosEs ==
  ASSUME NEW S, NEW s \in Seq(S), NEW k \in Nat
  PROVE  EsInicio(Primeros(s, k), S, s, k)
<1>1. PICK m \in Nat : m = IF Len(s) < k THEN Len(s) ELSE k
  OBVIOUS
<1>2. m <= Len(s) /\ \A i \in 1 .. m : s[i] \in S
  BY <1>1
<1>3. PICK r : r = SubSeq(s, 1, m)
  OBVIOUS
<1>4. /\ r \in Seq(S) /\ Len(r) = IF 1 <= m THEN m - 1 + 1 ELSE 0
      /\ \A i \in 1 .. m - 1 + 1 : r[i] = s[1 + i - 1]
  BY <1>2, <1>3, SubSeqProperties
<1>5. Primeros(s, k) = r
  BY <1>1, <1>3 DEF Primeros
<1>6. Len(r) = m /\ \A i \in 1 .. m : r[i] = s[i]
  BY <1>4
<1> QED
  BY <1>1, <1>4, <1>5, <1>6 DEF EsInicio

(* The secure list is no shorter than the plain one. *)
LEMMA CorteMinimo ==
  ASSUME NEW nodes \in Seq(Nodo), NEW t, NEW edk, NEW s
  PROVE  \E m \in Nat : m >= MAX_BUCKET_SIZE_K /\ take_until_secure(nodes, t, edk, s) = Primeros(nodes, m)
<1> DEFINE corta(i) == /\ ~Menor(xor(nodes[i].id, t), edk)
                       /\ Cardinality(SubredesDe(SubSeq(nodes, 1, i))) >= s
           cortes == {i \in DOMAIN nodes : corta(i)}
           hasta == IF cortes = {} THEN Len(nodes)
                    ELSE (CHOOSE i \in cortes : \A j \in cortes : i <= j) - 1
           m == IF hasta < MAX_BUCKET_SIZE_K THEN MAX_BUCKET_SIZE_K ELSE hasta
<1>1. take_until_secure(nodes, t, edk, s) = Primeros(nodes, m)
  BY DEF take_until_secure
<1>2. hasta \in Int
  <2>1. cortes \subseteq Nat
    OBVIOUS
  <2> HIDE DEF cortes
  <2>2. CASE cortes = {}
    BY <2>2
  <2>3. CASE cortes # {}
    <3>1. PICK x : x = CHOOSE i \in cortes : \A j \in cortes : i <= j
      OBVIOUS
    <3>2. x \in cortes
      <4>1. \E i \in cortes : \A j \in cortes : i <= j
        BY <2>1, <2>3, MinimoNat
      <4> QED
        BY <3>1, <4>1
    <3>3. hasta = x - 1 /\ x \in Nat
      BY <2>1, <2>3, <3>1, <3>2
    <3> QED
      BY <3>3
  <2> QED
    BY <2>2, <2>3
<1> HIDE DEF hasta
<1>3. m \in Nat /\ m >= MAX_BUCKET_SIZE_K
  BY <1>2, SupuestoNodos
<1> QED
  BY <1>1, <1>3

(* A shorter beginning of a sequence is a prefix of a longer one. *)
LEMMA InicioDeInicio ==
  ASSUME NEW S, NEW s \in Seq(S), NEW k \in Nat, NEW m \in Nat, k <= m
  PROVE  IsPrefix(Primeros(s, k), Primeros(s, m))
<1>1. PICK a, b : a = Primeros(s, k) /\ b = Primeros(s, m)
  OBVIOUS
<1>2. EsInicio(a, S, s, k) /\ EsInicio(b, S, s, m)
  BY <1>1, PrimerosEs
<1>3. PICK l \in Nat : l = Len(a)
  BY <1>2 DEF EsInicio
<1>4. /\ l <= Len(b)
      /\ \A i \in 1 .. l : a[i] = s[i] /\ b[i] = s[i] /\ s[i] \in S
  BY <1>2, <1>3 DEF EsInicio
<1>5. PICK x, y : x = SubSeq(a, 1, l) /\ y = SubSeq(b, 1, l)
  OBVIOUS
<1>6. /\ x \in Seq(S) /\ Len(x) = IF 1 <= l THEN l - 1 + 1 ELSE 0
      /\ \A i \in 1 .. l - 1 + 1 : x[i] = a[1 + i - 1]
  BY <1>4, <1>5, SubSeqProperties
<1>7. /\ y \in Seq(S) /\ Len(y) = IF 1 <= l THEN l - 1 + 1 ELSE 0
      /\ \A i \in 1 .. l - 1 + 1 : y[i] = b[1 + i - 1]
  BY <1>4, <1>5, SubSeqProperties
<1>8. Len(x) = Len(y) /\ \A i \in 1 .. Len(x) : x[i] = y[i]
  BY <1>4, <1>6, <1>7
<1>9. x = y
  BY <1>6, <1>7, <1>8, SeqEqual
<1> QED
  BY <1>1, <1>3, <1>4, <1>5, <1>9 DEF IsPrefix

(* closest returns nodes of the table in order, secure ones first and then *)
(* the nearest (routing_table.rs, closest; closest_nodes.rs, add).  Each    *)
(* node of the table is in the list it is cut from or was refused there by  *)
(* another one; who is in that list is returned or comes after K others;    *)
(* and the list of closest_secure begins with the same nodes.               *)
THEOREM CierraBienSiempre == Spec => []CierraBien
<1>1. ASSUME InvTabla
      PROVE  CierraBien
  <2> DEFINE K == MAX_BUCKET_SIZE_K
  <2>1. SUFFICES ASSUME NEW t \in Objetivos, NEW s, s = Cercanos(t, NodosDe(tabla)),
                        NEW c, c = closest(tabla, t)
                 PROVE  /\ Range(c) \subseteq Presentes(tabla)
                        /\ \A i, j \in DOMAIN c : i < j =>
                             /\ is_secure(c[j]) => is_secure(c[i])
                             /\ (is_secure(c[i]) <=> is_secure(c[j])) =>
                                  Menor(xor(c[i].id, t), xor(c[j].id, t))
                        /\ \A n \in Presentes(tabla) \ Range(s) :
                             \E p \in Range(s) : Choca(n, p) \/ Empata(p, n)
                        /\ \A n \in Range(s) \ Range(c) :
                             Len(c) = K /\ \A p \in Range(c) : Antes(p, n, t)
                        /\ \A edk \in Objetivos, r \in 1 .. 2 :
                             IsPrefix(c, closest_secure(tabla, t, edk, r))
    BY DEF CierraBien
  <2>2. t \in Id /\ K \in Nat
    BY SupuestoTabla, SupuestoNodos
  <2>3. PICK q : q = NodosDe(tabla)
    OBVIOUS
  <2>4. q \in Seq(Nodo) /\ Range(q) = Presentes(tabla)
    <3>1. tabla \in [1 .. ID_SIZE -> Seq(Nodo)]
      BY <1>1 DEF InvTabla, TablaSana
    <3>2. ID_SIZE \in Nat \ {0}
      BY SupuestoNodos
    <3>3. /\ FlattenSeq(tabla) \in Seq(Nodo)
          /\ Range(FlattenSeq(tabla)) = UNION {Range(tabla[d]) : d \in 1 .. ID_SIZE}
      BY <3>1, <3>2, AplanaRango
    <3> QED
      BY <2>3, <3>3 DEF NodosDe, Presentes
  <2>5. /\ s \in Seq(Nodo) /\ Ordenada(s, t) /\ Range(s) \subseteq Range(q)
        /\ \A n \in Range(q) : Cabe(s, n)
    BY <2>1, <2>2, <2>3, <2>4, CercanosEs
  <2>6. PICK N \in Nat : N = Len(s) /\ DOMAIN s = 1 .. N
    BY <2>5
  <2>7. PICK M \in Nat : M = IF N < K THEN N ELSE K
    BY <2>2, <2>6
  <2>8. c = Primeros(s, K)
    BY <2>1 DEF closest
  <2>9. DOMAIN c = 1 .. M /\ Len(c) = M /\ M <= N /\ \A i \in 1 .. M : c[i] = s[i]
    <3>1. EsInicio(c, Nodo, s, K)
      BY <2>2, <2>5, <2>8, PrimerosEs
    <3> QED
      BY <2>2, <2>6, <2>7, <3>1 DEF EsInicio
  <2>10. ASSUME NEW i \in DOMAIN c, NEW j \in DOMAIN c, i < j
         PROVE  /\ is_secure(c[j]) => is_secure(c[i])
                /\ (is_secure(c[i]) <=> is_secure(c[j])) =>
                     Menor(xor(c[i].id, t), xor(c[j].id, t))
    <3>1. Antes(c[i], c[j], t)
      BY <2>5, <2>6, <2>9, <2>10 DEF Ordenada
    <3> QED
      BY <3>1 DEF Antes
  <2>11. ASSUME NEW n \in Presentes(tabla) \ Range(s)
         PROVE  \E p \in Range(s) : Choca(n, p) \/ Empata(p, n)
    BY <2>4, <2>5, <2>11 DEF Cabe
  <2>12. Range(c) \subseteq Presentes(tabla)
    <3>1. Range(c) \subseteq Range(s)
      BY <2>6, <2>9 DEF Range
    <3> QED
      BY <2>4, <2>5, <3>1
  <2>13. ASSUME NEW n \in Range(s) \ Range(c)
         PROVE  Len(c) = K /\ \A p \in Range(c) : Antes(p, n, t)
    <3>1. n \in Range(s)
      BY <2>13
    <3>2. PICK j \in 1 .. N : n = s[j]
      BY <2>6, <3>1 DEF Range
    <3>3. j \notin 1 .. M
      <4>1. ASSUME j \in 1 .. M
            PROVE  FALSE
        <5>1. n = c[j] /\ j \in DOMAIN c
          BY <2>9, <3>2, <4>1
        <5> QED
          BY <2>13, <5>1 DEF Range
      <4> QED
        BY <4>1
    <3>4. M = K /\ M < j
      BY <2>2, <2>6, <2>7, <3>2, <3>3
    <3>5. ASSUME NEW p \in Range(c)
          PROVE  Antes(p, n, t)
      <4>1. PICK i \in 1 .. M : p = c[i]
        BY <2>9 DEF Range
      <4>2. p = s[i] /\ i \in DOMAIN s /\ j \in DOMAIN s /\ i < j
        BY <2>6, <2>9, <3>2, <3>4, <4>1
      <4> QED
        BY <2>5, <3>2, <4>2 DEF Ordenada
    <3> QED
      BY <2>9, <3>4, <3>5
  <2>14. ASSUME NEW edk \in Objetivos, NEW r \in 1 .. 2
         PROVE  IsPrefix(c, closest_secure(tabla, t, edk, r))
    <3>1. closest_secure(tabla, t, edk, r) = take_until_secure(s, t, edk, r)
      BY <2>1 DEF closest_secure
    <3>2. PICK m \in Nat : m >= K /\ take_until_secure(s, t, edk, r) = Primeros(s, m)
      BY <2>5, CorteMinimo
    <3>3. K <= m
      BY <2>2, <3>2
    <3>4. IsPrefix(Primeros(s, K), Primeros(s, m))
      BY <2>2, <2>5, <3>3, InicioDeInicio
    <3> QED
      BY <2>8, <3>1, <3>2, <3>4
  <2> QED
    BY <2>10, <2>11, <2>12, <2>13, <2>14
<1> QED
  BY <1>1, TablaInv, PTL
=============================================================================
