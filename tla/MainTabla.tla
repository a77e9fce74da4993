----------------------------- MODULE MainTabla -----------------------------
(***************************************************************************)
(* Upkeep of the routing table of one mainline node and of what it knows   *)
(* of its own address (rust/mainline/src/rpc.rs): nodes added by the       *)
(* answers of running lookups, the periodic purge, ping and refresh, the   *)
(* vote on the public address, the ping the node sends to itself to find   *)
(* out whether it is firewalled, the change to an id valid for that        *)
(* address and the adaptive switch to server mode.                         *)
(*                                                                         *)
(* A unit of time is PING_TABLE_INTERVAL (5 minutes).  Lookups and pings   *)
(* last seconds and the loop ticks every 50 ms: they end, and due          *)
(* maintenance runs, before a unit passes.                                 *)
(***************************************************************************)
EXTENDS MainNodos

CONSTANTS
  IdsIniciales,  \* ids Rpc::new may draw
  Vecinos,       \* [id, dir] of the nodes that answer
  Votos,         \* own addresses the answers report
  Objetivos,     \* targets the application looks up
  Modos,         \* Config::server_mode
  REFRESH_TABLE_INTERVAL,
  PING_TABLE_INTERVAL,
  MIN_PING_BACKOFF,
  Nada,          \* None
  TopeTiempo     \* bound on the clock

ASSUME SupuestoTabla ==
  /\ IdsIniciales \subseteq Id
  /\ Vecinos \subseteq [id : Id, dir : Direccion]
  /\ Votos \subseteq Direccion
  /\ Objetivos \subseteq Id
  /\ Modos \subseteq BOOLEAN
  /\ REFRESH_TABLE_INTERVAL \in Nat \ {0}
  /\ PING_TABLE_INTERVAL \in Nat \ {0}
  /\ MIN_PING_BACKOFF \in Nat
  /\ Nada \notin Direccion
  /\ TopeTiempo \in Nat

VARIABLES
  sin_bootstrap,       \* Rpc::bootstrap is empty: this is the first node
  ahora,
  id,                  \* RoutingTable::id
  tabla,               \* RoutingTable::buckets
  last_table_refresh,
  last_table_ping,
  public_address,
  firewalled,
  server_mode,
  consultas,           \* targets of the lookups in flight
  pings,               \* own addresses pinged in the present unit of time
  alcanzada            \* history: address its own ping last came back from

tablaVars == <<sin_bootstrap, ahora, id, tabla, last_table_refresh, last_table_ping,
               public_address, firewalled, server_mode, consultas, pings, alcanzada>>

Init ==
  /\ sin_bootstrap \in BOOLEAN
  /\ ahora = 0
  /\ id \in IdsIniciales
  /\ tabla = TablaVacia
  /\ last_table_refresh = 0
  /\ last_table_ping = 0
  /\ public_address = Nada
  /\ firewalled = TRUE
  /\ server_mode \in Modos
  /\ consultas = {}
  /\ pings = {}
  /\ alcanzada = Nada

-----------------------------------------------------------------------------
(* Answers. *)

(* An answer to a lookup in flight that carries nodes and no value: the    *)
(* responder is added.  (An answer with a value returns before; an answer  *)
(* to a ping of the upkeep belongs to no lookup.  Both change nothing.)    *)
Responde(v) ==
  /\ consultas # {}
  /\ tabla' = AgregarATabla(tabla, id, Node(v.id, v.dir, ahora), ahora)
  /\ UNCHANGED <<sin_bootstrap, ahora, id, last_table_refresh, last_table_ping,
                 public_address, firewalled, server_mode, consultas, pings, alcanzada>>

(* A find_node request at a node without bootstrap nodes: it adds the      *)
(* sender's address under the id the sender looks for.                     *)
PideFindNode(v) ==
  /\ sin_bootstrap
  /\ tabla' = AgregarATabla(tabla, id, Node(v.id, v.dir, ahora), ahora)
  /\ UNCHANGED <<sin_bootstrap, ahora, id, last_table_refresh, last_table_ping,
                 public_address, firewalled, server_mode, consultas, pings, alcanzada>>

-----------------------------------------------------------------------------
(* Own address. *)

(* Rpc::get from the application, coarse: a lookup runs. *)
Consulta(t) ==
  /\ consultas' = consultas \cup {t}
  /\ UNCHANGED <<sin_bootstrap, ahora, id, tabla, last_table_refresh, last_table_ping,
                 public_address, firewalled, server_mode, pings, alcanzada>>

MismaIp(a, b) == a # Nada /\ b # Nada /\ a.ip = b.ip

(* Mutant: a vote that changes only the port is taken without doubt. *)
FinConsultaConfiada(t, voto) ==
  /\ t \in consultas
  /\ consultas' = consultas \ {t}
  /\ IF voto = Nada
     THEN UNCHANGED <<public_address, firewalled, pings>>
     ELSE /\ public_address' = voto
          /\ IF MismaIp(voto, public_address)
             THEN UNCHANGED <<firewalled, pings>>
             ELSE firewalled' = TRUE /\ pings' = pings \cup {voto}
  /\ UNCHANGED <<sin_bootstrap, ahora, id, tabla, last_table_refresh, last_table_ping,
                 server_mode, alcanzada>>

(* A lookup ends; "voto" is the address most of its answers reported. *)
FinConsulta(t, voto) ==
  /\ t \in consultas
  /\ consultas' = consultas \ {t}
  /\ IF voto = Nada
     THEN UNCHANGED <<public_address, firewalled, pings>>
     ELSE /\ public_address' = voto
          /\ IF voto = public_address
             THEN UNCHANGED <<firewalled, pings>>
             ELSE firewalled' = TRUE /\ pings' = pings \cup {voto}
  /\ UNCHANGED <<sin_bootstrap, ahora, id, tabla, last_table_refresh, last_table_ping,
                 server_mode, alcanzada>>

(* Mutant: the new id keeps the buckets of the old one. *)
RecibePingConTabla(nuevo) ==
  /\ public_address # Nada
  /\ public_address \in pings
  /\ pings' = pings \ {public_address}
  /\ firewalled' = FALSE
  /\ alcanzada' = public_address
  /\ IF is_valid_for_ip(id, public_address.ip)
     THEN UNCHANGED <<id, consultas>>
     ELSE /\ nuevo \in from_ipv4(public_address.ip)
          /\ consultas' = consultas \cup {nuevo}
          /\ id' = nuevo
  /\ UNCHANGED <<sin_bootstrap, ahora, tabla, last_table_refresh, last_table_ping,
                 public_address, server_mode>>

(* The node's own ping comes back from its public address: it is not       *)
(* firewalled.  With an id that BEP 42 refuses for that address it takes a *)
(* new one, looks it up from the old table and starts an empty one.        *)
RecibePing(nuevo) ==
  /\ public_address # Nada
  /\ public_address \in pings
  /\ pings' = pings \ {public_address}
  /\ firewalled' = FALSE
  /\ alcanzada' = public_address
  /\ IF is_valid_for_ip(id, public_address.ip)
     THEN UNCHANGED <<id, tabla, consultas>>
     ELSE /\ nuevo \in from_ipv4(public_address.ip)
          /\ consultas' = consultas \cup {nuevo}
          /\ id' = nuevo
          /\ tabla' = TablaVacia
  /\ UNCHANGED <<sin_bootstrap, ahora, last_table_refresh, last_table_ping, public_address, server_mode>>

-----------------------------------------------------------------------------
(* Periodic maintenance. *)

refresh_is_due == ahora - last_table_refresh >= REFRESH_TABLE_INTERVAL
ping_is_due == ahora - last_table_ping >= PING_TABLE_INTERVAL
should_populate == is_empty(tabla) \/ refresh_is_due

(* purge_nodes: removes the stale ones, by id. *)
Purgada ==
  QuitarDeTabla(tabla, id, {n.id : n \in {m \in Presentes(tabla) : is_stale(m, ahora)}})

to_ping == {n.dir : n \in {m \in Presentes(tabla) :
              ~is_stale(m, ahora) /\ ahora - m.visto > MIN_PING_BACKOFF}}

try_switching_to_server_mode ==
  server_mode' = (server_mode \/ (refresh_is_due /\ ~firewalled))

ping_and_purge ==
  IF ping_is_due
  THEN /\ last_table_ping' = ahora
       /\ tabla' = Purgada
       /\ pings' = pings \cup (to_ping \cap Votos)
  ELSE UNCHANGED <<last_table_ping, tabla, pings>>

populate ==
  IF should_populate
  THEN /\ last_table_refresh' = ahora
       /\ consultas' = IF sin_bootstrap THEN consultas ELSE consultas \cup {id}
  ELSE UNCHANGED <<last_table_refresh, consultas>>

periodic_node_maintenance ==
  /\ refresh_is_due \/ ping_is_due \/ should_populate
  /\ try_switching_to_server_mode
  /\ ping_and_purge
  /\ populate
  /\ UNCHANGED <<sin_bootstrap, ahora, id, public_address, firewalled, alcanzada>>

(* A unit of time passes: the requests of the last one are over. *)
Pasa ==
  /\ ahora < TopeTiempo
  /\ consultas = {}
  /\ ~refresh_is_due /\ ~ping_is_due
  /\ ahora' = ahora + 1
  /\ pings' = {}
  /\ UNCHANGED <<sin_bootstrap, id, tabla, last_table_refresh, last_table_ping,
                 public_address, firewalled, server_mode, consultas, alcanzada>>

Next ==
  \/ \E v \in Vecinos : Responde(v) \/ PideFindNode(v)
  \/ \E t \in Objetivos : Consulta(t)
  \/ \E t \in consultas, voto \in Votos \cup {Nada} : FinConsulta(t, voto)
  \/ \E nuevo \in Id : RecibePing(nuevo)
  \/ periodic_node_maintenance
  \/ Pasa

Spec == Init /\ [][Next]_tablaVars

-----------------------------------------------------------------------------
(* Properties. *)

(* No bucket is over its size; every node is in the bucket of its distance *)
(* to the present id, once, and each bucket is sorted by the least         *)
(* recently seen, which is what KBucket::add relies on when it looks at    *)
(* nodes[0] only.                                                          *)
CubosSanos ==
  \A d \in 1 .. ID_SIZE :
    /\ Len(tabla[d]) <= MAX_BUCKET_SIZE_K
    /\ \A i, j \in DOMAIN tabla[d] :
         /\ distance(id, tabla[d][i].id) = d
         /\ i < j => /\ tabla[d][i].id # tabla[d][j].id
                     /\ tabla[d][i].visto <= tabla[d][j].visto

(* BEP 42 in the whole table (Node::already_exists): an address has at     *)
(* most one insecure node, and no two nodes with the same prefix.          *)
UnoPorIp ==
  \A a, b \in Presentes(tabla) :
    (a # b /\ same_ip(a, b)) =>
      /\ is_secure(a) \/ is_secure(b)
      /\ first_21_bits(a.id) # first_21_bits(b.id)

(* A node that holds itself reachable got its own ping from the very       *)
(* address, ip and port, that it publishes now, and its id is one that     *)
(* address may have: what the adaptive switch to server mode relies on,    *)
(* across votes that change the address, late pings and changes of id.     *)
AbiertoSeguro ==
  ~firewalled => /\ public_address # Nada
                 /\ alcanzada = public_address
                 /\ is_valid_for_ip(id, public_address.ip)

(* No node outlives STALE_TIME by more than one round of the upkeep. *)
Reciente ==
  \A n \in Presentes(tabla) : ahora - n.visto <= STALE_TIME + PING_TABLE_INTERVAL

(* A node leaves the table only stale, with a change of id, or for a       *)
(* secure node of its own id.                                              *)
SoloRanciosSalen ==
  [][\A n \in Presentes(tabla) :
       \/ n \in Presentes(tabla')
       \/ is_stale(n, ahora)
       \/ id' # id
       \/ \E m \in Presentes(tabla') : m.id = n.id /\ is_secure(m)]_tablaVars

(* closest: nodes of the table, sorted (secure first, then nearest).  A    *)
(* node it leaves out was refused when the list was put together, because  *)
(* of another one there, or is in that list after a full answer of K.      *)
CierraBien ==
  \A t \in Objetivos :
    LET todos == Range(Cercanos(t, NodosDe(tabla)))
        c == closest(tabla, t)
    IN /\ Range(c) \subseteq Presentes(tabla)
       /\ \A i, j \in DOMAIN c : i < j =>
            /\ is_secure(c[j]) => is_secure(c[i])
            /\ (is_secure(c[i]) <=> is_secure(c[j])) =>
                 Menor(xor(c[i].id, t), xor(c[j].id, t))
       /\ \A n \in Presentes(tabla) \ todos :
            \E p \in todos : Choca(n, p) \/ Empata(p, n)
       /\ \A n \in todos \ Range(c) :
            Len(c) = MAX_BUCKET_SIZE_K /\ \A p \in Range(c) : Antes(p, n, t)
       /\ \A edk \in Objetivos, s \in 1 .. 2 : IsPrefix(c, closest_secure(tabla, t, edk, s))
=============================================================================
