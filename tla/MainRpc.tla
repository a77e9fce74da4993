------------------------------ MODULE MainRpc ------------------------------
(***************************************************************************)
(* The client half of a mainline node: lookups (rpc/iterative_query.rs),   *)
(* stores (rpc/put_query.rs), the request table of the socket              *)
(* (rpc/socket.rs) and the Rpc that drives them (rpc.rs), under the actor  *)
(* thread of dht.rs and its blocking and async callers (async_dht.rs).     *)
(*                                                                         *)
(* A transaction id stands for what was asked: <<"get", target, node,      *)
(* kind>> or <<"put", request, node>>.  Nodes have an address each and a   *)
(* place in the distance order of each target.  The upkeep of the routing  *)
(* table is in MainTabla, the other side of a request in MainServidor.     *)
(***************************************************************************)
EXTENDS MainLru, FiniteSetsExt, TLC

CONSTANTS
  Llamantes,   \* callers, each in one call
  Menus,       \* the [Llamantes -> requests it may make] to explore
  Objetivos,   \* targets
  Nodos,
  Orden,       \* [Objetivos -> [Nodos -> Nat]], the distance order
  Conoce,      \* [Nodos -> SUBSET Nodos], the closer nodes a node answers with
  bootstrap,   \* Rpc::bootstrap
  Tablas,      \* routing tables to start from
  Trae,        \* [Objetivos -> values the answers may carry]
  Codigos,     \* error codes a store may get
  MAX_BUCKET_SIZE_K, MAX_CACHED_ITERATIVE_QUERIES,
  MasSeguros,  \* nodes take_until_secure takes beyond K
  Nada         \* None

ASSUME SupuestoRpc ==
  /\ bootstrap \subseteq Nodos
  /\ Conoce \in [Nodos -> SUBSET Nodos]
  /\ MAX_BUCKET_SIZE_K \in Nat \ {0} /\ MasSeguros \in Nat
  /\ MAX_CACHED_ITERATIVE_QUERIES \in Nat \ {0}
  /\ Nada # "Ok"

(* Requests are as the calls of Dht make them.  A target is the hash of    *)
(* what is put (a torrent, a value, a key with its salt): it says of which *)
(* kind that is.                                                           *)
ASSUME SupuestoMenus ==
  \A m \in Menus :
    /\ DOMAIN m = Llamantes
    /\ \A c \in Llamantes : \A a \in m[c] :
         /\ a.op \in {"info", "get", "put"} /\ a.target \in Objetivos
         /\ a.clase = "mutable" => a.op = "put" /\ a.item.seq \in Nat
         /\ \A d \in Llamantes : \A b \in m[d] :
              a.op = "put" /\ b.op = "put" /\ a.target = b.target => a.clase = b.clase

VARIABLES
  menu,         \* member of Menus
  actor,        \* "corre" or "fin", the actor thread
  handle,       \* a Dht handle is alive
  buzon,        \* callers whose message is in the actor's channel
  rpc,          \* Rpc, see Init
  get_senders, put_senders,
  llamadas,     \* per caller: request, state and what it got
  acuses        \* history: requests some node acknowledged

vars == <<menu, actor, handle, buzon, rpc, get_senders, put_senders, llamadas, acuses>>

Init ==
  /\ menu \in Menus
  /\ actor = "corre" /\ handle = TRUE
  /\ buzon = <<>>
  /\ \E t \in Tablas :
       rpc = [iterative_queries |-> <<>>, put_queries |-> <<>>,    \* by target
              cached |-> <<>>,    \* cached_iterative_queries
              inflight |-> {},    \* InflightRequests, not expired
              tabla |-> t]        \* the nodes of the routing table
  /\ get_senders = [o \in Objetivos |-> {}]
  /\ put_senders = [o \in Objetivos |-> {}]
  /\ llamadas = [c \in Llamantes |-> [req |-> Nada, estado |-> "libre", item |-> Nada, res |-> Nada]]
  /\ acuses = {}

(* The messages the calls of Dht send to the actor: what is asked, and the *)
(* type of what the caller waits for.  (A mutable item has a seq, and a    *)
(* value that orders items of the same seq.)                               *)
Get(clase, t, quiere) == [op |-> "get", clase |-> clase, target |-> t, quiere |-> quiere]
Put(clase, t, item, cas) ==
  [op |-> "put", clase |-> clase, target |-> t, item |-> item, cas |-> cas, quiere |-> "put"]

info(t) == [op |-> "info", clase |-> "info", target |-> t, quiere |-> "info"]
find_node(t) == Get("find_node", t, "cercanos")
get_closest_nodes(t) == Get("get_value", t, "cercanos")
get_peers(t) == Get("get_peers", t, "peers")
get_immutable(t) == Get("get_value", t, "immutable")
get_mutable(t) == Get("get_value", t, "mutable")
announce_peer(t, puerto) == Put("announce", t, puerto, Nada)
put_immutable(t, v) == Put("immutable", t, v, Nada)
put_mutable(t, item, cas) == Put("mutable", t, item, cas)

-----------------------------------------------------------------------------

(* HashMap: insert, and remove of several keys. *)
Con(f, k, v) == [x \in DOMAIN f \cup {k} |-> IF x = k THEN v ELSE f[x]]
Quitados(f, ks) == [x \in DOMAIN f \ ks |-> f[x]]

Activas(r) == DOMAIN r.iterative_queries

MasCercanos(t, nodos, k) ==
  {n \in nodos : Cardinality({m \in nodos : Orden[t][m] < Orden[t][n]}) < k}

-----------------------------------------------------------------------------
(* IterativeQuery.  A visit sends the request and a ping. *)

Pedidos(t, nodos) == {<<"get", t, n, k>> : n \in nodos, k \in {"peticion", "ping"}}

visit(r, t, nodos) ==
  [r EXCEPT !.iterative_queries[t].visited = @ \cup nodos,
            !.inflight = @ \cup Pedidos(t, nodos)]

PorVisitar(q, t) == MasCercanos(t, q.closest, MAX_BUCKET_SIZE_K) \ q.visited
visit_closest(r, t) == visit(r, t, PorVisitar(r.iterative_queries[t], t))

(* IterativeQuery::tick, after its visit. *)
GetHecho(r, t) == r.inflight \cap Pedidos(t, r.iterative_queries[t].visited) = {}

-----------------------------------------------------------------------------
(* PutQuery. *)

PutNuevo(req) == [req |-> req, inflight_requests |-> {}, stored_at |-> 0, errors |-> <<>>]

started(q) == q.inflight_requests # {}

(* PutQuery::start: only nodes with a token are sent the request. *)
Envios(q, nodos) == {<<"put", q.req, n>> : n \in nodos}

start(r, t, q, con_token) ==
  LET tids == Envios(q, con_token)
  IN [r EXCEPT !.put_queries = Con(@, t, [q EXCEPT !.inflight_requests = tids]),
               !.inflight = @ \cup tids]

(* PutQuery::error: counts by code, the most common first. *)
ConError(q, code) ==
  LET otros == Sin(q.errors, code)
      c == IF code \in Claves(q.errors) THEN Valor(q.errors, code) + 1 ELSE 1
  IN [q EXCEPT !.errors =
       InsertAt(otros, 1 + Cardinality({i \in DOMAIN otros : otros[i][2] >= c}), <<code, c>>)]

most_common_error(q) ==
  IF q.errors = <<>> THEN Nada
  ELSE CASE q.errors[1][1] = 301 -> "CasFailed"
         [] q.errors[1][1] = 302 -> "NotMostRecent"
         [] OTHER -> Nada

majority_nodes_rejected_put_mutable(q) ==
  /\ q.req.clase = "mutable"
  /\ most_common_error(q) # Nada
  /\ q.errors[1][2] >= (Cardinality(q.inflight_requests) \div 2) + 1

(* PutQuery::tick: its result, or Nada while it is not done. *)
FinPut(r, q) ==
  IF ~started(q) THEN Nada
  ELSE IF q.inflight_requests \cap r.inflight = {}
       THEN IF q.stored_at # 0 THEN "Ok"
            ELSE IF most_common_error(q) # Nada THEN most_common_error(q) ELSE "Timeout"
  ELSE IF majority_nodes_rejected_put_mutable(q) THEN most_common_error(q)
  ELSE Nada

-----------------------------------------------------------------------------
(* Rpc::get and Rpc::put. *)

EnCache(r, t) == t \in Claves(r.cached)

ConToken(r, t) == IF EnCache(r, t) THEN Valor(r.cached, t).con_token ELSE {}

(* A lookup in flight for the target, of any class, is joined.  A new one  *)
(* is seeded with the table, whose nodes have no token, and then with the  *)
(* cached list, which adds only who is not there yet.                      *)
get(r, clase, t) ==
  IF t \in Activas(r) THEN r
  ELSE LET semillas ==
             IF r.tabla = {} \/ Cardinality(r.tabla) < Cardinality(bootstrap)
             THEN bootstrap ELSE {}
           conocidos == IF EnCache(r, t) THEN Valor(r.cached, t).nodos ELSE {}
           nueva == [clase |-> clase, closest |-> r.tabla \cup conocidos, responders |-> {},
                     visited |-> {}, responses |-> {}, con_token |-> ConToken(r, t) \ r.tabla]
       IN visit_closest(
            visit([r EXCEPT !.iterative_queries = Con(@, t, nueva), !.cached = Tocar(@, t)],
                  t, semillas), t)

MutableEnVuelo(r, t) == t \in DOMAIN r.put_queries /\ r.put_queries[t].req.clase = "mutable"

(* What a get returns at once: what the lookup has got so far, and the     *)
(* item that is being put.                                                 *)
Responses(r, t) ==
  (IF t \in Activas(r) THEN r.iterative_queries[t].responses ELSE {})
    \cup (IF MutableEnVuelo(r, t)
          THEN {[tipo |-> "mutable", item |-> r.put_queries[t].req.item, bien |-> TRUE]} ELSE {})

(* Mutant: a put without cas takes the place of the one in flight. *)
ConflictoSinRiesgo(r, req) ==
  IF req.clase # "mutable" \/ ~MutableEnVuelo(r, req.target) THEN "no"
  ELSE LET hay == r.put_queries[req.target].req.item
       IN IF req.item = hay THEN "igual"
          ELSE IF req.item.seq < hay.seq THEN "NotMostRecent"
          ELSE IF req.cas \in {Nada, hay.seq} THEN "no"
          ELSE "CasFailed"

Conflicto(r, req) ==
  IF req.clase # "mutable" \/ ~MutableEnVuelo(r, req.target) THEN "no"
  ELSE LET hay == r.put_queries[req.target].req.item
       IN IF req.item = hay THEN "igual"
          ELSE IF req.item.seq < hay.seq THEN "NotMostRecent"
          ELSE IF req.cas = Nada THEN "ConflictRisk"
          ELSE IF req.cas = hay.seq THEN "no"
          ELSE "CasFailed"

(* Mutant: a put that has to look up its nodes is not kept. *)
PutSinGuardar(r, req) ==
  LET t == req.target
  IN IF EnCache(r, t) /\ Valor(r.cached, t).fresco
     THEN start(r, t, PutNuevo(req), Valor(r.cached, t).con_token)
     ELSE get(r, "get_value", t)

(* A put that has no conflict; a put in flight for the target is dropped.  *)
(* Node::valid_token looks at the time only.                               *)
put(r, req) ==
  LET t == req.target
      sirve == EnCache(r, t) /\ Valor(r.cached, t).nodos # {} /\ Valor(r.cached, t).fresco
      tocada == [r EXCEPT !.cached = Tocar(@, t)]
  IN IF sirve
     THEN start(tocada, t, PutNuevo(req), Valor(r.cached, t).con_token)
     ELSE [get(tocada, "get_value", t) EXCEPT !.put_queries = Con(@, t, PutNuevo(req))]

-----------------------------------------------------------------------------
(* Rpc::tick. *)

tick_put_queries(r) ==
  {<<t, FinPut(r, r.put_queries[t])>> :
     t \in {o \in DOMAIN r.put_queries : FinPut(r, r.put_queries[o]) # Nada}}

(* The lookups visit; the done ones and their closest nodes. *)
Visitado(r) ==
  LET nodos(t) == PorVisitar(r.iterative_queries[t], t)
  IN [r EXCEPT
       !.iterative_queries =
         [t \in Activas(r) |-> [r.iterative_queries[t] EXCEPT !.visited = @ \cup nodos(t)]],
       !.inflight = @ \cup UNION {Pedidos(t, nodos(t)) : t \in Activas(r)}]

ClosestDe(q, t) ==
  IF q.clase = "find_node" THEN MasCercanos(t, q.closest, MAX_BUCKET_SIZE_K)
  ELSE MasCercanos(t, q.responders, MAX_BUCKET_SIZE_K + MasSeguros)

(* Responders gave a token; of the nodes find_node lists, only those of an *)
(* earlier list may have one.                                              *)
TokensDe(q, t) ==
  IF q.clase = "find_node" THEN ClosestDe(q, t) \cap q.con_token ELSE ClosestDe(q, t)

(* The cache with a done lookup. *)
cache_iterative_query(cached, q, t) ==
  LET hueco == IF Len(cached) >= MAX_CACHED_ITERATIVE_QUERIES THEN SinUltimo(cached) ELSE cached
  IN IF q.closest = {} THEN hueco
     ELSE Meter(hueco, t,
            [nodos |-> ClosestDe(q, t), con_token |-> TokensDe(q, t), fresco |-> TRUE],
            MAX_CACHED_ITERATIVE_QUERIES)

Cacheadas(r, orden) ==
  FoldLeft(LAMBDA cached, t : cache_iterative_query(cached, r.iterative_queries[t], t),
           r.cached, orden)

(* Does the put of a target start with the end of this lookup? *)
EsperaGet(r, t) ==
  /\ r.iterative_queries[t].clase # "find_node"
  /\ t \in DOMAIN r.put_queries
  /\ ~started(r.put_queries[t])

(* Mutant: the puts that waited are forgotten. *)
TerminarSinPuts(r, hechos, orden) ==
  [r EXCEPT !.iterative_queries = Quitados(@, hechos), !.cached = Cacheadas(r, orden)]

(* The end of the done lookups, cached in some order; the puts that waited *)
(* for one start (cleanup_done_queries).                                   *)
TerminarGets(r, hechos, orden) ==
  LET tids(t) == IF t \in hechos /\ EsperaGet(r, t)
                 THEN Envios(r.put_queries[t], ClosestDe(r.iterative_queries[t], t)) ELSE {}
  IN [r EXCEPT
       !.iterative_queries = Quitados(@, hechos),
       !.cached = Cacheadas(r, orden),
       !.put_queries =
         [t \in DOMAIN r.put_queries |->
            IF tids(t) = {} THEN r.put_queries[t]
            ELSE [r.put_queries[t] EXCEPT !.inflight_requests = tids(t)]],
       !.inflight = @ \cup UNION {tids(t) : t \in hechos}]

SinCercanos(r, hechos) ==
  {<<t, "NoClosestNodes">> :
     t \in {o \in hechos : EsperaGet(r, o) /\ ClosestDe(r.iterative_queries[o], o) = {}}}

QuitarPuts(r, fines) == [r EXCEPT !.put_queries = Quitados(@, {f[1] : f \in fines})]

(* An answer to a put: only a put query that still waits for it counts it. *)
RespuestaPut(r, tid, con) ==
  LET t == tid[2].target
      q == r.put_queries[t]
  IN IF con[1] = "solo_lectura" \/ t \notin DOMAIN r.put_queries \/ tid \notin q.inflight_requests
     THEN r
     ELSE [r EXCEPT !.put_queries[t] =
            IF con[1] = "ok" THEN [q EXCEPT !.stored_at = @ + 1] ELSE ConError(q, con[2])]

(* The values an answer may carry for the class of the lookup. *)
Valores(q, t) == {v \in Trae[t] : (v.tipo = "peers") <=> (q.clase = "get_peers")}

Solo(tipo) == <<tipo, Nada>>

(* What may come back for a request in flight. *)
Contestaciones(r, tid) ==
  IF tid[1] = "put" THEN {Solo("ok"), Solo("solo_lectura")} \cup {<<"error", c>> : c \in Codigos}
  ELSE IF tid[4] = "ping" THEN {Solo("ping")}
  ELSE LET q == r.iterative_queries[tid[2]]
       IN {Solo("error"), Solo("solo_lectura")} \cup
            (IF q.clase = "find_node" THEN {Solo("nodos")}
             ELSE {Solo("sin_valor")} \cup {<<"valor", v>> : v \in Valores(q, tid[2])})

(* The value of an answer that is returned to the callers. *)
Bueno(con) == con[1] = "valor" /\ con[2].bien

(* What a lookup notes of an answer of node n. *)
Anota(q, n, con) ==
  [q EXCEPT !.closest = @ \cup Conoce[n],
            !.responders = IF con[1] = "nodos" THEN @ ELSE @ \cup {n},
            !.responses = IF Bueno(con) THEN @ \cup {con[2]} ELSE @]

(* An answer to a lookup.  One with a good value returns before the node   *)
(* is added to the table; an error has no author.                          *)
RespuestaGet(r, tid, con) ==
  LET n == tid[3]
      anotada == IF con[1] \in {"ping", "error"} THEN r
                 ELSE [r EXCEPT !.iterative_queries[tid[2]] = Anota(@, n, con)]
  IN IF con[1] = "solo_lectura" THEN r
     ELSE [anotada EXCEPT !.tabla = IF Bueno(con) \/ con[1] = "error" THEN @ ELSE @ \cup {n}]

(* The socket takes an answer with the id of a request in flight. *)
handle_response(r, tid, con) ==
  LET sin == [r EXCEPT !.inflight = @ \ {tid}]
  IN IF tid[1] = "put" THEN RespuestaPut(sin, tid, con) ELSE RespuestaGet(sin, tid, con)

-----------------------------------------------------------------------------
(* What callers get. *)

(* get_mutable_most_recent over the items that come. *)
MasReciente(tengo, item) ==
  IF tengo = Nada THEN item
  ELSE IF item.seq = tengo.seq /\ item.v > tengo.v THEN item ELSE tengo

Juntados(tengo, items) == FoldSet(LAMBDA item, ya : MasReciente(ya, item), tengo, items)

(* send: the receivers of a value of another type are passed over. *)
ConValores(ll, quienes, vs) ==
  [c \in Llamantes |->
    LET suyos == {v \in vs : v.tipo = ll[c].req.quiere}
    IN IF c \notin quienes \/ suyos = {} THEN ll[c]
       ELSE CASE ll[c].req.quiere = "immutable" ->
                   [ll[c] EXCEPT !.estado = "fin", !.res = "valor",
                                 !.item = (CHOOSE v \in suyos : TRUE).item]
              [] ll[c].req.quiere = "mutable" ->
                   [ll[c] EXCEPT !.item = Juntados(@, {v.item : v \in suyos})]
              [] OTHER -> ll[c]]

Terminan(ll, quienes, res) ==
  [c \in Llamantes |->
    IF c \in quienes /\ ll[c].estado = "espera" THEN [ll[c] EXCEPT !.estado = "fin", !.res = res]
    ELSE ll[c]]

(* The senders of the done lookups are dropped: the streams end. *)
TerminaGets(ll, r, gs, hechos) ==
  [c \in Llamantes |->
    LET t == ll[c].req.target
    IN IF ll[c].estado # "espera" \/ t \notin hechos \/ c \notin gs[t] THEN ll[c]
       ELSE [ll[c] EXCEPT !.estado = "fin",
               !.res = IF ClosestDe(r.iterative_queries[t], t) = {} THEN "nada" ELSE "nodos"]]

(* The result of a done put goes to all who wait for it. *)
TerminaPuts(ll, ps, fines) ==
  [c \in Llamantes |->
    LET suyos == {f \in fines : c \in ps[f[1]]}
    IN IF ll[c].estado # "espera" \/ suyos = {} THEN ll[c]
       ELSE [ll[c] EXCEPT !.estado = "fin", !.res = (CHOOSE f \in suyos : TRUE)[2]]]

-----------------------------------------------------------------------------
(* The actor thread (run): one message of the channel, one tick, one       *)
(* datagram, and the results to their callers.                             *)

(* Where the message of the channel leaves rpc, the senders and the calls. *)
Atender(e) ==
  IF buzon = <<>> THEN e
  ELSE LET c == Head(buzon)
           req == llamadas[c].req
           t == req.target
           en == [e EXCEPT !.ll[c].estado = "espera"]
       IN CASE req.op = "info" -> [e EXCEPT !.ll = Terminan(en.ll, {c}, "info")]
            [] req.op = "get" ->
                 [en EXCEPT !.ll = ConValores(@, {c}, Responses(e.r, t)),
                            !.r = get(e.r, req.clase, t),
                            !.gs[t] = @ \cup {c}]
            [] req.op = "put" ->
                 LET no == Conflicto(e.r, req)
                 IN IF no \in {"no", "igual"}
                    THEN [en EXCEPT !.r = IF no = "no" THEN put(e.r, req) ELSE @, !.ps[t] = @ \cup {c}]
                    ELSE [en EXCEPT !.ll = Terminan(@, {c}, no)]

Ordenes(hechos) == {s \in [1 .. Cardinality(hechos) -> hechos] : Range(s) = hechos}

Vuelta ==
  /\ actor = "corre"
  /\ buzon # <<>> \/ handle
  /\ \E e \in {Atender([r |-> rpc, gs |-> get_senders, ps |-> put_senders, ll |-> llamadas])} :
     \E putsHechos \in {tick_put_queries(e.r)} :
     \E r1 \in {Visitado(e.r)} :
     \E hechos \in {{t \in Activas(r1) : GetHecho(r1, t)}} :
     \E fines \in {putsHechos \cup SinCercanos(r1, hechos)} :
     \E orden \in Ordenes(hechos) :
     \E r2 \in {QuitarPuts(TerminarGets(r1, hechos, orden), fines)} :
     \E llega \in {<<>>} \cup UNION {{<<tid, con>> : con \in Contestaciones(r2, tid)} : tid \in r2.inflight} :
       LET valor == llega # <<>> /\ Bueno(llega[2])
           ll1 == IF valor THEN ConValores(e.ll, e.gs[llega[1][2]], {llega[2][2]}) ELSE e.ll
       IN /\ rpc' = IF llega = <<>> THEN r2 ELSE handle_response(r2, llega[1], llega[2])
          /\ llamadas' = TerminaPuts(TerminaGets(ll1, r1, e.gs, hechos), e.ps, fines)
          /\ get_senders' = [t \in Objetivos |-> IF t \in hechos THEN {} ELSE e.gs[t]]
          /\ put_senders' = [t \in Objetivos |->
                               IF \E f \in fines : f[1] = t THEN {} ELSE e.ps[t]]
          /\ acuses' = IF llega # <<>> /\ llega[1][1] = "put" /\ llega[2][1] = "ok"
                       THEN acuses \cup {llega[1][2]} ELSE acuses
  /\ buzon' = IF buzon = <<>> THEN buzon ELSE Tail(buzon)
  /\ UNCHANGED <<menu, actor, handle>>

(* A caller sends its message and waits. *)
Llama(c, req) ==
  /\ handle
  /\ llamadas[c].estado = "libre"
  /\ req \in menu[c]
  /\ llamadas' = [llamadas EXCEPT ![c] = [req |-> req, estado |-> "buzon", item |-> Nada, res |-> Nada]]
  /\ buzon' = Append(buzon, c)
  /\ UNCHANGED <<menu, actor, handle, rpc, get_senders, put_senders, acuses>>

(* 2 seconds pass: what a query still has in flight is not taken any more. *)
(* (A query that waits for one request waits for all: that the older ones  *)
(* expire first makes no difference to it.)                                *)
DeUna(tid) == {o \in rpc.inflight : o[1] = tid[1] /\ o[2] = tid[2]}

Vence(tid) ==
  /\ rpc' = [rpc EXCEPT !.inflight = @ \ DeUna(tid)]
  /\ UNCHANGED <<menu, actor, handle, buzon, get_senders, put_senders, llamadas, acuses>>

(* The nodes of the cache were seen more than 5 minutes ago.  Bound: the   *)
(* cached lookups age together.                                            *)
Envejece ==
  /\ \E i \in DOMAIN rpc.cached : rpc.cached[i][2].fresco
  /\ rpc' = [rpc EXCEPT !.cached =
       [i \in DOMAIN @ |-> <<@[i][1], [@[i][2] EXCEPT !.fresco = FALSE]>>]]
  /\ UNCHANGED <<menu, actor, handle, buzon, get_senders, put_senders, llamadas, acuses>>

(* The last handle is dropped; streams outlive it. *)
Soltar ==
  /\ handle
  /\ \A c \in Llamantes :
       llamadas[c].estado \in {"buzon", "espera"} =>
         llamadas[c].req.quiere \in {"peers", "mutable"}
  /\ handle' = FALSE
  /\ UNCHANGED <<menu, actor, buzon, rpc, get_senders, put_senders, llamadas, acuses>>

(* The channel is empty and disconnected: the thread ends and drops all.   *)
FinActor ==
  /\ actor = "corre"
  /\ ~handle /\ buzon = <<>>
  /\ actor' = "fin"
  /\ llamadas' = Terminan(llamadas, Llamantes, "roto")
  /\ rpc' = [rpc EXCEPT !.iterative_queries = <<>>, !.put_queries = <<>>,
                        !.cached = <<>>, !.inflight = {}, !.tabla = {}]
  /\ get_senders' = [t \in Objetivos |-> {}]
  /\ put_senders' = [t \in Objetivos |-> {}]
  /\ UNCHANGED <<menu, handle, buzon, acuses>>

Vencen == \E tid \in rpc.inflight : Vence(tid)

Next ==
  \/ Vuelta
  \/ \E c \in Llamantes : \E req \in menu[c] : Llama(c, req)
  \/ Vencen
  \/ Envejece
  \/ Soltar
  \/ FinActor

Spec == Init /\ [][Next]_vars

(* The actor loops for ever and every request gets too old. *)
SpecJusta == Spec /\ WF_vars(Vuelta) /\ WF_vars(Vencen) /\ WF_vars(FinActor)

-----------------------------------------------------------------------------
(* Properties. *)

(* A caller that waits can always be answered: its message is in the       *)
(* channel, or its sender is kept for a target whose query lives (the      *)
(* "Query was dropped before sending a response" of dht.rs never is).      *)
SinHuerfanos ==
  /\ \A c \in Llamantes :
       /\ llamadas[c].estado = "buzon" => c \in Range(buzon)
       /\ llamadas[c].estado = "espera" =>
            c \in get_senders[llamadas[c].req.target] \cup put_senders[llamadas[c].req.target]
  /\ \A t \in Objetivos :
       /\ get_senders[t] # {} => t \in DOMAIN rpc.iterative_queries
       /\ put_senders[t] # {} => t \in DOMAIN rpc.put_queries

(* A caller told that its mutable item is stored: a node acknowledged that *)
(* very item, or one at least as recent whose writer named the item it     *)
(* replaced as cas.  No put is lost in silence among callers of one node.  *)
OkRespaldado ==
  \A c \in Llamantes :
    (llamadas[c].res = "Ok" /\ llamadas[c].req.clase = "mutable") =>
      \E a \in acuses :
        /\ a.target = llamadas[c].req.target
        /\ \/ a.item = llamadas[c].req.item
           \/ a.cas # Nada /\ a.item.seq >= llamadas[c].req.item.seq

Espera(c) == llamadas[c].estado \in {"buzon", "espera"}
ConFindNode(t) ==
  \E d \in Llamantes :
    llamadas[d].req # Nada /\ llamadas[d].req.clase = "find_node" /\ llamadas[d].req.target = t

(* Every lookup ends, and every store too unless find_node was called on   *)
(* its target.                                                             *)
TodosContestados ==
  \A c \in Llamantes :
    Espera(c) ~> \/ ~Espera(c)
                 \/ llamadas[c].req.op = "put" /\ ConFindNode(llamadas[c].req.target)

(* Dht::put: every store is answered. *)
PutsContestados == \A c \in Llamantes : Espera(c) ~> ~Espera(c)
=============================================================================
