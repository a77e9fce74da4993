---------------------------- MODULE MainServidor ----------------------------
(***************************************************************************)
(* The server half of a mainline node (rust/mainline/src/rpc/server.rs,    *)
(* server/tokens.rs, server/peers.rs) and the clients that read and write  *)
(* through it over UDP: requests may be lost, repeated and reordered.      *)
(*                                                                         *)
(* A unit of time is TOKEN_ROTATE_INTERVAL (5 minutes), far beyond what a  *)
(* datagram or a request takes.  Hashes are injective: the target of an    *)
(* immutable value is <<"i", v>>, that of a mutable item <<"m", k, sal>>;  *)
(* a signature is what it signs.  The value of a mutable item is the set   *)
(* of writes it carries, so that a lost one can be seen.                   *)
(***************************************************************************)
EXTENDS MainMensajes, MainLru

CONSTANTS
  Clientes,     \* clients, one address each
  Hashes,       \* info hashes
  Valores,      \* immutable values
  Sales,        \* salts, Nada among them: one mutable item for each
  ValoresGrandes, SalesGrandes,  \* over 1000 and over 64 bytes
  Gordos,       \* clients whose writes make an item of over 1000 bytes
  Repartos,     \* the [Clientes -> classes of request and salts it uses] to explore
  Cercanos,     \* the closest nodes of the routing table, any target
  TOKEN_ROTATE_INTERVAL,
  MAX_INFO_HASHES, MAX_PEERS, MAX_VALUES,
  Muestra,      \* peers of an answer (10)
  Nada,         \* None
  TopeTiempo,   \* bound on the clock
  TopeSeq       \* bound on the seq of a write, for each of Repartos

ASSUME SupuestoServidor ==
  /\ ValoresGrandes \subseteq Valores /\ SalesGrandes \subseteq Sales \ {Nada}
  /\ Gordos \subseteq Clientes
  /\ TOKEN_ROTATE_INTERVAL \in Nat \ {0}
  /\ MAX_INFO_HASHES \in Nat \ {0} /\ MAX_PEERS \in Nat \ {0}
  /\ MAX_VALUES \in Nat \ {0} /\ Muestra \in Nat \ {0}
  /\ TopeTiempo \in Nat /\ TopeSeq \in [Repartos -> Nat]

VARIABLES
  servidos,          \* member of Repartos
  ahora,
  curr_secret, prev_secret, last_updated,  \* Tokens
  info_hashes,       \* PeersStore: <<hash, <<peer, ...>>>>, last used first
  immutable_values,  \* <<target, value>>, last used first
  mutable_values,    \* <<target, item>>, last used first
  cli,               \* per client: the node it knows (token, last_seen) and the item it read
  red,               \* datagrams in flight, with the message they encode
  confirmados,       \* history: <<target, write>> of the puts with cas that were accepted
  desalojados        \* history: targets whose item had to go

servVars == <<servidos, ahora, curr_secret, prev_secret, last_updated, info_hashes,
              immutable_values, mutable_values, cli, red, confirmados, desalojados>>
historia == <<confirmados, desalojados>>
almacenes == <<info_hashes, immutable_values, mutable_values>>

target_from_key(sal) == <<"m", sal>>
hash_immutable(v) == <<"i", v>>
Sal(args) == IF "salt" \in DOMAIN args THEN args.salt ELSE Nada

-----------------------------------------------------------------------------
(* Tokens: a CRC of the address and a secret.  The secrets rotate lazily,  *)
(* before a request is handled.                                            *)

Token(c, secreto) == [de |-> c, secreto |-> secreto]

should_update == ahora - last_updated > TOKEN_ROTATE_INTERVAL

(* Mutant: both secrets are drawn again. *)
RotarLosDos ==
  IF should_update
  THEN /\ prev_secret' = curr_secret + 1 /\ curr_secret' = curr_secret + 2
       /\ last_updated' = ahora
  ELSE UNCHANGED <<prev_secret, curr_secret, last_updated>>

RotarSiToca ==
  IF should_update
  THEN /\ prev_secret' = curr_secret /\ curr_secret' = curr_secret + 1
       /\ last_updated' = ahora
  ELSE UNCHANGED <<prev_secret, curr_secret, last_updated>>

generate_token(c) == Token(c, curr_secret')
validate(c, token) == token \in {Token(c, curr_secret'), Token(c, prev_secret')}

-----------------------------------------------------------------------------

Init ==
  /\ servidos \in Repartos
  /\ ahora = 0
  /\ curr_secret = 1 /\ prev_secret = 0 /\ last_updated = 0
  /\ info_hashes = <<>> /\ immutable_values = <<>> /\ mutable_values = <<>>
  /\ cli = [c \in Clientes |-> [token |-> Nada, visto |-> 0, leido |-> Nada]]
  /\ red = {}
  /\ confirmados = {} /\ desalojados = {}

Paquete(c, m) == [cliente |-> c, cable |-> into_serde_message(m), era |-> m]

(* The server answers datagram p with m; p may come again. *)
Contestar(p, m) ==
  \E queda \in BOOLEAN :
    red' = (IF queda THEN red ELSE red \ {p}) \cup {Paquete(p.cliente, m)}

Contesta(p, clase, args) ==
  Contestar(p, Respuesta(p.era.transaction_id, p.cliente, FALSE, clase,
                         Junto([id |-> "servidor"], args)))
Rechaza(p, code) ==
  /\ Contestar(p, Error(p.era.transaction_id, p.cliente, FALSE, code))
  /\ UNCHANGED historia

ConToken(p, args) == Junto([token |-> generate_token(p.cliente), nodes |-> Cercanos], args)

(* A datagram with a request of this class reaches the server.  Bound: the *)
(* copies of a request are handled one at a time, with no answer on its    *)
(* way (an earlier answer has arrived or is lost).                         *)
Llega(p, clase) ==
  /\ \A r \in red : r.cliente = p.cliente => r.cable.y = "q"
  /\ p.cable.y = "q" /\ from_serde_message(p.cable).clase = clase
  /\ RotarSiToca
  /\ UNCHANGED <<servidos, ahora, cli>>
Pide(p) == from_serde_message(p.cable).args

-----------------------------------------------------------------------------
(* Server::handle_request: reads. *)

Ping(p) ==
  /\ Llega(p, "ping")
  /\ Contesta(p, "ping", <<>>)
  /\ UNCHANGED <<almacenes, historia>>

FindNode(p) ==
  /\ Llega(p, "find_node")
  /\ Contesta(p, "find_node", [nodes |-> Cercanos])
  /\ UNCHANGED <<almacenes, historia>>

(* get_random_peers: all of them, or a random part of at most Muestra. *)
Muestras(pares) ==
  IF Len(pares) < Muestra THEN {[i \in DOMAIN pares |-> pares[i][2]]}
  ELSE {SetToSeq({pares[i][2] : i \in S}) :
          S \in {T \in SUBSET (DOMAIN pares) : Cardinality(T) <= Muestra}}

GetPeers(p) ==
  /\ Llega(p, "get_peers")
  /\ LET h == Pide(p).info_hash
     IN /\ info_hashes' = Tocar(info_hashes, h)
        /\ IF h \in Claves(info_hashes)
           THEN \E pares \in Muestras(Valor(info_hashes, h)) :
                  Contesta(p, "get_peers", ConToken(p, [values |-> pares]))
           ELSE Contesta(p, "no_values", ConToken(p, <<>>))
  /\ UNCHANGED <<immutable_values, mutable_values, historia>>

(* A get with a seq, or of a target that is no immutable value. *)
handle_get_mutable(p) ==
  LET t == Pide(p).target
      item == Valor(mutable_values, t)
      conSeq == "seq" \in DOMAIN Pide(p)
  IN /\ mutable_values' = Tocar(mutable_values, t)
     /\ IF t \notin Claves(mutable_values)
        THEN Contesta(p, "no_values", ConToken(p, <<>>))
        ELSE IF conSeq /\ item.seq <= Pide(p).seq
        THEN Contesta(p, "no_more_recent_value", ConToken(p, [seq |-> item.seq]))
        ELSE Contesta(p, "get_mutable",
               ConToken(p, [v |-> item.v, k |-> item.k, seq |-> item.seq, sig |-> item.sig]))

GetValue(p) ==
  /\ Llega(p, "get_value")
  /\ LET t == Pide(p).target
     IN IF "seq" \notin DOMAIN Pide(p) /\ t \in Claves(immutable_values)
        THEN /\ immutable_values' = Tocar(immutable_values, t)
             /\ Contesta(p, "get_immutable", ConToken(p, [v |-> Valor(immutable_values, t)]))
             /\ UNCHANGED mutable_values
        ELSE handle_get_mutable(p) /\ UNCHANGED immutable_values
  /\ UNCHANGED <<info_hashes, historia>>

-----------------------------------------------------------------------------
(* Server::handle_request: writes.  The request is checked in this order.  *)

(* PeersStore::add_peer: one address per peer, the announced hash first. *)
AnnouncePeer(p) ==
  /\ Llega(p, "announce_peer")
  /\ LET a == Pide(p)
         h == a.info_hash
         par == IF a.implied_port THEN [de |-> p.cliente, puerto |-> "origen"]
                ELSE [de |-> p.cliente, puerto |-> a.port]
         antes == IF h \in Claves(info_hashes) THEN Valor(info_hashes, h) ELSE <<>>
     IN IF ~validate(p.cliente, a.token)
        THEN Rechaza(p, 203) /\ UNCHANGED info_hashes
        ELSE /\ info_hashes' =
                  Meter(info_hashes, h, Meter(antes, a.id, par, MAX_PEERS), MAX_INFO_HASHES)
             /\ Contesta(p, "ping", <<>>)
             /\ UNCHANGED historia
  /\ UNCHANGED <<immutable_values, mutable_values>>

PutImmutable(p) ==
  /\ Llega(p, "put_immutable")
  /\ LET a == Pide(p)
         no == IF ~validate(p.cliente, a.token) THEN 203
               ELSE IF a.v \in ValoresGrandes THEN 205
               ELSE IF hash_immutable(a.v) # a.target THEN 203
               ELSE 0
     IN IF no # 0 THEN Rechaza(p, no) /\ UNCHANGED immutable_values
        ELSE /\ immutable_values' = Meter(immutable_values, a.target, a.v, MAX_VALUES)
             /\ Contesta(p, "ping", <<>>)
             /\ UNCHANGED historia
  /\ UNCHANGED <<info_hashes, mutable_values>>

(* Mutant: the sequence number is not compared. *)
ConflictoSoloCas(a) ==
  IF a.target \notin Claves(mutable_values) THEN 0
  ELSE IF "cas" \in DOMAIN a /\ Valor(mutable_values, a.target).seq # a.cas THEN 301 ELSE 0

(* Mutant: cas is not compared. *)
ConflictoSoloSeq(a) ==
  IF a.target \notin Claves(mutable_values) THEN 0
  ELSE IF a.seq < Valor(mutable_values, a.target).seq THEN 302 ELSE 0

(* The two tests against the item that is there. *)
Conflicto(a) ==
  IF a.target \notin Claves(mutable_values) THEN 0
  ELSE LET hay == Valor(mutable_values, a.target)
       IN IF "cas" \in DOMAIN a /\ hay.seq # a.cas THEN 301
          ELSE IF a.seq < hay.seq THEN 302
          ELSE 0

(* MutableItem::from_dht_message *)
Firmado(a) == a.sig = <<a.k, a.seq, a.v, Sal(a)>>
Item(a) == [k |-> a.k, v |-> a.v, seq |-> a.seq, sig |-> a.sig]

PutMutable(p) ==
  /\ Llega(p, "put_mutable")
  /\ LET a == Pide(p)
         no == IF ~validate(p.cliente, a.token) THEN 203
               ELSE IF \E w \in a.v : w[1] \in Gordos THEN 205
               ELSE IF Sal(a) \in SalesGrandes THEN 207
               ELSE IF Conflicto(a) # 0 THEN Conflicto(a)
               ELSE IF ~Firmado(a) THEN 206
               ELSE 0
         nuevos == Meter(mutable_values, a.target, Item(a), MAX_VALUES)
     IN IF no # 0
        THEN /\ Rechaza(p, no)
             /\ mutable_values' =
                  IF no \in {301, 302, 206} THEN Tocar(mutable_values, a.target) ELSE mutable_values
        ELSE /\ mutable_values' = nuevos
             /\ desalojados' = desalojados \cup (Claves(mutable_values) \ Claves(nuevos))
             /\ confirmados' =
                  {w \in confirmados \cup
                        (IF "cas" \in DOMAIN a THEN {<<a.target, <<p.cliente, a.seq>>>>} ELSE {}) :
                     w[1] \notin desalojados'}
             /\ Contesta(p, "ping", <<>>)
  /\ UNCHANGED <<info_hashes, immutable_values>>

-----------------------------------------------------------------------------
(* The clients: a node of the crate that asks this server. *)

(* Bound: one request for each client, and no other one than a put of a    *)
(* mutable item under way when it is sent.                                 *)
Libre(c) == \A p \in red : p.cliente # c /\ p.era.clase = "put_mutable"

Enviar(c, clase, tid, args) ==
  /\ clase \in servidos[c]
  /\ Libre(c)
  /\ red' = red \cup {Paquete(c, Peticion(tid, TRUE, clase, Junto([id |-> c], args)))}
  /\ UNCHANGED <<servidos, ahora, curr_secret, prev_secret, last_updated, almacenes, historia>>

(* Lookups.  The transaction of a get is known by its target. *)
EnviarLectura(c) ==
  /\ \/ Enviar(c, "ping", Nada, <<>>)
     \/ Enviar(c, "find_node", Nada, [target |-> c])
     \/ \E h \in Hashes : Enviar(c, "get_peers", h, [info_hash |-> h])
     \/ \E v \in Valores :
          Enviar(c, "get_value", hash_immutable(v), [target |-> hash_immutable(v)])
     \/ \E sal \in Sales \cap servidos[c], conSeq \in BOOLEAN :
          LET t == target_from_key(sal)
              leido == cli[c].leido
          IN /\ conSeq => leido # Nada /\ leido.target = t
             /\ Enviar(c, "get_value", t,
                  Junto([target |-> t],
                        Junto(IF sal = Nada THEN <<>> ELSE [salt |-> sal],
                              IF conSeq THEN [seq |-> leido.seq] ELSE <<>>)))
  /\ UNCHANGED cli

(* PutQuery::start with the token of the last answer. *)
EnviarAnuncio(c) ==
  \E h \in Hashes, implied \in BOOLEAN :
    /\ cli[c].token # Nada
    /\ UNCHANGED cli
    /\ Enviar(c, "announce_peer", h,
         Junto([info_hash |-> h, token |-> cli[c].token],
               IF implied THEN [port |-> "cero", implied_port |-> TRUE] ELSE [port |-> "propio"]))

EnviarInmutable(c) ==
  \E v \in Valores :
    /\ cli[c].token # Nada
    /\ UNCHANGED cli
    /\ Enviar(c, "put_immutable", hash_immutable(v),
         [target |-> hash_immutable(v), v |-> v, token |-> cli[c].token])

(* Read, modify, write: a new item without cas where nothing was read, or  *)
(* the next seq with the seq that was read as cas.  What was read is used  *)
(* once.                                                                   *)
EnviarMutable(c) ==
  \E sal \in Sales \cap servidos[c] :
    LET t == target_from_key(sal)
        leido == cli[c].leido
        hay == leido # Nada /\ leido.target = t
        seq == IF hay THEN leido.seq + 1 ELSE 1
        v == (IF hay THEN leido.v ELSE {}) \cup {<<c, seq>>}
    IN /\ cli[c].token # Nada
       /\ seq <= TopeSeq[servidos]
       /\ cli' = [cli EXCEPT ![c].leido = Nada]
       /\ Enviar(c, "put_mutable", t,
            Junto([target |-> t, v |-> v, k |-> "clave", seq |-> seq, token |-> cli[c].token,
                   sig |-> <<"clave", seq, v, sal>>],
                  Junto(IF sal = Nada THEN <<>> ELSE [salt |-> sal],
                        IF hay THEN [cas |-> leido.seq] ELSE <<>>)))

(* An answer reaches its client. *)
RecibeRespuesta(p) ==
  /\ p.cable.y # "q"
  /\ red' = red \ {p}
  /\ LET m == from_serde_message(p.cable)
         c == p.cliente
         trae == get_token(m)
         lee == m.clase = "get_mutable"
     IN cli' = [cli EXCEPT ![c] =
          [token |-> IF trae = <<>> THEN @.token ELSE trae[1].token,
           visto |-> IF trae = <<>> THEN @.visto ELSE ahora,
           leido |-> IF lee THEN [target |-> m.transaction_id, seq |-> m.args.seq, v |-> m.args.v]
                     ELSE @.leido]]
  /\ UNCHANGED <<servidos, ahora, curr_secret, prev_secret, last_updated, almacenes, historia>>

(* The network loses a datagram. *)
Perder(p) ==
  /\ red' = red \ {p}
  /\ UNCHANGED <<servidos, ahora, curr_secret, prev_secret, last_updated, almacenes, cli, historia>>

(* 5 minutes pass: nothing is in flight any more. *)
Pasa ==
  /\ ahora < TopeTiempo
  /\ ahora' = ahora + 1
  /\ red' = {}
  /\ UNCHANGED <<servidos, curr_secret, prev_secret, last_updated, almacenes, cli, historia>>

handle_request(p) ==
  \/ Ping(p) \/ FindNode(p) \/ GetPeers(p) \/ GetValue(p)
  \/ AnnouncePeer(p) \/ PutImmutable(p) \/ PutMutable(p)

Next ==
  \/ \E p \in red : handle_request(p) \/ RecibeRespuesta(p) \/ Perder(p)
  \/ \E c \in Clientes :
       EnviarLectura(c) \/ EnviarAnuncio(c) \/ EnviarInmutable(c) \/ EnviarMutable(c)
  \/ Pasa

Spec == Init /\ [][Next]_servVars

-----------------------------------------------------------------------------
(* Properties. *)

(* Types, and the bounds of the stores (MAX_INFO_HASHES, MAX_PEERS,        *)
(* MAX_VALUES) with one entry for each key.                                *)
TypeOK ==
  /\ ahora \in 0 .. TopeTiempo
  /\ prev_secret < curr_secret
  /\ last_updated \in 0 .. ahora
  /\ Claves(info_hashes) \subseteq Hashes
  /\ Len(info_hashes) = Cardinality(Claves(info_hashes))
  /\ Len(info_hashes) <= MAX_INFO_HASHES
  /\ \A i \in DOMAIN info_hashes :
       /\ Claves(info_hashes[i][2]) \subseteq Clientes
       /\ Len(info_hashes[i][2]) = Cardinality(Claves(info_hashes[i][2]))
       /\ Len(info_hashes[i][2]) <= MAX_PEERS
  /\ \A i \in DOMAIN immutable_values :
       immutable_values[i] \in {<<hash_immutable(v), v>> : v \in Valores \ ValoresGrandes}
  /\ Len(immutable_values) <= MAX_VALUES
  /\ Claves(mutable_values) \subseteq {target_from_key(s) : s \in Sales \ SalesGrandes}
  /\ Len(mutable_values) = Cardinality(Claves(mutable_values))
  /\ Len(mutable_values) <= MAX_VALUES

(* What travels is understood as it was meant (messages.rs and the order   *)
(* of the untagged variants of internal.rs), requests and answers alike.   *)
IdaYVuelta == \A p \in red : from_serde_message(p.cable) = Sentido(p.era)

(* A write with cas that was accepted is in its item from then on, as long *)
(* as the item never had to go, whatever the other writers, repeated       *)
(* datagrams and late ones do.                                             *)
ConfirmadoPerdura ==
  \A w \in confirmados :
    w[1] \in Claves(mutable_values) /\ w[2] \in Valor(mutable_values, w[1]).v

(* The seq of an item never goes back while the item is kept. *)
SeqNoRetrocede ==
  [][\A t \in Claves(mutable_values) \cap Claves(mutable_values') :
       Valor(mutable_values, t).seq <= Valor(mutable_values', t).seq]_servVars

(* A token the client holds valid (Node::valid_token: at most              *)
(* TOKEN_ROTATE_INTERVAL old) would be accepted now: the lazy rotation of  *)
(* the server never outruns the clock of the client.                       *)
TokenFrescoSirve ==
  \A c \in Clientes :
    (cli[c].token # Nada /\ ahora - cli[c].visto <= TOKEN_ROTATE_INTERVAL) =>
      cli[c].token.secreto >= IF should_update THEN curr_secret ELSE prev_secret
=============================================================================
