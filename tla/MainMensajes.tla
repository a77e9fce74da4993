---------------------------- MODULE MainMensajes ----------------------------
(***************************************************************************)
(* KRPC messages of the mainline crate (common/messages.rs) and the        *)
(* dictionaries they travel as (common/messages/internal.rs).              *)
(*                                                                         *)
(* A message is [transaction_id, requester_ip, read_only, tipo, clase,     *)
(* args]; an argument that is None is absent from DOMAIN args.  On the     *)
(* wire there is no class for an answer: the decoder tries the variants in *)
(* order and takes the first whose fields are all there.                   *)
(***************************************************************************)
EXTENDS Naturals, Sequences, FiniteSets, TLC

(* f @@ g, written out: the proofs open it. *)
Junto(f, g) == [x \in DOMAIN f \cup DOMAIN g |-> IF x \in DOMAIN f THEN f[x] ELSE g[x]]

SinCampos(args, fuera) == [f \in DOMAIN args \ fuera |-> args[f]]
SoloCampos(args, quedan) == [f \in DOMAIN args \cap quedan |-> args[f]]

Peticion(tid, ro, clase, args) ==
  [transaction_id |-> tid, requester_ip |-> <<>>, read_only |-> ro,
   tipo |-> "q", clase |-> clase, args |-> args]

Respuesta(tid, ip, ro, clase, args) ==
  [transaction_id |-> tid, requester_ip |-> <<ip>>, read_only |-> ro,
   tipo |-> "r", clase |-> clase, args |-> args]

Error(tid, ip, ro, code) ==
  [transaction_id |-> tid, requester_ip |-> <<ip>>, read_only |-> ro,
   tipo |-> "e", clase |-> "error", args |-> [code |-> code]]

-----------------------------------------------------------------------------
(* Nodes travel as id and address: the token and last_seen stay at home. *)

nodes4_to_bytes(nodes) == [i \in DOMAIN nodes |-> [id |-> nodes[i].id, dir |-> nodes[i].dir]]

ConNodos(args) ==
  IF "nodes" \in DOMAIN args THEN [args EXCEPT !.nodes = nodes4_to_bytes(@)] ELSE args

(* The wire name of a request. *)
Verbo(clase) ==
  CASE clase \in {"put_immutable", "put_mutable"} -> "put"
    [] clase = "get_value" -> "get"
    [] OTHER -> clase

(* The salt of a get stays home; implied_port is sent as a number whether *)
(* or not there is one.                                                    *)
CodificarPeticion(m) ==
  CASE m.clase = "get_value" -> SinCampos(m.args, {"salt"})
    [] m.clase = "announce_peer" ->
         Junto([implied_port |-> IF "implied_port" \in DOMAIN m.args THEN 1 ELSE 0],
               SinCampos(m.args, {"implied_port"}))
    [] OTHER -> m.args

CodificarRespuesta(m) == ConNodos(m.args)

into_serde_message(m) ==
  [t |-> m.transaction_id, ip |-> m.requester_ip,
   ro |-> IF m.read_only THEN 1 ELSE 0, y |-> m.tipo,
   q |-> IF m.tipo = "q" THEN Verbo(m.clase) ELSE "",
   cuerpo |-> CASE m.tipo = "q" -> CodificarPeticion(m)
                [] m.tipo = "r" -> CodificarRespuesta(m)
                [] m.tipo = "e" -> m.args]

-----------------------------------------------------------------------------

(* The untagged variants of an answer: class and required fields. *)
Variantes ==
  << <<"get_mutable", {"id", "token", "v", "k", "seq", "sig"}>>,
     <<"no_more_recent_value", {"id", "token", "seq"}>>,
     <<"get_immutable", {"id", "token", "v"}>>,
     <<"get_peers", {"id", "token", "values"}>>,
     <<"no_values", {"id", "token"}>>,
     <<"find_node", {"id", "nodes"}>>,
     <<"ping", {"id"}>> >>

(* Mutant: the first variant that fits is the least detailed one. *)
ElegirAlReves(campos) ==
  Variantes[CHOOSE i \in DOMAIN Variantes :
    /\ Variantes[i][2] \subseteq campos
    /\ \A j \in DOMAIN Variantes : Variantes[j][2] \subseteq campos => j <= i]

Elegir(campos) ==
  Variantes[CHOOSE i \in DOMAIN Variantes :
    /\ Variantes[i][2] \subseteq campos
    /\ \A j \in DOMAIN Variantes : Variantes[j][2] \subseteq campos => i <= j]

ClaseDePeticion(w) ==
  CASE w.q = "put" -> IF "k" \in DOMAIN w.cuerpo THEN "put_mutable" ELSE "put_immutable"
    [] w.q = "get" -> "get_value"
    [] OTHER -> w.q

DecodificarPeticion(w) ==
  CASE w.q = "announce_peer" -> [w.cuerpo EXCEPT !.implied_port = @ # 0]
    [] w.q = "put" /\ "k" \notin DOMAIN w.cuerpo ->
         SoloCampos(w.cuerpo, {"id", "token", "target", "v"})
    [] OTHER -> w.cuerpo

from_serde_message(w) ==
  LET variante == Elegir(DOMAIN w.cuerpo)
  IN [transaction_id |-> w.t, requester_ip |-> w.ip, read_only |-> w.ro > 0,
      tipo |-> w.y,
      clase |-> CASE w.y = "q" -> ClaseDePeticion(w)
                  [] w.y = "r" -> variante[1]
                  [] w.y = "e" -> "error",
      args |-> CASE w.y = "q" -> DecodificarPeticion(w)
                 [] w.y = "r" -> SoloCampos(w.cuerpo, variante[2] \cup {"nodes"})
                 [] w.y = "e" -> w.cuerpo]

(* What a message means to its receiver: no salt in a get, nodes without   *)
(* token, and implied_port only counts when it is true.                    *)
Sentido(m) ==
  [m EXCEPT !.args =
    CASE m.clase = "get_value" -> SinCampos(@, {"salt"})
      [] m.clase = "announce_peer" ->
           Junto([implied_port |-> "implied_port" \in DOMAIN @ /\ @.implied_port],
                 SinCampos(@, {"implied_port"}))
      [] OTHER -> ConNodos(@)]

-----------------------------------------------------------------------------
(* What a lookup takes out of an answer. *)

get_author_id(m) == IF m.tipo = "e" THEN <<>> ELSE <<m.args.id>>

get_closer_nodes(m) ==
  IF m.tipo = "r" /\ "nodes" \in DOMAIN m.args THEN <<m.args.nodes>> ELSE <<>>

get_token(m) ==
  IF m.tipo = "r" /\ m.clase \notin {"ping", "find_node"}
  THEN <<[id |-> m.args.id, token |-> m.args.token]>> ELSE <<>>
=============================================================================
