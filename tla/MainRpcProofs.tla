--------------------------- MODULE MainRpcProofs ---------------------------
(***************************************************************************)
(* Proofs about the client half of a node, for any callers, requests,      *)
(* nodes, answers and limits: SinHuerfanos and OkRespaldado.               *)
(*                                                                         *)
(* InvRpc adds to them what they rest on: who is kept as a sender, and for *)
(* which target; that the put in flight for a target stands for the item   *)
(* of every caller that waits for it; that a put query waits only for      *)
(* answers to its own request, and has counted one only if a node sent it; *)
(* and that what is in flight was asked for a target.  Most lemmas say     *)
(* what one operation of Rpc leaves of that; a turn of the actor composes  *)
(* them in the order of run.                                               *)
(***************************************************************************)
EXTENDS MainRpc, SequenceTheorems, TLAPS

(* A request, and the item one of its target that was acknowledged stands  *)
(* for.                                                                    *)
Cubre(a, req) == a.item = req.item \/ (a.cas # Nada /\ a.item.seq >= req.item.seq)
Respaldada(req, ac) ==
  req.clase = "mutable" => \E a \in ac : a.target = req.target /\ Cubre(a, req)

Completa(l) == l = [req |-> l.req, estado |-> l.estado, item |-> l.item, res |-> l.res]
Pedida(m, ll) ==
  /\ DOMAIN ll = Llamantes
  /\ \A c \in Llamantes : Completa(ll[c]) /\ (ll[c].estado # "libre" => ll[c].req \in m[c])

EsRpc(r) ==
  r = [iterative_queries |-> r.iterative_queries, put_queries |-> r.put_queries,
       cached |-> r.cached, inflight |-> r.inflight, tabla |-> r.tabla]

(* A lookup is for a target, and so are its requests.  Salen: the requests *)
(* sent between r and v are of puts, or of lookups of ts.                  *)
Apuntada(r) ==
  /\ DOMAIN r.iterative_queries \subseteq Objetivos
  /\ \A tid \in r.inflight : tid[1] = "put" \/ tid[2] \in Objetivos
Salen(r, v, ts) ==
  \A tid \in v.inflight : tid \in r.inflight \/ tid[1] = "put" \/ tid[2] \in ts

(* A put in flight is some caller's, waits for answers to its own request, *)
(* and counts one only when a node has acknowledged it.                    *)
PutSano(m, q, t, ac) ==
  /\ q = [req |-> q.req, inflight_requests |-> q.inflight_requests,
          stored_at |-> q.stored_at, errors |-> q.errors]
  /\ q.req.op = "put" /\ q.req.target = t /\ \E d \in Llamantes : q.req \in m[d]
  /\ \A tid \in q.inflight_requests : tid[2] = q.req
  /\ q.stored_at # 0 => q.req \in ac
PutsSanos(m, r, ac) ==
  \A t \in DOMAIN r.put_queries : PutSano(m, r.put_queries[t], t, ac)

(* A sender is kept for the target its caller asked about, whose query     *)
(* lives; the put in flight stands for every mutable item waited for.      *)
Remitentes(r, gs, ps, ll) ==
  /\ DOMAIN gs = Objetivos /\ DOMAIN ps = Objetivos
  /\ \A t \in Objetivos : \A c \in gs[t] :
       /\ c \in Llamantes /\ ll[c].estado # "libre" /\ ll[c].req.target = t
       /\ t \in DOMAIN r.iterative_queries
  /\ \A t \in Objetivos : \A c \in ps[t] :
       /\ c \in Llamantes /\ ll[c].estado # "libre"
       /\ ll[c].req.target = t /\ ll[c].req.op = "put"
       /\ t \in DOMAIN r.put_queries
       /\ ll[c].req.clase = "mutable" => Cubre(r.put_queries[t].req, ll[c].req)
EnEspera(gs, ps, ll) ==
  \A c \in Llamantes :
    ll[c].estado = "espera" => c \in gs[ll[c].req.target] \cup ps[ll[c].req.target]
Respaldo(ll, ac) == \A c \in Llamantes : ll[c].res = "Ok" => Respaldada(ll[c].req, ac)

Sano(m, r, gs, ps, ll, ac) ==
  /\ EsRpc(r) /\ Apuntada(r) /\ Pedida(m, ll) /\ PutsSanos(m, r, ac)
  /\ Remitentes(r, gs, ps, ll) /\ EnEspera(gs, ps, ll) /\ Respaldo(ll, ac)

EnBuzon(b, ll) ==
  /\ \A i \in DOMAIN b : ll[b[i]].estado # "libre"
  /\ \A c \in Llamantes : ll[c].estado = "buzon" => \E i \in DOMAIN b : b[i] = c

InvRpc ==
  /\ menu \in Menus /\ buzon \in Seq(Llamantes)
  /\ EnBuzon(buzon, llamadas)
  /\ Sano(menu, rpc, get_senders, put_senders, llamadas, acuses)

(* The initial states: nothing asked, nothing in flight. *)
LEMMA RpcInicial == Init => InvRpc
<1> SUFFICES ASSUME Init
             PROVE  InvRpc
  OBVIOUS
<1>1. PICK l : l = [req |-> Nada, estado |-> "libre", item |-> Nada, res |-> Nada]
  OBVIOUS
<1>2. Completa(l) /\ l.estado = "libre" /\ l.res = Nada
  BY <1>1 DEF Completa
<1>3. llamadas = [c \in Llamantes |-> l]
  BY <1>1 DEF Init
<1>4. Nada # "Ok"
  BY SupuestoRpc
<1>5. rpc.put_queries = <<>> /\ EsRpc(rpc) /\ Apuntada(rpc)
  BY DEF Init, EsRpc, Apuntada
<1>6. PutsSanos(menu, rpc, acuses)
  BY <1>5 DEF PutsSanos
<1>7. Pedida(menu, llamadas) /\ EnEspera(get_senders, put_senders, llamadas) /\ Respaldo(llamadas, acuses)
  BY <1>2, <1>3, <1>4 DEF Pedida, EnEspera, Respaldo
<1>8. Remitentes(rpc, get_senders, put_senders, llamadas)
  BY DEF Init, Remitentes
<1>9. buzon \in Seq(Llamantes) /\ EnBuzon(buzon, llamadas)
  BY <1>2, <1>3 DEF Init, EnBuzon
<1> QED
  BY <1>5, <1>6, <1>7, <1>8, <1>9 DEF Init, InvRpc, Sano

(* The invariant gives the two properties. *)
LEMMA RpcBasta ==
  ASSUME InvRpc
  PROVE  SinHuerfanos /\ OkRespaldado
<1>1. /\ EnBuzon(buzon, llamadas) /\ EnEspera(get_senders, put_senders, llamadas)
      /\ Remitentes(rpc, get_senders, put_senders, llamadas) /\ Respaldo(llamadas, acuses)
  BY DEF InvRpc, Sano
<1>2. SinHuerfanos
  BY <1>1 DEF SinHuerfanos, EnBuzon, EnEspera, Remitentes, Range
<1>3. OkRespaldado
  BY <1>1 DEF OkRespaldado, Respaldo, Respaldada, Cubre
<1> QED
  BY <1>2, <1>3

-----------------------------------------------------------------------------
(* How a call goes on: it keeps its request, may end, and is told Ok only  *)
(* with a node's word.                                                     *)

Avanza(l, n, ac) ==
  /\ Completa(n) /\ n.req = l.req
  /\ n.estado = l.estado \/ (l.estado # "libre" /\ n.estado = "fin")
  /\ n.res = "Ok" => l.res = "Ok" \/ Respaldada(l.req, ac)

Avanzan(ll, nn, ac) ==
  DOMAIN nn = Llamantes /\ \A c \in Llamantes : Avanza(ll[c], nn[c], ac)

(* Two steps of the calls make one. *)
LEMMA AvanzanJuntas ==
  ASSUME NEW ll, NEW nn, NEW oo, NEW ac, Avanzan(ll, nn, ac), Avanzan(nn, oo, ac)
  PROVE  Avanzan(ll, oo, ac)
BY DEF Avanzan, Avanza

(* Calls that go on keep their requests and their proof of Ok. *)
LEMMA AvanzanBien ==
  ASSUME NEW m, NEW ll, NEW nn, NEW ac, Pedida(m, ll), Respaldo(ll, ac), Avanzan(ll, nn, ac)
  PROVE  Pedida(m, nn) /\ Respaldo(nn, ac)
BY DEF Avanzan, Avanza, Pedida, Respaldo

(* A call that does not change goes on. *)
LEMMA Igual ==
  ASSUME NEW m, NEW ll, NEW ac, Pedida(m, ll)
  PROVE  Avanzan(ll, ll, ac)
BY DEF Avanzan, Avanza, Pedida

(* The record of a call after an EXCEPT of some of its fields. *)
LEMMA ConEstado ==
  ASSUME NEW l, Completa(l), NEW e
  PROVE  [l EXCEPT !.estado = e] = [req |-> l.req, estado |-> e, item |-> l.item, res |-> l.res]
<1>1. PICK a, b, c, d : a = l.req /\ b = l.estado /\ c = l.item /\ d = l.res
  OBVIOUS
<1>2. l = [req |-> a, estado |-> b, item |-> c, res |-> d]
  BY <1>1 DEF Completa
<1> QED
  BY <1>1, <1>2

LEMMA ConItem ==
  ASSUME NEW l, Completa(l), NEW i
  PROVE  [l EXCEPT !.item = i] = [req |-> l.req, estado |-> l.estado, item |-> i, res |-> l.res]
<1>1. PICK a, b, c, d : a = l.req /\ b = l.estado /\ c = l.item /\ d = l.res
  OBVIOUS
<1>2. l = [req |-> a, estado |-> b, item |-> c, res |-> d]
  BY <1>1 DEF Completa
<1> QED
  BY <1>1, <1>2

LEMMA ConFin ==
  ASSUME NEW l, Completa(l), NEW e, NEW x, NEW n, n = [l EXCEPT !.estado = e, !.res = x]
  PROVE  n = [req |-> l.req, estado |-> e, item |-> l.item, res |-> x]
<1>1. PICK a, b, c, d : a = l.req /\ b = l.estado /\ c = l.item /\ d = l.res
  OBVIOUS
<1>2. l = [req |-> a, estado |-> b, item |-> c, res |-> d]
  BY <1>1 DEF Completa
<1>3. PICK o : o = [l EXCEPT !.estado = e]
  OBVIOUS
<1>4. o = [req |-> a, estado |-> e, item |-> c, res |-> d]
  BY <1>2, <1>3
<1>5. n = [o EXCEPT !.res = x]
  BY <1>3
<1> QED
  BY <1>1, <1>4, <1>5

LEMMA ConValor ==
  ASSUME NEW l, Completa(l), NEW e, NEW x, NEW i, NEW n,
         n = [l EXCEPT !.estado = e, !.res = x, !.item = i]
  PROVE  n = [req |-> l.req, estado |-> e, item |-> i, res |-> x]
<1>1. PICK o : o = [l EXCEPT !.estado = e, !.res = x]
  OBVIOUS
<1>2. o = [req |-> l.req, estado |-> e, item |-> l.item, res |-> x]
  BY <1>1, ConFin
<1>3. n = [o EXCEPT !.item = i]
  BY <1>1
<1> QED
  BY <1>2, <1>3

(* The calls that end all at once, with an error or a plain result. *)
LEMMA TerminanAvanza ==
  ASSUME NEW m, NEW ll, Pedida(m, ll), NEW quienes, NEW res, res # "Ok", NEW ac
  PROVE  LET nn == Terminan(ll, quienes, res)
         IN /\ Avanzan(ll, nn, ac)
            /\ \A c \in Llamantes \cap quienes : nn[c].estado # "espera"
<1>1. ASSUME NEW c \in Llamantes
      PROVE  /\ Avanza(ll[c], Terminan(ll, quienes, res)[c], ac)
             /\ c \in quienes => Terminan(ll, quienes, res)[c].estado # "espera"
  <2>1. Completa(ll[c])
    BY DEF Pedida
  <2>2. PICK n : n = [ll[c] EXCEPT !.estado = "fin", !.res = res]
    OBVIOUS
  <2>3. Completa(n) /\ n.req = ll[c].req /\ n.estado = "fin" /\ n.res = res
    <3>1. n = [req |-> ll[c].req, estado |-> "fin", item |-> ll[c].item, res |-> res]
      BY <2>1, <2>2, ConFin
    <3> QED
      BY <3>1 DEF Completa
  <2>4. Terminan(ll, quienes, res)[c] =
          IF c \in quienes /\ ll[c].estado = "espera" THEN n ELSE ll[c]
    BY <2>2 DEF Terminan
  <2> QED
    BY <2>1, <2>3, <2>4 DEF Avanza
<1>2. DOMAIN Terminan(ll, quienes, res) = Llamantes
  BY DEF Terminan
<1> QED
  BY <1>1, <1>2 DEF Avanzan

(* A value handed to waiting callers. *)
LEMMA ConValoresAvanza ==
  ASSUME NEW m, NEW ll, Pedida(m, ll), NEW quienes, NEW vs, NEW ac,
         \A c \in Llamantes \cap quienes : ll[c].estado # "libre"
  PROVE  Avanzan(ll, ConValores(ll, quienes, vs), ac)
<1>1. ASSUME NEW c \in Llamantes
      PROVE  Avanza(ll[c], ConValores(ll, quienes, vs)[c], ac)
  <2>1. Completa(ll[c])
    BY DEF Pedida
  <2>2. PICK suyos : suyos = {v \in vs : v.tipo = ll[c].req.quiere}
    OBVIOUS
  <2>3. PICK i1, i2 : /\ i1 = (CHOOSE v \in suyos : TRUE).item
                      /\ i2 = Juntados(ll[c].item, {v.item : v \in suyos})
    OBVIOUS
  <2>4. PICK n : n = [ll[c] EXCEPT !.estado = "fin", !.res = "valor", !.item = i1]
    OBVIOUS
  <2>5. PICK o : o = [ll[c] EXCEPT !.item = i2]
    OBVIOUS
  <2>6. /\ Completa(n) /\ n.req = ll[c].req /\ n.estado = "fin" /\ n.res = "valor"
        /\ Completa(o) /\ o.req = ll[c].req /\ o.estado = ll[c].estado /\ o.res = ll[c].res
    <3>1. n = [req |-> ll[c].req, estado |-> "fin", item |-> i1, res |-> "valor"]
      BY <2>1, <2>4, ConValor
    <3>2. o = [req |-> ll[c].req, estado |-> ll[c].estado, item |-> i2, res |-> ll[c].res]
      BY <2>1, <2>5, ConItem
    <3> QED
      BY <3>1, <3>2 DEF Completa
  <2>7. ConValores(ll, quienes, vs)[c] =
          IF c \notin quienes \/ suyos = {} THEN ll[c]
          ELSE CASE ll[c].req.quiere = "immutable" -> n
                 [] ll[c].req.quiere = "mutable" -> o
                 [] OTHER -> ll[c]
    BY <2>2, <2>3, <2>4, <2>5 DEF ConValores
  <2>8. \/ ConValores(ll, quienes, vs)[c] = ll[c]
        \/ ConValores(ll, quienes, vs)[c] = o
        \/ c \in quienes /\ ConValores(ll, quienes, vs)[c] = n
    BY <2>7
  <2> QED
    BY <2>1, <2>6, <2>8 DEF Avanza
<1>2. DOMAIN ConValores(ll, quienes, vs) = Llamantes
  BY DEF ConValores
<1> QED
  BY <1>1, <1>2 DEF Avanzan

-----------------------------------------------------------------------------
(* What each operation of Rpc does to the lookups and to the puts in       *)
(* flight.                                                                 *)

(* The record of rpc is whole after an EXCEPT of any of its fields. *)
LEMMA VisitEs ==
  ASSUME NEW r, EsRpc(r), NEW t, NEW nodos
  PROVE  LET v == visit(r, t, nodos)
         IN /\ EsRpc(v) /\ v.put_queries = r.put_queries /\ Salen(r, v, {t})
            /\ DOMAIN v.iterative_queries = DOMAIN r.iterative_queries
<1>1. PICK iq, pq, ca, fl, ta : /\ r = [iterative_queries |-> iq, put_queries |-> pq, cached |-> ca,
                                        inflight |-> fl, tabla |-> ta]
                                /\ iq = r.iterative_queries /\ pq = r.put_queries
                                /\ fl = r.inflight
  BY DEF EsRpc
<1>2. PICK vis : vis = [r EXCEPT !.iterative_queries[t].visited = @ \cup nodos]
  OBVIOUS
<1>3. PICK iq2 : iq2 = [iq EXCEPT ![t].visited = @ \cup nodos]
  OBVIOUS
<1>4. DOMAIN iq2 = DOMAIN iq
  BY <1>3
<1>5. vis = [iterative_queries |-> iq2, put_queries |-> pq, cached |-> ca, inflight |-> fl, tabla |-> ta]
  BY <1>1, <1>2, <1>3
<1>6. PICK v : v = visit(r, t, nodos)
  OBVIOUS
<1>7. v = [vis EXCEPT !.inflight = @ \cup Pedidos(t, nodos)]
  BY <1>2, <1>6 DEF visit
<1>8. v = [iterative_queries |-> iq2, put_queries |-> pq, cached |-> ca,
           inflight |-> fl \cup Pedidos(t, nodos), tabla |-> ta]
  BY <1>5, <1>7
<1>9. EsRpc(v) /\ v.put_queries = pq /\ v.iterative_queries = iq2
      /\ v.inflight = fl \cup Pedidos(t, nodos)
  BY <1>8 DEF EsRpc
<1>10. Salen(r, v, {t})
  BY <1>1, <1>9 DEF Salen, Pedidos
<1> QED
  BY <1>1, <1>4, <1>6, <1>9, <1>10

(* Rpc::get starts a lookup, or joins the one in flight. *)
Buscado(r, g, t) ==
  /\ EsRpc(g) /\ g.put_queries = r.put_queries /\ Salen(r, g, {t})
  /\ DOMAIN g.iterative_queries = DOMAIN r.iterative_queries \cup {t}

LEMMA GetEs ==
  ASSUME NEW r, EsRpc(r), NEW clase, NEW t
  PROVE  Buscado(r, get(r, clase, t), t)
<1>1. CASE t \in Activas(r)
  BY <1>1 DEF get, Activas, Salen, Buscado
<1>2. CASE t \notin Activas(r)
  <2>1. PICK semillas, nueva : get(r, clase, t) =
          visit_closest(
            visit([r EXCEPT !.iterative_queries = Con(@, t, nueva), !.cached = Tocar(@, t)],
                  t, semillas), t)
    BY <1>2 DEF get
  <2>2. PICK a : a = [r EXCEPT !.iterative_queries = Con(@, t, nueva), !.cached = Tocar(@, t)]
    OBVIOUS
  <2>3. PICK iq, pq, ca, fl, ta : /\ r = [iterative_queries |-> iq, put_queries |-> pq, cached |-> ca,
                                          inflight |-> fl, tabla |-> ta]
                                  /\ iq = r.iterative_queries /\ pq = r.put_queries
                                  /\ fl = r.inflight
    BY DEF EsRpc
  <2>4. PICK iq2, ca2 : iq2 = Con(iq, t, nueva) /\ ca2 = Tocar(ca, t)
    OBVIOUS
  <2>5. PICK b : b = [r EXCEPT !.iterative_queries = Con(@, t, nueva)]
    OBVIOUS
  <2>6. b = [iterative_queries |-> iq2, put_queries |-> pq, cached |-> ca, inflight |-> fl, tabla |-> ta]
    BY <2>3, <2>4, <2>5
  <2>7. a = [b EXCEPT !.cached = Tocar(@, t)]
    BY <2>2, <2>3, <2>5
  <2>8. a = [iterative_queries |-> iq2, put_queries |-> pq, cached |-> ca2, inflight |-> fl, tabla |-> ta]
    BY <2>4, <2>6, <2>7
  <2>9. DOMAIN iq2 = DOMAIN iq \cup {t}
    BY <2>4 DEF Con
  <2>10. EsRpc(a) /\ a.put_queries = pq /\ a.iterative_queries = iq2 /\ a.inflight = r.inflight
    BY <2>3, <2>8 DEF EsRpc
  <2>11. PICK v : v = visit(a, t, semillas)
    OBVIOUS
  <2>12. /\ EsRpc(v) /\ v.put_queries = pq /\ Salen(a, v, {t})
         /\ DOMAIN v.iterative_queries = DOMAIN iq2
    BY <2>10, <2>11, VisitEs
  <2>13. get(r, clase, t) = visit(v, t, PorVisitar(v.iterative_queries[t], t))
    BY <2>1, <2>2, <2>11 DEF visit_closest
  <2>14. PICK g : g = get(r, clase, t)
    OBVIOUS
  <2>15. /\ EsRpc(g) /\ g.put_queries = v.put_queries /\ Salen(v, g, {t})
         /\ DOMAIN g.iterative_queries = DOMAIN v.iterative_queries
    BY <2>12, <2>13, <2>14, VisitEs
  <2>16. Salen(r, g, {t})
    BY <2>10, <2>12, <2>15 DEF Salen
  <2> QED
    BY <2>3, <2>9, <2>12, <2>14, <2>15, <2>16 DEF Buscado
<1> QED
  BY <1>1, <1>2

(* A put has a query of its own for the target; the others stay.           *)
LEMMA PutNuevoEs ==
  ASSUME NEW req, NEW tids
  PROVE  /\ PutNuevo(req) = [req |-> req, inflight_requests |-> {}, stored_at |-> 0, errors |-> <<>>]
         /\ [PutNuevo(req) EXCEPT !.inflight_requests = tids] =
              [req |-> req, inflight_requests |-> tids, stored_at |-> 0, errors |-> <<>>]
BY DEF PutNuevo

(* The record of rpc with another cache. *)
LEMMA CacheEs ==
  ASSUME NEW r, EsRpc(r), NEW c
  PROVE  LET s == [r EXCEPT !.cached = c]
         IN /\ EsRpc(s) /\ s.put_queries = r.put_queries
            /\ s.iterative_queries = r.iterative_queries /\ s.inflight = r.inflight
<1>1. PICK iq, pq, ca, fl, ta : /\ r = [iterative_queries |-> iq, put_queries |-> pq, cached |-> ca,
                                        inflight |-> fl, tabla |-> ta]
                                /\ iq = r.iterative_queries /\ pq = r.put_queries
  BY DEF EsRpc
<1>2. PICK s : s = [r EXCEPT !.cached = c]
  OBVIOUS
<1>3. /\ s = [iterative_queries |-> iq, put_queries |-> pq, cached |-> c, inflight |-> fl, tabla |-> ta]
      /\ fl = r.inflight
  BY <1>1, <1>2
<1> QED
  BY <1>1, <1>2, <1>3 DEF EsRpc

(* A query that Rpc::put has just made, and rpc with it. *)
Recien(q, req) ==
  /\ q = [req |-> req, inflight_requests |-> q.inflight_requests, stored_at |-> 0, errors |-> <<>>]
  /\ \A tid \in q.inflight_requests : tid[2] = req

Puesto(r, p, req, t) ==
  /\ EsRpc(p) /\ Salen(r, p, {t})
  /\ DOMAIN p.put_queries = DOMAIN r.put_queries \cup {t}
  /\ \A x \in DOMAIN r.put_queries \ {t} : p.put_queries[x] = r.put_queries[x]
  /\ Recien(p.put_queries[t], req)
  /\ DOMAIN r.iterative_queries \subseteq DOMAIN p.iterative_queries
  /\ DOMAIN p.iterative_queries \subseteq DOMAIN r.iterative_queries \cup {t}

(* Rpc::put puts a fresh query in place, started or waiting for a lookup. *)
LEMMA PutEs ==
  ASSUME NEW r, EsRpc(r), NEW req, NEW t, t = req.target, NEW p, p = put(r, req)
  PROVE  Puesto(r, p, req, t)
<1>1. t = req.target
  OBVIOUS
<1>2. PICK a : a = [r EXCEPT !.cached = Tocar(@, t)]
  OBVIOUS
<1>3. /\ EsRpc(a) /\ a.put_queries = r.put_queries /\ a.iterative_queries = r.iterative_queries
      /\ a.inflight = r.inflight
  BY <1>2, CacheEs
<1>4. PICK iq, pq, ca, fl, ta : /\ a = [iterative_queries |-> iq, put_queries |-> pq, cached |-> ca,
                                        inflight |-> fl, tabla |-> ta]
                                /\ iq = r.iterative_queries /\ pq = r.put_queries
                                /\ fl = r.inflight
  BY <1>3 DEF EsRpc
<1>5. p = put(r, req)
  OBVIOUS
<1>6. ASSUME NEW ct, p = start(a, t, PutNuevo(req), ct)
      PROVE  \E tids, fl2 :
               /\ p = [iterative_queries |-> iq,
                       put_queries |-> Con(pq, t, [req |-> req, inflight_requests |-> tids,
                                                   stored_at |-> 0, errors |-> <<>>]),
                       cached |-> ca, inflight |-> fl2, tabla |-> ta]
               /\ \A tid \in tids : tid[2] = req
               /\ \A tid \in fl2 : tid \in fl \/ tid[1] = "put" \/ tid[2] = t
  <2>1. PICK tids : tids = Envios(PutNuevo(req), ct)
    OBVIOUS
  <2>2. \A tid \in tids : tid[1] = "put" /\ tid[2] = req
    <3>1. PICK q0 : q0 = PutNuevo(req)
      OBVIOUS
    <3>2. q0.req = req
      BY <3>1 DEF PutNuevo
    <3>3. tids \subseteq {<<"put", req, n>> : n \in ct}
      BY <2>1, <3>1, <3>2 DEF Envios
    <3> QED
      BY <3>3
  <2>3. PICK q : q = [req |-> req, inflight_requests |-> tids, stored_at |-> 0, errors |-> <<>>]
    OBVIOUS
  <2>4. q = [PutNuevo(req) EXCEPT !.inflight_requests = tids]
    BY <2>3, PutNuevoEs
  <2>5. p = [a EXCEPT !.put_queries = Con(@, t, q), !.inflight = @ \cup tids]
    BY <1>6, <2>1, <2>4 DEF start
  <2>6. PICK b : b = [a EXCEPT !.put_queries = Con(@, t, q)]
    OBVIOUS
  <2>7. b = [iterative_queries |-> iq, put_queries |-> Con(pq, t, q), cached |-> ca,
             inflight |-> fl, tabla |-> ta]
    BY <1>4, <2>6
  <2>8. p = [b EXCEPT !.inflight = @ \cup tids]
    BY <1>4, <2>5, <2>6
  <2>9. p = [iterative_queries |-> iq, put_queries |-> Con(pq, t, q), cached |-> ca,
             inflight |-> fl \cup tids, tabla |-> ta]
    BY <2>7, <2>8
  <2>10. PICK fl2 : fl2 = fl \cup tids
    OBVIOUS
  <2>11. \A tid \in fl2 : tid \in fl \/ tid[1] = "put" \/ tid[2] = t
    BY <2>2, <2>10
  <2> QED
    BY <2>2, <2>3, <2>9, <2>10, <2>11
<1>7. ASSUME p = [get(a, "get_value", t) EXCEPT !.put_queries = Con(@, t, PutNuevo(req))]
      PROVE  \E iq2, ca2, fl2, ta2 :
               /\ p = [iterative_queries |-> iq2,
                       put_queries |-> Con(pq, t, [req |-> req, inflight_requests |-> {},
                                                   stored_at |-> 0, errors |-> <<>>]),
                       cached |-> ca2, inflight |-> fl2, tabla |-> ta2]
               /\ DOMAIN iq \subseteq DOMAIN iq2 /\ DOMAIN iq2 \subseteq DOMAIN iq \cup {t}
               /\ \A tid \in fl2 : tid \in fl \/ tid[1] = "put" \/ tid[2] = t
  <2>1. PICK g : g = get(a, "get_value", t)
    OBVIOUS
  <2>2. /\ EsRpc(g) /\ g.put_queries = a.put_queries /\ Salen(a, g, {t})
        /\ DOMAIN g.iterative_queries = DOMAIN a.iterative_queries \cup {t}
    <3>1. Buscado(a, g, t)
      BY <1>3, <2>1, GetEs
    <3> QED
      BY <3>1 DEF Buscado
  <2>3. PICK iq2, ca2, fl2, ta2 :
          /\ g = [iterative_queries |-> iq2, put_queries |-> pq, cached |-> ca2,
                  inflight |-> fl2, tabla |-> ta2]
          /\ iq2 = g.iterative_queries /\ fl2 = g.inflight
    <3>1. g = [iterative_queries |-> g.iterative_queries, put_queries |-> g.put_queries, cached |-> g.cached,
               inflight |-> g.inflight, tabla |-> g.tabla]
      BY <2>2 DEF EsRpc
    <3>2. g.put_queries = pq
      BY <1>3, <1>4, <2>2, Zenon
    <3>3. PICK iq2, ca2, fl2, ta2 : /\ iq2 = g.iterative_queries /\ ca2 = g.cached
                                    /\ fl2 = g.inflight /\ ta2 = g.tabla
      OBVIOUS
    <3> QED
      BY <3>1, <3>2, <3>3, Zenon
  <2>4. /\ DOMAIN iq \subseteq DOMAIN iq2 /\ DOMAIN iq2 \subseteq DOMAIN iq \cup {t}
        /\ \A tid \in fl2 : tid \in fl \/ tid[1] = "put" \/ tid[2] = t
    BY <1>3, <1>4, <2>2, <2>3 DEF Salen
  <2>5. PICK q : q = PutNuevo(req)
    OBVIOUS
  <2>6. p = [g EXCEPT !.put_queries = Con(@, t, q)]
    BY <1>7, <2>1, <2>5
  <2>7. p = [iterative_queries |-> iq2, put_queries |-> Con(pq, t, q), cached |-> ca2,
             inflight |-> fl2, tabla |-> ta2]
    BY <2>3, <2>6
  <2>8. q = [req |-> req, inflight_requests |-> {}, stored_at |-> 0, errors |-> <<>>]
    BY <2>5 DEF PutNuevo
  <2> QED
    BY <2>4, <2>7, <2>8
<1>8. \/ \E ct : p = start(a, t, PutNuevo(req), ct)
      \/ p = [get(a, "get_value", t) EXCEPT !.put_queries = Con(@, t, PutNuevo(req))]
  BY <1>1, <1>2, <1>5 DEF put
<1>9. \E iq2, tids, ca2, fl2, ta2 :
        /\ p = [iterative_queries |-> iq2,
                put_queries |-> Con(pq, t, [req |-> req, inflight_requests |-> tids,
                                            stored_at |-> 0, errors |-> <<>>]),
                cached |-> ca2, inflight |-> fl2, tabla |-> ta2]
        /\ \A tid \in tids : tid[2] = req
        /\ DOMAIN iq \subseteq DOMAIN iq2 /\ DOMAIN iq2 \subseteq DOMAIN iq \cup {t}
        /\ \A tid \in fl2 : tid \in fl \/ tid[1] = "put" \/ tid[2] = t
  <2>1. CASE \E ct : p = start(a, t, PutNuevo(req), ct)
    <3>1. PICK tids, fl2 :
               /\ p = [iterative_queries |-> iq,
                       put_queries |-> Con(pq, t, [req |-> req, inflight_requests |-> tids,
                                                   stored_at |-> 0, errors |-> <<>>]),
                       cached |-> ca, inflight |-> fl2, tabla |-> ta]
               /\ \A tid \in tids : tid[2] = req
               /\ \A tid \in fl2 : tid \in fl \/ tid[1] = "put" \/ tid[2] = t
      BY <1>6, <2>1
    <3> QED
      BY <3>1
  <2>2. CASE p = [get(a, "get_value", t) EXCEPT !.put_queries = Con(@, t, PutNuevo(req))]
    <3>1. PICK iq2, ca2, fl2, ta2 :
               /\ p = [iterative_queries |-> iq2,
                       put_queries |-> Con(pq, t, [req |-> req, inflight_requests |-> {},
                                                   stored_at |-> 0, errors |-> <<>>]),
                       cached |-> ca2, inflight |-> fl2, tabla |-> ta2]
               /\ DOMAIN iq \subseteq DOMAIN iq2 /\ DOMAIN iq2 \subseteq DOMAIN iq \cup {t}
               /\ \A tid \in fl2 : tid \in fl \/ tid[1] = "put" \/ tid[2] = t
      BY <1>7, <2>2
    <3>2. PICK tids : tids = {}
      OBVIOUS
    <3>4. \A tid \in tids : tid[2] = req
      BY <3>2
    <3>3. p = [iterative_queries |-> iq2,
               put_queries |-> Con(pq, t, [req |-> req, inflight_requests |-> tids,
                                           stored_at |-> 0, errors |-> <<>>]),
               cached |-> ca2, inflight |-> fl2, tabla |-> ta2]
      BY <3>1, <3>2
    <3> WITNESS iq2, tids, ca2, fl2, ta2
    <3> QED
      BY <3>1, <3>3, <3>4, Zenon
  <2> QED
    BY <1>8, <2>1, <2>2
<1>10. PICK iq2, tids, ca2, fl2, ta2 :
        /\ p = [iterative_queries |-> iq2,
                put_queries |-> Con(pq, t, [req |-> req, inflight_requests |-> tids,
                                            stored_at |-> 0, errors |-> <<>>]),
                cached |-> ca2, inflight |-> fl2, tabla |-> ta2]
        /\ \A tid \in tids : tid[2] = req
        /\ DOMAIN iq \subseteq DOMAIN iq2 /\ DOMAIN iq2 \subseteq DOMAIN iq \cup {t}
        /\ \A tid \in fl2 : tid \in fl \/ tid[1] = "put" \/ tid[2] = t
  BY <1>9
<1>11. PICK q, pq2 : /\ q = [req |-> req, inflight_requests |-> tids, stored_at |-> 0, errors |-> <<>>]
                     /\ pq2 = Con(pq, t, q)
  OBVIOUS
<1>12. DOMAIN pq2 = DOMAIN pq \cup {t} /\ pq2[t] = q /\ \A x \in DOMAIN pq \ {t} : pq2[x] = pq[x]
  BY <1>11 DEF Con
<1>13. EsRpc(p) /\ p.put_queries = pq2 /\ p.iterative_queries = iq2 /\ p.inflight = fl2
  BY <1>10, <1>11 DEF EsRpc
<1>14. Recien(q, req)
  BY <1>10, <1>11 DEF Recien
<1>15. Salen(r, p, {t})
  BY <1>4, <1>10, <1>13 DEF Salen
<1> QED
  BY <1>4, <1>10, <1>12, <1>13, <1>14, <1>15 DEF Puesto

(* A tick: the lookups visit, the done ones go, the puts that waited for   *)
(* them are sent.                                                          *)
Seguido(q, q2) ==
  /\ q2 = [req |-> q.req, inflight_requests |-> q2.inflight_requests,
           stored_at |-> q.stored_at, errors |-> q2.errors]
  /\ \A tid \in q2.inflight_requests : tid \in q.inflight_requests \/ tid[2] = q.req

PutCompleto(q) == q = [req |-> q.req, inflight_requests |-> q.inflight_requests,
                       stored_at |-> q.stored_at, errors |-> q.errors]

(* The visits of a tick. *)
LEMMA VisitadoEs ==
  ASSUME NEW r, EsRpc(r)
  PROVE  LET v == Visitado(r)
         IN /\ EsRpc(v) /\ v.put_queries = r.put_queries
            /\ DOMAIN v.iterative_queries = DOMAIN r.iterative_queries
            /\ Salen(r, v, DOMAIN r.iterative_queries)
<1>1. PICK iq, pq, ca, fl, ta : /\ r = [iterative_queries |-> iq, put_queries |-> pq, cached |-> ca,
                                        inflight |-> fl, tabla |-> ta]
                                /\ iq = r.iterative_queries /\ pq = r.put_queries
                                /\ fl = r.inflight
  BY DEF EsRpc
<1>2. PICK iq2 : iq2 = [t \in Activas(r) |->
             [r.iterative_queries[t] EXCEPT !.visited = @ \cup PorVisitar(r.iterative_queries[t], t)]]
  OBVIOUS
<1>3. PICK mas : mas = UNION {Pedidos(t, PorVisitar(r.iterative_queries[t], t)) : t \in Activas(r)}
  OBVIOUS
<1>4. DOMAIN iq2 = DOMAIN iq
  BY <1>1, <1>2 DEF Activas
<1>5. PICK v : v = Visitado(r)
  OBVIOUS
<1>6. v = [r EXCEPT !.iterative_queries = iq2, !.inflight = @ \cup mas]
  BY <1>2, <1>3, <1>5 DEF Visitado
<1>7. PICK b : b = [r EXCEPT !.iterative_queries = iq2]
  OBVIOUS
<1>8. b = [iterative_queries |-> iq2, put_queries |-> pq, cached |-> ca, inflight |-> fl, tabla |-> ta]
  BY <1>1, <1>7
<1>9. v = [b EXCEPT !.inflight = @ \cup mas]
  BY <1>1, <1>6, <1>7
<1>10. v = [iterative_queries |-> iq2, put_queries |-> pq, cached |-> ca, inflight |-> fl \cup mas,
            tabla |-> ta]
  BY <1>8, <1>9
<1>11. \A tid \in mas : tid[2] \in DOMAIN r.iterative_queries
  BY <1>3 DEF Pedidos, Activas
<1>12. /\ EsRpc(v) /\ v.put_queries = pq /\ v.iterative_queries = iq2
       /\ v.inflight = fl \cup mas
  BY <1>10 DEF EsRpc
<1>13. Salen(r, v, DOMAIN r.iterative_queries)
  BY <1>1, <1>11, <1>12 DEF Salen
<1> QED
  BY <1>1, <1>4, <1>5, <1>12, <1>13

(* cleanup_done_queries, the lookups. *)
LEMMA TerminarEs ==
  ASSUME NEW r, EsRpc(r), \A t \in DOMAIN r.put_queries : PutCompleto(r.put_queries[t]),
         NEW hechos, NEW orden
  PROVE  LET v == TerminarGets(r, hechos, orden)
         IN /\ EsRpc(v) /\ DOMAIN v.put_queries = DOMAIN r.put_queries
            /\ \A t \in DOMAIN r.put_queries : Seguido(r.put_queries[t], v.put_queries[t])
            /\ DOMAIN v.iterative_queries = DOMAIN r.iterative_queries \ hechos
            /\ Salen(r, v, {})
<1>1. PICK iq, pq, ca, fl, ta : /\ r = [iterative_queries |-> iq, put_queries |-> pq, cached |-> ca,
                                        inflight |-> fl, tabla |-> ta]
                                /\ iq = r.iterative_queries /\ pq = r.put_queries
                                /\ fl = r.inflight
  BY DEF EsRpc
<1> DEFINE tids(t) == IF t \in hechos /\ EsperaGet(r, t)
                      THEN Envios(r.put_queries[t], ClosestDe(r.iterative_queries[t], t)) ELSE {}
<1>2. PICK pq2 : pq2 = [t \in DOMAIN r.put_queries |->
            IF tids(t) = {} THEN r.put_queries[t]
            ELSE [r.put_queries[t] EXCEPT !.inflight_requests = tids(t)]]
  OBVIOUS
<1>3. PICK iq2, ca2, mas : /\ iq2 = Quitados(iq, hechos) /\ ca2 = Cacheadas(r, orden)
                           /\ mas = UNION {tids(t) : t \in hechos}
  OBVIOUS
<1>4. PICK v : v = TerminarGets(r, hechos, orden)
  OBVIOUS
<1>5. v = [r EXCEPT !.iterative_queries = Quitados(@, hechos), !.cached = ca2,
                    !.put_queries = pq2, !.inflight = @ \cup mas]
  BY <1>2, <1>3, <1>4 DEF TerminarGets
<1>6. ASSUME NEW t, NEW tid \in tids(t)
      PROVE  tid[1] = "put" /\ tid[2] = r.put_queries[t].req
  BY <1>6 DEF Envios
<1> HIDE DEF tids
<1>7. PICK b : b = [r EXCEPT !.iterative_queries = Quitados(@, hechos)]
  OBVIOUS
<1>8. b = [iterative_queries |-> iq2, put_queries |-> pq, cached |-> ca, inflight |-> fl, tabla |-> ta]
  BY <1>1, <1>3, <1>7
<1>9. PICK c : c = [b EXCEPT !.cached = ca2]
  OBVIOUS
<1>10. c = [iterative_queries |-> iq2, put_queries |-> pq, cached |-> ca2, inflight |-> fl, tabla |-> ta]
  BY <1>8, <1>9
<1>11. PICK d : d = [c EXCEPT !.put_queries = pq2]
  OBVIOUS
<1>12. d = [iterative_queries |-> iq2, put_queries |-> pq2, cached |-> ca2, inflight |-> fl, tabla |-> ta]
  BY <1>10, <1>11
<1>13. v = [d EXCEPT !.inflight = @ \cup mas]
  BY <1>1, <1>5, <1>7, <1>9, <1>11
<1>14. v = [iterative_queries |-> iq2, put_queries |-> pq2, cached |-> ca2,
            inflight |-> fl \cup mas, tabla |-> ta]
  BY <1>12, <1>13
<1>15. DOMAIN iq2 = DOMAIN iq \ hechos
  BY <1>3 DEF Quitados
<1>16. DOMAIN pq2 = DOMAIN pq
  BY <1>1, <1>2
<1>17. ASSUME NEW t \in DOMAIN pq
       PROVE  Seguido(pq[t], pq2[t])
  <2>1. PICK q, q2, s : q = pq[t] /\ q2 = pq2[t] /\ s = tids(t)
    OBVIOUS
  <2>2. PutCompleto(q)
    BY <1>1, <2>1
  <2>3. q2 = IF s = {} THEN q ELSE [q EXCEPT !.inflight_requests = s]
    BY <1>1, <1>2, <2>1
  <2>4. \A tid \in s : tid[2] = q.req
    BY <1>1, <1>6, <2>1
  <2>5. PICK a, e, f, g : q = [req |-> a, inflight_requests |-> e, stored_at |-> f, errors |-> g]
    BY <2>2 DEF PutCompleto
  <2>6. [q EXCEPT !.inflight_requests = s] =
          [req |-> a, inflight_requests |-> s, stored_at |-> f, errors |-> g]
    BY <2>5
  <2>7. CASE s = {}
    BY <2>1, <2>2, <2>3, <2>7 DEF Seguido, PutCompleto
  <2>8. CASE s # {}
    <3>1. q2 = [req |-> q.req, inflight_requests |-> s, stored_at |-> q.stored_at, errors |-> g]
      BY <2>3, <2>5, <2>6, <2>8
    <3> QED
      BY <2>1, <2>4, <3>1 DEF Seguido
  <2> QED
    BY <2>7, <2>8
<1>18. /\ EsRpc(v) /\ v.put_queries = pq2 /\ v.iterative_queries = iq2
       /\ v.inflight = fl \cup mas
  BY <1>14 DEF EsRpc
<1>19. Salen(r, v, {})
  BY <1>1, <1>3, <1>6, <1>18 DEF Salen
<1> QED
  BY <1>1, <1>4, <1>15, <1>16, <1>17, <1>18, <1>19

(* cleanup_done_queries, the puts. *)
LEMMA QuitarEs ==
  ASSUME NEW r, EsRpc(r), NEW fines
  PROVE  LET v == QuitarPuts(r, fines)
         IN /\ EsRpc(v) /\ v.iterative_queries = r.iterative_queries
            /\ DOMAIN v.put_queries = DOMAIN r.put_queries \ {f[1] : f \in fines}
            /\ \A t \in DOMAIN v.put_queries : v.put_queries[t] = r.put_queries[t]
            /\ v.inflight = r.inflight
<1>1. PICK iq, pq, ca, fl, ta : /\ r = [iterative_queries |-> iq, put_queries |-> pq, cached |-> ca,
                                        inflight |-> fl, tabla |-> ta]
                                /\ iq = r.iterative_queries /\ pq = r.put_queries
                                /\ fl = r.inflight
  BY DEF EsRpc
<1>2. PICK ks : ks = {f[1] : f \in fines}
  OBVIOUS
<1>3. PICK pq2 : pq2 = Quitados(pq, ks)
  OBVIOUS
<1>4. PICK v : v = QuitarPuts(r, fines)
  OBVIOUS
<1>5. v = [iterative_queries |-> iq, put_queries |-> pq2, cached |-> ca, inflight |-> fl, tabla |-> ta]
  BY <1>1, <1>2, <1>3, <1>4 DEF QuitarPuts
<1>6. DOMAIN pq2 = DOMAIN pq \ ks /\ \A t \in DOMAIN pq2 : pq2[t] = pq[t]
  BY <1>3 DEF Quitados
<1>7. EsRpc(v) /\ v.put_queries = pq2 /\ v.iterative_queries = iq /\ v.inflight = fl
  BY <1>5 DEF EsRpc
<1> QED
  BY <1>1, <1>2, <1>4, <1>6, <1>7

(* An answer to a put counts only for the request it is an answer to. *)
Respondido(q, q2, tid, con) ==
  /\ q2 = [req |-> q.req, inflight_requests |-> q.inflight_requests,
           stored_at |-> q2.stored_at, errors |-> q2.errors]
  /\ q2.stored_at = q.stored_at \/ (tid \in q.inflight_requests /\ tid[1] = "put" /\ con[1] = "ok")

(* PutQuery::error counts errors only. *)
LEMMA ConErrorEs ==
  ASSUME NEW q, PutCompleto(q), NEW code
  PROVE  LET e == ConError(q, code)
         IN e = [req |-> q.req, inflight_requests |-> q.inflight_requests,
                 stored_at |-> q.stored_at, errors |-> e.errors]
<1>1. PICK x : ConError(q, code) = [q EXCEPT !.errors = x]
  BY DEF ConError
<1>2. PICK a, e, f, g : q = [req |-> a, inflight_requests |-> e, stored_at |-> f, errors |-> g]
  BY DEF PutCompleto
<1>3. PICK z : z = [q EXCEPT !.errors = x]
  OBVIOUS
<1>4. z = [req |-> a, inflight_requests |-> e, stored_at |-> f, errors |-> x]
  BY <1>2, <1>3
<1> QED
  BY <1>1, <1>2, <1>3, <1>4

(* An answer to a put changes the query that waits for it. *)
LEMMA RespuestaPutEs ==
  ASSUME NEW r, EsRpc(r), \A t \in DOMAIN r.put_queries : PutCompleto(r.put_queries[t]),
         NEW tid, NEW con, tid[1] = "put"
  PROVE  LET v == RespuestaPut(r, tid, con)
         IN /\ EsRpc(v) /\ v.iterative_queries = r.iterative_queries /\ v.inflight = r.inflight
            /\ DOMAIN v.put_queries = DOMAIN r.put_queries
            /\ \A t \in DOMAIN r.put_queries :
                 Respondido(r.put_queries[t], v.put_queries[t], tid, con)
<1>1. PICK iq, pq, ca, fl, ta : /\ r = [iterative_queries |-> iq, put_queries |-> pq, cached |-> ca,
                                        inflight |-> fl, tabla |-> ta]
                                /\ iq = r.iterative_queries /\ pq = r.put_queries
                                /\ fl = r.inflight
  BY DEF EsRpc
<1>2. PICK t : t = tid[2].target
  OBVIOUS
<1>3. PICK v : v = RespuestaPut(r, tid, con)
  OBVIOUS
<1>4. \A x \in DOMAIN pq : Respondido(pq[x], pq[x], tid, con)
  BY <1>1 DEF Respondido, PutCompleto
<1>5. CASE v = r
  BY <1>1, <1>3, <1>4, <1>5
<1>6. CASE v # r
  <2>1. PICK q : q = pq[t]
    OBVIOUS
  <2>2. PICK q2 : q2 = IF con[1] = "ok" THEN [q EXCEPT !.stored_at = @ + 1] ELSE ConError(q, con[2])
    OBVIOUS
  <2>3. /\ v = [r EXCEPT !.put_queries[t] = q2]
        /\ t \in DOMAIN pq /\ tid \in q.inflight_requests
    BY <1>1, <1>2, <1>3, <1>6, <2>1, <2>2 DEF RespuestaPut
  <2>4. PutCompleto(q)
    BY <1>1, <2>1, <2>3
  <2>5. Respondido(q, q2, tid, con)
    <3>1. CASE con[1] = "ok"
      <4>1. PICK a, e, f, g : q = [req |-> a, inflight_requests |-> e, stored_at |-> f, errors |-> g]
        BY <2>4 DEF PutCompleto
      <4>2. q2 = [q EXCEPT !.stored_at = @ + 1]
        BY <2>2, <3>1
      <4>3. q2 = [req |-> a, inflight_requests |-> e, stored_at |-> f + 1, errors |-> g]
        BY <4>1, <4>2
      <4> QED
        BY <2>3, <3>1, <4>1, <4>3 DEF Respondido
    <3>2. CASE con[1] # "ok"
      <4>1. q2 = ConError(q, con[2])
        BY <2>2, <3>2
      <4>2. q2 = [req |-> q.req, inflight_requests |-> q.inflight_requests,
                  stored_at |-> q.stored_at, errors |-> q2.errors]
        BY <2>4, <4>1, ConErrorEs
      <4> QED
        BY <4>2 DEF Respondido
    <3> QED
      BY <3>1, <3>2
  <2>6. PICK pq2 : pq2 = [pq EXCEPT ![t] = q2]
    OBVIOUS
  <2>7. DOMAIN pq2 = DOMAIN pq /\ \A x \in DOMAIN pq : pq2[x] = IF x = t THEN q2 ELSE pq[x]
    BY <2>6
  <2>8. v = [iterative_queries |-> iq, put_queries |-> pq2, cached |-> ca, inflight |-> fl, tabla |-> ta]
    BY <1>1, <2>3, <2>6
  <2>9. EsRpc(v) /\ v.put_queries = pq2 /\ v.iterative_queries = iq /\ v.inflight = fl
    BY <2>8 DEF EsRpc
  <2> QED
    BY <1>1, <1>3, <1>4, <2>1, <2>5, <2>7, <2>9
<1> QED
  BY <1>5, <1>6

(* An answer to a lookup leaves the puts alone. *)
LEMMA RespuestaGetEs ==
  ASSUME NEW r, EsRpc(r), NEW tid, NEW con
  PROVE  LET v == RespuestaGet(r, tid, con)
         IN /\ EsRpc(v) /\ v.put_queries = r.put_queries /\ v.inflight = r.inflight
            /\ DOMAIN v.iterative_queries = DOMAIN r.iterative_queries
<1>1. PICK iq, pq, ca, fl, ta : /\ r = [iterative_queries |-> iq, put_queries |-> pq, cached |-> ca,
                                        inflight |-> fl, tabla |-> ta]
                                /\ iq = r.iterative_queries /\ pq = r.put_queries
                                /\ fl = r.inflight
  BY DEF EsRpc
<1>2. PICK t : t = tid[2]
  OBVIOUS
<1>3. PICK x : x = Anota(r.iterative_queries[t], tid[3], con)
  OBVIOUS
<1>4. PICK anotada : anotada = IF con[1] \in {"ping", "error"} THEN r
                               ELSE [r EXCEPT !.iterative_queries[t] = x]
  OBVIOUS
<1>5. PICK v : v = RespuestaGet(r, tid, con)
  OBVIOUS
<1>6. v = IF con[1] = "solo_lectura" THEN r
          ELSE [anotada EXCEPT !.tabla =
                  IF Bueno(con) \/ con[1] = "error" THEN @ ELSE @ \cup {tid[3]}]
  BY <1>2, <1>3, <1>4, <1>5 DEF RespuestaGet
<1>7. PICK iq2 : iq2 = IF con[1] \in {"ping", "error"} THEN iq ELSE [iq EXCEPT ![t] = x]
  OBVIOUS
<1>8. DOMAIN iq2 = DOMAIN iq
  BY <1>7
<1>9. anotada = [iterative_queries |-> iq2, put_queries |-> pq, cached |-> ca,
                 inflight |-> fl, tabla |-> ta]
  BY <1>1, <1>4, <1>7
<1>10. PICK ta2 : ta2 = IF Bueno(con) \/ con[1] = "error" THEN ta ELSE ta \cup {tid[3]}
  OBVIOUS
<1>11. [anotada EXCEPT !.tabla = IF Bueno(con) \/ con[1] = "error" THEN @ ELSE @ \cup {tid[3]}] =
         [iterative_queries |-> iq2, put_queries |-> pq, cached |-> ca,
          inflight |-> fl, tabla |-> ta2]
  BY <1>9, <1>10
<1>12. \/ v = r
       \/ v = [iterative_queries |-> iq2, put_queries |-> pq, cached |-> ca,
               inflight |-> fl, tabla |-> ta2]
  BY <1>6, <1>11
<1> QED
  BY <1>1, <1>5, <1>8, <1>12 DEF EsRpc

(* Any answer: the lookups and puts in flight stay. *)
LEMMA HandleEs ==
  ASSUME NEW r, EsRpc(r), \A t \in DOMAIN r.put_queries : PutCompleto(r.put_queries[t]),
         NEW tid, NEW con
  PROVE  LET v == handle_response(r, tid, con)
         IN /\ EsRpc(v) /\ DOMAIN v.iterative_queries = DOMAIN r.iterative_queries
            /\ v.inflight \subseteq r.inflight
            /\ DOMAIN v.put_queries = DOMAIN r.put_queries
            /\ \A t \in DOMAIN r.put_queries :
                 Respondido(r.put_queries[t], v.put_queries[t], tid, con)
<1>1. PICK s : s = [r EXCEPT !.inflight = @ \ {tid}]
  OBVIOUS
<1>2. /\ EsRpc(s) /\ s.put_queries = r.put_queries /\ s.iterative_queries = r.iterative_queries
      /\ s.inflight \subseteq r.inflight
  <2>1. PICK iq, pq, ca, fl, ta : /\ r = [iterative_queries |-> iq, put_queries |-> pq, cached |-> ca,
                                          inflight |-> fl, tabla |-> ta]
                                  /\ iq = r.iterative_queries /\ pq = r.put_queries
                                  /\ fl = r.inflight
    BY DEF EsRpc
  <2>2. s = [iterative_queries |-> iq, put_queries |-> pq, cached |-> ca,
             inflight |-> fl \ {tid}, tabla |-> ta]
    BY <1>1, <2>1
  <2> QED
    BY <2>1, <2>2 DEF EsRpc
<1>3. handle_response(r, tid, con) =
        IF tid[1] = "put" THEN RespuestaPut(s, tid, con) ELSE RespuestaGet(s, tid, con)
  BY <1>1 DEF handle_response
<1>4. CASE tid[1] = "put"
  BY <1>2, <1>3, <1>4, RespuestaPutEs
<1>5. CASE tid[1] # "put"
  <2>1. \A t \in DOMAIN r.put_queries :
          Respondido(r.put_queries[t], r.put_queries[t], tid, con)
    BY DEF PutCompleto, Respondido
  <2> QED
    BY <1>2, <1>3, <1>5, <2>1, RespuestaGetEs
<1> QED
  BY <1>4, <1>5

-----------------------------------------------------------------------------
(* A message of the channel. *)

(* PutQuery::tick says Ok only when a node has stored it. *)
LEMMA FinEs ==
  ASSUME NEW r, NEW q, FinPut(r, q) = "Ok"
  PROVE  q.stored_at # 0
BY SupuestoRpc DEF FinPut, most_common_error

(* The caller whose message is taken; the messages left. *)
LEMMA Cabeza ==
  ASSUME InvRpc, buzon # <<>>
  PROVE  LET c == Head(buzon)
         IN /\ c \in Llamantes /\ llamadas[c].estado # "libre" /\ llamadas[c].req \in menu[c]
            /\ \A d \in Llamantes :
                 llamadas[d].estado = "buzon" => d = c \/ \E i \in DOMAIN Tail(buzon) : Tail(buzon)[i] = d
            /\ \A i \in DOMAIN Tail(buzon) : llamadas[Tail(buzon)[i]].estado # "libre"
                                             /\ Tail(buzon)[i] \in Llamantes
            /\ Tail(buzon) \in Seq(Llamantes)
<1>1. PICK b : b = buzon
  OBVIOUS
<1>2. b \in Seq(Llamantes) /\ b # <<>> /\ EnBuzon(b, llamadas) /\ Pedida(menu, llamadas)
  BY <1>1 DEF InvRpc, Sano
<1>3. PICK n \in Nat : n = Len(b)
  BY <1>2
<1>4. n # 0 /\ DOMAIN b = 1 .. n /\ Head(b) = b[1]
  BY <1>2, <1>3
<1>5. PICK u : u = Tail(b)
  OBVIOUS
<1>6. u \in Seq(Llamantes) /\ Len(u) = n - 1 /\ \A i \in 1 .. n - 1 : u[i] = b[i + 1]
  BY <1>2, <1>3, <1>5, HeadTailProperties
<1>7. DOMAIN u = 1 .. n - 1
  BY <1>3, <1>4, <1>6
<1>8. \A i \in DOMAIN u : i + 1 \in DOMAIN b /\ u[i] = b[i + 1]
  BY <1>4, <1>6, <1>7
<1>9. \A i \in DOMAIN b : i # 1 => i - 1 \in DOMAIN u /\ u[i - 1] = b[i]
  BY <1>4, <1>6, <1>7
<1>10. \A i \in DOMAIN u : llamadas[u[i]].estado # "libre" /\ u[i] \in Llamantes
  BY <1>2, <1>6, <1>8 DEF EnBuzon
<1>11. b[1] \in Llamantes /\ llamadas[b[1]].estado # "libre"
  BY <1>2, <1>3, <1>4 DEF EnBuzon
<1>12. ASSUME NEW d \in Llamantes, llamadas[d].estado = "buzon"
       PROVE  d = b[1] \/ \E i \in DOMAIN u : u[i] = d
  BY <1>2, <1>9, <1>12 DEF EnBuzon
<1> QED
  BY <1>1, <1>2, <1>4, <1>5, <1>6, <1>10, <1>11, <1>12 DEF Pedida

(* The calls with the one of c waiting. *)
EnCurso(c) == [llamadas EXCEPT ![c].estado = "espera"]

(* Its call, in whatever way it goes on from waiting. *)
LEMMA Atendida ==
  ASSUME InvRpc, buzon # <<>>, NEW ll, Avanzan(EnCurso(Head(buzon)), ll, acuses)
  PROVE  /\ Pedida(menu, ll) /\ Respaldo(ll, acuses) /\ EnBuzon(Tail(buzon), ll)
         /\ \A d \in Llamantes :
              /\ ll[d].req = llamadas[d].req
              /\ llamadas[d].estado # "libre" => ll[d].estado # "libre"
              /\ ll[d].estado = "espera" => d = Head(buzon) \/ llamadas[d].estado = "espera"
<1>1. PICK c : c = Head(buzon)
  OBVIOUS
<1>2. PICK en : en = EnCurso(c)
  OBVIOUS
<1>3. /\ c \in Llamantes /\ llamadas[c].estado # "libre" /\ llamadas[c].req \in menu[c]
      /\ Pedida(menu, llamadas) /\ Respaldo(llamadas, acuses)
  BY <1>1, Cabeza DEF InvRpc, Sano
<1>4. /\ DOMAIN en = Llamantes
      /\ \A d \in Llamantes \ {c} : en[d] = llamadas[d]
      /\ en[c] = [llamadas[c] EXCEPT !.estado = "espera"]
  BY <1>2, <1>3 DEF EnCurso, Pedida
<1>5. en[c] = [req |-> llamadas[c].req, estado |-> "espera", item |-> llamadas[c].item,
               res |-> llamadas[c].res]
  BY <1>3, <1>4, ConEstado DEF Pedida
<1>6. /\ Completa(en[c]) /\ en[c].req = llamadas[c].req /\ en[c].estado = "espera"
      /\ en[c].res = llamadas[c].res
  BY <1>5 DEF Completa
<1>7. Pedida(menu, en) /\ Respaldo(en, acuses)
  BY <1>3, <1>4, <1>6 DEF Pedida, Respaldo
<1>8. Avanzan(en, ll, acuses)
  BY <1>1, <1>2
<1>9. Pedida(menu, ll) /\ Respaldo(ll, acuses)
  BY <1>7, <1>8, AvanzanBien
<1>10. ASSUME NEW d \in Llamantes
       PROVE  /\ ll[d].req = llamadas[d].req
              /\ llamadas[d].estado # "libre" => ll[d].estado # "libre"
              /\ ll[d].estado = "espera" => d = c \/ llamadas[d].estado = "espera"
              /\ ll[d].estado = "buzon" => d # c /\ llamadas[d].estado = "buzon"
  <2>1. PICK l, n : l = en[d] /\ n = ll[d]
    OBVIOUS
  <2>2. n.req = l.req /\ (n.estado = l.estado \/ (l.estado # "libre" /\ n.estado = "fin"))
    BY <1>8, <2>1 DEF Avanzan, Avanza
  <2>3. CASE d = c
    BY <1>6, <2>1, <2>2, <2>3
  <2>4. CASE d # c
    <3>1. l = llamadas[d]
      BY <1>4, <2>1, <2>4
    <3> QED
      BY <2>1, <2>2, <2>4, <3>1
  <2> QED
    BY <2>3, <2>4
<1>11. EnBuzon(Tail(buzon), ll)
  <2>1. PICK u : u = Tail(buzon)
    OBVIOUS
  <2>2. \A i \in DOMAIN u : u[i] \in Llamantes /\ llamadas[u[i]].estado # "libre"
    BY <2>1, Cabeza
  <2>3. \A d \in Llamantes : llamadas[d].estado = "buzon" => d = c \/ \E i \in DOMAIN u : u[i] = d
    BY <1>1, <2>1, Cabeza
  <2> QED
    BY <1>10, <2>1, <2>2, <2>3 DEF EnBuzon
<1> QED
  BY <1>1, <1>9, <1>10, <1>11

(* Its call, waiting. *)
LEMMA EnCursoEs ==
  ASSUME InvRpc, buzon # <<>>
  PROVE  /\ Avanzan(EnCurso(Head(buzon)), EnCurso(Head(buzon)), acuses)
         /\ Pedida(menu, EnCurso(Head(buzon)))
         /\ EnCurso(Head(buzon))[Head(buzon)].estado = "espera"
<1>1. PICK c : c = Head(buzon)
  OBVIOUS
<1>2. PICK en : en = EnCurso(c)
  OBVIOUS
<1>3. c \in Llamantes /\ llamadas[c].estado # "libre" /\ llamadas[c].req \in menu[c]
      /\ Pedida(menu, llamadas)
  BY <1>1, Cabeza DEF InvRpc, Sano
<1>4. /\ DOMAIN en = Llamantes
      /\ \A d \in Llamantes \ {c} : en[d] = llamadas[d]
      /\ en[c] = [llamadas[c] EXCEPT !.estado = "espera"]
  BY <1>2, <1>3 DEF EnCurso, Pedida
<1>5. en[c] = [req |-> llamadas[c].req, estado |-> "espera", item |-> llamadas[c].item,
               res |-> llamadas[c].res]
  BY <1>3, <1>4, ConEstado DEF Pedida
<1>6. Completa(en[c]) /\ en[c].req = llamadas[c].req /\ en[c].estado = "espera"
  BY <1>5 DEF Completa
<1>7. Pedida(menu, en)
  BY <1>3, <1>4, <1>6 DEF Pedida
<1> QED
  BY <1>1, <1>2, <1>6, <1>7, Igual

(* What the message of a turn leaves. *)
Obra(e) == /\ Sano(menu, e.r, e.gs, e.ps, e.ll, acuses)
           /\ EnBuzon(IF buzon = <<>> THEN buzon ELSE Tail(buzon), e.ll)

Ahora == [r |-> rpc, gs |-> get_senders, ps |-> put_senders, ll |-> llamadas]

(* What is left the same, with the calls gone on. *)
LEMMA MismosRemitentes ==
  ASSUME InvRpc, buzon # <<>>, NEW ll, Avanzan(EnCurso(Head(buzon)), ll, acuses)
  PROVE  Remitentes(rpc, get_senders, put_senders, ll)
<1>1. /\ Remitentes(rpc, get_senders, put_senders, llamadas)
      /\ \A d \in Llamantes :
           ll[d].req = llamadas[d].req /\ (llamadas[d].estado # "libre" => ll[d].estado # "libre")
  BY Atendida DEF InvRpc, Sano
<1> QED
  BY <1>1 DEF Remitentes

(* A message that is answered at once. *)
LEMMA AtenderInfo ==
  ASSUME InvRpc, buzon # <<>>, NEW res, res # "Ok",
         NEW e, e = [Ahora EXCEPT !.ll = Terminan(EnCurso(Head(buzon)), {Head(buzon)}, res)]
  PROVE  Obra(e)
<1>1. PICK c : c = Head(buzon)
  OBVIOUS
<1>2. PICK ll : ll = Terminan(EnCurso(c), {c}, res)
  OBVIOUS
<1>3. e = [r |-> rpc, gs |-> get_senders, ps |-> put_senders, ll |-> ll]
  BY <1>1, <1>2 DEF Ahora
<1>4. c \in Llamantes
  BY <1>1, Cabeza
<1>5. Avanzan(EnCurso(c), ll, acuses) /\ ll[c].estado # "espera"
  BY <1>1, <1>2, <1>4, EnCursoEs, TerminanAvanza
<1>6. /\ Pedida(menu, ll) /\ Respaldo(ll, acuses) /\ EnBuzon(Tail(buzon), ll)
      /\ \A d \in Llamantes :
              /\ ll[d].req = llamadas[d].req
              /\ ll[d].estado = "espera" => d = c \/ llamadas[d].estado = "espera"
  BY <1>1, <1>5, Atendida
<1>7. Remitentes(rpc, get_senders, put_senders, ll)
  BY <1>1, <1>5, MismosRemitentes
<1>8. EnEspera(get_senders, put_senders, ll)
  BY <1>5, <1>6 DEF EnEspera, InvRpc, Sano
<1>9. EsRpc(rpc) /\ Apuntada(rpc) /\ PutsSanos(menu, rpc, acuses)
  BY DEF InvRpc, Sano
<1> QED
  BY <1>3, <1>6, <1>7, <1>8, <1>9 DEF Obra, Sano

(* A message that starts or joins a lookup: its sender is kept. *)
UnGet(e, c, req, t, r, gs, ll, vs) ==
  /\ c = Head(buzon) /\ req = llamadas[c].req /\ t = req.target /\ req.op = "get"
  /\ ll = ConValores(EnCurso(c), {c}, vs)
  /\ gs = [get_senders EXCEPT ![t] = @ \cup {c}]
  /\ r = get(rpc, req.clase, t)
  /\ e = [r |-> r, gs |-> gs, ps |-> put_senders, ll |-> ll]

LEMMA AtenderGet ==
  ASSUME InvRpc, buzon # <<>>, NEW vs, NEW e, NEW c, NEW req, NEW t, NEW r, NEW gs, NEW ll,
         UnGet(e, c, req, t, r, gs, ll, vs)
  PROVE  Obra(e)
<1>1. c = Head(buzon) /\ req = llamadas[c].req /\ t = req.target
  BY DEF UnGet
<1>2. /\ ll = ConValores(EnCurso(c), {c}, vs)
      /\ gs = [get_senders EXCEPT ![t] = @ \cup {c}]
      /\ r = get(rpc, req.clase, t)
  BY DEF UnGet
<1>3. e.r = r /\ e.gs = gs /\ e.ps = put_senders /\ e.ll = ll
  BY DEF UnGet
<1>4. c \in Llamantes /\ req \in menu[c] /\ llamadas[c].estado # "libre"
  BY <1>1, Cabeza
<1>5. t \in Objetivos
  BY <1>1, <1>4, SupuestoMenus DEF InvRpc
<1>6. Pedida(menu, EnCurso(c)) /\ EnCurso(c)[c].estado = "espera"
  BY <1>1, EnCursoEs
<1>7. Avanzan(EnCurso(c), ll, acuses)
  BY <1>2, <1>6, ConValoresAvanza
<1>8. /\ Pedida(menu, ll) /\ Respaldo(ll, acuses) /\ EnBuzon(Tail(buzon), ll)
      /\ \A d \in Llamantes :
              /\ ll[d].req = llamadas[d].req
              /\ llamadas[d].estado # "libre" => ll[d].estado # "libre"
              /\ ll[d].estado = "espera" => d = c \/ llamadas[d].estado = "espera"
  BY <1>1, <1>7, Atendida
<1>9. /\ EsRpc(rpc) /\ Apuntada(rpc) /\ PutsSanos(menu, rpc, acuses)
      /\ Remitentes(rpc, get_senders, put_senders, llamadas)
      /\ EnEspera(get_senders, put_senders, llamadas)
  BY DEF InvRpc, Sano
<1>10. /\ EsRpc(r) /\ r.put_queries = rpc.put_queries
       /\ DOMAIN r.iterative_queries = DOMAIN rpc.iterative_queries \cup {t}
       /\ Salen(rpc, r, {t})
  <2>1. Buscado(rpc, r, t)
    BY <1>2, <1>9, GetEs
  <2> QED
    BY <2>1 DEF Buscado
<1>11. /\ DOMAIN gs = Objetivos /\ gs[t] = get_senders[t] \cup {c}
       /\ \A x \in Objetivos \ {t} : gs[x] = get_senders[x]
  BY <1>2, <1>5, <1>9 DEF Remitentes
<1>12. Remitentes(r, gs, put_senders, ll)
  <2>1. ASSUME NEW x \in Objetivos, NEW d \in gs[x]
        PROVE  /\ d \in Llamantes /\ ll[d].estado # "libre" /\ ll[d].req.target = x
               /\ x \in DOMAIN r.iterative_queries
    <3>1. d \in get_senders[x] \/ (d = c /\ x = t)
      BY <1>11, <2>1
    <3>2. CASE d \in get_senders[x]
      BY <1>8, <1>9, <1>10, <3>2 DEF Remitentes
    <3>3. CASE d = c /\ x = t
      BY <1>1, <1>4, <1>8, <1>10, <3>3
    <3> QED
      BY <3>1, <3>2, <3>3
  <2>2. ASSUME NEW x \in Objetivos, NEW d \in put_senders[x]
        PROVE  /\ d \in Llamantes /\ ll[d].estado # "libre"
               /\ ll[d].req.target = x /\ ll[d].req.op = "put"
               /\ x \in DOMAIN r.put_queries
               /\ ll[d].req.clase = "mutable" => Cubre(r.put_queries[x].req, ll[d].req)
    BY <1>8, <1>9, <1>10, <2>2 DEF Remitentes
  <2> QED
    BY <1>9, <1>11, <2>1, <2>2 DEF Remitentes
<1>13. EnEspera(gs, put_senders, ll)
  <2>1. ASSUME NEW d \in Llamantes, ll[d].estado = "espera"
        PROVE  d \in gs[ll[d].req.target] \cup put_senders[ll[d].req.target]
    <3>1. CASE d = c
      BY <1>1, <1>8, <1>11, <3>1
    <3>2. CASE d # c
      <4>1. PICK x : x = llamadas[d].req.target
        OBVIOUS
      <4>2. d \in get_senders[x] \cup put_senders[x] /\ ll[d].req.target = x
        BY <1>8, <1>9, <2>1, <3>2, <4>1 DEF EnEspera
      <4>3. llamadas[d].estado # "libre"
        BY <1>8, <2>1, <3>2
      <4>4. x \in Objetivos
        BY <4>1, <4>3, SupuestoMenus DEF InvRpc, Sano, Pedida
      <4> QED
        BY <1>11, <4>2, <4>4
    <3> QED
      BY <3>1, <3>2
  <2> QED
    BY <2>1 DEF EnEspera
<1>14. PutsSanos(menu, r, acuses)
  BY <1>9, <1>10 DEF PutsSanos
<1>15. Apuntada(r)
  BY <1>5, <1>9, <1>10 DEF Apuntada, Salen
<1>16. Sano(menu, r, gs, put_senders, ll, acuses)
  BY <1>8, <1>10, <1>12, <1>13, <1>14, <1>15 DEF Sano
<1>17. EnBuzon(IF buzon = <<>> THEN buzon ELSE Tail(buzon), ll)
  BY <1>8
<1> QED
  BY <1>3, <1>16, <1>17 DEF Obra

(* A put that is not refused stands for the items that were waited for:    *)
(* it is the one in flight, or its writer named the one in flight as cas.  *)
LEMMA NoConflicto ==
  ASSUME NEW r, NEW m \in Menus, NEW c \in Llamantes, NEW req \in m[c], req.op = "put",
         Conflicto(r, req) = "no", req.target \in DOMAIN r.put_queries,
         NEW q, q = r.put_queries[req.target], q.req.op = "put", q.req.target = req.target,
         NEW e \in Llamantes, q.req \in m[e],
         NEW d \in Llamantes, NEW otro \in m[d], otro.op = "put", otro.target = req.target,
         otro.clase = "mutable", Cubre(q.req, otro)
  PROVE  Cubre(req, otro)
<1>1. q.req.clase = "mutable" /\ req.clase = "mutable"
  BY SupuestoMenus
<1>2. req.item.seq \in Nat /\ otro.item.seq \in Nat /\ q.req.item.seq \in Nat
  BY <1>1, SupuestoMenus
<1>3. MutableEnVuelo(r, req.target)
  BY <1>1 DEF MutableEnVuelo
<1>4. PICK hay : hay = q.req.item
  OBVIOUS
<1>5. PICK x \in Nat, y \in Nat : x = req.item.seq /\ y = hay.seq
  BY <1>2, <1>4
<1>6. Conflicto(r, req) = IF req.item = hay THEN "igual"
                           ELSE IF x < y THEN "NotMostRecent"
                           ELSE IF req.cas = Nada THEN "ConflictRisk"
                           ELSE IF req.cas = y THEN "no"
                           ELSE "CasFailed"
  BY <1>1, <1>3, <1>4, <1>5 DEF Conflicto
<1>7. ~(x < y) /\ req.cas # Nada
  <2>1. PICK k : k = Conflicto(r, req)
    OBVIOUS
  <2>2. k = "no" /\ req.item # hay
    BY <1>6, <2>1
  <2>3. k = IF x < y THEN "NotMostRecent"
            ELSE IF req.cas = Nada THEN "ConflictRisk"
            ELSE IF req.cas = y THEN "no"
            ELSE "CasFailed"
    BY <1>6, <2>1, <2>2
  <2> QED
    BY <2>2, <2>3
<1> QED
  BY <1>2, <1>4, <1>5, <1>7 DEF Cubre

(* What a put that is the same as the one in flight says. *)
LEMMA ConflictoIgual ==
  ASSUME NEW r, NEW req, Conflicto(r, req) = "igual"
  PROVE  MutableEnVuelo(r, req.target) /\ req.item = r.put_queries[req.target].req.item
<1>1. req.clase = "mutable" /\ MutableEnVuelo(r, req.target)
  BY DEF Conflicto
<1>2. PICK hay : hay = r.put_queries[req.target].req.item
  OBVIOUS
<1>3. CASE req.item # hay
  <2>1. Conflicto(r, req) = IF req.item.seq < hay.seq THEN "NotMostRecent"
                            ELSE IF req.cas = Nada THEN "ConflictRisk"
                            ELSE IF req.cas = hay.seq THEN "no"
                            ELSE "CasFailed"
    BY <1>1, <1>2, <1>3, Zenon DEF Conflicto
  <2>2. Conflicto(r, req) # "igual"
    BY <2>1
  <2> QED
    BY <2>2
<1> QED
  BY <1>1, <1>2, <1>3

(* A message that starts or joins a put: its sender is kept. *)
UnPut(e, c, req, t, r, ps) ==
  /\ c = Head(buzon) /\ req = llamadas[c].req /\ t = req.target /\ req.op = "put"
  /\ Conflicto(rpc, req) \in {"no", "igual"}
  /\ r = IF Conflicto(rpc, req) = "no" THEN put(rpc, req) ELSE rpc
  /\ ps = [put_senders EXCEPT ![t] = @ \cup {c}]
  /\ e = [r |-> r, gs |-> get_senders, ps |-> ps, ll |-> EnCurso(c)]

LEMMA AtenderPut ==
  ASSUME InvRpc, buzon # <<>>, NEW e, NEW c, NEW req, NEW t, NEW r, NEW ps, UnPut(e, c, req, t, r, ps)
  PROVE  Obra(e)
<1>1. c = Head(buzon) /\ req = llamadas[c].req /\ t = req.target
  BY DEF UnPut
<1>2. PICK ll : /\ ll = EnCurso(c)
                /\ ps = [put_senders EXCEPT ![t] = @ \cup {c}]
                /\ r = IF Conflicto(rpc, req) = "no" THEN put(rpc, req) ELSE rpc
  BY DEF UnPut
<1>3. e.r = r /\ e.gs = get_senders /\ e.ps = ps /\ e.ll = ll
  BY <1>2 DEF UnPut
<1>4. c \in Llamantes /\ req \in menu[c] /\ llamadas[c].estado # "libre" /\ req.op = "put"
      /\ Conflicto(rpc, req) \in {"no", "igual"} /\ menu \in Menus
  <2>1. req.op = "put" /\ Conflicto(rpc, req) \in {"no", "igual"}
    BY DEF UnPut
  <2> QED
    BY <1>1, <2>1, Cabeza DEF InvRpc
<1>5. t \in Objetivos
  BY <1>1, <1>4, SupuestoMenus
<1>6. Avanzan(EnCurso(c), ll, acuses)
  BY <1>1, <1>2, EnCursoEs
<1>7. /\ Pedida(menu, ll) /\ Respaldo(ll, acuses) /\ EnBuzon(Tail(buzon), ll)
      /\ \A d \in Llamantes :
              /\ ll[d].req = llamadas[d].req
              /\ llamadas[d].estado # "libre" => ll[d].estado # "libre"
              /\ ll[d].estado = "espera" => d = c \/ llamadas[d].estado = "espera"
  BY <1>1, <1>6, Atendida
<1>8. /\ EsRpc(rpc) /\ Apuntada(rpc) /\ PutsSanos(menu, rpc, acuses) /\ Pedida(menu, llamadas)
      /\ Remitentes(rpc, get_senders, put_senders, llamadas)
      /\ EnEspera(get_senders, put_senders, llamadas)
  BY DEF InvRpc, Sano
<1>9. /\ DOMAIN ps = Objetivos /\ ps[t] = put_senders[t] \cup {c}
      /\ \A x \in Objetivos : x # t => ps[x] = put_senders[x]
  BY <1>2, <1>5, <1>8 DEF Remitentes
<1>10. /\ EsRpc(r) /\ Apuntada(r)
       /\ DOMAIN r.put_queries = DOMAIN rpc.put_queries \cup {t}
       /\ \A x \in DOMAIN rpc.put_queries \ {t} : r.put_queries[x] = rpc.put_queries[x]
       /\ DOMAIN rpc.iterative_queries \subseteq DOMAIN r.iterative_queries
       /\ PutSano(menu, r.put_queries[t], t, acuses)
       /\ Cubre(r.put_queries[t].req, req)
       /\ r.put_queries[t].req \in {req} \cup
            (IF t \in DOMAIN rpc.put_queries /\ r = rpc THEN {rpc.put_queries[t].req} ELSE {})
  <2>1. CASE Conflicto(rpc, req) = "no"
    <3>1. r = put(rpc, req)
      BY <1>2, <2>1
    <3>2. Puesto(rpc, r, req, t)
      BY <1>1, <1>8, <3>1, PutEs
    <3>3. PICK q : q = r.put_queries[t]
      OBVIOUS
    <3>4. Recien(q, req)
      BY <3>2, <3>3 DEF Puesto
    <3>5. PutSano(menu, q, t, acuses) /\ q.req = req
      BY <1>1, <1>4, <3>4 DEF PutSano, Recien
    <3>6. Cubre(req, req)
      BY DEF Cubre
    <3>7. Apuntada(r)
      BY <1>5, <1>8, <3>2 DEF Apuntada, Salen, Puesto
    <3> QED
      BY <3>2, <3>3, <3>5, <3>6, <3>7 DEF Puesto
  <2>2. CASE Conflicto(rpc, req) # "no"
    <3>0. PICK k : k = Conflicto(rpc, req)
      OBVIOUS
    <3>1. r = rpc /\ Conflicto(rpc, req) = "igual"
      <4>1. k \in {"no", "igual"} /\ k # "no"
        BY <1>4, <2>2, <3>0, Zenon
      <4>2. k = "igual"
        BY <4>1
      <4> QED
        BY <1>2, <2>2, <3>0, <4>2, Zenon
    <3>2. /\ MutableEnVuelo(rpc, t) /\ req.item = rpc.put_queries[t].req.item
      BY <1>1, <3>1, ConflictoIgual
    <3> QED
      BY <1>8, <3>1, <3>2 DEF MutableEnVuelo, PutsSanos, Cubre
  <2> QED
    BY <2>1, <2>2
<1>11. PutsSanos(menu, r, acuses)
  BY <1>8, <1>10 DEF PutsSanos
<1>12. ASSUME NEW d \in put_senders[t], llamadas[d].req.clase = "mutable"
       PROVE  Cubre(r.put_queries[t].req, llamadas[d].req)
  <2>1. PICK otro : otro = llamadas[d].req
    OBVIOUS
  <2>2. /\ d \in Llamantes /\ llamadas[d].estado # "libre" /\ otro.target = t /\ otro.op = "put"
        /\ t \in DOMAIN rpc.put_queries /\ Cubre(rpc.put_queries[t].req, otro)
    BY <1>5, <1>8, <1>12, <2>1 DEF Remitentes
  <2>3. otro \in menu[d]
    BY <1>8, <2>1, <2>2 DEF Pedida
  <2>4. CASE r = rpc
    BY <2>1, <2>2, <2>4
  <2>5. CASE r # rpc
    <3>1. PICK q : q = rpc.put_queries[t]
      OBVIOUS
    <3>2. q.req.op = "put" /\ q.req.target = t /\ \E x \in Llamantes : q.req \in menu[x]
      BY <1>8, <2>2, <3>1 DEF PutsSanos, PutSano
    <3>3. PICK x \in Llamantes : q.req \in menu[x]
      BY <3>2
    <3>4. Cubre(req, otro)
      <4>1. Conflicto(rpc, req) = "no" /\ req.target = t /\ otro.clase = "mutable"
        <5>1. Conflicto(rpc, req) = "no"
          BY <1>2, <2>5
        <5>2. otro.clase = "mutable"
          BY <1>12, <2>1
        <5> QED
          BY <1>1, <5>1, <5>2
      <4>2. /\ req.target \in DOMAIN rpc.put_queries /\ q = rpc.put_queries[req.target]
            /\ q.req.target = req.target /\ otro.target = req.target /\ Cubre(q.req, otro)
        BY <2>2, <3>1, <3>2, <4>1
      <4> QED
        BY <1>4, <2>2, <2>3, <3>2, <3>3, <4>1, <4>2, NoConflicto
    <3>5. r.put_queries[t].req = req
      BY <1>10, <2>5
    <3> QED
      BY <2>1, <3>4, <3>5
  <2> QED
    BY <2>4, <2>5
<1>13. Remitentes(r, get_senders, ps, ll)
  <2>1. ASSUME NEW x \in Objetivos, NEW d \in get_senders[x]
        PROVE  /\ d \in Llamantes /\ ll[d].estado # "libre" /\ ll[d].req.target = x
               /\ x \in DOMAIN r.iterative_queries
    BY <1>7, <1>8, <1>10, <2>1 DEF Remitentes
  <2>2. ASSUME NEW x \in Objetivos, NEW d \in ps[x]
        PROVE  /\ d \in Llamantes /\ ll[d].estado # "libre"
               /\ ll[d].req.target = x /\ ll[d].req.op = "put"
               /\ x \in DOMAIN r.put_queries
               /\ ll[d].req.clase = "mutable" => Cubre(r.put_queries[x].req, ll[d].req)
    <3>1. d \in put_senders[x] \/ (d = c /\ x = t)
      <4>1. CASE x = t
        BY <1>9, <2>2, <4>1
      <4>2. CASE x # t
        BY <1>9, <2>2, <4>2
      <4> QED
        BY <4>1, <4>2, Zenon
    <3>2. CASE d = c /\ x = t
      BY <1>1, <1>4, <1>7, <1>10, <3>2, Zenon
    <3>3. CASE d \in put_senders[x]
      <4>1. /\ d \in Llamantes /\ llamadas[d].estado # "libre"
            /\ llamadas[d].req.target = x /\ llamadas[d].req.op = "put"
            /\ x \in DOMAIN rpc.put_queries
            /\ llamadas[d].req.clase = "mutable" => Cubre(rpc.put_queries[x].req, llamadas[d].req)
        BY <1>8, <3>3 DEF Remitentes
      <4>2. ll[d].req = llamadas[d].req /\ ll[d].estado # "libre"
        BY <1>7, <4>1
      <4>3. CASE x = t
        BY <1>10, <1>12, <3>3, <4>1, <4>2, <4>3
      <4>4. CASE x # t
        BY <1>10, <4>1, <4>2, <4>4
      <4> QED
        BY <4>3, <4>4
    <3> QED
      BY <3>1, <3>2, <3>3
  <2> QED
    BY <1>8, <1>9, <2>1, <2>2 DEF Remitentes
<1>14. EnEspera(get_senders, ps, ll)
  <2>1. ASSUME NEW d \in Llamantes, ll[d].estado = "espera"
        PROVE  d \in get_senders[ll[d].req.target] \cup ps[ll[d].req.target]
    <3>1. CASE d = c
      BY <1>1, <1>7, <1>9, <3>1
    <3>2. CASE d # c
      <4>1. PICK x : x = llamadas[d].req.target
        OBVIOUS
      <4>2. d \in get_senders[x] \cup put_senders[x] /\ ll[d].req.target = x
        BY <1>7, <1>8, <2>1, <3>2, <4>1 DEF EnEspera
      <4>3. llamadas[d].estado # "libre"
        BY <1>7, <2>1, <3>2
      <4>4. x \in Objetivos
        BY <1>4, <1>8, <4>1, <4>3, SupuestoMenus DEF Pedida
      <4> QED
        BY <1>9, <4>2, <4>4
    <3> QED
      BY <3>1, <3>2
  <2> QED
    BY <2>1 DEF EnEspera
<1> QED
  BY <1>3, <1>7, <1>10, <1>11, <1>13, <1>14 DEF Obra, Sano

(* Any message, or none, leaves the invariant. *)
LEMMA AtenderEs ==
  ASSUME InvRpc, NEW e, e = Atender(Ahora)
  PROVE  Obra(e)
<1>1. CASE buzon = <<>>
  <2>1. e = Ahora
    BY <1>1 DEF Atender
  <2>2. e.r = rpc /\ e.gs = get_senders /\ e.ps = put_senders /\ e.ll = llamadas
    BY <2>1 DEF Ahora
  <2> QED
    BY <1>1, <2>2 DEF Obra, InvRpc
<1>2. CASE buzon # <<>>
  <2>1. PICK c, req : c = Head(buzon) /\ req = llamadas[c].req
    OBVIOUS
  <2>2. PICK en : en = [Ahora EXCEPT !.ll[c].estado = "espera"]
    OBVIOUS
  <2>3. en = [r |-> rpc, gs |-> get_senders, ps |-> put_senders, ll |-> EnCurso(c)]
    BY <2>2 DEF Ahora, EnCurso
  <2>4. req.op \in {"info", "get", "put"}
    BY <1>2, <2>1, Cabeza, SupuestoMenus DEF InvRpc
  <2>5. CASE req.op = "info"
    <3>1. e = [Ahora EXCEPT !.ll = Terminan(en.ll, {c}, "info")]
      BY <1>2, <2>1, <2>2, <2>5 DEF Atender
    <3>2. e = [Ahora EXCEPT !.ll = Terminan(EnCurso(c), {c}, "info")]
      BY <2>3, <3>1
    <3> QED
      BY <1>2, <2>1, <3>2, AtenderInfo
  <2>6. CASE req.op = "get"
    <3>1. PICK vs : vs = Responses(Ahora.r, req.target)
      OBVIOUS
    <3>2. e = [en EXCEPT !.ll = ConValores(@, {c}, vs),
                         !.r = get(Ahora.r, req.clase, req.target),
                         !.gs[req.target] = @ \cup {c}]
      BY <1>2, <2>1, <2>2, <2>6, <3>1 DEF Atender
    <3>3. Ahora.r = rpc
      BY DEF Ahora
    <3>4. PICK l2, g, gs : /\ l2 = ConValores(EnCurso(c), {c}, vs)
                           /\ g = get(rpc, req.clase, req.target)
                           /\ gs = [get_senders EXCEPT ![req.target] = @ \cup {c}]
      OBVIOUS
    <3>5. PICK a : a = [en EXCEPT !.ll = ConValores(@, {c}, vs)]
      OBVIOUS
    <3>6. a = [r |-> rpc, gs |-> get_senders, ps |-> put_senders, ll |-> l2]
      BY <2>3, <3>4, <3>5
    <3>7. PICK b : b = [a EXCEPT !.r = g]
      OBVIOUS
    <3>8. b = [r |-> g, gs |-> get_senders, ps |-> put_senders, ll |-> l2]
      BY <3>6, <3>7
    <3>9. e = [b EXCEPT !.gs[req.target] = @ \cup {c}]
      BY <2>3, <3>2, <3>3, <3>4, <3>5, <3>7
    <3>10. e = [r |-> g, gs |-> gs, ps |-> put_senders, ll |-> l2]
      BY <3>4, <3>8, <3>9
    <3> QED
      <4>1. UnGet(e, c, req, req.target, g, gs, l2, vs)
        BY <1>2, <2>1, <2>6, <3>4, <3>10, Zenon DEF UnGet
      <4> QED
        BY <1>2, <4>1, AtenderGet
  <2>7. CASE req.op = "put"
    <3>1. PICK no : no = Conflicto(rpc, req)
      OBVIOUS
    <3>2. Ahora.r = rpc
      BY DEF Ahora
    <3>3. e = IF no \in {"no", "igual"}
              THEN [en EXCEPT !.r = IF no = "no" THEN put(rpc, req) ELSE @,
                              !.ps[req.target] = @ \cup {c}]
              ELSE [en EXCEPT !.ll = Terminan(@, {c}, no)]
      BY <1>2, <2>1, <2>2, <2>7, <3>1, <3>2 DEF Atender
    <3>4. CASE no \notin {"no", "igual"}
      <4>1. PICK ll : ll = Terminan(EnCurso(c), {c}, no)
        OBVIOUS
      <4>2. e = [r |-> rpc, gs |-> get_senders, ps |-> put_senders, ll |-> ll]
        BY <2>3, <3>3, <3>4, <4>1
      <4>3. e = [Ahora EXCEPT !.ll = Terminan(EnCurso(c), {c}, no)]
        BY <4>1, <4>2 DEF Ahora
      <4>4. no # "Ok"
        BY <3>1 DEF Conflicto
      <4> QED
        BY <1>2, <2>1, <4>3, <4>4, AtenderInfo
    <3>5. CASE no \in {"no", "igual"}
      <4>1. PICK p, ps : /\ p = IF no = "no" THEN put(rpc, req) ELSE rpc
                         /\ ps = [put_senders EXCEPT ![req.target] = @ \cup {c}]
        OBVIOUS
      <4>2. PICK a : a = [en EXCEPT !.r = IF no = "no" THEN put(rpc, req) ELSE @]
        OBVIOUS
      <4>3. a = [r |-> p, gs |-> get_senders, ps |-> put_senders, ll |-> EnCurso(c)]
        BY <2>3, <4>1, <4>2
      <4>4. e = [a EXCEPT !.ps[req.target] = @ \cup {c}]
        BY <2>3, <3>3, <3>5, <4>2
      <4>5. e = [r |-> p, gs |-> get_senders, ps |-> ps, ll |-> EnCurso(c)]
        BY <4>1, <4>3, <4>4
      <4>6. UnPut(e, c, req, req.target, p, ps)
        BY <1>2, <2>1, <2>7, <3>1, <3>5, <4>1, <4>5 DEF UnPut
      <4> QED
        BY <1>2, <4>6, AtenderPut
    <3> QED
      BY <3>4, <3>5
  <2> QED
    BY <2>4, <2>5, <2>6, <2>7
<1> QED
  BY <1>1, <1>2

-----------------------------------------------------------------------------
(* The end of a turn of the actor: the results go to their callers.        *)

(* No caller still waits for a lookup that ended. *)
LEMMA TerminaGetsAvanza ==
  ASSUME NEW m, NEW ll, Pedida(m, ll), NEW r, NEW gs, NEW hechos, NEW ac
  PROVE  LET nn == TerminaGets(ll, r, gs, hechos)
         IN /\ Avanzan(ll, nn, ac)
            /\ \A c \in Llamantes :
                 nn[c].estado = "espera" =>
                   ll[c].req.target \notin hechos \/ c \notin gs[ll[c].req.target]
<1>1. ASSUME NEW c \in Llamantes
      PROVE  /\ Avanza(ll[c], TerminaGets(ll, r, gs, hechos)[c], ac)
             /\ TerminaGets(ll, r, gs, hechos)[c].estado = "espera" =>
                  ll[c].req.target \notin hechos \/ c \notin gs[ll[c].req.target]
  <2>1. Completa(ll[c])
    BY DEF Pedida
  <2>2. PICK t, res : /\ t = ll[c].req.target
                      /\ res = IF ClosestDe(r.iterative_queries[t], t) = {} THEN "nada" ELSE "nodos"
    OBVIOUS
  <2>3. PICK n : n = [ll[c] EXCEPT !.estado = "fin", !.res = res]
    OBVIOUS
  <2>4. Completa(n) /\ n.req = ll[c].req /\ n.estado = "fin" /\ n.res = res
    <3>1. n = [req |-> ll[c].req, estado |-> "fin", item |-> ll[c].item, res |-> res]
      BY <2>1, <2>3, ConFin
    <3> QED
      BY <3>1 DEF Completa
  <2>5. TerminaGets(ll, r, gs, hechos)[c] =
          IF ll[c].estado # "espera" \/ t \notin hechos \/ c \notin gs[t] THEN ll[c] ELSE n
    BY <2>2, <2>3 DEF TerminaGets
  <2>6. res # "Ok"
    BY <2>2
  <2> QED
    BY <2>1, <2>2, <2>4, <2>5, <2>6 DEF Avanza
<1>2. DOMAIN TerminaGets(ll, r, gs, hechos) = Llamantes
  BY DEF TerminaGets
<1> QED
  BY <1>1, <1>2 DEF Avanzan

(* No caller still waits for a put that ended. *)
LEMMA TerminaPutsAvanza ==
  ASSUME NEW m, NEW ll, Pedida(m, ll), NEW ps, NEW fines, NEW ac,
         \A c \in Llamantes : \A f \in fines :
           ll[c].estado = "espera" /\ c \in ps[f[1]] /\ f[2] = "Ok" => Respaldada(ll[c].req, ac)
  PROVE  LET nn == TerminaPuts(ll, ps, fines)
         IN /\ Avanzan(ll, nn, ac)
            /\ \A c \in Llamantes :
                 nn[c].estado = "espera" => \A f \in fines : c \notin ps[f[1]]
<1>1. ASSUME NEW c \in Llamantes
      PROVE  /\ Avanza(ll[c], TerminaPuts(ll, ps, fines)[c], ac)
             /\ TerminaPuts(ll, ps, fines)[c].estado = "espera" =>
                  \A f \in fines : c \notin ps[f[1]]
  <2>1. Completa(ll[c])
    BY DEF Pedida
  <2>2. PICK suyos : suyos = {f \in fines : c \in ps[f[1]]}
    OBVIOUS
  <2>3. PICK res : res = (CHOOSE f \in suyos : TRUE)[2]
    OBVIOUS
  <2>4. PICK n : n = [ll[c] EXCEPT !.estado = "fin", !.res = res]
    OBVIOUS
  <2>5. Completa(n) /\ n.req = ll[c].req /\ n.estado = "fin" /\ n.res = res
    <3>1. n = [req |-> ll[c].req, estado |-> "fin", item |-> ll[c].item, res |-> res]
      BY <2>1, <2>4, ConFin
    <3> QED
      BY <3>1 DEF Completa
  <2>6. TerminaPuts(ll, ps, fines)[c] =
          IF ll[c].estado # "espera" \/ suyos = {} THEN ll[c] ELSE n
    BY <2>2, <2>3, <2>4 DEF TerminaPuts
  <2>7. CASE ll[c].estado # "espera" \/ suyos = {}
    BY <2>1, <2>2, <2>6, <2>7 DEF Avanza
  <2>8. CASE ll[c].estado = "espera" /\ suyos # {}
    <3>1. PICK f : f = (CHOOSE x \in suyos : TRUE)
      OBVIOUS
    <3>2. f \in suyos
      BY <2>8, <3>1
    <3>3. res = "Ok" => Respaldada(ll[c].req, ac)
      BY <2>2, <2>3, <2>8, <3>1, <3>2
    <3> QED
      BY <2>5, <2>6, <2>8, <3>3 DEF Avanza
  <2> QED
    BY <2>7, <2>8
<1>2. DOMAIN TerminaPuts(ll, ps, fines) = Llamantes
  BY DEF TerminaPuts
<1> QED
  BY <1>1, <1>2 DEF Avanzan

(* The puts that end: those done, and those whose lookup found no node.    *)
LEMMA FinesEs ==
  ASSUME NEW r, NEW r1, r1.put_queries = r.put_queries, NEW hechos, NEW fines,
         fines = tick_put_queries(r) \cup SinCercanos(r1, hechos), NEW f \in fines
  PROVE  /\ f[1] \in DOMAIN r.put_queries
         /\ f[2] = "Ok" => r.put_queries[f[1]].stored_at # 0
<1>1. CASE f \in tick_put_queries(r)
  <2>1. PICK t \in DOMAIN r.put_queries : f = <<t, FinPut(r, r.put_queries[t])>>
    BY <1>1 DEF tick_put_queries
  <2> QED
    BY <2>1, FinEs
<1>2. CASE f \in SinCercanos(r1, hechos)
  BY <1>2 DEF SinCercanos, EsperaGet
<1> QED
  BY <1>1, <1>2

(* Rpc after a turn. *)
Girado(r, r3, hechos, fines, llega) ==
  /\ EsRpc(r3) /\ Salen(r, r3, DOMAIN r.iterative_queries)
  /\ DOMAIN r3.iterative_queries = DOMAIN r.iterative_queries \ hechos
  /\ DOMAIN r3.put_queries = DOMAIN r.put_queries \ {x[1] : x \in fines}
  /\ \A t \in DOMAIN r3.put_queries :
       \E q2 : /\ Seguido(r.put_queries[t], q2)
               /\ \/ r3.put_queries[t] = q2
                  \/ llega # <<>> /\ Respondido(q2, r3.put_queries[t], llega[1], llega[2])

(* What the lookups, the puts and the datagram of a turn leave. *)
LEMMA GiradoEs ==
  ASSUME NEW r, EsRpc(r), \A t \in DOMAIN r.put_queries : PutCompleto(r.put_queries[t]),
         NEW r1, r1 = Visitado(r), NEW hechos, NEW orden, NEW fines,
         NEW r2, r2 = QuitarPuts(TerminarGets(r1, hechos, orden), fines), NEW llega,
         NEW r3, r3 = IF llega = <<>> THEN r2 ELSE handle_response(r2, llega[1], llega[2])
  PROVE  /\ Girado(r, r3, hechos, fines, llega) /\ Salen(r, r2, DOMAIN r.iterative_queries)
         /\ r1.put_queries = r.put_queries
<1>1. /\ EsRpc(r1) /\ r1.put_queries = r.put_queries
      /\ DOMAIN r1.iterative_queries = DOMAIN r.iterative_queries
      /\ Salen(r, r1, DOMAIN r.iterative_queries)
  BY VisitadoEs
<1>2. PICK v : v = TerminarGets(r1, hechos, orden)
  OBVIOUS
<1>3. /\ EsRpc(v) /\ DOMAIN v.put_queries = DOMAIN r1.put_queries
      /\ \A t \in DOMAIN r1.put_queries : Seguido(r1.put_queries[t], v.put_queries[t])
      /\ DOMAIN v.iterative_queries = DOMAIN r1.iterative_queries \ hechos
      /\ Salen(r1, v, {})
  <2>1. \A t \in DOMAIN r1.put_queries : PutCompleto(r1.put_queries[t])
    BY <1>1
  <2> QED
    BY <1>1, <1>2, <2>1, TerminarEs
<1>4. /\ EsRpc(r2) /\ r2.iterative_queries = v.iterative_queries
      /\ DOMAIN r2.put_queries = DOMAIN v.put_queries \ {f[1] : f \in fines}
      /\ \A t \in DOMAIN r2.put_queries : r2.put_queries[t] = v.put_queries[t]
      /\ r2.inflight = v.inflight
  BY <1>2, <1>3, QuitarEs
<1>5. \A t \in DOMAIN r2.put_queries : Seguido(r.put_queries[t], r2.put_queries[t])
  BY <1>1, <1>3, <1>4
<1>6. Salen(r, r2, DOMAIN r.iterative_queries)
  BY <1>1, <1>3, <1>4 DEF Salen
<1>7. CASE llega = <<>>
  <2>1. r3 = r2
    BY <1>7
  <2>2. \A t \in DOMAIN r3.put_queries :
          \E q2 : Seguido(r.put_queries[t], q2) /\ r3.put_queries[t] = q2
    BY <1>5, <2>1
  <2> QED
    BY <1>1, <1>3, <1>4, <1>6, <2>1, <2>2 DEF Girado
<1>8. CASE llega # <<>>
  <2>1. \A t \in DOMAIN r2.put_queries : PutCompleto(r2.put_queries[t])
    <3>1. ASSUME NEW t \in DOMAIN r2.put_queries
          PROVE  PutCompleto(r2.put_queries[t])
      <4>1. Seguido(r.put_queries[t], r2.put_queries[t])
        BY <1>5
      <4> QED
        BY <4>1 DEF Seguido, PutCompleto
    <3> QED
      BY <3>1
  <2>2. r3 = handle_response(r2, llega[1], llega[2])
    BY <1>8
  <2>3. /\ EsRpc(r3) /\ DOMAIN r3.iterative_queries = DOMAIN r2.iterative_queries
        /\ r3.inflight \subseteq r2.inflight
        /\ DOMAIN r3.put_queries = DOMAIN r2.put_queries
        /\ \A t \in DOMAIN r2.put_queries :
             Respondido(r2.put_queries[t], r3.put_queries[t], llega[1], llega[2])
    BY <1>4, <2>1, <2>2, HandleEs
  <2>4. Salen(r, r3, DOMAIN r.iterative_queries)
    BY <1>6, <2>3 DEF Salen
  <2>5. \A t \in DOMAIN r3.put_queries :
          \E q2 : /\ Seguido(r.put_queries[t], q2)
                  /\ Respondido(q2, r3.put_queries[t], llega[1], llega[2])
    BY <1>5, <2>3
  <2> QED
    BY <1>1, <1>3, <1>4, <1>6, <1>8, <2>3, <2>4, <2>5 DEF Girado
<1> QED
  BY <1>7, <1>8

(* The parts of a turn: the message and the tick; the datagram; what goes
   where. *)
Tarea(e, r1, hechos, fines, r2) ==
  /\ e = Atender(Ahora) /\ r1 = Visitado(e.r)
  /\ hechos \subseteq Activas(r1)
  /\ fines = tick_put_queries(e.r) \cup SinCercanos(r1, hechos)
  /\ \E orden : r2 = QuitarPuts(TerminarGets(r1, hechos, orden), fines)

Llegada(r2, llega) ==
  llega = <<>> \/ \E tid \in r2.inflight : \E con \in Contestaciones(r2, tid) : llega = <<tid, con>>

Reparto(e, r1, hechos, fines, r2, llega) ==
  LET ll1 == IF llega # <<>> /\ Bueno(llega[2])
             THEN ConValores(e.ll, e.gs[llega[1][2]], {llega[2][2]}) ELSE e.ll
  IN /\ rpc' = IF llega = <<>> THEN r2 ELSE handle_response(r2, llega[1], llega[2])
     /\ llamadas' = TerminaPuts(TerminaGets(ll1, r1, e.gs, hechos), e.ps, fines)
     /\ get_senders' = [t \in Objetivos |-> IF t \in hechos THEN {} ELSE e.gs[t]]
     /\ put_senders' = [t \in Objetivos |-> IF \E f \in fines : f[1] = t THEN {} ELSE e.ps[t]]
     /\ acuses' = IF llega # <<>> /\ llega[1][1] = "put" /\ llega[2][1] = "ok"
                  THEN acuses \cup {llega[1][2]} ELSE acuses

(* The parts of a turn. *)
LEMMA VueltaEs ==
  ASSUME Vuelta
  PROVE  \E e, r1, hechos, fines, r2, llega :
           /\ Tarea(e, r1, hechos, fines, r2)
           /\ Llegada(r2, llega)
           /\ Reparto(e, r1, hechos, fines, r2, llega)
<1> DEFINE Llegadas(r2) == {<<>>} \cup
             UNION {{<<tid, con>> : con \in Contestaciones(r2, tid)} : tid \in r2.inflight}
           Ultimo(e, r1, hechos, fines) ==
             \E orden \in Ordenes(hechos) :
             \E r2 \in {QuitarPuts(TerminarGets(r1, hechos, orden), fines)} :
             \E llega \in Llegadas(r2) : Reparto(e, r1, hechos, fines, r2, llega)
           Medio(e, puts, r1) ==
             \E hechos \in {{t \in Activas(r1) : GetHecho(r1, t)}} :
             \E fines \in {puts \cup SinCercanos(r1, hechos)} : Ultimo(e, r1, hechos, fines)
           Primero(e) ==
             \E puts \in {tick_put_queries(e.r)} : \E r1 \in {Visitado(e.r)} : Medio(e, puts, r1)
<1>1. \E e \in {Atender(Ahora)} : Primero(e)
  BY DEF Vuelta, Ahora, Reparto
<1> HIDE DEF Primero
<1>2. PICK e : e = Atender(Ahora) /\ Primero(e)
  BY <1>1
<1> HIDE DEF Medio
<1>3. PICK r1 : r1 = Visitado(e.r) /\ Medio(e, tick_put_queries(e.r), r1)
  BY <1>2 DEF Primero
<1> HIDE DEF Ultimo
<1>4. PICK hechos : /\ hechos = {t \in Activas(r1) : GetHecho(r1, t)}
                    /\ Ultimo(e, r1, hechos, tick_put_queries(e.r) \cup SinCercanos(r1, hechos))
  BY <1>3 DEF Medio
<1>5. PICK fines : fines = tick_put_queries(e.r) \cup SinCercanos(r1, hechos)
  OBVIOUS
<1> HIDE DEF Llegadas
<1>6. PICK orden \in Ordenes(hechos) :
      \E r2 \in {QuitarPuts(TerminarGets(r1, hechos, orden), fines)} :
      \E llega \in Llegadas(r2) : Reparto(e, r1, hechos, fines, r2, llega)
  BY <1>4, <1>5 DEF Ultimo
<1>7. PICK r2 : /\ r2 = QuitarPuts(TerminarGets(r1, hechos, orden), fines)
                /\ \E llega \in Llegadas(r2) : Reparto(e, r1, hechos, fines, r2, llega)
  BY <1>6
<1>8. PICK llega \in Llegadas(r2) : Reparto(e, r1, hechos, fines, r2, llega)
  BY <1>7
<1>9. Llegada(r2, llega)
  BY <1>8 DEF Llegada, Llegadas
<1>10. Tarea(e, r1, hechos, fines, r2)
  BY <1>2, <1>3, <1>4, <1>5, <1>7 DEF Tarea
<1> QED
  BY <1>8, <1>9, <1>10

(* A value comes as an answer to a lookup. *)
LEMMA ValorEs ==
  ASSUME NEW r2, NEW llega, Llegada(r2, llega), llega # <<>>, Bueno(llega[2])
  PROVE  llega[1] \in r2.inflight /\ llega[1][1] # "put"
<1>1. PICK tid \in r2.inflight : \E x \in Contestaciones(r2, tid) : llega = <<tid, x>>
  BY DEF Llegada
<1>0. PICK con \in Contestaciones(r2, tid) : llega = <<tid, con>>
  BY <1>1
<1>2. llega[1] = tid /\ llega[2] = con
  BY <1>0
<1>3. con[1] = "valor"
  BY <1>2 DEF Bueno
<1>4. ASSUME tid[1] = "put"
      PROVE  FALSE
  <2>1. con \in {Solo("ok"), Solo("solo_lectura")} \cup {<<"error", c>> : c \in Codigos}
    BY <1>0, <1>4 DEF Contestaciones
  <2> QED
    BY <1>3, <2>1 DEF Solo
<1> QED
  BY <1>1, <1>2, <1>4

(* A turn of the actor keeps the invariant. *)
LEMMA VueltaSana ==
  ASSUME InvRpc, Vuelta
  PROVE  InvRpc'
<1>1. PICK e, r1, hechos, fines, r2, llega :
           /\ Tarea(e, r1, hechos, fines, r2)
           /\ Llegada(r2, llega)
           /\ Reparto(e, r1, hechos, fines, r2, llega)
  BY VueltaEs
<1>2. Obra(e)
  BY <1>1, AtenderEs DEF Tarea
<1>3. PICK r, gs, ps, ll : r = e.r /\ gs = e.gs /\ ps = e.ps /\ ll = e.ll
  OBVIOUS
<1>4. /\ EsRpc(r) /\ Apuntada(r) /\ Pedida(menu, ll) /\ PutsSanos(menu, r, acuses)
      /\ Remitentes(r, gs, ps, ll) /\ EnEspera(gs, ps, ll) /\ Respaldo(ll, acuses)
  BY <1>2, <1>3 DEF Obra, Sano
<1>5. \A t \in DOMAIN r.put_queries : PutCompleto(r.put_queries[t]) /\ t \in Objetivos
  <2>1. ASSUME NEW t \in DOMAIN r.put_queries
        PROVE  PutCompleto(r.put_queries[t]) /\ t \in Objetivos
    <3>1. PICK q : q = r.put_queries[t]
      OBVIOUS
    <3>2. PutSano(menu, q, t, acuses)
      BY <1>4, <3>1 DEF PutsSanos
    <3>3. PutCompleto(q) /\ q.req.target = t /\ \E d \in Llamantes : q.req \in menu[d]
      BY <3>2 DEF PutSano, PutCompleto
    <3>4. t \in Objetivos
      BY <3>3, SupuestoMenus DEF InvRpc
    <3> QED
      BY <3>1, <3>3, <3>4
  <2> QED
    BY <2>1
<1>6. /\ Girado(r, rpc', hechos, fines, llega) /\ Salen(r, r2, DOMAIN r.iterative_queries)
      /\ r1.put_queries = r.put_queries
  <2>1. PICK orden : r2 = QuitarPuts(TerminarGets(r1, hechos, orden), fines)
    BY <1>1 DEF Tarea
  <2>2. PICK r3 : r3 = rpc'
    OBVIOUS
  <2>3. r3 = IF llega = <<>> THEN r2 ELSE handle_response(r2, llega[1], llega[2])
    BY <1>1, <2>2 DEF Reparto
  <2>4. r1 = Visitado(r) /\ \A t \in DOMAIN r.put_queries : PutCompleto(r.put_queries[t])
    BY <1>1, <1>3, <1>5 DEF Tarea
  <2>5. /\ Girado(r, r3, hechos, fines, llega) /\ Salen(r, r2, DOMAIN r.iterative_queries)
        /\ r1.put_queries = r.put_queries
    BY <1>4, <2>1, <2>3, <2>4, GiradoEs
  <2> QED
    BY <2>2, <2>5
<1>7. \A f \in fines : /\ f[1] \in DOMAIN r.put_queries
                       /\ f[2] = "Ok" => r.put_queries[f[1]].stored_at # 0
  BY <1>1, <1>3, <1>6, FinesEs DEF Tarea
<1>8. PICK ll1 : ll1 = IF llega # <<>> /\ Bueno(llega[2])
                       THEN ConValores(e.ll, e.gs[llega[1][2]], {llega[2][2]}) ELSE e.ll
  OBVIOUS
<1>9. Avanzan(ll, ll1, acuses)
  <2>1. CASE ~(llega # <<>> /\ Bueno(llega[2]))
    BY <1>3, <1>4, <1>8, <2>1, Igual
  <2>2. CASE llega # <<>> /\ Bueno(llega[2])
    <3>1. PICK t, vs : t = llega[1][2] /\ vs = {llega[2][2]}
      OBVIOUS
    <3>2. ll1 = ConValores(ll, gs[t], vs)
      BY <1>3, <1>8, <2>2, <3>1
    <3>3. t \in Objetivos
      BY <1>1, <1>4, <1>6, <2>2, <3>1, ValorEs DEF Salen, Apuntada
    <3>4. \A c \in Llamantes \cap gs[t] : ll[c].estado # "libre"
      BY <1>4, <3>3 DEF Remitentes
    <3> QED
      BY <1>4, <3>2, <3>4, ConValoresAvanza
  <2> QED
    BY <2>1, <2>2
<1>10. PICK ll2 : ll2 = TerminaGets(ll1, r1, gs, hechos)
  OBVIOUS
<1>11. Pedida(menu, ll1)
  BY <1>4, <1>9, AvanzanBien
<1>12. /\ Avanzan(ll1, ll2, acuses)
       /\ \A c \in Llamantes :
            ll2[c].estado = "espera" => ll1[c].req.target \notin hechos \/ c \notin gs[ll1[c].req.target]
  BY <1>10, <1>11, TerminaGetsAvanza
<1>13. Avanzan(ll, ll2, acuses)
  BY <1>9, <1>12, AvanzanJuntas
<1>14. Pedida(menu, ll2)
  BY <1>4, <1>13, AvanzanBien
<1>15. PICK ll3 : ll3 = TerminaPuts(ll2, ps, fines)
  OBVIOUS
<1>16. ASSUME NEW c \in Llamantes, NEW f \in fines, c \in ps[f[1]], f[2] = "Ok"
       PROVE  Respaldada(ll2[c].req, acuses)
  <2>1. PICK t : t = f[1]
    OBVIOUS
  <2>2. PICK q : q = r.put_queries[t]
    OBVIOUS
  <2>3. t \in DOMAIN r.put_queries /\ q.stored_at # 0 /\ t \in Objetivos
    BY <1>5, <1>7, <1>16, <2>1, <2>2
  <2>4. q.req \in acuses /\ q.req.target = t
    BY <1>4, <2>2, <2>3 DEF PutsSanos, PutSano
  <2>5. ll[c].req.target = t /\ (ll[c].req.clase = "mutable" => Cubre(q.req, ll[c].req))
    BY <1>4, <1>16, <2>1, <2>2, <2>3 DEF Remitentes
  <2>6. ll2[c].req = ll[c].req
    BY <1>13 DEF Avanzan, Avanza
  <2> QED
    BY <2>4, <2>5, <2>6 DEF Respaldada
<1>17. /\ Avanzan(ll2, ll3, acuses)
       /\ \A c \in Llamantes : ll3[c].estado = "espera" => \A f \in fines : c \notin ps[f[1]]
  BY <1>14, <1>15, <1>16, TerminaPutsAvanza
<1>18. Avanzan(ll, ll3, acuses)
  BY <1>13, <1>17, AvanzanJuntas
<1>19. /\ llamadas' = ll3
       /\ get_senders' = [t \in Objetivos |-> IF t \in hechos THEN {} ELSE gs[t]]
       /\ put_senders' = [t \in Objetivos |-> IF \E f \in fines : f[1] = t THEN {} ELSE ps[t]]
       /\ acuses' = IF llega # <<>> /\ llega[1][1] = "put" /\ llega[2][1] = "ok"
                    THEN acuses \cup {llega[1][2]} ELSE acuses
  BY <1>1, <1>3, <1>8, <1>10, <1>15 DEF Reparto
<1>20. menu' = menu /\ buzon' = IF buzon = <<>> THEN buzon ELSE Tail(buzon)
  BY DEF Vuelta
<1>21. acuses \subseteq acuses'
  BY <1>19
<1>22. Pedida(menu, ll3) /\ Respaldo(ll3, acuses)
  BY <1>4, <1>18, AvanzanBien
<1>23. Respaldo(ll3, acuses')
  BY <1>21, <1>22 DEF Respaldo, Respaldada
<1>24. \A c \in Llamantes :
         /\ ll3[c].req = ll[c].req
         /\ ll[c].estado # "libre" => ll3[c].estado # "libre"
         /\ ll3[c].estado \in {"espera", "buzon"} => ll[c].estado = ll3[c].estado
  BY <1>18 DEF Avanzan, Avanza
<1>25. Remitentes(rpc', get_senders', put_senders', ll3)
  <2>1. ASSUME NEW t \in Objetivos, NEW c \in get_senders'[t]
        PROVE  /\ c \in Llamantes /\ ll3[c].estado # "libre" /\ ll3[c].req.target = t
               /\ t \in DOMAIN rpc'.iterative_queries
    <3>1. t \notin hechos /\ c \in gs[t]
      BY <1>19, <2>1
    <3>2. c \in Llamantes /\ ll[c].estado # "libre" /\ ll[c].req.target = t
          /\ t \in DOMAIN r.iterative_queries
      BY <1>4, <3>1 DEF Remitentes
    <3> QED
      BY <1>6, <1>24, <3>1, <3>2 DEF Girado
  <2>2. ASSUME NEW t \in Objetivos, NEW c \in put_senders'[t]
        PROVE  /\ c \in Llamantes /\ ll3[c].estado # "libre"
               /\ ll3[c].req.target = t /\ ll3[c].req.op = "put"
               /\ t \in DOMAIN rpc'.put_queries
               /\ ll3[c].req.clase = "mutable" => Cubre(rpc'.put_queries[t].req, ll3[c].req)
    <3>1. (\A f \in fines : f[1] # t) /\ c \in ps[t]
      BY <1>19, <2>2
    <3>2. /\ c \in Llamantes /\ ll[c].estado # "libre" /\ ll[c].req.target = t
          /\ ll[c].req.op = "put" /\ t \in DOMAIN r.put_queries
          /\ ll[c].req.clase = "mutable" => Cubre(r.put_queries[t].req, ll[c].req)
      BY <1>4, <3>1 DEF Remitentes
    <3>3. t \in DOMAIN rpc'.put_queries
      BY <1>6, <3>1, <3>2 DEF Girado
    <3>4. rpc'.put_queries[t].req = r.put_queries[t].req
      <4>1. PICK q2 : /\ Seguido(r.put_queries[t], q2)
                      /\ \/ rpc'.put_queries[t] = q2
                         \/ llega # <<>> /\ Respondido(q2, rpc'.put_queries[t], llega[1], llega[2])
        BY <1>6, <3>3 DEF Girado
      <4>2. q2.req = r.put_queries[t].req
        BY <4>1 DEF Seguido
      <4>3. Respondido(q2, rpc'.put_queries[t], llega[1], llega[2]) => rpc'.put_queries[t].req = q2.req
        BY DEF Respondido
      <4> QED
        BY <4>1, <4>2, <4>3
    <3> QED
      BY <1>24, <3>2, <3>3, <3>4
  <2>3. DOMAIN get_senders' = Objetivos /\ DOMAIN put_senders' = Objetivos
    BY <1>19
  <2> QED
    BY <2>1, <2>2, <2>3 DEF Remitentes
<1>26. EnEspera(get_senders', put_senders', ll3)
  <2>1. ASSUME NEW c \in Llamantes, ll3[c].estado = "espera"
        PROVE  c \in get_senders'[ll3[c].req.target] \cup put_senders'[ll3[c].req.target]
    <3>1. PICK t : t = ll[c].req.target
      OBVIOUS
    <3>2. /\ ll[c].estado = "espera" /\ ll3[c].req.target = t
          /\ ll2[c].estado = "espera" /\ ll1[c].req = ll[c].req
      <4>1. ll1[c].req = ll[c].req /\ ll2[c].estado = "espera"
        BY <1>9, <1>17, <2>1 DEF Avanzan, Avanza
      <4> QED
        BY <1>24, <2>1, <3>1, <4>1
    <3>3. t \in Objetivos
      BY <1>4, <3>1, <3>2, SupuestoMenus DEF Pedida, InvRpc
    <3>4. c \in gs[t] \cup ps[t]
      BY <1>4, <3>1, <3>2 DEF EnEspera
    <3>5. t \notin hechos \/ c \notin gs[t]
      BY <1>12, <3>1, <3>2
    <3>6. \A f \in fines : c \notin ps[f[1]]
      BY <1>17, <2>1
    <3> QED
      BY <1>19, <3>2, <3>3, <3>4, <3>5, <3>6
  <2> QED
    BY <2>1 DEF EnEspera
<1>27. PutsSanos(menu, rpc', acuses')
  <2>1. ASSUME NEW t \in DOMAIN rpc'.put_queries
        PROVE  PutSano(menu, rpc'.put_queries[t], t, acuses')
    <3>1. PICK q, q3 : q = r.put_queries[t] /\ q3 = rpc'.put_queries[t]
      OBVIOUS
    <3>2. PICK q2 : /\ Seguido(q, q2)
                    /\ \/ q3 = q2
                       \/ llega # <<>> /\ Respondido(q2, q3, llega[1], llega[2])
      BY <1>6, <3>1 DEF Girado
    <3>3. PutSano(menu, q, t, acuses)
      BY <1>4, <1>6, <3>1 DEF Girado, PutsSanos
    <3>4. PutSano(menu, q2, t, acuses) /\ PutSano(menu, q2, t, acuses')
      BY <1>21, <3>2, <3>3 DEF PutSano, Seguido
    <3>5. CASE q3 = q2
      BY <3>1, <3>4, <3>5
    <3>6. CASE llega # <<>> /\ Respondido(q2, q3, llega[1], llega[2])
      <4>1. PICK tid, con : tid = llega[1] /\ con = llega[2]
        OBVIOUS
      <4>2. /\ q3 = [req |-> q2.req, inflight_requests |-> q2.inflight_requests,
                     stored_at |-> q3.stored_at, errors |-> q3.errors]
            /\ q3.stored_at = q2.stored_at \/ (tid \in q2.inflight_requests /\ tid[1] = "put" /\ con[1] = "ok")
        BY <3>6, <4>1 DEF Respondido
      <4>3. q3.req = q2.req /\ q3.inflight_requests = q2.inflight_requests
        BY <4>2
      <4>4. CASE q3.stored_at = q2.stored_at
        BY <3>1, <3>4, <4>2, <4>3, <4>4 DEF PutSano
      <4>5. CASE tid \in q2.inflight_requests /\ tid[1] = "put" /\ con[1] = "ok"
        <5>1. tid[2] = q2.req
          BY <3>4, <4>5 DEF PutSano
        <5>2. tid[2] \in acuses'
          BY <1>19, <3>6, <4>1, <4>5
        <5> QED
          BY <3>1, <3>4, <4>2, <4>3, <5>1, <5>2 DEF PutSano
      <4> QED
        BY <4>2, <4>4, <4>5
    <3> QED
      BY <3>2, <3>5, <3>6
  <2> QED
    BY <2>1 DEF PutsSanos
<1>28. EsRpc(rpc') /\ Apuntada(rpc')
  BY <1>4, <1>6 DEF Girado, Apuntada, Salen
<1>29. buzon' \in Seq(Llamantes) /\ EnBuzon(buzon', ll3)
  <2>1. buzon' \in Seq(Llamantes)
    BY <1>20, Cabeza DEF InvRpc
  <2>2. EnBuzon(buzon', ll)
    BY <1>2, <1>3, <1>20 DEF Obra
  <2>3. \A i \in DOMAIN buzon' : buzon'[i] \in Llamantes
    BY <2>1
  <2> QED
    BY <1>24, <2>1, <2>2, <2>3 DEF EnBuzon
<1> QED
  BY <1>19, <1>20, <1>22, <1>23, <1>25, <1>26, <1>27, <1>28, <1>29 DEF InvRpc, Sano

(* So does a new call, *)
LEMMA LlamaSana ==
  ASSUME InvRpc, NEW c \in Llamantes, NEW req \in menu[c], Llama(c, req)
  PROVE  InvRpc'
<1>1. PICK l : l = [req |-> req, estado |-> "buzon", item |-> Nada, res |-> Nada]
  OBVIOUS
<1>2. Completa(l) /\ l.req = req /\ l.estado = "buzon" /\ l.res = Nada /\ Nada # "Ok"
  BY <1>1, SupuestoRpc DEF Completa
<1>3. /\ llamadas[c].estado = "libre" /\ llamadas' = [llamadas EXCEPT ![c] = l]
      /\ buzon' = Append(buzon, c)
      /\ UNCHANGED <<menu, rpc, get_senders, put_senders, acuses>>
  BY <1>1 DEF Llama
<1>4. /\ EsRpc(rpc) /\ Apuntada(rpc) /\ Pedida(menu, llamadas) /\ PutsSanos(menu, rpc, acuses)
      /\ Remitentes(rpc, get_senders, put_senders, llamadas)
      /\ EnEspera(get_senders, put_senders, llamadas) /\ Respaldo(llamadas, acuses)
      /\ buzon \in Seq(Llamantes) /\ EnBuzon(buzon, llamadas) /\ menu \in Menus
  BY DEF InvRpc, Sano
<1>5. PICK ll : ll = llamadas'
  OBVIOUS
<1>6. DOMAIN ll = Llamantes /\ ll[c] = l /\ \A d \in Llamantes \ {c} : ll[d] = llamadas[d]
  BY <1>3, <1>4, <1>5 DEF Pedida
<1>7. Pedida(menu, ll) /\ Respaldo(ll, acuses) /\ EnEspera(get_senders, put_senders, ll)
  BY <1>2, <1>4, <1>6 DEF Pedida, Respaldo, EnEspera
<1>8. Remitentes(rpc, get_senders, put_senders, ll)
  <2>1. \A d \in Llamantes : llamadas[d].estado # "libre" => ll[d] = llamadas[d]
    BY <1>3, <1>6
  <2> QED
    BY <1>4, <2>1 DEF Remitentes
<1>9. PICK b : b = buzon'
  OBVIOUS
<1>10. /\ b \in Seq(Llamantes) /\ DOMAIN buzon \subseteq DOMAIN b
       /\ \A i \in DOMAIN b : (i \in DOMAIN buzon /\ b[i] = buzon[i]) \/ b[i] = c
       /\ \A i \in DOMAIN buzon : b[i] = buzon[i]
       /\ \E i \in DOMAIN b : b[i] = c
  <2>1. PICK n \in Nat : n = Len(buzon)
    BY <1>4
  <2>2. DOMAIN buzon = 1 .. n
    BY <1>4, <2>1
  <2>3. /\ b \in Seq(Llamantes) /\ Len(b) = n + 1
        /\ \A i \in 1 .. n : b[i] = buzon[i]
        /\ b[n + 1] = c
    BY <1>3, <1>4, <1>9, <2>1, AppendProperties
  <2>4. DOMAIN b = 1 .. n + 1
    BY <2>3
  <2>5. n + 1 \in DOMAIN b
    BY <2>4
  <2> QED
    BY <2>2, <2>3, <2>4, <2>5
<1>11. EnBuzon(b, ll)
  <2>1. ASSUME NEW i \in DOMAIN b
        PROVE  ll[b[i]].estado # "libre"
    <3>1. CASE b[i] = c
      BY <1>2, <1>6, <3>1
    <3>2. CASE b[i] # c
      <4>1. i \in DOMAIN buzon /\ b[i] = buzon[i] /\ b[i] \in Llamantes
        BY <1>10, <3>2
      <4> QED
        BY <1>4, <1>6, <3>2, <4>1 DEF EnBuzon
    <3> QED
      BY <3>1, <3>2
  <2>2. ASSUME NEW d \in Llamantes, ll[d].estado = "buzon"
        PROVE  \E i \in DOMAIN b : b[i] = d
    <3>1. CASE d = c
      BY <1>10, <3>1
    <3>2. CASE d # c
      <4>1. PICK i \in DOMAIN buzon : buzon[i] = d
        BY <1>4, <1>6, <2>2, <3>2 DEF EnBuzon
      <4> QED
        BY <1>10, <4>1
    <3> QED
      BY <3>1, <3>2
  <2> QED
    BY <2>1, <2>2 DEF EnBuzon
<1> QED
  BY <1>3, <1>4, <1>5, <1>7, <1>8, <1>9, <1>10, <1>11 DEF InvRpc, Sano

(* Nothing that matters changes: the requests in flight may get fewer, and *)
(* the cache another.                                                      *)
LEMMA QuietaSana ==
  ASSUME InvRpc, EsRpc(rpc'), UNCHANGED <<menu, buzon, get_senders, put_senders, llamadas, acuses>>,
         rpc'.iterative_queries = rpc.iterative_queries, rpc'.put_queries = rpc.put_queries,
         rpc'.inflight \subseteq rpc.inflight
  PROVE  InvRpc'
<1>1. PICK r : r = rpc'
  OBVIOUS
<1>2. /\ Apuntada(rpc) /\ PutsSanos(menu, rpc, acuses)
      /\ Remitentes(rpc, get_senders, put_senders, llamadas)
      /\ r.iterative_queries = rpc.iterative_queries /\ r.put_queries = rpc.put_queries
      /\ r.inflight \subseteq rpc.inflight /\ EsRpc(r)
  BY <1>1 DEF InvRpc, Sano
<1>3. Apuntada(r) /\ PutsSanos(menu, r, acuses) /\ Remitentes(r, get_senders, put_senders, llamadas)
  BY <1>2 DEF Apuntada, PutsSanos, Remitentes
<1> QED
  BY <1>1, <1>2, <1>3 DEF InvRpc, Sano

(* the timeout of requests, *)
LEMMA VenceSana ==
  ASSUME InvRpc, NEW tid, Vence(tid)
  PROVE  InvRpc'
<1>1. PICK iq, pq, ca, fl, ta : /\ rpc = [iterative_queries |-> iq, put_queries |-> pq, cached |-> ca,
                                          inflight |-> fl, tabla |-> ta]
                                /\ iq = rpc.iterative_queries /\ pq = rpc.put_queries
                                /\ fl = rpc.inflight
  BY DEF InvRpc, Sano, EsRpc
<1>2. PICK r : r = rpc'
  OBVIOUS
<1>3. r = [iterative_queries |-> iq, put_queries |-> pq, cached |-> ca,
           inflight |-> fl \ DeUna(tid), tabla |-> ta]
  BY <1>1, <1>2 DEF Vence
<1>4. EsRpc(r) /\ r.iterative_queries = iq /\ r.put_queries = pq /\ r.inflight \subseteq fl
  BY <1>3 DEF EsRpc
<1> QED
  BY <1>1, <1>2, <1>4, QuietaSana DEF Vence

(* the ageing of the cache, *)
LEMMA EnvejeceSana ==
  ASSUME InvRpc, Envejece
  PROVE  InvRpc'
<1>1. PICK c : rpc' = [rpc EXCEPT !.cached = c]
  BY DEF Envejece
<1>2. EsRpc(rpc)
  BY DEF InvRpc, Sano
<1>3. PICK s : s = [rpc EXCEPT !.cached = c]
  OBVIOUS
<1>4. /\ EsRpc(s) /\ s.put_queries = rpc.put_queries
      /\ s.iterative_queries = rpc.iterative_queries /\ s.inflight = rpc.inflight
  BY <1>2, <1>3, CacheEs
<1> QED
  BY <1>1, <1>3, <1>4, QuietaSana DEF Envejece

(* The thread ends with an empty channel: every call that waits ends.      *)
LEMMA FinActorSana ==
  ASSUME InvRpc, FinActor
  PROVE  InvRpc'
<1>1. PICK ll : ll = Terminan(llamadas, Llamantes, "roto")
  OBVIOUS
<1>2. /\ EsRpc(rpc) /\ Pedida(menu, llamadas) /\ Respaldo(llamadas, acuses)
      /\ buzon \in Seq(Llamantes) /\ EnBuzon(buzon, llamadas) /\ menu \in Menus
  BY DEF InvRpc, Sano
<1>3. /\ buzon = <<>> /\ llamadas' = ll /\ UNCHANGED <<menu, buzon, acuses>>
      /\ get_senders' = [t \in Objetivos |-> {}] /\ put_senders' = [t \in Objetivos |-> {}]
  BY <1>1 DEF FinActor
<1>4. /\ Avanzan(llamadas, ll, acuses)
      /\ \A c \in Llamantes : ll[c].estado # "espera"
  BY <1>1, <1>2, TerminanAvanza
<1>5. Pedida(menu, ll) /\ Respaldo(ll, acuses)
  BY <1>2, <1>4, AvanzanBien
<1>6. EnBuzon(buzon, ll)
  BY <1>2, <1>3, <1>4 DEF EnBuzon, Avanzan, Avanza
<1>7. PICK r : r = rpc'
  OBVIOUS
<1>8. r = [iterative_queries |-> <<>>, put_queries |-> <<>>, cached |-> <<>>,
           inflight |-> {}, tabla |-> {}]
  <2>1. PICK iq, pq, ca, fl, ta : rpc = [iterative_queries |-> iq, put_queries |-> pq, cached |-> ca,
                                         inflight |-> fl, tabla |-> ta]
    BY <1>2 DEF EsRpc
  <2>2. PICK e, v : e = <<>> /\ v = {}
    OBVIOUS
  <2>3. r = [rpc EXCEPT !.iterative_queries = e, !.put_queries = e, !.cached = e,
                        !.inflight = v, !.tabla = v]
    BY <1>7, <2>2 DEF FinActor
  <2>4. PICK a : a = [rpc EXCEPT !.iterative_queries = e]
    OBVIOUS
  <2>5. a = [iterative_queries |-> e, put_queries |-> pq, cached |-> ca, inflight |-> fl, tabla |-> ta]
    BY <2>1, <2>4
  <2>6. PICK b : b = [a EXCEPT !.put_queries = e]
    OBVIOUS
  <2>7. b = [iterative_queries |-> e, put_queries |-> e, cached |-> ca, inflight |-> fl, tabla |-> ta]
    BY <2>5, <2>6
  <2>8. PICK c : c = [b EXCEPT !.cached = e]
    OBVIOUS
  <2>9. c = [iterative_queries |-> e, put_queries |-> e, cached |-> e, inflight |-> fl, tabla |-> ta]
    BY <2>7, <2>8
  <2>10. PICK d : d = [c EXCEPT !.inflight = v]
    OBVIOUS
  <2>11. d = [iterative_queries |-> e, put_queries |-> e, cached |-> e, inflight |-> v, tabla |-> ta]
    BY <2>9, <2>10
  <2>12. r = [d EXCEPT !.tabla = v]
    BY <2>3, <2>4, <2>6, <2>8, <2>10
  <2> QED
    BY <2>2, <2>11, <2>12
<1>9. EsRpc(r) /\ r.iterative_queries = <<>> /\ r.put_queries = <<>> /\ r.inflight = {}
  BY <1>8 DEF EsRpc
<1>10. DOMAIN r.iterative_queries = {} /\ DOMAIN r.put_queries = {}
  BY <1>9
<1>11. Apuntada(r) /\ PutsSanos(menu, r, acuses)
  BY <1>9, <1>10 DEF Apuntada, PutsSanos
<1>12. Remitentes(r, get_senders', put_senders', ll) /\ EnEspera(get_senders', put_senders', ll)
  BY <1>3, <1>4 DEF Remitentes, EnEspera
<1> QED
  BY <1>2, <1>3, <1>5, <1>6, <1>7, <1>9, <1>11, <1>12 DEF InvRpc, Sano

(* Every step keeps the invariant. *)
LEMMA PasoSano ==
  ASSUME InvRpc, [Next]_vars
  PROVE  InvRpc'
<1>1. CASE Vuelta
  BY <1>1, VueltaSana
<1>2. CASE \E c \in Llamantes : \E req \in menu[c] : Llama(c, req)
  BY <1>2, LlamaSana
<1>3. CASE Vencen
  BY <1>3, VenceSana DEF Vencen
<1>4. CASE Envejece
  BY <1>4, EnvejeceSana
<1>5. CASE Soltar
  BY <1>5, QuietaSana DEF Soltar, InvRpc, Sano
<1>6. CASE FinActor
  BY <1>6, FinActorSana
<1>7. CASE UNCHANGED vars
  BY <1>7, QuietaSana DEF vars, InvRpc, Sano
<1> QED
  BY <1>1, <1>2, <1>3, <1>4, <1>5, <1>6, <1>7 DEF Next

(* The invariant, for any callers, requests, nodes and limits. *)
THEOREM RpcSana == Spec => []InvRpc
<1>1. InvRpc /\ [Next]_vars => InvRpc'
  BY PasoSano
<1> QED
  BY RpcInicial, <1>1, PTL DEF Spec

(* The property SinHuerfanos, for any callers, requests, nodes and limits: *)
(* whatever the interleaving of calls, answers, timeouts and ends of       *)
(* queries, Rpc::tick and the run of dht.rs leave no caller waiting on a   *)
(* query that is gone, and no sender without its query.                    *)
THEOREM NadieQuedaHuerfano == Spec => []SinHuerfanos
<1>1. InvRpc => SinHuerfanos
  BY RpcBasta
<1> QED
  BY RpcSana, <1>1, PTL

(* The property OkRespaldado, for any callers, requests, nodes and limits: *)
(* a caller of put_mutable is told Ok only when a node acknowledged its    *)
(* item or one that its writer put in its place knowingly (cas).           *)
THEOREM OkTieneRespaldo == Spec => []OkRespaldado
<1>1. InvRpc => OkRespaldado
  BY RpcBasta
<1> QED
  BY RpcSana, <1>1, PTL
=============================================================================
