----------------------------- MODULE NostrChat -----------------------------
(***************************************************************************)
(* The three chats over Nostr: "dm", one peer (nostrn/client.rs);          *)
(* "bandeja", an inbox for everybody (nostrn/gestion.rs); "par", a key     *)
(* that both sides derive and a reader may be given (nostrpeer.rs).        *)
(*                                                                         *)
(* Events are numbered as they are published: para is the key of their p   *)
(* tag, an author or the key of a pair (a set of two).  clase is what is   *)
(* inside: "dm", "otro" (a wrap of another kind), "mostro" (the pair's),   *)
(* "basura" (a wrap nobody can open), "nota" (no wrap: de is public).      *)
(***************************************************************************)
EXTENDS NostrRed

CONSTANTS
  Nombres,     \* of sessions
  Planes,      \* scenarios: what sessions there are and what may happen
  TopeEventos, \* bound on what is published
  TopeBuzon    \* capacity of the client's broadcast channel

ASSUME SupuestoChat ==
  /\ TopeBuzon \in Nat \ {0}
  /\ \A p \in Planes : DOMAIN p.sesiones \subseteq Nombres /\ p.mensajes <= TopeEventos
  /\ Nada \notin Seq(Nat)  \* an empty receiver is one

VARIABLES
  plan,        \* a member of Planes
  sesion,      \* per session of the plan, see Nueva
  eventos,     \* what was published: [de, para, clase, fresco, en, oyen]
  viejos,      \* events older than the window of "par"
  leidos,      \* history: events a session's polls returned, in order
  cortes       \* history: sessions whose receiver was cut or fell behind

chatVars == <<sesion, eventos, viejos, leidos, cortes>>

Sesiones == DOMAIN plan.sesiones
Cfg(s) == plan.sesiones[s]
Clave(s) == IF Cfg(s).tipo = "par" THEN {Cfg(s).yo, Cfg(s).peer} ELSE Cfg(s).yo

(* A client just made.  llegan: events the relays are sending it; vistos:  *)
(* those it knows; buzon: its receiver's unread events, Nada without one.  *)
Nueva(s) ==
  [fase |-> "creada", peer |-> IF Cfg(s).tipo = "bandeja" THEN Nada ELSE Cfg(s).peer,
   llegan |-> {}, vistos |-> {}, buzon |-> Nada]

InitChat ==
  /\ sesion = [s \in Sesiones |-> Nueva(s)]
  /\ eventos = <<>>
  /\ viejos = {}
  /\ leidos = [s \in Sesiones |-> <<>>]
  /\ cortes = {}

-----------------------------------------------------------------------------
(* Relays.  "par" takes one list, to read and write, and no other. *)

RelaysDe(s) ==
  IF Cfg(s).tipo = "par" THEN [lee |-> Cfg(s).dm, escribe |-> Cfg(s).dm]
  ELSE connect_relays(Cfg(s).dm, Cfg(s).read)

(* At least one relay for direct messages. *)
add_relays(s) ==
  /\ Cfg(s).tipo # "par" /\ Cfg(s).dm # {}
  /\ sesion[s].fase = "creada"
  /\ sesion' = [sesion EXCEPT ![s].fase = "conectada"]
  /\ UNCHANGED <<plan, eventos, viejos, leidos, cortes>>

(* The filters of a subscription.  A wrap's time is set back at random:    *)
(* fresco says that it still falls in the window, if there is one.         *)
Cubre(s, e) ==
  LET cabe == e.fresco \/ ~Cfg(s).ventana
  IN CASE Cfg(s).tipo = "dm" -> cabe /\ (e.para = Cfg(s).yo \/ (e.clase = "nota" /\ e.de = Cfg(s).peer))
       [] Cfg(s).tipo = "bandeja" -> cabe /\ e.para = Cfg(s).yo
       [] OTHER -> cabe /\ e.clase # "nota" /\ e.para = Clave(s)

(* The newest events a relay has for a filter, up to the limit. *)
Historia(s) ==
  LET de(r) == {k \in DOMAIN eventos : r \in eventos[k].en /\ Cubre(s, eventos[k])}
  IN UNION {{k \in de(r) : Cardinality({j \in de(r) : j > k}) < Cfg(s).n_limit} : r \in RelaysDe(s).lee}

Abrir(s) ==
  sesion' = [sesion EXCEPT ![s].fase = "suscripta", ![s].llegan = Historia(s) \ sesion[s].vistos]

(* subscribe, first half: the relays send from now on.  A second call cuts *)
(* the receiver of the first.                                              *)
subscribe(s) ==
  /\ Cfg(s).tipo # "par"
  /\ sesion[s].fase = "conectada" \/ (sesion[s].fase = "lista" /\ "otra" \in plan.pasa)
  /\ Abrir(s)
  /\ cortes' = IF sesion[s].buzon = Nada THEN cortes ELSE cortes \cup {s}
  /\ UNCHANGED <<plan, eventos, viejos, leidos>>

(* The same for "par", with the relays; the first derives the pair's key,  *)
(* the second is given it and keeps no key to send with.                   *)
Iniciar(s) ==
  /\ Cfg(s).tipo = "par"
  /\ sesion[s].fase = "creada"
  /\ Abrir(s)
  /\ UNCHANGED <<plan, eventos, viejos, leidos, cortes>>
init_participant(s) == ~Cfg(s).observa /\ Iniciar(s)
init_observer(s) == Cfg(s).observa /\ Iniciar(s)

(* Second half: the receiver, which sees only what comes after. *)
Receptor(s) ==
  /\ sesion[s].fase = "suscripta"
  /\ sesion' = [sesion EXCEPT ![s].fase = "lista", ![s].buzon = <<>>]
  /\ UNCHANGED <<plan, eventos, viejos, leidos, cortes>>

set_peer(s, a) ==
  /\ Cfg(s).tipo = "bandeja"
  /\ sesion[s].fase # "suscripta" /\ sesion[s].peer # a
  /\ sesion' = [sesion EXCEPT ![s].peer = a]
  /\ UNCHANGED <<plan, eventos, viejos, leidos, cortes>>

-----------------------------------------------------------------------------
(* What a session has to be told: the sender means it, and the two have a  *)
(* relay that works in common, the public ones included.                   *)
EsPara(s, e) ==
  CASE Cfg(s).tipo = "dm" -> e.clase = "dm" /\ e.para = Cfg(s).yo /\ e.de = Cfg(s).peer
    [] Cfg(s).tipo = "bandeja" -> e.clase \in {"dm", "otro"} /\ e.para = Cfg(s).yo
    [] OTHER -> e.clase = "mostro" /\ e.para = Clave(s)
Comparten(a, b) ==
  LET comunes == (Cfg(a).dm \cap Cfg(b).dm) \ plan.caidos
  IN \/ comunes # {}
     \/ Cfg(a).tipo # "par" /\ FALLBACK_PUBLIC_RELAYS \ plan.caidos # {}
Oyen(a, e) ==
  {s \in Sesiones \ {a} : /\ sesion[s].fase = "lista" /\ EsPara(s, e) /\ Comparten(a, s)
                          /\ e.fresco \/ ~Cfg(s).ventana}

(* A publication: it must reach a relay, and goes to every subscription    *)
(* open there.  The client that sends it knows it already.                 *)
Publica(s, para, clase, fresco) ==
  LET en == RelaysDe(s).escribe \ plan.caidos
      sin == [de |-> Cfg(s).yo, para |-> para, clase |-> clase, fresco |-> fresco, en |-> en]
      e == [oyen |-> Oyen(s, sin), de |-> Cfg(s).yo, para |-> para, clase |-> clase, fresco |-> fresco, en |-> en]
      k == Len(eventos) + 1
  IN /\ k <= plan.mensajes
     /\ en # {}
     /\ eventos' = Append(eventos, e)
     /\ sesion' = [t \in Sesiones |->
          CASE t = s -> [sesion[t] EXCEPT !.vistos = @ \cup {k}]
            [] /\ t # s /\ sesion[t].fase \in {"suscripta", "lista"}
               /\ RelaysDe(t).lee \cap en # {} /\ Cubre(t, e)
                 -> [sesion[t] EXCEPT !.llegan = @ \cup {k}]
            [] OTHER -> sesion[t]]
     /\ UNCHANGED <<plan, viejos, leidos, cortes>>

Conectada(s) == sesion[s].fase \in {"conectada", "lista"}

send_message(s, fresco) ==
  /\ Cfg(s).tipo # "par" /\ Conectada(s)
  /\ sesion[s].peer # Nada
  /\ Publica(s, sesion[s].peer, "dm", fresco)

(* Sealed for the pair's key.  An observer has no key to sign with. *)
mostro_wrap(s, fresco) == Publica(s, Clave(s), "mostro", fresco)
EnviarPar(s, fresco) ==
  /\ Cfg(s).tipo = "par" /\ Conectada(s)
  /\ ~Cfg(s).observa
  /\ mostro_wrap(s, fresco)

(* Another program of the author writes: notes, wraps of other kinds, and  *)
(* wraps that do not open.                                                 *)
Ajeno(s, para, clase) ==
  /\ "ajeno" \in plan.pasa /\ Conectada(s)
  /\ Publica(s, para, clase, TRUE)

(* A client hands an event to its receiver the first time it comes.  The   *)
(* channel drops its oldest when it is full.                               *)
Entrega(s, k) ==
  /\ k \in sesion[s].llegan
  /\ LET b == sesion[s].buzon
         lleno == b # Nada /\ Len(b) = TopeBuzon
     IN /\ sesion' = [sesion EXCEPT ![s].llegan = @ \ {k}, ![s].vistos = @ \cup {k},
                        ![s].buzon = IF b = Nada THEN b ELSE Append(IF lleno THEN Tail(b) ELSE b, k)]
        /\ cortes' = IF lleno THEN cortes \cup {s} ELSE cortes
  /\ UNCHANGED <<plan, eventos, viejos, leidos>>

-----------------------------------------------------------------------------
(* Opening a wrap takes the key it was sealed for. *)
unwrap_gift_wrap(s, e) == e.clase \in {"dm", "otro"} /\ e.para = Cfg(s).yo
mostro_unwrap(s, e) == e.clase = "mostro" /\ e.para = Clave(s)

(* What each poll keeps: the peer's messages; all that opens; what opens   *)
(* and is not too old.                                                     *)
ValidoDm(s, k) ==
  unwrap_gift_wrap(s, eventos[k]) /\ eventos[k].clase = "dm" /\ eventos[k].de = Cfg(s).peer
ValidoBandeja(s, k) == unwrap_gift_wrap(s, eventos[k])
ValidoPar(s, k) == mostro_unwrap(s, eventos[k]) /\ k \notin viejos

(* Mutant: whoever seals a message to me is taken for the peer. *)
ValidoDeCualquiera(s, k) == IF Cfg(s).tipo = "par" THEN ValidoPar(s, k) ELSE ValidoBandeja(s, k)

Valido(s, k) ==
  CASE Cfg(s).tipo = "dm" -> ValidoDm(s, k)
    [] Cfg(s).tipo = "bandeja" -> ValidoBandeja(s, k)
    [] OTHER -> ValidoPar(s, k)

(* All that waits in the receiver, also after a disconnect. *)
poll_messages(s) ==
  /\ sesion[s].fase # "suscripta"
  /\ sesion[s].buzon \notin {Nada, <<>>}
  /\ LET b == sesion[s].buzon
     IN leidos' = [leidos EXCEPT ![s] = @ \o Retiene(b, {i \in DOMAIN b : Valido(s, b[i])})]
  /\ sesion' = [sesion EXCEPT ![s].buzon = <<>>]
  /\ UNCHANGED <<plan, eventos, viejos, cortes>>

(* The inbox only ends its subscription, and may open another; the other   *)
(* two leave their relays.  (An inbox that subscribed twice keeps the id   *)
(* of the second only, and ends that one: the relays go on sending for the *)
(* first, and the session stays as it is.  This may end it all the same.)  *)
Corta(s, fase) ==
  /\ "corta" \in plan.pasa
  /\ sesion[s].fase = "lista"
  /\ sesion' = [sesion EXCEPT ![s].fase = fase, ![s].llegan = {}]
  /\ cortes' = cortes \cup {s}
  /\ UNCHANGED <<plan, eventos, viejos, leidos>>
disconnect(s) == Cfg(s).tipo # "bandeja" /\ Corta(s, "cortada")
FinSuscripcion(s) == Cfg(s).tipo = "bandeja" /\ Corta(s, "conectada")

(* The screen makes another client (Drop disconnects the old one). *)
Otra(s) ==
  /\ "corta" \in plan.pasa
  /\ sesion[s].fase \in {"lista", "cortada"}
  /\ sesion' = [sesion EXCEPT ![s] = Nueva(s)]
  /\ leidos' = [leidos EXCEPT ![s] = <<>>]
  /\ cortes' = cortes \cup {s}
  /\ UNCHANGED <<plan, eventos, viejos>>

(* More time than the window of "par" goes by. *)
Espera ==
  /\ "tiempo" \in plan.pasa
  /\ viejos # DOMAIN eventos
  /\ viejos' = DOMAIN eventos
  /\ UNCHANGED <<plan, sesion, eventos, leidos, cortes>>

NextChat ==
  \/ \E s \in Sesiones :
       \/ add_relays(s) \/ subscribe(s) \/ init_participant(s) \/ init_observer(s)
       \/ Receptor(s) \/ poll_messages(s) \/ disconnect(s) \/ FinSuscripcion(s) \/ Otra(s)
       \/ \E a \in plan.habla : set_peer(s, a)
       \/ \E fresco \in BOOLEAN : send_message(s, fresco) \/ EnviarPar(s, fresco)
       \/ \E k \in sesion[s].llegan : Entrega(s, k)
       \/ \E a \in plan.habla, clase \in {"otro", "basura", "nota"} : Ajeno(s, a, clase)
  \/ Espera

(* Calls end and clients deliver; the screens of dm and par poll every two *)
(* seconds, and the reader of the inbox is taken to poll again and again.  *)
EquidadChat ==
  \A s \in Nombres :
    /\ WF_chatVars(s \in Sesiones /\ Receptor(s))
    /\ WF_chatVars(s \in Sesiones /\ \E k \in sesion[s].llegan : Entrega(s, k))
    /\ WF_chatVars(s \in Sesiones /\ poll_messages(s))

-----------------------------------------------------------------------------
(* Properties. *)

(* A message published while its addressee listens is returned by one of   *)
(* its polls, though the two sides chose different relays, unless its      *)
(* receiver is replaced, disconnected or overrun, or "par" polls too late. *)
EnviadoLlega ==
  \A s \in Nombres : \A k \in 1 .. TopeEventos :
    (s \in Sesiones /\ k \in DOMAIN eventos /\ s \in eventos[k].oyen)
      ~> (s \in cortes \/ k \in viejos \/ (s \in Sesiones /\ k \in Range(leidos[s])))

(* However many relays repeat an event and however often a session is      *)
(* subscribed again, its polls return it once, only to whom it was sealed  *)
(* for and, in a chat with one peer, only if that peer sealed it.          *)
LeidoFiel ==
  \A s \in Sesiones :
    /\ IsInjective(leidos[s])
    /\ \A k \in Range(leidos[s]) : EsPara(s, eventos[k])
=============================================================================
