---------------------------- MODULE NostrProofs ----------------------------
(***************************************************************************)
(* Proofs about the account file and about what the chats read, for any    *)
(* scenario: any sessions, relays and pins, any capacity of the channel,   *)
(* any order of publications, deliveries, saves and loads.                 *)
(***************************************************************************)
EXTENDS Nostr, SecuenciasProofs, TLAPS

(* What the file says is what the last finished save put there: CargaFiel  *)
(* alone forgets it as soon as nothing is loaded.                          *)
ArchivoFiel ==
  archivo # Nada =>
    /\ archivo.cifrado = (archivo.pin # "")
    /\ archivo.entero => <<archivo.cuenta, archivo.pin>> \in guardadas

InvCuenta == ArchivoFiel /\ CargaFiel

(* There is no file yet.                                                   *)
LEMMA CuentaInicial ==
  ASSUME InitCuenta
  PROVE  InvCuenta
  BY DEF InitCuenta, InvCuenta, ArchivoFiel, CargaFiel

(* A save leaves nothing loaded, and a file that is marked whole only when *)
(* the save joined the finished ones.                                      *)
LEMMA GuardarFiel ==
  ASSUME NEW nueva, NEW pin, NEW entero \in BOOLEAN, guardar_cuenta(nueva, pin, entero)
  PROVE  InvCuenta'
<1>1. CargaFiel'
  BY DEF guardar_cuenta, CargaFiel
<1>2. /\ archivo'.cifrado = (archivo'.pin # "")
      /\ archivo'.cuenta = nueva /\ archivo'.pin = pin /\ archivo'.entero = entero
  BY DEF guardar_cuenta, Sobre
<1>3. entero => <<nueva, pin>> \in guardadas'
  BY DEF guardar_cuenta
<1> QED
  BY <1>1, <1>2, <1>3 DEF InvCuenta, ArchivoFiel

(* A load changes no file and gives what a finished save had put there,    *)
(* under the pin it was sealed with or under none.                         *)
LEMMA CargarFiel ==
  ASSUME NEW pin, InvCuenta, cargar_cuenta(pin)
  PROVE  InvCuenta'
<1>1. ArchivoFiel'
  BY DEF InvCuenta, ArchivoFiel, cargar_cuenta
<1>2. /\ <<archivo.cuenta, archivo.pin>> \in guardadas
      /\ pin = archivo.pin \/ archivo.pin = ""
  BY DEF InvCuenta, ArchivoFiel, cargar_cuenta, Abre
<1>3. cuenta' = [cuenta |-> archivo.cuenta, pin |-> pin] /\ guardadas' = guardadas
  BY DEF cargar_cuenta
<1>4. cuenta'.cuenta = archivo.cuenta /\ cuenta'.pin = pin
  BY <1>3
<1>5. CargaFiel'
  BY <1>2, <1>3, <1>4 DEF CargaFiel
<1> QED
  BY <1>1, <1>5 DEF InvCuenta

(* The rest of Nostr leaves the file and what is loaded alone.             *)
LEMMA PasoCuenta ==
  ASSUME InvCuenta, [Next]_vars
  PROVE  InvCuenta'
<1>1. CASE NextCuenta
  <2>1. ASSUME NEW pin \in {"", "p", "q"}, crear_cuenta(pin) \/ GuardarExistente(pin)
        PROVE  InvCuenta'
    BY <2>1, GuardarFiel DEF crear_cuenta, GuardarExistente
  <2>2. ASSUME NEW pin \in {"", "p", "q"}, cargar_cuenta(pin)
        PROVE  InvCuenta'
    BY <2>2, CargarFiel
  <2> QED
    BY <1>1, <2>1, <2>2 DEF NextCuenta
<1>2. CASE UNCHANGED cuentaVars
  BY <1>2 DEF cuentaVars, InvCuenta, ArchivoFiel, CargaFiel
<1> QED
  BY <1>1, <1>2 DEF Next, vars

(* Whatever is saved, cut short and loaded, with whatever pins, a load     *)
(* gives only what a finished guardar_cuenta had written, and a sealed     *)
(* account only to its pin (gestion.rs, cargar_cuenta).                    *)
THEOREM CuentaFiel == Spec => []CargaFiel
<1>1. Init => InvCuenta
  BY CuentaInicial DEF Init
<1>2. InvCuenta /\ [Next]_vars => InvCuenta'
  BY PasoCuenta
<1>3. InvCuenta => CargaFiel
  BY DEF InvCuenta
<1> QED
  BY <1>1, <1>2, <1>3, PTL DEF Spec

-----------------------------------------------------------------------------
(* The chats.                                                              *)

Entera(x) ==
  x = [fase |-> x.fase, peer |-> x.peer, llegan |-> x.llegan, vistos |-> x.vistos, buzon |-> x.buzon]

(* A session and what its polls returned, with n events published: what it *)
(* is being sent it does not know, and what it knows is read or waits to   *)
(* be read at most once.                                                   *)
SesionSana(x, l, n) ==
  /\ Entera(x)
  /\ x.vistos \subseteq 1 .. n /\ x.llegan \subseteq (1 .. n) \ x.vistos
  /\ l \in Seq(x.vistos) /\ IsInjective(l)
  /\ x.buzon # Nada =>
       /\ x.buzon \in Seq(x.vistos) /\ IsInjective(x.buzon)
       /\ Range(x.buzon) \cap Range(l) = {}

(* EsPara, for the scenario of a session. *)
Va(cf, e) ==
  CASE cf.tipo = "dm" -> e.clase = "dm" /\ e.para = cf.yo /\ e.de = cf.peer
    [] cf.tipo = "bandeja" -> e.clase \in {"dm", "otro"} /\ e.para = cf.yo
    [] OTHER -> e.clase = "mostro"
                /\ e.para = (IF cf.tipo = "par" THEN {cf.yo, cf.peer} ELSE cf.yo)
Leido(cf, evs, l) == \A k \in Range(l) : Va(cf, evs[k])

InvChat ==
  /\ eventos \in Seq(Range(eventos))
  /\ DOMAIN sesion = Sesiones /\ DOMAIN leidos = Sesiones
  /\ \A s \in Sesiones : SesionSana(sesion[s], leidos[s], Len(eventos)) /\ Leido(Cfg(s), eventos, leidos[s])

(* The record of a session with another value of a field. *)
LEMMA CampoEs ==
  ASSUME NEW x, Entera(x), NEW v
  PROVE  /\ [x EXCEPT !.fase = v] = [fase |-> v, peer |-> x.peer, llegan |-> x.llegan,
                                     vistos |-> x.vistos, buzon |-> x.buzon]
         /\ [x EXCEPT !.peer = v] = [fase |-> x.fase, peer |-> v, llegan |-> x.llegan,
                                     vistos |-> x.vistos, buzon |-> x.buzon]
         /\ [x EXCEPT !.llegan = v] = [fase |-> x.fase, peer |-> x.peer, llegan |-> v,
                                       vistos |-> x.vistos, buzon |-> x.buzon]
         /\ [x EXCEPT !.vistos = v] = [fase |-> x.fase, peer |-> x.peer, llegan |-> x.llegan,
                                       vistos |-> v, buzon |-> x.buzon]
         /\ [x EXCEPT !.buzon = v] = [fase |-> x.fase, peer |-> x.peer, llegan |-> x.llegan,
                                      vistos |-> x.vistos, buzon |-> v]
<1>1. PICK a, b, c, d, e : /\ x = [fase |-> a, peer |-> b, llegan |-> c, vistos |-> d, buzon |-> e]
                           /\ a = x.fase /\ b = x.peer /\ c = x.llegan /\ d = x.vistos /\ e = x.buzon
  BY DEF Entera
<1> QED
  BY <1>1

(* A session just made knows nothing. *)
LEMMA NuevaSana ==
  ASSUME NEW s, NEW n \in Nat
  PROVE  SesionSana(Nueva(s), <<>>, n)
<1>1. PICK p : Nueva(s) = [fase |-> "creada", peer |-> p, llegan |-> {}, vistos |-> {}, buzon |-> Nada]
  BY DEF Nueva
<1>2. PICK x : x = Nueva(s)
  OBVIOUS
<1>3. Entera(x) /\ x.llegan = {} /\ x.vistos = {} /\ x.buzon = Nada
  BY <1>1, <1>2 DEF Entera
<1>4. <<>> \in Seq(x.vistos) /\ IsInjective(<<>>)
  BY EmptySeq DEF IsInjective
<1> QED
  BY <1>2, <1>3, <1>4 DEF SesionSana

(* No session knows anything, and nothing was published.                   *)
LEMMA ChatInicial ==
  ASSUME InitChat
  PROVE  InvChat
<1>1. eventos \in Seq(Range(eventos)) /\ Len(eventos) = 0
  BY EmptySeq DEF InitChat
<1>2. ASSUME NEW s \in Sesiones
      PROVE  SesionSana(sesion[s], leidos[s], Len(eventos)) /\ Leido(Cfg(s), eventos, leidos[s])
  BY <1>1, NuevaSana DEF InitChat, Leido, Range
<1> QED
  BY <1>1, <1>2 DEF InvChat, InitChat

(* A step of one session, which publishes nothing. *)
LEMMA UnaSesion ==
  ASSUME InvChat, NEW s \in Sesiones, NEW x, UNCHANGED <<plan, eventos>>,
         sesion' = [sesion EXCEPT ![s] = x],
         DOMAIN leidos' = Sesiones, \A t \in Sesiones \ {s} : leidos'[t] = leidos[t],
         SesionSana(x, leidos'[s], Len(eventos)), Leido(Cfg(s), eventos, leidos'[s])
  PROVE  InvChat'
<1>1. PICK ss, ll : ss = sesion' /\ ll = leidos'
  OBVIOUS
<1>2. /\ DOMAIN ss = Sesiones /\ ss[s] = x /\ \A t \in Sesiones \ {s} : ss[t] = sesion[t]
  BY <1>1 DEF InvChat
<1>3. \A t \in Sesiones : /\ SesionSana(ss[t], ll[t], Len(eventos))
                           /\ Leido(Cfg(t), eventos, ll[t])
  BY <1>1, <1>2 DEF InvChat
<1>4. PICK cs : cs = plan.sesiones
  OBVIOUS
<1>5. \A t \in DOMAIN cs : /\ SesionSana(ss[t], ll[t], Len(eventos))
                            /\ Leido(cs[t], eventos, ll[t])
  BY <1>3, <1>4 DEF Sesiones, Cfg
<1>6. plan'.sesiones = cs /\ eventos' = eventos /\ Sesiones' = Sesiones /\ Sesiones = DOMAIN cs
  BY <1>4 DEF Sesiones
<1>7. \A t \in Sesiones' : /\ SesionSana(sesion'[t], leidos'[t], Len(eventos'))
                            /\ Leido(plan'.sesiones[t], eventos', leidos'[t])
  BY <1>1, <1>5, <1>6
<1> QED
  BY <1>1, <1>2, <1>6, <1>7 DEF InvChat, Cfg

(* ... and reads nothing. *)
LEMMA SinLeer ==
  ASSUME InvChat, NEW s \in Sesiones, NEW x, UNCHANGED <<plan, eventos, leidos>>,
         sesion' = [sesion EXCEPT ![s] = x],
         SesionSana(x, leidos[s], Len(eventos))
  PROVE  InvChat'
<1>1. DOMAIN leidos = Sesiones /\ Leido(Cfg(s), eventos, leidos[s])
  BY DEF InvChat
<1> QED
  BY <1>1, UnaSesion

(* The list of what a session is being sent may be anything it does not    *)
(* know; the fase and the peer are free.                                   *)
LEMMA LibreSana ==
  ASSUME NEW x, NEW l, NEW n, SesionSana(x, l, n), NEW v, NEW w, w \subseteq (1 .. n) \ x.vistos
  PROVE  /\ SesionSana([x EXCEPT !.fase = v], l, n)
         /\ SesionSana([x EXCEPT !.peer = v], l, n)
         /\ SesionSana([x EXCEPT !.llegan = w], l, n)
<1>1. Entera(x)
  BY DEF SesionSana
<1>2. ASSUME NEW y, Entera(y), y.vistos = x.vistos, y.buzon = x.buzon, y.llegan \in {x.llegan, w}
      PROVE  SesionSana(y, l, n)
  BY <1>2 DEF SesionSana
<1>3. PICK a, b, c : a = [x EXCEPT !.fase = v] /\ b = [x EXCEPT !.peer = v] /\ c = [x EXCEPT !.llegan = w]
  OBVIOUS
<1>4. /\ a = [fase |-> v, peer |-> x.peer, llegan |-> x.llegan, vistos |-> x.vistos, buzon |-> x.buzon]
      /\ b = [fase |-> x.fase, peer |-> v, llegan |-> x.llegan, vistos |-> x.vistos, buzon |-> x.buzon]
      /\ c = [fase |-> x.fase, peer |-> x.peer, llegan |-> w, vistos |-> x.vistos, buzon |-> x.buzon]
  BY <1>1, <1>3, CampoEs
<1>5. /\ Entera(a) /\ a.vistos = x.vistos /\ a.buzon = x.buzon /\ a.llegan = x.llegan
      /\ Entera(b) /\ b.vistos = x.vistos /\ b.buzon = x.buzon /\ b.llegan = x.llegan
      /\ Entera(c) /\ c.vistos = x.vistos /\ c.buzon = x.buzon /\ c.llegan = w
  BY <1>4 DEF Entera
<1> QED
  BY <1>2, <1>3, <1>5

(* A call that changes the fase or the peer. *)
LEMMA FaseSana ==
  ASSUME InvChat, NEW s \in Sesiones, NEW v, UNCHANGED <<plan, eventos, leidos>>,
         \/ sesion' = [sesion EXCEPT ![s].fase = v]
         \/ sesion' = [sesion EXCEPT ![s].peer = v]
  PROVE  InvChat'
<1>1. PICK x, l, n : x = sesion[s] /\ l = leidos[s] /\ n = Len(eventos)
  OBVIOUS
<1>2. SesionSana(x, l, n)
  BY <1>1 DEF InvChat
<1>3. PICK a, b : a = [x EXCEPT !.fase = v] /\ b = [x EXCEPT !.peer = v]
  OBVIOUS
<1>4. SesionSana(a, l, n) /\ SesionSana(b, l, n)
  <2>1. PICK w : w = {}
    OBVIOUS
  <2>2. w \subseteq (1 .. n) \ x.vistos
    BY <2>1
  <2> QED
    BY <1>2, <1>3, <2>2, LibreSana
<1>5. sesion' = [sesion EXCEPT ![s] = a] \/ sesion' = [sesion EXCEPT ![s] = b]
  BY <1>1, <1>3
<1> QED
  BY <1>1, <1>4, <1>5, SinLeer

(* A subscription asks for what the session does not know.                 *)
LEMMA AbrirSana ==
  ASSUME InvChat, NEW s \in Sesiones, Abrir(s), UNCHANGED <<plan, eventos, leidos>>
  PROVE  InvChat'
<1>1. PICK x, l, n, w : x = sesion[s] /\ l = leidos[s] /\ n = Len(eventos) /\ w = Historia(s) \ x.vistos
  OBVIOUS
<1>2. SesionSana(x, l, n) /\ DOMAIN eventos = 1 .. n
  BY <1>1, LenProperties DEF InvChat
<1>3. Historia(s) \subseteq DOMAIN eventos
  BY DEF Historia
<1>4. PICK a : a = [x EXCEPT !.fase = "suscripta"]
  OBVIOUS
<1>5. Entera(x)
  BY <1>2 DEF SesionSana
<1>6. a = [fase |-> "suscripta", peer |-> x.peer, llegan |-> x.llegan, vistos |-> x.vistos, buzon |-> x.buzon]
  BY <1>4, <1>5, CampoEs
<1>7. a.vistos = x.vistos
  BY <1>6
<1>8. w \subseteq (1 .. n) \ x.vistos
  BY <1>1, <1>2, <1>3
<1>9. SesionSana(a, l, n)
  BY <1>2, <1>4, <1>8, LibreSana
<1>10. PICK b : b = [a EXCEPT !.llegan = w]
  OBVIOUS
<1>11. SesionSana(b, l, n)
  BY <1>7, <1>8, <1>9, <1>10, LibreSana
<1>12. sesion' = [sesion EXCEPT ![s] = b]
  BY <1>1, <1>4, <1>10 DEF Abrir, InvChat
<1> QED
  BY <1>1, <1>11, <1>12, SinLeer

(* A session that is cut is sent nothing more.                             *)
LEMMA CortaSana ==
  ASSUME InvChat, NEW s \in Sesiones, NEW fase, Corta(s, fase)
  PROVE  InvChat'
<1>1. PICK x, l, n, w : x = sesion[s] /\ l = leidos[s] /\ n = Len(eventos) /\ w = {}
  OBVIOUS
<1>2. SesionSana(x, l, n)
  BY <1>1 DEF InvChat
<1>3. PICK a : a = [x EXCEPT !.fase = fase]
  OBVIOUS
<1>4. w \subseteq (1 .. n) \ x.vistos /\ w \subseteq (1 .. n) \ a.vistos
  BY <1>1
<1>5. SesionSana(a, l, n)
  BY <1>2, <1>3, <1>4, LibreSana
<1>6. PICK b : b = [a EXCEPT !.llegan = w]
  OBVIOUS
<1>7. SesionSana(b, l, n)
  BY <1>4, <1>5, <1>6, LibreSana
<1>8. sesion' = [sesion EXCEPT ![s] = b] /\ UNCHANGED <<plan, eventos, leidos>>
  BY <1>1, <1>3, <1>6 DEF Corta, InvChat
<1> QED
  BY <1>1, <1>7, <1>8, SinLeer

(* Another client takes the session's place and has read nothing.          *)
LEMMA OtraSana ==
  ASSUME InvChat, NEW s \in Sesiones, Otra(s)
  PROVE  InvChat'
<1>1. PICK x : x = Nueva(s)
  OBVIOUS
<1>2. /\ sesion' = [sesion EXCEPT ![s] = x] /\ leidos' = [leidos EXCEPT ![s] = <<>>]
      /\ UNCHANGED <<plan, eventos>> /\ DOMAIN leidos = Sesiones
  BY <1>1 DEF Otra, InvChat
<1>3. leidos'[s] = <<>> /\ DOMAIN leidos' = Sesiones /\ \A t \in Sesiones \ {s} : leidos'[t] = leidos[t]
  BY <1>2
<1>4. Len(eventos) \in Nat
  BY LenProperties DEF InvChat
<1>5. SesionSana(x, leidos'[s], Len(eventos))
  BY <1>1, <1>3, <1>4, NuevaSana
<1>6. Leido(Cfg(s), eventos, leidos'[s])
  BY <1>3 DEF Leido, Range
<1> QED
  BY <1>2, <1>3, <1>5, <1>6, UnaSesion

(* A new receiver holds nothing.                                           *)
LEMMA ReceptorSana ==
  ASSUME InvChat, NEW s \in Sesiones, Receptor(s)
  PROVE  InvChat'
<1>1. PICK x, l, n : x = sesion[s] /\ l = leidos[s] /\ n = Len(eventos)
  OBVIOUS
<1>2. SesionSana(x, l, n) /\ Entera(x)
  BY <1>1 DEF InvChat, SesionSana
<1>3. PICK e : e = <<>>
  OBVIOUS
<1>4. PICK a, b : a = [x EXCEPT !.fase = "lista"] /\ b = [a EXCEPT !.buzon = e]
  OBVIOUS
<1>5. a = [fase |-> "lista", peer |-> x.peer, llegan |-> x.llegan, vistos |-> x.vistos, buzon |-> x.buzon]
  BY <1>2, <1>4, CampoEs
<1>6. b = [fase |-> "lista", peer |-> x.peer, llegan |-> x.llegan, vistos |-> x.vistos, buzon |-> e]
  BY <1>4, <1>5
<1>7. Entera(b) /\ b.llegan = x.llegan /\ b.vistos = x.vistos /\ b.buzon = e
  BY <1>6 DEF Entera
<1>8. e \in Seq(x.vistos) /\ IsInjective(e) /\ Range(e) = {}
  BY <1>3, EmptySeq DEF IsInjective, Range
<1>9. SesionSana(b, l, n)
  BY <1>2, <1>7, <1>8 DEF SesionSana
<1>10. sesion' = [sesion EXCEPT ![s] = b] /\ UNCHANGED <<plan, eventos, leidos>>
  BY <1>1, <1>3, <1>4 DEF Receptor, InvChat
<1> QED
  BY <1>1, <1>9, <1>10, SinLeer

(* An event comes once: what has been taken in is known. *)
LEMMA AppendInyecta ==
  ASSUME NEW S, NEW b \in Seq(S), IsInjective(b), NEW k \in S, k \notin Range(b)
  PROVE  /\ Append(b, k) \in Seq(S) /\ IsInjective(Append(b, k))
         /\ Range(Append(b, k)) = Range(b) \cup {k}
<1>1. PICK n \in Nat : n = Len(b)
  OBVIOUS
<1>2. PICK c : c = Append(b, k)
  OBVIOUS
<1>3. c \in Seq(S) /\ Len(c) = n + 1 /\ c[n + 1] = k /\ \A i \in 1 .. n : c[i] = b[i]
  BY <1>1, <1>2, AppendProperties
<1>4. DOMAIN b = 1 .. n /\ DOMAIN c = 1 .. n + 1
  BY <1>1, <1>3
<1>5. \A i \in 1 .. n + 1 : i = n + 1 \/ i \in 1 .. n
  OBVIOUS
<1>6. IsInjective(c)
  BY <1>3, <1>4, <1>5 DEF IsInjective, Range
<1>7. Range(c) = Range(b) \cup {k}
  BY <1>3, <1>4, <1>5 DEF Range
<1> QED
  BY <1>2, <1>3, <1>6, <1>7

(* A channel that overflows loses its oldest event.                        *)
LEMMA TailInyecta ==
  ASSUME NEW S, NEW b \in Seq(S), b # <<>>, IsInjective(b)
  PROVE  Tail(b) \in Seq(S) /\ IsInjective(Tail(b)) /\ Range(Tail(b)) \subseteq Range(b)
<1>1. PICK n \in Nat : n = Len(b)
  OBVIOUS
<1>2. PICK c : c = Tail(b)
  OBVIOUS
<1>3. c \in Seq(S) /\ Len(c) = n - 1 /\ \A i \in 1 .. n - 1 : c[i] = b[i + 1]
  BY <1>1, <1>2, HeadTailProperties
<1>4. DOMAIN b = 1 .. n /\ DOMAIN c = 1 .. n - 1
  BY <1>1, <1>3
<1>5. \A i \in DOMAIN c : i \in Nat /\ i + 1 \in DOMAIN b /\ c[i] = b[i + 1]
  BY <1>3, <1>4
<1>6. IsInjective(c)
  BY <1>5 DEF IsInjective
<1>7. Range(c) \subseteq Range(b)
  BY <1>5 DEF Range
<1> QED
  BY <1>2, <1>3, <1>6, <1>7

(* What is delivered becomes known and waits to be read, once.             *)
LEMMA EntregaSana ==
  ASSUME InvChat, NEW s \in Sesiones, NEW k, Entrega(s, k)
  PROVE  InvChat'
<1>1. PICK x, l, n : x = sesion[s] /\ l = leidos[s] /\ n = Len(eventos)
  OBVIOUS
<1>2. SesionSana(x, l, n) /\ Entera(x)
  BY <1>1 DEF InvChat, SesionSana
<1>3. k \in x.llegan /\ k \in 1 .. n /\ k \notin x.vistos
  BY <1>1, <1>2 DEF Entrega, SesionSana
<1>4. PICK lleno \in BOOLEAN : lleno = (x.buzon # Nada /\ Len(x.buzon) = TopeBuzon)
  OBVIOUS
<1>5. PICK c, d, e : /\ c = x.llegan \ {k} /\ d = x.vistos \cup {k}
                     /\ e = IF x.buzon = Nada THEN x.buzon
                            ELSE Append(IF lleno THEN Tail(x.buzon) ELSE x.buzon, k)
  OBVIOUS
<1>6. PICK x1, x2, x3 : /\ x1 = [x EXCEPT !.llegan = c] /\ x2 = [x1 EXCEPT !.vistos = d]
                        /\ x3 = [x2 EXCEPT !.buzon = e]
  OBVIOUS
<1>7. sesion' = [sesion EXCEPT ![s] = x3] /\ UNCHANGED <<plan, eventos, leidos>>
  <2>1. /\ sesion' = [sesion EXCEPT ![s].llegan = @ \ {k}, ![s].vistos = @ \cup {k}, ![s].buzon = e]
        /\ UNCHANGED <<plan, eventos, leidos>>
    BY <1>1, <1>4, <1>5 DEF Entrega
  <2> QED
    BY <1>1, <1>5, <1>6, <2>1 DEF InvChat
<1>8. x3 = [fase |-> x.fase, peer |-> x.peer, llegan |-> c, vistos |-> d, buzon |-> e]
  <2>1. x1 = [fase |-> x.fase, peer |-> x.peer, llegan |-> c, vistos |-> x.vistos, buzon |-> x.buzon]
    BY <1>2, <1>6, CampoEs
  <2>2. x2 = [fase |-> x.fase, peer |-> x.peer, llegan |-> c, vistos |-> d, buzon |-> x.buzon]
    BY <1>6, <2>1
  <2> QED
    BY <1>6, <2>2
<1>9. Entera(x3) /\ x3.llegan = c /\ x3.vistos = d /\ x3.buzon = e
  BY <1>8 DEF Entera
<1>10. /\ x.vistos \subseteq 1 .. n /\ x.llegan \subseteq (1 .. n) \ x.vistos
       /\ l \in Seq(x.vistos) /\ IsInjective(l)
  BY <1>2 DEF SesionSana
<1>11. l \in Seq(d) /\ Range(l) \subseteq x.vistos
  BY <1>5, <1>10, SeqMonotonic, ElementOfSeq DEF Range
<1>12. ASSUME e # Nada
       PROVE  e \in Seq(d) /\ IsInjective(e) /\ Range(e) \cap Range(l) = {}
  <2>1. x.buzon # Nada
    BY <1>5, <1>12
  <2>2. PICK b : b = x.buzon
    OBVIOUS
  <2>3. b \in Seq(x.vistos) /\ IsInjective(b) /\ Range(b) \cap Range(l) = {}
    BY <1>2, <2>1, <2>2 DEF SesionSana
  <2>4. PICK b2 : b2 = IF lleno THEN Tail(b) ELSE b
    OBVIOUS
  <2>5. lleno => b # <<>>
    BY <1>4, <2>2, <2>3, SupuestoChat, EmptySeq
  <2>6. b2 \in Seq(x.vistos) /\ IsInjective(b2) /\ Range(b2) \subseteq Range(b)
    BY <2>3, <2>4, <2>5, TailInyecta
  <2>7. b2 \in Seq(d) /\ Range(b2) \subseteq x.vistos
    BY <1>5, <2>6, SeqMonotonic, ElementOfSeq DEF Range
  <2>8. k \in d /\ k \notin Range(b2)
    BY <1>3, <1>5, <2>7
  <2>9. e = Append(b2, k)
    BY <1>5, <2>1, <2>2, <2>4
  <2>10. e \in Seq(d) /\ IsInjective(e) /\ Range(e) = Range(b2) \cup {k}
    BY <2>6, <2>7, <2>8, <2>9, AppendInyecta
  <2> QED
    BY <1>3, <1>11, <2>3, <2>6, <2>10
<1>13. SesionSana(x3, l, n)
  BY <1>3, <1>5, <1>9, <1>10, <1>11, <1>12 DEF SesionSana
<1> QED
  BY <1>1, <1>7, <1>13, SinLeer

(* What is kept of a sequence without repetitions has none. *)
LEMMA RetieneInyecta ==
  ASSUME NEW S, NEW b \in Seq(S), IsInjective(b), NEW K \in SUBSET (1 .. Len(b))
  PROVE  /\ Retiene(b, K) \in Seq(S) /\ IsInjective(Retiene(b, K))
         /\ Range(Retiene(b, K)) = {b[i] : i \in K}
<1>1. PICK r, n : r = Retiene(b, K) /\ n = Cardinality(K)
  OBVIOUS
<1>2. /\ r \in Seq(S) /\ Len(r) = n /\ n \in 0 .. Len(b)
      /\ \E f \in [1 .. n -> K] :
           /\ \A i, j \in 1 .. n : i < j => f[i] < f[j]
           /\ \A i \in 1 .. n : r[i] = b[f[i]]
  <2>1. Retenidas(r, n, S, b, K)
    BY <1>1, RetieneEs
  <2>2. r \in Seq(S) /\ Len(r) = n /\ n \in 0 .. Len(b)
    BY <2>1 DEF Retenidas
  <2>3. \E f \in [1 .. n -> K] :
          /\ \A i, j \in 1 .. n : i < j => f[i] < f[j]
          /\ \A i \in 1 .. n : r[i] = b[f[i]]
    BY <2>1 DEF Retenidas
  <2> QED
    BY <2>2, <2>3
<1>3. PICK f \in [1 .. n -> K] : /\ \A i, j \in 1 .. n : i < j => f[i] < f[j]
                                 /\ \A i \in 1 .. n : r[i] = b[f[i]]
  BY <1>2
<1>4. DOMAIN r = 1 .. n /\ DOMAIN b = 1 .. Len(b) /\ n \in Nat /\ Len(b) \in Nat
  BY <1>2
<1>5. ASSUME NEW i \in 1 .. n, NEW j \in 1 .. n, r[i] = r[j]
      PROVE  i = j
  <2>1. f[i] \in 1 .. Len(b) /\ f[j] \in 1 .. Len(b) /\ b[f[i]] = b[f[j]]
    BY <1>3, <1>5
  <2>2. f[i] = f[j]
    BY <1>4, <2>1 DEF IsInjective
  <2>3. ~(f[i] < f[j]) /\ ~(f[j] < f[i])
    BY <2>1, <2>2
  <2>4. i \in Int /\ j \in Int
    OBVIOUS
  <2> QED
    BY <1>3, <2>3, <2>4
<1>6. IsInjective(r)
  BY <1>4, <1>5 DEF IsInjective
<1>7. Range(Retiene(b, K)) = {b[i] : i \in K}
  BY RetieneRango
<1> QED
  BY <1>1, <1>2, <1>6, <1>7

(* What a poll keeps is meant for its session. *)
LEMMA ValidoVa ==
  ASSUME NEW s, NEW k, Valido(s, k)
  PROVE  Va(Cfg(s), eventos[k])
<1>1. PICK cf, e : cf = Cfg(s) /\ e = eventos[k]
  OBVIOUS
<1>2. CASE cf.tipo = "dm"
  BY <1>1, <1>2 DEF Valido, ValidoDm, unwrap_gift_wrap, Va
<1>3. CASE cf.tipo = "bandeja"
  BY <1>1, <1>3 DEF Valido, ValidoBandeja, unwrap_gift_wrap, Va
<1>4. CASE cf.tipo # "dm" /\ cf.tipo # "bandeja"
  <2>1. e.clase = "mostro" /\ e.para = Clave(s)
    BY <1>1, <1>4 DEF Valido, ValidoPar, mostro_unwrap
  <2> QED
    BY <1>1, <1>4, <2>1 DEF Va, Clave
<1> QED
  BY <1>2, <1>3, <1>4

(* A poll moves what waits to what was read.                               *)
LEMMA PollSana ==
  ASSUME InvChat, NEW s \in Sesiones, poll_messages(s)
  PROVE  InvChat'
<1>1. PICK x, l, n, b : x = sesion[s] /\ l = leidos[s] /\ n = Len(eventos) /\ b = x.buzon
  OBVIOUS
<1>2. /\ SesionSana(x, l, n) /\ Entera(x) /\ Leido(Cfg(s), eventos, l)
      /\ DOMAIN leidos = Sesiones /\ DOMAIN sesion = Sesiones
  BY <1>1 DEF InvChat, SesionSana
<1>3. PICK K, r : K = {i \in DOMAIN b : Valido(s, b[i])} /\ r = Retiene(b, K)
  OBVIOUS
<1>4. PICK e, x2 : e = <<>> /\ x2 = [x EXCEPT !.buzon = e]
  OBVIOUS
<1>5. /\ b # Nada /\ leidos' = [leidos EXCEPT ![s] = @ \o r]
      /\ sesion' = [sesion EXCEPT ![s] = x2] /\ UNCHANGED <<plan, eventos>>
  BY <1>1, <1>2, <1>3, <1>4 DEF poll_messages
<1>6. /\ b \in Seq(x.vistos) /\ IsInjective(b) /\ Range(b) \cap Range(l) = {}
      /\ l \in Seq(x.vistos) /\ IsInjective(l)
  BY <1>1, <1>2, <1>5 DEF SesionSana
<1>7. K \in SUBSET (1 .. Len(b)) /\ DOMAIN b = 1 .. Len(b)
  BY <1>3, <1>6
<1>8. r \in Seq(x.vistos) /\ IsInjective(r) /\ Range(r) = {b[i] : i \in K}
  BY <1>3, <1>6, <1>7, RetieneInyecta
<1>9. Range(r) \subseteq Range(b)
  BY <1>3, <1>8 DEF Range
<1>10. PICK l2 : l2 = l \o r
  OBVIOUS
<1>11. l2 \in Seq(x.vistos) /\ IsInjective(l2) /\ Range(l2) = Range(l) \cup Range(r)
  BY <1>6, <1>8, <1>9, <1>10, ConcatInyecta
<1>12. \A k \in Range(r) : Va(Cfg(s), eventos[k])
  BY <1>3, <1>8, ValidoVa
<1>13. Leido(Cfg(s), eventos, l2)
  BY <1>2, <1>11, <1>12 DEF Leido
<1>14. x2 = [fase |-> x.fase, peer |-> x.peer, llegan |-> x.llegan, vistos |-> x.vistos, buzon |-> e]
  BY <1>2, <1>4, CampoEs
<1>15. Entera(x2) /\ x2.llegan = x.llegan /\ x2.vistos = x.vistos /\ x2.buzon = e
  BY <1>14 DEF Entera
<1>16. e \in Seq(x.vistos) /\ IsInjective(e) /\ Range(e) = {}
  BY <1>4, EmptySeq DEF IsInjective, Range
<1>17. SesionSana(x2, l2, n)
  BY <1>2, <1>11, <1>15, <1>16 DEF SesionSana
<1>18. leidos'[s] = l2 /\ DOMAIN leidos' = Sesiones /\ \A t \in Sesiones \ {s} : leidos'[t] = leidos[t]
  BY <1>1, <1>2, <1>5, <1>10
<1> QED
  BY <1>1, <1>5, <1>13, <1>17, <1>18, UnaSesion

(* What was published stays as it was, and nobody knows the new event. *)
LEMMA PublicaSana ==
  ASSUME InvChat, NEW s \in Sesiones, NEW para, NEW clase, NEW fresco, Publica(s, para, clase, fresco)
  PROVE  InvChat'
<1>1. PICK n, k : n = Len(eventos) /\ k = n + 1
  OBVIOUS
<1>2. n \in Nat /\ k \in Nat
  BY <1>1, LenProperties DEF InvChat
<1>3. PICK e, ss : /\ eventos' = Append(eventos, e)
                   /\ ss = sesion' /\ DOMAIN ss = Sesiones
                   /\ \A t \in Sesiones : \/ ss[t] = [sesion[t] EXCEPT !.vistos = @ \cup {k}]
                                          \/ ss[t] = [sesion[t] EXCEPT !.llegan = @ \cup {k}]
                                          \/ ss[t] = sesion[t]
                   /\ UNCHANGED <<plan, leidos>>
  <2>1. PICK e : eventos' = Append(eventos, e)
    BY DEF Publica
  <2>2. PICK ss : ss = sesion'
    OBVIOUS
  <2>3. DOMAIN ss = Sesiones /\ UNCHANGED <<plan, leidos>>
    BY <2>2 DEF Publica
  <2>4. ASSUME NEW t \in Sesiones
        PROVE  \/ ss[t] = [sesion[t] EXCEPT !.vistos = @ \cup {k}]
               \/ ss[t] = [sesion[t] EXCEPT !.llegan = @ \cup {k}]
               \/ ss[t] = sesion[t]
    <3>1. PICK a, b, ea, eb : /\ a = [sesion[t] EXCEPT !.vistos = @ \cup {k}]
                              /\ b = [sesion[t] EXCEPT !.llegan = @ \cup {k}]
                              /\ ea = [de |-> Cfg(s).yo, para |-> para, clase |-> clase,
                                       fresco |-> fresco, en |-> RelaysDe(s).escribe \ plan.caidos]
                              /\ eb = [oyen |-> Oyen(s, ea), de |-> Cfg(s).yo, para |-> para,
                                       clase |-> clase, fresco |-> fresco,
                                       en |-> RelaysDe(s).escribe \ plan.caidos]
      OBVIOUS
    <3>2. PICK p : p = (t # s /\ sesion[t].fase \in {"suscripta", "lista"}
                        /\ RelaysDe(t).lee \cap (RelaysDe(s).escribe \ plan.caidos) # {} /\ Cubre(t, eb))
      OBVIOUS
    <3>3. ss[t] = CASE t = s -> a [] p -> b [] OTHER -> sesion[t]
      BY <1>1, <2>2, <3>1, <3>2, Zenon DEF Publica
    <3>4. \/ ss[t] = a \/ ss[t] = b \/ ss[t] = sesion[t]
      BY <3>3, <3>2
    <3> QED
      BY <3>1, <3>4
  <2> QED
    BY <2>1, <2>2, <2>3, <2>4
<1>4. PICK ev : ev = eventos'
  OBVIOUS
<1>5. /\ ev \in Seq(Range(ev)) /\ Len(ev) = n + 1
      /\ \A i \in 1 .. n : ev[i] = eventos[i]
  <2>1. PICK S : S = Range(eventos) \cup {e}
    OBVIOUS
  <2>2. eventos \in Seq(S)
    BY <2>1, SeqMonotonic DEF InvChat
  <2>3. ev \in Seq(S) /\ Len(ev) = n + 1 /\ \A i \in 1 .. n : ev[i] = eventos[i]
    BY <1>1, <1>3, <1>4, <2>1, <2>2, AppendProperties
  <2>4. PICK m \in Nat : ev \in [1 .. m -> S]
    BY <2>3, LenProperties
  <2>5. ev \in [1 .. m -> Range(ev)]
    BY <2>4 DEF Range
  <2>6. ev \in Seq(Range(ev))
    BY <2>5, SeqDef
  <2> QED
    BY <2>3, <2>6
<1>6. ASSUME NEW t \in Sesiones
      PROVE  SesionSana(ss[t], leidos[t], n + 1) /\ Leido(Cfg(t), ev, leidos[t])
  <2>1. PICK x, l : x = sesion[t] /\ l = leidos[t]
    OBVIOUS
  <2>2. SesionSana(x, l, n) /\ Entera(x) /\ Leido(Cfg(t), eventos, l)
    BY <1>1, <2>1 DEF InvChat, SesionSana
  <2>3. /\ x.vistos \subseteq 1 .. n /\ x.llegan \subseteq (1 .. n) \ x.vistos
        /\ l \in Seq(x.vistos) /\ IsInjective(l)
        /\ x.buzon # Nada =>
             /\ x.buzon \in Seq(x.vistos) /\ IsInjective(x.buzon)
             /\ Range(x.buzon) \cap Range(l) = {}
    BY <2>2 DEF SesionSana
  <2>4. Range(l) \subseteq 1 .. n
    BY <2>3, ElementOfSeq DEF Range
  <2>5. Leido(Cfg(t), ev, l)
    BY <1>5, <2>2, <2>4 DEF Leido
  <2>6. 1 .. n \subseteq 1 .. n + 1 /\ k \in 1 .. n + 1 /\ k \notin 1 .. n
    BY <1>1, <1>2
  <2>7. PICK a, b : a = x.vistos \cup {k} /\ b = x.llegan \cup {k}
    OBVIOUS
  <2>8. SesionSana(x, l, n + 1)
    BY <2>2, <2>3, <2>6 DEF SesionSana
  <2>9. SesionSana([x EXCEPT !.llegan = b], l, n + 1)
    <3>1. b \subseteq (1 .. n + 1) \ x.vistos
      BY <2>3, <2>6, <2>7
    <3> QED
      BY <2>8, <3>1, LibreSana
  <2>10. SesionSana([x EXCEPT !.vistos = a], l, n + 1)
    <3>1. PICK y : y = [x EXCEPT !.vistos = a]
      OBVIOUS
    <3>2. y = [fase |-> x.fase, peer |-> x.peer, llegan |-> x.llegan, vistos |-> a, buzon |-> x.buzon]
      BY <2>2, <3>1, CampoEs
    <3>3. Entera(y) /\ y.llegan = x.llegan /\ y.vistos = a /\ y.buzon = x.buzon
      BY <3>2 DEF Entera
    <3>4. a \subseteq 1 .. n + 1 /\ x.llegan \subseteq (1 .. n + 1) \ a
      BY <2>3, <2>6, <2>7
    <3>5. l \in Seq(a) /\ (x.buzon # Nada => x.buzon \in Seq(a))
      <4>1. x.vistos \subseteq a
        BY <2>7
      <4> QED
        BY <2>3, <4>1, SeqMonotonic
    <3> QED
      BY <2>3, <3>1, <3>3, <3>4, <3>5 DEF SesionSana
  <2>11. ss[t] \in {x, [x EXCEPT !.vistos = a], [x EXCEPT !.llegan = b]}
    BY <1>3, <2>1, <2>7
  <2> QED
    BY <2>1, <2>5, <2>8, <2>9, <2>10, <2>11
<1>7. PICK cs : cs = plan.sesiones
  OBVIOUS
<1>8. /\ plan'.sesiones = cs /\ Sesiones' = Sesiones /\ Sesiones = DOMAIN cs
      /\ leidos' = leidos /\ sesion' = ss /\ eventos' = ev /\ DOMAIN leidos = Sesiones
  BY <1>3, <1>4, <1>7 DEF Sesiones, InvChat
<1>9. \A t \in DOMAIN cs : SesionSana(ss[t], leidos[t], n + 1) /\ Leido(cs[t], ev, leidos[t])
  BY <1>6, <1>7 DEF Sesiones, Cfg
<1>10. \A t \in Sesiones' : /\ SesionSana(sesion'[t], leidos'[t], Len(eventos'))
                            /\ Leido(plan'.sesiones[t], eventos', leidos'[t])
  BY <1>4, <1>5, <1>8, <1>9
<1> QED
  BY <1>3, <1>5, <1>8, <1>10 DEF InvChat, Cfg

(* Every call of a session, and every event delivered to it.               *)
LEMMA PasoUnoSana ==
  ASSUME InvChat, NEW s \in Sesiones,
         \/ add_relays(s) \/ subscribe(s) \/ init_participant(s) \/ init_observer(s)
         \/ Receptor(s) \/ poll_messages(s) \/ disconnect(s) \/ FinSuscripcion(s) \/ Otra(s)
         \/ \E a \in plan.habla : set_peer(s, a)
         \/ \E fresco \in BOOLEAN : send_message(s, fresco) \/ EnviarPar(s, fresco)
         \/ \E k \in sesion[s].llegan : Entrega(s, k)
         \/ \E a \in plan.habla, clase \in {"otro", "basura", "nota"} : Ajeno(s, a, clase)
  PROVE  InvChat'
<1>1. CASE add_relays(s)
  BY <1>1, FaseSana DEF add_relays
<1>2. CASE \E a \in plan.habla : set_peer(s, a)
  <2>1. PICK a : set_peer(s, a)
    BY <1>2
  <2> QED
    BY <2>1, FaseSana DEF set_peer
<1>3. CASE subscribe(s)
  BY <1>3, AbrirSana DEF subscribe
<1>4. CASE init_participant(s) \/ init_observer(s)
  BY <1>4, AbrirSana DEF init_participant, init_observer, Iniciar
<1>5. CASE Receptor(s)
  BY <1>5, ReceptorSana
<1>6. CASE poll_messages(s)
  BY <1>6, PollSana
<1>7. CASE disconnect(s) \/ FinSuscripcion(s)
  BY <1>7, CortaSana DEF disconnect, FinSuscripcion
<1>8. CASE Otra(s)
  BY <1>8, OtraSana
<1>9. CASE \E fresco \in BOOLEAN : send_message(s, fresco) \/ EnviarPar(s, fresco)
  <2>1. PICK fresco : send_message(s, fresco) \/ EnviarPar(s, fresco)
    BY <1>9
  <2>2. PICK para, clase : Publica(s, para, clase, fresco)
    BY <2>1 DEF send_message, EnviarPar, mostro_wrap
  <2> QED
    BY <2>2, PublicaSana
<1>10. CASE \E k \in sesion[s].llegan : Entrega(s, k)
  BY <1>10, EntregaSana
<1>11. CASE \E a \in plan.habla, clase \in {"otro", "basura", "nota"} : Ajeno(s, a, clase)
  <2>1. PICK a, clase : Publica(s, a, clase, TRUE)
    BY <1>11 DEF Ajeno
  <2> QED
    BY <2>1, PublicaSana
<1> QED
  BY <1>1, <1>2, <1>3, <1>4, <1>5, <1>6, <1>7, <1>8, <1>9, <1>10, <1>11

(* Time, the accounts' screens and the account file touch no session. *)
LEMMA PasoChat ==
  ASSUME InvChat, [Next]_vars
  PROVE  InvChat'
<1>1. CASE \E s \in Sesiones :
             \/ add_relays(s) \/ subscribe(s) \/ init_participant(s) \/ init_observer(s)
             \/ Receptor(s) \/ poll_messages(s) \/ disconnect(s) \/ FinSuscripcion(s) \/ Otra(s)
             \/ \E a \in plan.habla : set_peer(s, a)
             \/ \E fresco \in BOOLEAN : send_message(s, fresco) \/ EnviarPar(s, fresco)
             \/ \E k \in sesion[s].llegan : Entrega(s, k)
             \/ \E a \in plan.habla, clase \in {"otro", "basura", "nota"} : Ajeno(s, a, clase)
  BY <1>1, PasoUnoSana
<1>2. CASE UNCHANGED <<plan, sesion, eventos, leidos>>
  <2>1. PICK cs : cs = plan.sesiones
    OBVIOUS
  <2>2. /\ plan'.sesiones = cs /\ sesion' = sesion /\ eventos' = eventos /\ leidos' = leidos
    BY <1>2, <2>1
  <2>3. /\ eventos \in Seq(Range(eventos))
        /\ DOMAIN sesion = DOMAIN cs /\ DOMAIN leidos = DOMAIN cs
        /\ \A s \in DOMAIN cs : /\ SesionSana(sesion[s], leidos[s], Len(eventos))
                                /\ Leido(cs[s], eventos, leidos[s])
    BY <2>1 DEF InvChat, Sesiones, Cfg
  <2> QED
    BY <2>2, <2>3 DEF InvChat, Sesiones, Cfg
<1>3. CASE Espera
  BY <1>2, <1>3 DEF Espera
<1> QED
  BY <1>1, <1>2, <1>3 DEF Next, NextChat, vars, chatVars

(* Each poll returns an event once, and only what was sealed for the one   *)
(* who polls: the receiver never holds what was read already, since what   *)
(* a client has taken in it does not take in again (client.rs, gestion.rs, *)
(* nostrpeer.rs).                                                          *)
THEOREM LecturaFiel == Spec => []LeidoFiel
<1>1. Init => InvChat
  BY ChatInicial DEF Init
<1>2. InvChat /\ [Next]_vars => InvChat'
  BY PasoChat
<1>3. InvChat => LeidoFiel
  <2>1. ASSUME InvChat, NEW s \in Sesiones
        PROVE  IsInjective(leidos[s]) /\ \A k \in Range(leidos[s]) : EsPara(s, eventos[k])
    <3>1. SesionSana(sesion[s], leidos[s], Len(eventos)) /\ Leido(Cfg(s), eventos, leidos[s])
      BY <2>1 DEF InvChat
    <3>2. ASSUME NEW k, Va(Cfg(s), eventos[k])
          PROVE  EsPara(s, eventos[k])
      BY <3>2 DEF Va, EsPara, Clave
    <3> QED
      BY <3>1, <3>2 DEF SesionSana, Leido
  <2> QED
    BY <2>1 DEF LeidoFiel
<1> QED
  BY <1>1, <1>2, <1>3, PTL DEF Spec

-----------------------------------------------------------------------------
(* Nothing sent to a session that listens goes astray.                     *)

(* Where event k may be while session s, with what it read, has still to   *)
(* be told of it: read, on its way, or waiting in the receiver; "par" lets *)
(* go of it once it is too old.                                            *)
EnCamino(cf, x, l, k, v) ==
  \/ cf.tipo \notin {"dm", "bandeja"} /\ k \in v
  \/ k \in Range(l)
  \/ k \in x.llegan
  \/ x.buzon # Nada /\ k \in Range(x.buzon)

(* For as long as its receiver is neither cut nor overrun, a session is    *)
(* subscribed since it was first meant to hear something, and all of that  *)
(* is addressed to it, so that a poll will keep it.                        *)
Escucha(s, cf, x, l, evs, v, cc) ==
  /\ x.fase = "lista" => x.buzon # Nada
  /\ s \notin cc => \A k \in DOMAIN evs : s \in evs[k].oyen =>
       x.fase = "lista" /\ Va(cf, evs[k]) /\ EnCamino(cf, x, l, k, v)

InvOyen ==
  /\ InvChat
  /\ \A s \in Sesiones : Escucha(s, Cfg(s), sesion[s], leidos[s], eventos, viejos, cortes)

(* What is published while a session listens for it is, until it is read,  *)
(* on its way to the session or in its receiver, and the session may poll: *)
(* only a cut or an overrun, or the window of "par", takes it away.        *)
NadaSeExtravia ==
  \A s \in Sesiones : \A k \in DOMAIN eventos :
    s \in eventos[k].oyen /\ s \notin cortes =>
      sesion[s].fase = "lista" /\ EnCamino(Cfg(s), sesion[s], leidos[s], k, viejos)

(* A receiver is not the absence of one. *)
LEMMA HayBuzon ==
  ASSUME NEW S, S \subseteq Nat, NEW b \in Seq(S)
  PROVE  b # Nada
<1>1. b \in Seq(Nat)
  BY SeqMonotonic
<1> QED
  BY <1>1, SupuestoChat

(* Nothing was published yet, and nobody is subscribed. *)
LEMMA OyenInicial ==
  ASSUME InitChat
  PROVE  InvOyen
<1>1. DOMAIN eventos = {}
  BY DEF InitChat
<1>2. ASSUME NEW s \in Sesiones
      PROVE  Escucha(s, Cfg(s), sesion[s], leidos[s], eventos, viejos, cortes)
  <2>1. PICK x : x = sesion[s]
    OBVIOUS
  <2>2. x.fase = "creada"
    BY <2>1 DEF InitChat, Nueva
  <2> QED
    BY <1>1, <2>1, <2>2 DEF Escucha
<1> QED
  BY <1>2, ChatInicial DEF InvOyen

(* A step of one session, which publishes nothing.  What has been cut      *)
(* stays so.                                                               *)
LEMMA UnaEscucha ==
  ASSUME InvOyen, InvChat', NEW s \in Sesiones, NEW x, UNCHANGED <<plan, eventos, viejos>>,
         sesion' = [sesion EXCEPT ![s] = x], \A t \in Sesiones \ {s} : leidos'[t] = leidos[t],
         cortes \subseteq cortes',
         Escucha(s, Cfg(s), x, leidos'[s], eventos, viejos, cortes')
  PROVE  InvOyen'
<1>1. PICK ss, ll, cc : ss = sesion' /\ ll = leidos' /\ cc = cortes'
  OBVIOUS
<1>2. ss[s] = x /\ \A t \in Sesiones \ {s} : ss[t] = sesion[t]
  BY <1>1 DEF InvOyen, InvChat
<1>3. ASSUME NEW t \in Sesiones
      PROVE  Escucha(t, Cfg(t), ss[t], ll[t], eventos, viejos, cc)
  <2>1. CASE t = s
    BY <1>1, <1>2, <2>1
  <2>2. CASE t # s
    <3>1. ss[t] = sesion[t] /\ ll[t] = leidos[t]
      BY <1>1, <1>2, <2>2
    <3>2. Escucha(t, Cfg(t), sesion[t], leidos[t], eventos, viejos, cortes)
      BY DEF InvOyen
    <3>3. PICK y, l, cf : y = sesion[t] /\ l = leidos[t] /\ cf = Cfg(t)
      OBVIOUS
    <3>4. Escucha(t, cf, y, l, eventos, viejos, cc)
      BY <1>1, <3>2, <3>3 DEF Escucha
    <3> QED
      BY <3>1, <3>3, <3>4
  <2> QED
    BY <2>1, <2>2
<1>4. PICK cs : cs = plan.sesiones
  OBVIOUS
<1>5. \A t \in DOMAIN cs : Escucha(t, cs[t], ss[t], ll[t], eventos, viejos, cc)
  BY <1>3, <1>4 DEF Sesiones, Cfg
<1>6. plan'.sesiones = cs /\ eventos' = eventos /\ viejos' = viejos /\ Sesiones' = DOMAIN cs
  BY <1>4 DEF Sesiones
<1>7. \A t \in Sesiones' : Escucha(t, plan'.sesiones[t], sesion'[t], leidos'[t], eventos', viejos', cortes')
  BY <1>1, <1>5, <1>6
<1> QED
  BY <1>7 DEF InvOyen, Cfg

(* A session that is not subscribed was told nothing, and has nothing to   *)
(* lose until it is.                                                       *)
LEMMA Callada ==
  ASSUME NEW s, NEW cf, NEW x, NEW l, NEW evs, NEW v, NEW cc, NEW c2,
         Escucha(s, cf, x, l, evs, v, cc), cc \subseteq c2, x.fase # "lista" \/ s \in c2,
         NEW y, NEW m, y.fase = "lista" => y.buzon # Nada
  PROVE  Escucha(s, cf, y, m, evs, v, c2)
BY DEF Escucha

(* A call that leaves the mail of a session where it is. *)
LEMMA FaseEscucha ==
  ASSUME InvOyen, InvChat', NEW s \in Sesiones, NEW fase, sesion[s].fase # "lista", fase # "lista",
         UNCHANGED <<plan, eventos, viejos, leidos, cortes>>, sesion' = [sesion EXCEPT ![s].fase = fase]
  PROVE  InvOyen'
<1>1. PICK x : x = sesion[s]
  OBVIOUS
<1>2. Entera(x) /\ Escucha(s, Cfg(s), x, leidos[s], eventos, viejos, cortes)
  BY <1>1 DEF InvOyen, InvChat, SesionSana
<1>3. PICK y : y = [x EXCEPT !.fase = fase]
  OBVIOUS
<1>4. y = [fase |-> fase, peer |-> x.peer, llegan |-> x.llegan, vistos |-> x.vistos, buzon |-> x.buzon]
  BY <1>2, <1>3, CampoEs
<1>5. y.fase = fase
  BY <1>4
<1>6. Escucha(s, Cfg(s), y, leidos[s], eventos, viejos, cortes)
  BY <1>1, <1>2, <1>5, Callada
<1>7. sesion' = [sesion EXCEPT ![s] = y]
  BY <1>1, <1>3
<1> QED
  BY <1>6, <1>7, UnaEscucha

(* Whom the inbox answers has no part in what it hears. *)
LEMMA PeerEscucha ==
  ASSUME InvOyen, InvChat', NEW s \in Sesiones, NEW a, set_peer(s, a)
  PROVE  InvOyen'
<1>1. PICK x : x = sesion[s]
  OBVIOUS
<1>2. Entera(x) /\ Escucha(s, Cfg(s), x, leidos[s], eventos, viejos, cortes)
  BY <1>1 DEF InvOyen, InvChat, SesionSana
<1>3. PICK y : y = [x EXCEPT !.peer = a]
  OBVIOUS
<1>4. y = [fase |-> x.fase, peer |-> a, llegan |-> x.llegan, vistos |-> x.vistos, buzon |-> x.buzon]
  BY <1>2, <1>3, CampoEs
<1>5. y.fase = x.fase /\ y.llegan = x.llegan /\ y.buzon = x.buzon
  BY <1>4
<1>6. PICK cf, l : cf = Cfg(s) /\ l = leidos[s]
  OBVIOUS
<1>7. Escucha(s, cf, y, l, eventos, viejos, cortes)
  BY <1>2, <1>5, <1>6 DEF Escucha, EnCamino
<1>8. sesion' = [sesion EXCEPT ![s] = y] /\ UNCHANGED <<plan, eventos, viejos, leidos, cortes>>
  BY <1>1, <1>3 DEF set_peer
<1> QED
  BY <1>6, <1>7, <1>8, UnaEscucha

(* A subscription: the first of a session finds nothing sent to it; a      *)
(* second one cuts the receiver.                                           *)
LEMMA AbrirEscucha ==
  ASSUME InvOyen, InvChat', NEW s \in Sesiones, Abrir(s), UNCHANGED <<plan, eventos, viejos, leidos>>,
         cortes \subseteq cortes', sesion[s].fase # "lista" \/ s \in cortes'
  PROVE  InvOyen'
<1>1. PICK x, w : x = sesion[s] /\ w = Historia(s) \ x.vistos
  OBVIOUS
<1>2. Entera(x) /\ Escucha(s, Cfg(s), x, leidos[s], eventos, viejos, cortes)
  BY <1>1 DEF InvOyen, InvChat, SesionSana
<1>3. PICK a, y : a = [x EXCEPT !.fase = "suscripta"] /\ y = [a EXCEPT !.llegan = w]
  OBVIOUS
<1>4. a = [fase |-> "suscripta", peer |-> x.peer, llegan |-> x.llegan, vistos |-> x.vistos, buzon |-> x.buzon]
  BY <1>2, <1>3, CampoEs
<1>5. y.fase = "suscripta"
  BY <1>3, <1>4
<1>6. PICK c2 : c2 = cortes'
  OBVIOUS
<1>7. Escucha(s, Cfg(s), y, leidos[s], eventos, viejos, c2)
  BY <1>1, <1>2, <1>5, <1>6, Callada
<1>8. sesion' = [sesion EXCEPT ![s] = y]
  BY <1>1, <1>3 DEF Abrir, InvOyen, InvChat
<1> QED
  BY <1>6, <1>7, <1>8, UnaEscucha

LEMMA SubscribeEscucha ==
  ASSUME InvOyen, InvChat', NEW s \in Sesiones, subscribe(s)
  PROVE  InvOyen'
<1>1. sesion[s].fase = "lista" => sesion[s].buzon # Nada
  BY DEF InvOyen, Escucha
<1>2. cortes \subseteq cortes' /\ (sesion[s].fase # "lista" \/ s \in cortes')
  BY <1>1 DEF subscribe
<1>3. Abrir(s) /\ UNCHANGED <<plan, eventos, viejos, leidos>>
  BY DEF subscribe
<1> QED
  BY <1>2, <1>3, AbrirEscucha

(* The receiver that a first subscription is given. *)
LEMMA ReceptorEscucha ==
  ASSUME InvOyen, InvChat', NEW s \in Sesiones, Receptor(s)
  PROVE  InvOyen'
<1>1. PICK x, e : x = sesion[s] /\ e = <<>>
  OBVIOUS
<1>2. Entera(x) /\ Escucha(s, Cfg(s), x, leidos[s], eventos, viejos, cortes)
  BY <1>1 DEF InvOyen, InvChat, SesionSana
<1>3. PICK a, y : a = [x EXCEPT !.fase = "lista"] /\ y = [a EXCEPT !.buzon = e]
  OBVIOUS
<1>4. a = [fase |-> "lista", peer |-> x.peer, llegan |-> x.llegan, vistos |-> x.vistos, buzon |-> x.buzon]
  BY <1>2, <1>3, CampoEs
<1>5. y.buzon = e
  BY <1>3, <1>4
<1>6. e # Nada
  <2>1. e \in Seq(Nat)
    BY <1>1, EmptySeq
  <2> QED
    BY <2>1, HayBuzon
<1>7. x.fase # "lista" /\ UNCHANGED <<plan, eventos, viejos, leidos, cortes>>
  BY <1>1 DEF Receptor
<1>8. Escucha(s, Cfg(s), y, leidos[s], eventos, viejos, cortes)
  BY <1>2, <1>5, <1>6, <1>7, Callada
<1>9. sesion' = [sesion EXCEPT ![s] = y]
  BY <1>1, <1>3 DEF Receptor, InvOyen, InvChat
<1> QED
  BY <1>7, <1>8, <1>9, UnaEscucha

(* A session that is cut, or made anew, is counted among those cut. *)
LEMMA CortaEscucha ==
  ASSUME InvOyen, InvChat', NEW s \in Sesiones, NEW fase, fase # "lista", Corta(s, fase)
  PROVE  InvOyen'
<1>1. PICK x, w : x = sesion[s] /\ w = {}
  OBVIOUS
<1>2. Entera(x)
  BY <1>1 DEF InvOyen, InvChat, SesionSana
<1>3. PICK a, y : a = [x EXCEPT !.fase = fase] /\ y = [a EXCEPT !.llegan = w]
  OBVIOUS
<1>4. a = [fase |-> fase, peer |-> x.peer, llegan |-> x.llegan, vistos |-> x.vistos, buzon |-> x.buzon]
  BY <1>2, <1>3, CampoEs
<1>5. y.fase = fase
  BY <1>3, <1>4
<1>6. /\ sesion' = [sesion EXCEPT ![s] = y] /\ UNCHANGED <<plan, eventos, viejos, leidos>>
      /\ cortes \subseteq cortes' /\ s \in cortes'
  BY <1>1, <1>3 DEF Corta, InvOyen, InvChat
<1>7. Escucha(s, Cfg(s), y, leidos[s], eventos, viejos, cortes')
  BY <1>5, <1>6 DEF Escucha
<1> QED
  BY <1>6, <1>7, UnaEscucha

LEMMA OtraEscucha ==
  ASSUME InvOyen, InvChat', NEW s \in Sesiones, Otra(s)
  PROVE  InvOyen'
<1>1. PICK y : y = Nueva(s)
  OBVIOUS
<1>2. y.fase = "creada"
  BY <1>1 DEF Nueva
<1>3. /\ sesion' = [sesion EXCEPT ![s] = y] /\ UNCHANGED <<plan, eventos, viejos>>
      /\ \A t \in Sesiones \ {s} : leidos'[t] = leidos[t]
      /\ cortes \subseteq cortes' /\ s \in cortes'
  BY <1>1 DEF Otra, InvOyen, InvChat
<1>4. Escucha(s, Cfg(s), y, leidos'[s], eventos, viejos, cortes')
  BY <1>2, <1>3 DEF Escucha
<1> QED
  BY <1>3, <1>4, UnaEscucha

(* What has come goes from the relays to the receiver; a receiver that is  *)
(* full loses its oldest, and the session counts as overrun.               *)
LEMMA EntregaEscucha ==
  ASSUME InvOyen, InvChat', NEW s \in Sesiones, NEW k, Entrega(s, k)
  PROVE  InvOyen'
<1>1. PICK x, l, n, cf : x = sesion[s] /\ l = leidos[s] /\ n = Len(eventos) /\ cf = Cfg(s)
  OBVIOUS
<1>2. SesionSana(x, l, n) /\ Entera(x) /\ Escucha(s, cf, x, l, eventos, viejos, cortes)
  BY <1>1 DEF InvOyen, InvChat, SesionSana
<1>3. PICK lleno \in BOOLEAN : lleno = (x.buzon # Nada /\ Len(x.buzon) = TopeBuzon)
  OBVIOUS
<1>4. PICK c, d, e : /\ c = x.llegan \ {k} /\ d = x.vistos \cup {k}
                     /\ e = IF x.buzon = Nada THEN x.buzon
                            ELSE Append(IF lleno THEN Tail(x.buzon) ELSE x.buzon, k)
  OBVIOUS
<1>5. PICK x1, x2, y : /\ x1 = [x EXCEPT !.llegan = c] /\ x2 = [x1 EXCEPT !.vistos = d]
                       /\ y = [x2 EXCEPT !.buzon = e]
  OBVIOUS
<1>6. PICK c2 : c2 = cortes'
  OBVIOUS
<1>7. /\ sesion' = [sesion EXCEPT ![s] = y] /\ UNCHANGED <<plan, eventos, viejos, leidos>>
      /\ c2 = (IF lleno THEN cortes \cup {s} ELSE cortes) /\ k \in x.llegan
  <2>1. /\ sesion' = [sesion EXCEPT ![s].llegan = @ \ {k}, ![s].vistos = @ \cup {k}, ![s].buzon = e]
        /\ UNCHANGED <<plan, eventos, viejos, leidos>>
        /\ c2 = (IF lleno THEN cortes \cup {s} ELSE cortes) /\ k \in x.llegan
    BY <1>1, <1>3, <1>4, <1>6 DEF Entrega
  <2>2. DOMAIN sesion = Sesiones
    BY DEF InvOyen, InvChat
  <2>3. sesion' = [sesion EXCEPT ![s] = y]
    BY <1>1, <1>4, <1>5, <2>1, <2>2
  <2> QED
    BY <2>1, <2>3
<1>8. y = [fase |-> x.fase, peer |-> x.peer, llegan |-> c, vistos |-> d, buzon |-> e]
  <2>1. x1 = [fase |-> x.fase, peer |-> x.peer, llegan |-> c, vistos |-> x.vistos, buzon |-> x.buzon]
    BY <1>2, <1>5, CampoEs
  <2>2. x2 = [fase |-> x.fase, peer |-> x.peer, llegan |-> c, vistos |-> d, buzon |-> x.buzon]
    BY <1>5, <2>1
  <2> QED
    BY <1>5, <2>2
<1>9. y.fase = x.fase /\ y.llegan = c /\ y.buzon = e
  BY <1>8
<1>10. CASE x.fase # "lista"
  BY <1>1, <1>2, <1>6, <1>7, <1>9, <1>10, Callada, UnaEscucha
<1>11. CASE x.fase = "lista"
  <2>1. PICK b : b = x.buzon
    OBVIOUS
  <2>2. b # Nada /\ b \in Seq(x.vistos) /\ IsInjective(b) /\ x.vistos \subseteq 1 .. n
    BY <1>2, <1>11, <2>1 DEF Escucha, SesionSana
  <2>3. k \in 1 .. n /\ k \notin x.vistos /\ n \in Nat
    BY <1>1, <1>2, <1>7, LenProperties DEF SesionSana, InvOyen, InvChat
  <2>4. d \subseteq Nat /\ k \in d /\ x.vistos \subseteq d
    BY <1>4, <2>2, <2>3
  <2>5. b \in Seq(d) /\ Range(b) \subseteq x.vistos
    BY <2>2, <2>4, SeqMonotonic, ElementOfSeq DEF Range
  <2>6. CASE lleno
    <3>1. s \in c2 /\ cortes \subseteq c2
      BY <1>7, <2>6
    <3>2. b # <<>>
      BY <1>3, <2>1, <2>6, EmptySeq, SupuestoChat
    <3>3. PICK b2 : b2 = Tail(b)
      OBVIOUS
    <3>4. b2 \in Seq(d)
      BY <2>2, <2>5, <3>2, <3>3, TailInyecta
    <3>5. e = Append(b2, k)
      BY <1>4, <2>1, <2>2, <2>6, <3>3
    <3>6. e \in Seq(d)
      BY <2>4, <3>4, <3>5, AppendProperties
    <3>7. e # Nada
      BY <2>4, <3>6, HayBuzon
    <3>8. Escucha(s, cf, y, l, eventos, viejos, c2)
      BY <1>2, <1>9, <3>1, <3>7, Callada
    <3> QED
      BY <1>1, <1>6, <1>7, <3>1, <3>8, UnaEscucha
  <2>7. CASE ~lleno
    <3>1. c2 = cortes /\ e = Append(b, k)
      BY <1>4, <1>7, <2>1, <2>2, <2>7
    <3>2. k \notin Range(b)
      BY <2>3, <2>5
    <3>3. e \in Seq(d) /\ Range(e) = Range(b) \cup {k}
      BY <2>2, <2>4, <2>5, <3>1, <3>2, AppendInyecta
    <3>4. e # Nada
      BY <2>4, <3>3, HayBuzon
    <3>5. ASSUME NEW j, EnCamino(cf, x, l, j, viejos)
          PROVE  EnCamino(cf, y, l, j, viejos)
      BY <1>4, <1>9, <2>1, <3>3, <3>4, <3>5 DEF EnCamino
    <3>6. Escucha(s, cf, y, l, eventos, viejos, c2)
      BY <1>2, <1>9, <3>1, <3>4, <3>5 DEF Escucha
    <3> QED
      BY <1>1, <1>6, <1>7, <3>1, <3>6, UnaEscucha
  <2> QED
    BY <2>6, <2>7
<1> QED
  BY <1>10, <1>11

(* A poll keeps all that is addressed to its session and, for "par", not   *)
(* yet too old.                                                            *)
LEMMA VaValido ==
  ASSUME NEW s, NEW k, Va(Cfg(s), eventos[k]), Cfg(s).tipo \in {"dm", "bandeja"} \/ k \notin viejos
  PROVE  Valido(s, k)
<1>1. PICK cf, e : cf = Cfg(s) /\ e = eventos[k]
  OBVIOUS
<1>2. CASE cf.tipo = "dm"
  BY <1>1, <1>2 DEF Valido, ValidoDm, unwrap_gift_wrap, Va
<1>3. CASE cf.tipo = "bandeja"
  BY <1>1, <1>3 DEF Valido, ValidoBandeja, unwrap_gift_wrap, Va
<1>4. CASE cf.tipo # "dm" /\ cf.tipo # "bandeja"
  <2>1. e.clase = "mostro" /\ e.para = Clave(s)
    BY <1>1, <1>4 DEF Va, Clave
  <2> QED
    BY <1>1, <1>4, <2>1 DEF Valido, ValidoPar, mostro_unwrap
<1> QED
  BY <1>2, <1>3, <1>4

(* What waits in the receiver is read, all of it. *)
LEMMA PollEscucha ==
  ASSUME InvOyen, InvChat', NEW s \in Sesiones, poll_messages(s)
  PROVE  InvOyen'
<1>1. PICK x, l, n, b, cf : x = sesion[s] /\ l = leidos[s] /\ n = Len(eventos) /\ b = x.buzon /\ cf = Cfg(s)
  OBVIOUS
<1>2. /\ SesionSana(x, l, n) /\ Entera(x) /\ Escucha(s, cf, x, l, eventos, viejos, cortes)
      /\ DOMAIN leidos = Sesiones
  BY <1>1 DEF InvOyen, InvChat, SesionSana
<1>3. PICK K, r : K = {i \in DOMAIN b : Valido(s, b[i])} /\ r = Retiene(b, K)
  OBVIOUS
<1>4. PICK e, y : e = <<>> /\ y = [x EXCEPT !.buzon = e]
  OBVIOUS
<1>5. /\ b # Nada /\ leidos' = [leidos EXCEPT ![s] = @ \o r]
      /\ sesion' = [sesion EXCEPT ![s] = y] /\ UNCHANGED <<plan, eventos, viejos, cortes>>
  BY <1>1, <1>3, <1>4 DEF poll_messages
<1>6. b \in Seq(x.vistos) /\ IsInjective(b) /\ Range(b) \cap Range(l) = {} /\ l \in Seq(x.vistos) /\ IsInjective(l)
  BY <1>1, <1>2, <1>5 DEF SesionSana
<1>7. K \in SUBSET (1 .. Len(b)) /\ DOMAIN b = 1 .. Len(b)
  BY <1>3, <1>6
<1>8. r \in Seq(x.vistos) /\ IsInjective(r) /\ Range(r) = {b[i] : i \in K}
  BY <1>3, <1>6, <1>7, RetieneInyecta
<1>9. Range(r) \subseteq Range(b)
  BY <1>3, <1>8 DEF Range
<1>10. PICK l2 : l2 = l \o r
  OBVIOUS
<1>11. Range(l2) = Range(l) \cup Range(r)
  BY <1>6, <1>8, <1>9, <1>10, ConcatInyecta
<1>12. leidos'[s] = l2 /\ \A t \in Sesiones \ {s} : leidos'[t] = leidos[t]
  BY <1>1, <1>2, <1>5, <1>10
<1>13. y = [fase |-> x.fase, peer |-> x.peer, llegan |-> x.llegan, vistos |-> x.vistos, buzon |-> e]
  BY <1>2, <1>4, CampoEs
<1>14. y.fase = x.fase /\ y.llegan = x.llegan /\ y.buzon = e
  BY <1>13
<1>15. e # Nada
  <2>1. e \in Seq(Nat)
    BY <1>4, EmptySeq
  <2> QED
    BY <2>1, HayBuzon
<1>16. ASSUME NEW k, Va(cf, eventos[k]), EnCamino(cf, x, l, k, viejos)
       PROVE  EnCamino(cf, y, l2, k, viejos)
  <2>1. CASE k \in Range(b)
    <3>1. PICK i \in DOMAIN b : b[i] = k
      BY <2>1 DEF Range
    <3>2. CASE Valido(s, k)
      <4>1. k \in Range(r)
        BY <1>3, <1>8, <3>1, <3>2
      <4> QED
        BY <1>11, <4>1 DEF EnCamino
    <3>3. CASE cf.tipo \notin {"dm", "bandeja"} /\ k \in viejos
      BY <3>3 DEF EnCamino
    <3> QED
      BY <1>1, <1>16, <3>2, <3>3, VaValido
  <2>2. CASE k \notin Range(b)
    BY <1>1, <1>11, <1>14, <1>16, <2>2 DEF EnCamino
  <2> QED
    BY <2>1, <2>2
<1>17. Escucha(s, cf, y, l2, eventos, viejos, cortes)
  BY <1>2, <1>14, <1>15, <1>16 DEF Escucha
<1> QED
  BY <1>1, <1>5, <1>12, <1>17, UnaEscucha

(* Sender and addressee have a relay that works in common whichever lists  *)
(* they chose: the public ones are added to what every client of the first *)
(* two kinds writes to, and it reads from all it writes to.                *)
LEMMA RelaysComunes ==
  ASSUME NEW s \in Sesiones, NEW t \in Sesiones, Comparten(s, t), Cfg(t).tipo = "par" => Cfg(s).tipo = "par"
  PROVE  RelaysDe(t).lee \cap (RelaysDe(s).escribe \ plan.caidos) # {}
<1>1. PICK a, b, F, C : a = Cfg(s) /\ b = Cfg(t) /\ F = FALLBACK_PUBLIC_RELAYS /\ C = plan.caidos
  OBVIOUS
<1>2. PICK w, r : w = RelaysDe(s) /\ r = RelaysDe(t)
  OBVIOUS
<1>3. a.dm \subseteq w.escribe /\ (a.tipo # "par" => F \subseteq w.escribe)
  BY <1>1, <1>2 DEF RelaysDe, connect_relays, compose_write_relays
<1>4. b.dm \subseteq r.lee /\ (b.tipo # "par" => F \subseteq r.lee)
  BY <1>1, <1>2 DEF RelaysDe, connect_relays, compose_write_relays
<1>5. \/ ((a.dm \cap b.dm) \ C) # {}
      \/ a.tipo # "par" /\ F \ C # {}
  BY <1>1 DEF Comparten
<1>6. b.tipo = "par" => a.tipo = "par"
  BY <1>1
<1>7. r.lee \cap (w.escribe \ C) # {}
  BY <1>3, <1>4, <1>5, <1>6
<1> QED
  BY <1>1, <1>2, <1>7

(* What is addressed to a session passes the filter of its subscription.   *)
LEMMA CubreLoSuyo ==
  ASSUME NEW t, NEW e, EsPara(t, e), e.fresco \/ ~Cfg(t).ventana
  PROVE  Cubre(t, e) /\ Va(Cfg(t), e)
<1>1. PICK cf, cabe : cf = Cfg(t) /\ cabe = (e.fresco \/ ~cf.ventana)
  OBVIOUS
<1>2. cabe
  BY <1>1
<1>3. CASE cf.tipo = "dm"
  BY <1>1, <1>2, <1>3 DEF EsPara, Cubre, Va
<1>4. CASE cf.tipo = "bandeja"
  BY <1>1, <1>2, <1>4 DEF EsPara, Cubre, Va
<1>5. CASE cf.tipo # "dm" /\ cf.tipo # "bandeja"
  <2>1. e.clase = "mostro" /\ e.para = Clave(t)
    BY <1>1, <1>5 DEF EsPara
  <2>2. Cubre(t, e)
    BY <1>1, <1>2, <1>5, <2>1 DEF Cubre
  <2>3. Va(cf, e)
    BY <1>1, <1>5, <2>1 DEF Va, Clave
  <2> QED
    BY <1>1, <2>2, <2>3
<1> QED
  BY <1>3, <1>4, <1>5

(* What is published goes at once to every session that has to hear it,    *)
(* and takes nothing from any.                                             *)
LEMMA PublicaEscucha ==
  ASSUME InvOyen, InvChat', NEW s \in Sesiones, NEW para, NEW clase, NEW fresco,
         Publica(s, para, clase, fresco), clase = "mostro" => Cfg(s).tipo = "par"
  PROVE  InvOyen'
<1>1. PICK n, k, en, c : n = Len(eventos) /\ k = n + 1 /\ en = RelaysDe(s).escribe \ plan.caidos /\ c = plan.caidos
  OBVIOUS
<1>2. n \in Nat /\ DOMAIN eventos = 1 .. n
  BY <1>1, LenProperties DEF InvOyen, InvChat
<1>3. PICK sin, e : /\ sin = [de |-> Cfg(s).yo, para |-> para, clase |-> clase, fresco |-> fresco, en |-> en]
                    /\ e = [oyen |-> Oyen(s, sin), de |-> Cfg(s).yo, para |-> para, clase |-> clase,
                            fresco |-> fresco, en |-> en]
  OBVIOUS
<1>4. PICK ev, ss : ev = eventos' /\ ss = sesion'
  OBVIOUS
<1>5. ev = Append(eventos, e) /\ UNCHANGED <<plan, viejos, leidos, cortes>>
  BY <1>1, <1>3, <1>4 DEF Publica
<1>6. Len(ev) = n + 1 /\ DOMAIN ev = 1 .. n + 1 /\ ev[k] = e /\ \A i \in 1 .. n : ev[i] = eventos[i]
  <2>1. PICK S : S = Range(eventos) \cup {e}
    OBVIOUS
  <2>2. eventos \in Seq(S)
    BY <2>1, SeqMonotonic DEF InvOyen, InvChat
  <2> QED
    BY <1>1, <1>5, <2>1, <2>2, AppendProperties
<1>7. ASSUME NEW t \in Sesiones
      PROVE  ss[t] = CASE t = s -> [sesion[t] EXCEPT !.vistos = @ \cup {k}]
                       [] /\ t # s /\ sesion[t].fase \in {"suscripta", "lista"}
                          /\ RelaysDe(t).lee \cap en # {} /\ Cubre(t, e)
                            -> [sesion[t] EXCEPT !.llegan = @ \cup {k}]
                       [] OTHER -> sesion[t]
  BY <1>1, <1>3, <1>4, Zenon DEF Publica
<1>8. ASSUME NEW t \in Sesiones
      PROVE  Escucha(t, Cfg(t), ss[t], leidos[t], ev, viejos, cortes)
  <2>1. PICK x, y, l, cf : x = sesion[t] /\ y = ss[t] /\ l = leidos[t] /\ cf = Cfg(t)
    OBVIOUS
  <2>2. Entera(x) /\ Escucha(t, cf, x, l, eventos, viejos, cortes)
    BY <2>1 DEF InvOyen, InvChat, SesionSana
  <2>3. PICK a, b, ya, yb : /\ a = x.vistos \cup {k} /\ b = x.llegan \cup {k}
                            /\ ya = [x EXCEPT !.vistos = a] /\ yb = [x EXCEPT !.llegan = b]
    OBVIOUS
  <2>4. /\ ya = [fase |-> x.fase, peer |-> x.peer, llegan |-> x.llegan, vistos |-> a, buzon |-> x.buzon]
        /\ yb = [fase |-> x.fase, peer |-> x.peer, llegan |-> b, vistos |-> x.vistos, buzon |-> x.buzon]
    <3>1. ya = [fase |-> x.fase, peer |-> x.peer, llegan |-> x.llegan, vistos |-> a, buzon |-> x.buzon]
      BY <2>2, <2>3, CampoEs
    <3>2. yb = [fase |-> x.fase, peer |-> x.peer, llegan |-> b, vistos |-> x.vistos, buzon |-> x.buzon]
      BY <2>2, <2>3, CampoEs
    <3> QED
      BY <3>1, <3>2
  <2>5. PICK p : p = (/\ t # s /\ x.fase \in {"suscripta", "lista"}
                      /\ RelaysDe(t).lee \cap en # {} /\ Cubre(t, e))
    OBVIOUS
  <2>6. y = CASE t = s -> ya [] p -> yb [] OTHER -> x
    BY <1>7, <2>1, <2>3, <2>5, Zenon
  <2>7. y \in {ya, yb, x} /\ (t # s /\ p => y = yb)
    BY <2>5, <2>6
  <2>8. y.fase = x.fase /\ y.buzon = x.buzon /\ x.llegan \subseteq y.llegan /\ (t # s /\ p => k \in y.llegan)
    <3>1. ya.fase = x.fase /\ ya.buzon = x.buzon /\ ya.llegan = x.llegan
      BY <2>4
    <3>2. yb.fase = x.fase /\ yb.buzon = x.buzon /\ yb.llegan = b
      BY <2>4
    <3>3. x.llegan \subseteq b /\ k \in b
      BY <2>3
    <3>4. CASE y = yb
      BY <3>2, <3>3, <3>4
    <3>5. CASE y # yb
      <4>1. y \in {ya, x} /\ ~(t # s /\ p)
        BY <2>7, <3>5
      <4> QED
        BY <3>1, <4>1
    <3> QED
      BY <3>4, <3>5
  <2>9. ASSUME NEW j \in 1 .. n, t \in ev[j].oyen, t \notin cortes
        PROVE  y.fase = "lista" /\ Va(cf, ev[j]) /\ EnCamino(cf, y, l, j, viejos)
    <3>1. ev[j] = eventos[j] /\ j \in DOMAIN eventos
      BY <1>2, <1>6
    <3>2. x.fase = "lista" /\ Va(cf, ev[j]) /\ EnCamino(cf, x, l, j, viejos)
      BY <2>2, <2>9, <3>1 DEF Escucha
    <3>3. EnCamino(cf, y, l, j, viejos)
      BY <2>8, <3>2 DEF EnCamino
    <3> QED
      BY <2>8, <3>2, <3>3
  <2>10. ASSUME t \in e.oyen
         PROVE  y.fase = "lista" /\ Va(cf, e) /\ EnCamino(cf, y, l, k, viejos)
    <3>1. t \in Oyen(s, sin)
      BY <1>3, <2>10
    <3>2. /\ t # s /\ x.fase = "lista" /\ EsPara(t, sin) /\ Comparten(s, t)
          /\ sin.fresco \/ ~Cfg(t).ventana
      BY <2>1, <3>1 DEF Oyen
    <3>3. /\ sin.clase = clase /\ e.clase = sin.clase /\ e.para = sin.para /\ e.de = sin.de
          /\ e.fresco = sin.fresco
      BY <1>3
    <3>4. EsPara(t, e)
      BY <3>2, <3>3 DEF EsPara
    <3>5. Cubre(t, e) /\ Va(cf, e)
      BY <2>1, <3>2, <3>3, <3>4, CubreLoSuyo
    <3>6. cf.tipo = "par" => clase = "mostro"
      BY <2>1, <3>2, <3>3 DEF EsPara
    <3>7. RelaysDe(t).lee \cap en # {}
      BY <1>1, <2>1, <3>2, <3>6, RelaysComunes
    <3>8. p
      BY <2>5, <3>2, <3>5, <3>7
    <3>9. k \in y.llegan
      BY <2>8, <3>2, <3>8
    <3> QED
      BY <2>8, <3>2, <3>5, <3>9 DEF EnCamino
  <2>11. \A j \in DOMAIN ev : j = k \/ j \in 1 .. n
    BY <1>1, <1>2, <1>6
  <2>12. Escucha(t, cf, y, l, ev, viejos, cortes)
    <3>1. y.fase = "lista" => y.buzon # Nada
      BY <2>2, <2>8 DEF Escucha
    <3> QED
      BY <1>6, <2>9, <2>10, <2>11, <3>1 DEF Escucha
  <2> QED
    BY <2>1, <2>12
<1>9. PICK cs, v, cc, ll : cs = plan.sesiones /\ v = viejos /\ cc = cortes /\ ll = leidos
  OBVIOUS
<1>10. \A t \in DOMAIN cs : Escucha(t, cs[t], ss[t], ll[t], ev, v, cc)
  BY <1>8, <1>9 DEF Sesiones, Cfg
<1>11. /\ plan'.sesiones = cs /\ eventos' = ev /\ sesion' = ss /\ leidos' = ll /\ viejos' = v /\ cortes' = cc
       /\ Sesiones' = DOMAIN cs
  BY <1>4, <1>5, <1>9 DEF Sesiones
<1>12. \A t \in Sesiones' : Escucha(t, plan'.sesiones[t], sesion'[t], leidos'[t], eventos', viejos', cortes')
  BY <1>10, <1>11
<1> QED
  BY <1>12 DEF InvOyen, Cfg

(* Every call of a session, and every event delivered to it. *)
LEMMA PasoUnoEscucha ==
  ASSUME InvOyen, InvChat', NEW s \in Sesiones,
         \/ add_relays(s) \/ subscribe(s) \/ init_participant(s) \/ init_observer(s)
         \/ Receptor(s) \/ poll_messages(s) \/ disconnect(s) \/ FinSuscripcion(s) \/ Otra(s)
         \/ \E a \in plan.habla : set_peer(s, a)
         \/ \E fresco \in BOOLEAN : send_message(s, fresco) \/ EnviarPar(s, fresco)
         \/ \E k \in sesion[s].llegan : Entrega(s, k)
         \/ \E a \in plan.habla, clase \in {"otro", "basura", "nota"} : Ajeno(s, a, clase)
  PROVE  InvOyen'
<1>1. CASE add_relays(s)
  <2>1. /\ sesion[s].fase # "lista" /\ UNCHANGED <<plan, eventos, viejos, leidos, cortes>>
        /\ sesion' = [sesion EXCEPT ![s].fase = "conectada"]
    BY <1>1 DEF add_relays
  <2> QED
    BY <2>1, FaseEscucha
<1>2. CASE \E a \in plan.habla : set_peer(s, a)
  BY <1>2, PeerEscucha
<1>3. CASE subscribe(s)
  BY <1>3, SubscribeEscucha
<1>4. CASE init_participant(s) \/ init_observer(s)
  <2>1. /\ sesion[s].fase # "lista" /\ Abrir(s) /\ UNCHANGED <<plan, eventos, viejos, leidos, cortes>>
    BY <1>4 DEF init_participant, init_observer, Iniciar
  <2>2. cortes \subseteq cortes'
    BY <2>1
  <2> QED
    BY <2>1, <2>2, AbrirEscucha
<1>5. CASE Receptor(s)
  BY <1>5, ReceptorEscucha
<1>6. CASE poll_messages(s)
  BY <1>6, PollEscucha
<1>7. CASE disconnect(s) \/ FinSuscripcion(s)
  <2>1. Corta(s, "cortada") \/ Corta(s, "conectada")
    BY <1>7 DEF disconnect, FinSuscripcion
  <2>2. "cortada" # "lista" /\ "conectada" # "lista"
    OBVIOUS
  <2> QED
    BY <2>1, <2>2, CortaEscucha
<1>8. CASE Otra(s)
  BY <1>8, OtraEscucha
<1>9. CASE \E fresco \in BOOLEAN : send_message(s, fresco)
  <2>1. PICK para, fresco : Publica(s, para, "dm", fresco)
    BY <1>9 DEF send_message
  <2>2. "dm" # "mostro"
    OBVIOUS
  <2> QED
    BY <2>1, <2>2, PublicaEscucha
<1>10. CASE \E fresco \in BOOLEAN : EnviarPar(s, fresco)
  <2>1. PICK fresco : Publica(s, Clave(s), "mostro", fresco) /\ Cfg(s).tipo = "par"
    BY <1>10 DEF EnviarPar, mostro_wrap
  <2> QED
    BY <2>1, PublicaEscucha
<1>11. CASE \E k \in sesion[s].llegan : Entrega(s, k)
  BY <1>11, EntregaEscucha
<1>12. CASE \E a \in plan.habla, clase \in {"otro", "basura", "nota"} : Ajeno(s, a, clase)
  <2>1. PICK a, clase : Publica(s, a, clase, TRUE) /\ clase # "mostro"
    BY <1>12 DEF Ajeno
  <2> QED
    BY <2>1, PublicaEscucha
<1> QED
  BY <1>1, <1>2, <1>3, <1>4, <1>5, <1>6, <1>7, <1>8, <1>9, <1>10, <1>11, <1>12

(* Time makes events too old for "par" and takes nothing from the others.  *)
LEMMA EsperaEscucha ==
  ASSUME InvOyen, InvChat', UNCHANGED <<plan, sesion, eventos, leidos, cortes>>,
         viejos' = viejos \/ viejos' = DOMAIN eventos
  PROVE  InvOyen'
<1>1. PICK cs, v, ev : cs = plan.sesiones /\ v = viejos' /\ ev = eventos
  OBVIOUS
<1>2. ASSUME NEW s \in Sesiones
      PROVE  Escucha(s, Cfg(s), sesion[s], leidos[s], ev, v, cortes)
  <2>1. PICK x, l, cf, vi, cc : x = sesion[s] /\ l = leidos[s] /\ cf = Cfg(s) /\ vi = viejos /\ cc = cortes
    OBVIOUS
  <2>2. Escucha(s, cf, x, l, ev, vi, cc)
    BY <1>1, <2>1 DEF InvOyen
  <2>3. v = vi \/ v = DOMAIN ev
    BY <1>1, <2>1
  <2>4. ASSUME NEW k \in DOMAIN ev, EnCamino(cf, x, l, k, vi)
        PROVE  EnCamino(cf, x, l, k, v)
    BY <2>3, <2>4 DEF EnCamino
  <2>5. Escucha(s, cf, x, l, ev, v, cc)
    BY <2>2, <2>4 DEF Escucha
  <2> QED
    BY <2>1, <2>5
<1>3. PICK ss, ll, cc : ss = sesion /\ ll = leidos /\ cc = cortes
  OBVIOUS
<1>4. \A s \in DOMAIN cs : Escucha(s, cs[s], ss[s], ll[s], ev, v, cc)
  BY <1>1, <1>2, <1>3 DEF Sesiones, Cfg
<1>5. /\ plan'.sesiones = cs /\ eventos' = ev /\ sesion' = ss /\ leidos' = ll /\ viejos' = v /\ cortes' = cc
      /\ Sesiones' = DOMAIN cs
  BY <1>1, <1>3 DEF Sesiones
<1>6. \A s \in Sesiones' : Escucha(s, plan'.sesiones[s], sesion'[s], leidos'[s], eventos', viejos', cortes')
  BY <1>4, <1>5
<1> QED
  BY <1>6 DEF InvOyen, Cfg

LEMMA PasoOyen ==
  ASSUME InvOyen, [Next]_vars
  PROVE  InvOyen'
<1>1. InvChat'
  BY PasoChat DEF InvOyen
<1>2. CASE \E s \in Sesiones :
             \/ add_relays(s) \/ subscribe(s) \/ init_participant(s) \/ init_observer(s)
             \/ Receptor(s) \/ poll_messages(s) \/ disconnect(s) \/ FinSuscripcion(s) \/ Otra(s)
             \/ \E a \in plan.habla : set_peer(s, a)
             \/ \E fresco \in BOOLEAN : send_message(s, fresco) \/ EnviarPar(s, fresco)
             \/ \E k \in sesion[s].llegan : Entrega(s, k)
             \/ \E a \in plan.habla, clase \in {"otro", "basura", "nota"} : Ajeno(s, a, clase)
  BY <1>1, <1>2, PasoUnoEscucha
<1>3. CASE /\ UNCHANGED <<plan, sesion, eventos, leidos, cortes>>
           /\ viejos' = viejos \/ viejos' = DOMAIN eventos
  BY <1>1, <1>3, EsperaEscucha
<1>4. CASE Espera
  BY <1>3, <1>4 DEF Espera
<1> QED
  BY <1>2, <1>3, <1>4 DEF Next, NextChat, vars, chatVars

(* What is published while its addressee listens is never lost between the *)
(* relays, the client's receiver and the poll: it is read, or it is still  *)
(* to come and nothing stands in the way of the next delivery or poll.     *)
(* Only a subscription replaced, a disconnect or an overrun receiver       *)
(* (client.rs, gestion.rs), or the window of nostrpeer.rs, loses it.       *)
THEOREM NadaExtraviado == Spec => []NadaSeExtravia
<1>1. Init => InvOyen
  BY OyenInicial DEF Init
<1>2. InvOyen /\ [Next]_vars => InvOyen'
  BY PasoOyen
<1>3. InvOyen => NadaSeExtravia
  <2>1. ASSUME InvOyen, NEW s \in Sesiones, NEW k \in DOMAIN eventos, s \in eventos[k].oyen, s \notin cortes
        PROVE  sesion[s].fase = "lista" /\ EnCamino(Cfg(s), sesion[s], leidos[s], k, viejos)
    <3>1. Escucha(s, Cfg(s), sesion[s], leidos[s], eventos, viejos, cortes)
      BY <2>1 DEF InvOyen
    <3> QED
      BY <2>1, <3>1 DEF Escucha
  <2> QED
    BY <2>1 DEF NadaSeExtravia
<1> QED
  BY <1>1, <1>2, <1>3, PTL DEF Spec

-----------------------------------------------------------------------------
(* What screens are given: some of N, newest first, none older than one    *)
(* left out.                                                               *)
EsNuevas(s, N, limite) ==
  /\ s \in Seq(N)
  /\ Len(s) = IF Cardinality(N) < limite THEN Cardinality(N) ELSE limite
  /\ \A i, j \in 1 .. Len(s) : i < j => s[i].hora > s[j].hora
  /\ \A i \in 1 .. Len(s) : \A m \in N : m.hora > s[i].hora => m \in Range(s)

LEMMA NuevasEs ==
  ASSUME NEW N, IsFiniteSet(N), NEW limite \in Nat,
         \A m \in N : m.hora \in Nat, \A m, q \in N : m.hora = q.hora => m = q
  PROVE  EsNuevas(Nuevas(N, limite), N, limite)
<1>1. PICK H : H = {m.hora : m \in N}
  OBVIOUS
<1>2. PICK n \in Nat : n = Cardinality(N)
  BY FS_CardinalityType
<1>3. IsFiniteSet(H) /\ Cardinality(H) = n
  <2>1. PICK g : g = [m \in N |-> m.hora]
    OBVIOUS
  <2>2. g \in Bijection(N, H)
    <3>1. g \in [N -> H]
      BY <1>1, <2>1
    <3>2. \A m, q \in N : g[m] = g[q] => m = q
      BY <2>1
    <3>3. \A h \in H : \E m \in N : g[m] = h
      BY <1>1, <2>1
    <3> QED
      BY <3>1, <3>2, <3>3 DEF Bijection, Injection, Surjection, IsInjective
  <2>3. ExistsBijection(N, H)
    BY <2>2 DEF ExistsBijection
  <2> QED
    BY <1>2, <2>3, FS_Bijection
<1>4. PICK f : f = EnOrdenDe(H)
  OBVIOUS
<1>5. /\ f \in [1 .. n -> H]
      /\ \A i, j \in 1 .. n : i < j => f[i] < f[j]
      /\ \A h \in H : \E i \in 1 .. n : f[i] = h
  <2>1. H \in SUBSET Nat
    BY <1>1
  <2> QED
    BY <1>3, <1>4, <2>1, EnOrdenDeEs
<1>6. PICK l \in Nat : l = IF n < limite THEN n ELSE limite
  OBVIOUS
<1>7. PICK s : s = [i \in 1 .. l |-> CHOOSE m \in N : m.hora = f[n + 1 - i]]
  OBVIOUS
<1>8. Nuevas(N, limite) = s
  BY <1>1, <1>2, <1>4, <1>6, <1>7 DEF Nuevas
<1>9. ASSUME NEW i \in 1 .. l
      PROVE  s[i] \in N /\ s[i].hora = f[n + 1 - i] /\ n + 1 - i \in 1 .. n
  <2>1. n + 1 - i \in 1 .. n
    BY <1>6
  <2>2. f[n + 1 - i] \in H
    BY <1>5, <2>1
  <2>3. \E m \in N : m.hora = f[n + 1 - i]
    BY <1>1, <2>2
  <2> QED
    BY <1>7, <2>1, <2>3
<1>10. s \in Seq(N) /\ Len(s) = l /\ DOMAIN s = 1 .. l
  <2>1. s = [i \in 1 .. l |-> s[i]]
    BY <1>7
  <2>2. \A i \in 1 .. l : s[i] \in N
    BY <1>9
  <2> QED
    BY <2>1, <2>2
<1>11. ASSUME NEW i \in 1 .. l, NEW j \in 1 .. l, i < j
       PROVE  s[i].hora > s[j].hora
  <2>1. n + 1 - j < n + 1 - i
    BY <1>2, <1>11
  <2>2. f[n + 1 - j] < f[n + 1 - i]
    BY <1>5, <1>9, <2>1
  <2>3. f[n + 1 - j] \in Nat /\ f[n + 1 - i] \in Nat
    BY <1>1, <1>5, <1>9
  <2> QED
    BY <1>9, <2>2, <2>3
<1>12. ASSUME NEW i \in 1 .. l, NEW m \in N, m.hora > s[i].hora
       PROVE  m \in Range(s)
  <2>1. PICK k \in 1 .. n : f[k] = m.hora
    BY <1>1, <1>5
  <2>2. f[k] > f[n + 1 - i] /\ n + 1 - i \in 1 .. n
    BY <1>9, <1>12, <2>1
  <2>3. k > n + 1 - i
    <3>1. f[k] \in Nat /\ f[n + 1 - i] \in Nat
      BY <1>1, <1>5, <2>2
    <3>2. ~(k < n + 1 - i) /\ k # n + 1 - i
      BY <1>5, <2>2, <3>1
    <3> QED
      BY <1>2, <2>2, <3>2
  <2>4. PICK j : j = n + 1 - k
    OBVIOUS
  <2>5. j \in 1 .. l /\ n + 1 - j = k
    BY <1>2, <1>6, <2>3, <2>4
  <2>6. s[j] \in N /\ s[j].hora = m.hora
    BY <1>9, <2>1, <2>5
  <2>7. s[j] = m
    BY <2>6
  <2> QED
    BY <1>10, <2>5, <2>7 DEF Range
<1> QED
  BY <1>2, <1>6, <1>8, <1>10, <1>11, <1>12 DEF EsNuevas

(* The profiles of a search come sorted by the name they show. *)
LEMMA PorNombreOrdena ==
  ASSUME NEW P, NEW ps \in Seq(P), \A p \in P : Muestra(p) \in Nat
  PROVE  /\ DOMAIN PorNombre(ps) = DOMAIN ps
         /\ \A i, j \in DOMAIN ps : i < j => Muestra(PorNombre(ps)[i]) <= Muestra(PorNombre(ps)[j])
<1>1. PICK n \in Nat : n = Len(ps) /\ DOMAIN ps = 1 .. n
  OBVIOUS
<1>2. PICK m : m = [i \in 1 .. n |-> Muestra(ps[i])]
  OBVIOUS
<1>3. m \in [1 .. n -> Nat]
  BY <1>1, <1>2
<1> DEFINE antes(i, j) == Muestra(ps[i]) < Muestra(ps[j]) \/ (Muestra(ps[i]) = Muestra(ps[j]) /\ i < j)
<1>4. PICK R : R = {x \in (1 .. n) \X (1 .. n) : antes(x[1], x[2])}
  OBVIOUS
<1>5. \A i, j \in 1 .. n : <<i, j>> \in R <=> m[i] < m[j] \/ (m[i] = m[j] /\ i < j)
  <2>1. ASSUME NEW i \in 1 .. n, NEW j \in 1 .. n
        PROVE  <<i, j>> \in R <=> antes(i, j)
    <3>1. <<i, j>> \in (1 .. n) \X (1 .. n) /\ <<i, j>>[1] = i /\ <<i, j>>[2] = j
      OBVIOUS
    <3> HIDE DEF antes
    <3> QED
      BY <1>4, <3>1
  <2> QED
    BY <1>2, <2>1
<1>6. OrdenTotal(R, n)
  <2>1. ASSUME NEW i \in 1 .. n, NEW j \in 1 .. n, NEW k \in 1 .. n, <<i, j>> \in R, <<j, k>> \in R
        PROVE  <<i, k>> \in R
    <3>1. m[i] \in Nat /\ m[j] \in Nat /\ m[k] \in Nat /\ i \in Nat /\ j \in Nat /\ k \in Nat
      BY <1>3
    <3>2. m[i] < m[j] \/ (m[i] = m[j] /\ i < j)
      BY <1>5, <2>1
    <3>3. m[j] < m[k] \/ (m[j] = m[k] /\ j < k)
      BY <1>5, <2>1
    <3>4. m[i] < m[k] \/ (m[i] = m[k] /\ i < k)
      BY <3>1, <3>2, <3>3
    <3> QED
      BY <1>5, <3>4
  <2>2. \A i, j \in 1 .. n : i # j => <<i, j>> \in R \/ <<j, i>> \in R
    BY <1>3, <1>5
  <2>3. \A i \in 1 .. n : <<i, i>> \notin R
    BY <1>3, <1>5
  <2> QED
    BY <2>1, <2>2, <2>3 DEF OrdenTotal
<1>7. ASSUME NEW i \in 1 .. n
      PROVE  Cardinality({j \in DOMAIN ps : antes(j, i)}) + 1 = Puesto(R, n, i)
  <2>1. {j \in DOMAIN ps : antes(j, i)} = {j \in 1 .. n : <<j, i>> \in R}
    BY <1>1, <1>2, <1>5
  <2> QED
    BY <2>1 DEF Puesto
<1>8. PICK r : r = PorNombre(ps)
  OBVIOUS
<1>9. PICK c : c = [k \in 1 .. n |-> CHOOSE i \in DOMAIN ps : Cardinality({j \in DOMAIN ps : antes(j, i)}) + 1 = k]
  OBVIOUS
<1>10. DOMAIN r = 1 .. n /\ \A k \in 1 .. n : r[k] = ps[c[k]]
  BY <1>1, <1>8, <1>9 DEF PorNombre
<1> HIDE DEF antes
<1>11. /\ \A i \in 1 .. n : Puesto(R, n, i) \in 1 .. n
       /\ \A i, j \in 1 .. n : <<i, j>> \in R => Puesto(R, n, i) < Puesto(R, n, j)
       /\ \A k \in 1 .. n : \E i \in 1 .. n : Puesto(R, n, i) = k
  BY <1>6, PuestosEs
<1>12. ASSUME NEW k \in 1 .. n
       PROVE  c[k] \in 1 .. n /\ Puesto(R, n, c[k]) = k
  <2>1. PICK i \in 1 .. n : Puesto(R, n, i) = k
    BY <1>11
  <2>2. Cardinality({j \in DOMAIN ps : antes(j, i)}) + 1 = k
    BY <1>7, <2>1
  <2>3. c[k] \in DOMAIN ps /\ Cardinality({j \in DOMAIN ps : antes(j, c[k])}) + 1 = k
    BY <1>1, <1>9, <2>2
  <2> QED
    BY <1>1, <1>7, <2>3
<1>13. ASSUME NEW k \in 1 .. n, NEW l \in 1 .. n, k < l
       PROVE  Muestra(r[k]) <= Muestra(r[l])
  <2>1. ~(Puesto(R, n, c[l]) < Puesto(R, n, c[k])) /\ c[k] # c[l]
    BY <1>12, <1>13
  <2>2. <<c[k], c[l]>> \in R
    <3>1. PICK x \in 1 .. n, y \in 1 .. n : x = c[k] /\ y = c[l]
      BY <1>12
    <3>2. <<x, y>> \in R \/ <<y, x>> \in R
      BY <1>6, <2>1, <3>1 DEF OrdenTotal
    <3>3. <<y, x>> \notin R
      BY <1>11, <2>1, <3>1
    <3> QED
      BY <3>1, <3>2, <3>3
  <2>3. m[c[k]] <= m[c[l]]
    <3>1. PICK x \in 1 .. n, y \in 1 .. n : x = c[k] /\ y = c[l]
      BY <1>12
    <3>2. m[x] < m[y] \/ m[x] = m[y]
      BY <1>5, <2>2, <3>1
    <3>3. m[x] \in Nat /\ m[y] \in Nat
      BY <1>3
    <3>4. m[x] <= m[y]
      BY <3>2, <3>3
    <3> QED
      BY <3>1, <3>4
  <2> QED
    BY <1>2, <1>10, <1>12, <2>3
<1> QED
  BY <1>1, <1>8, <1>10, <1>13

-----------------------------------------------------------------------------
(* The public side: what the relays hold against what was published.       *)

Cadenas == {"", "url", "inicio", "u", "http", "read", "write"}
Perfiles == [name : Nat, display_name : Nat, picture : Cadenas]
(* The tags of a note. *)
Etiquetas == Seq(Cadenas \X Cadenas)
NotaPosible ==
  [kind : Nat, autor : Autores, hora : Nat, e : Nat, p : Seq(Autores), d : Cadenas, texto : Nat,
   perfil : Perfiles, r : Etiquetas]
Publicacion == [nota : NotaPosible, en : SUBSET Relays]

(* The flags of the lists of relays that are published. *)
ConSenales(r) == MapaDe(r) # <<>> /\ MapaDe(r)["u"].lectura /\ MapaDe(r)["u"].escritura

NotaSana(n) ==
  /\ n.kind = 10002 => ConSenales(n.r)
  /\ n.kind = 3 => IsInjective(n.p)

(* The history: each publication bears its time and reached some relay of  *)
(* those up.                                                               *)
PubsSanas(pubs, up) ==
  /\ pubs \in Seq(Publicacion)
  /\ \A i \in DOMAIN pubs : /\ pubs[i].nota.hora = i /\ NotaSana(pubs[i].nota)
                            /\ pubs[i].en # {} /\ pubs[i].en \subseteq up

(* A relay holds what was published there and not replaced there since.    *)
RedFiel(red, pubs) ==
  /\ \A r \in Relays : \A n \in red[r] : \E i \in DOMAIN pubs : r \in pubs[i].en /\ n = pubs[i].nota
  /\ \A i \in DOMAIN pubs : \A r \in pubs[i].en :
       \/ pubs[i].nota \in red[r]
       \/ \E j \in DOMAIN pubs : j > i /\ r \in pubs[j].en /\ Reemplaza(pubs[j].nota, pubs[i].nota)

EsRed(red, pubs, up) == PubsSanas(pubs, up) /\ RedFiel(red, pubs)

LEMMA GuardaRed ==
  ASSUME NEW red, NEW pubs, NEW up \in SUBSET Relays, EsRed(red, pubs, up),
         NEW n \in NotaPosible, n.hora = Len(pubs) + 1, NotaSana(n),
         NEW rs \in SUBSET up, rs # {}
  PROVE  EsRed(Guardadas(red, rs, n), Append(pubs, [nota |-> n, en |-> rs]), up)
<1>1. PICK L \in Nat : L = Len(pubs) /\ DOMAIN pubs = 1 .. L
  BY DEF EsRed, PubsSanas
<1>2. PICK x : x = [nota |-> n, en |-> rs]
  OBVIOUS
<1>3. x \in Publicacion /\ x.nota = n /\ x.en = rs
  BY <1>2 DEF Publicacion
<1>4. PICK np : np = Append(pubs, x)
  OBVIOUS
<1>5. /\ np \in Seq(Publicacion) /\ Len(np) = L + 1 /\ DOMAIN np = 1 .. L + 1
      /\ np[L + 1] = x /\ \A i \in 1 .. L : np[i] = pubs[i]
  BY <1>1, <1>3, <1>4 DEF EsRed, PubsSanas
<1>6. PICK g : g = Guardadas(red, rs, n)
  OBVIOUS
<1>7. \A r \in Relays : g[r] = IF r \in rs THEN {n} \cup {m \in red[r] : ~Reemplaza(n, m)} ELSE red[r]
  BY <1>6 DEF Guardadas
<1>8. PubsSanas(np, up)
  <2>1. ASSUME NEW i \in DOMAIN np
        PROVE  np[i].nota.hora = i /\ NotaSana(np[i].nota) /\ np[i].en # {} /\ np[i].en \subseteq up
    <3>1. CASE i = L + 1
      BY <1>1, <1>3, <1>5, <3>1
    <3>2. CASE i # L + 1
      <4>1. i \in DOMAIN pubs /\ np[i] = pubs[i]
        BY <1>1, <1>5, <3>2
      <4> QED
        BY <4>1 DEF EsRed, PubsSanas
    <3> QED
      BY <3>1, <3>2
  <2> QED
    BY <1>5, <2>1 DEF PubsSanas
<1>9. ASSUME NEW r \in Relays, NEW m \in g[r]
      PROVE  \E i \in DOMAIN np : r \in np[i].en /\ m = np[i].nota
  <2>1. CASE m \in red[r]
    <3>1. PICK i \in DOMAIN pubs : r \in pubs[i].en /\ m = pubs[i].nota
      BY <2>1 DEF EsRed, RedFiel
    <3>2. i \in DOMAIN np /\ np[i] = pubs[i]
      BY <1>1, <1>5
    <3> QED
      BY <3>1, <3>2
  <2>2. CASE m \notin red[r]
    <3>1. r \in rs /\ m = n
      BY <1>7, <1>9, <2>2
    <3>2. L + 1 \in DOMAIN np
      BY <1>1, <1>5
    <3> QED
      BY <1>3, <1>5, <3>1, <3>2
  <2> QED
    BY <2>1, <2>2
<1>10. ASSUME NEW i \in DOMAIN np, NEW r \in np[i].en
       PROVE  \/ np[i].nota \in g[r]
              \/ \E j \in DOMAIN np : j > i /\ r \in np[j].en /\ Reemplaza(np[j].nota, np[i].nota)
  <2>1. r \in Relays
    BY <1>8 DEF PubsSanas
  <2>2. CASE i = L + 1
    <3>1. r \in rs /\ np[i].nota = n
      BY <1>3, <1>5, <1>10, <2>2
    <3> QED
      BY <1>7, <2>1, <3>1
  <2>3. CASE i # L + 1
    <3>1. i \in 1 .. L /\ i \in DOMAIN pubs /\ np[i] = pubs[i]
      BY <1>1, <1>5, <2>3
    <3>2. CASE pubs[i].nota \in red[r]
      <4>1. CASE r \in rs /\ Reemplaza(n, pubs[i].nota)
        <5>1. L + 1 \in DOMAIN np /\ L + 1 > i /\ np[L + 1].en = rs /\ np[L + 1].nota = n
          BY <1>1, <1>3, <1>5, <3>1
        <5> QED
          BY <3>1, <4>1, <5>1
      <4>2. CASE ~(r \in rs /\ Reemplaza(n, pubs[i].nota))
        <5>1. pubs[i].nota \in g[r]
          BY <1>7, <2>1, <3>2, <4>2
        <5> QED
          BY <3>1, <5>1
      <4> QED
        BY <4>1, <4>2
    <3>3. CASE pubs[i].nota \notin red[r]
      <4>1. PICK j \in DOMAIN pubs : j > i /\ r \in pubs[j].en /\ Reemplaza(pubs[j].nota, pubs[i].nota)
        BY <1>10, <3>1, <3>3 DEF EsRed, RedFiel
      <4>2. j \in DOMAIN np /\ np[j] = pubs[j]
        BY <1>1, <1>5
      <4> QED
        BY <3>1, <4>1, <4>2
    <3> QED
      BY <3>2, <3>3
  <2> QED
    BY <2>2, <2>3
<1>11. RedFiel(g, np)
  BY <1>9, <1>10 DEF RedFiel
<1> QED
  BY <1>2, <1>4, <1>6, <1>8, <1>11 DEF EsRed

(* What the relays rs have for a filter, and the publications it is of.    *)
Halladas(red, rs, f) == {n \in UNION {red[r] : r \in rs} : Pasa(f, n)}
Buscadas(pubs, rs, f) == {i \in DOMAIN pubs : pubs[i].en \cap rs # {} /\ Pasa(f, pubs[i].nota)}

(* A newer note that replaces one of the filter is of the filter.          *)
Sustituible(f) == \A m, n \in NotaPosible : Pasa(f, m) /\ Reemplaza(n, m) => Pasa(f, n)

LEMMA HalladasSon ==
  ASSUME NEW red, NEW pubs, NEW up \in SUBSET Relays, EsRed(red, pubs, up),
         NEW rs \in SUBSET Relays, NEW f
  PROVE  /\ IsFiniteSet(Halladas(red, rs, f))
         /\ \A m \in Halladas(red, rs, f) : \E i \in Buscadas(pubs, rs, f) : m = pubs[i].nota /\ m.hora = i
         /\ f.kind = 1 => \A i \in Buscadas(pubs, rs, f) : pubs[i].nota \in Halladas(red, rs, f)
<1>1. PICK L \in Nat : L = Len(pubs) /\ DOMAIN pubs = 1 .. L
  BY DEF EsRed, PubsSanas
<1>2. PICK N : N = Halladas(red, rs, f)
  OBVIOUS
<1>3. ASSUME NEW m \in N
      PROVE  \E i \in Buscadas(pubs, rs, f) : m = pubs[i].nota /\ m.hora = i
  <2>1. PICK r \in rs : m \in red[r] /\ Pasa(f, m)
    BY <1>2 DEF Halladas
  <2>2. PICK i \in DOMAIN pubs : r \in pubs[i].en /\ m = pubs[i].nota
    BY <2>1 DEF EsRed, RedFiel
  <2>3. i \in Buscadas(pubs, rs, f)
    BY <2>1, <2>2 DEF Buscadas
  <2> QED
    BY <2>2, <2>3 DEF EsRed, PubsSanas
<1>4. IsFiniteSet(N)
  <2>1. PICK g : g = [i \in 1 .. L |-> pubs[i].nota]
    OBVIOUS
  <2>2. PICK T : T = {g[i] : i \in 1 .. L}
    OBVIOUS
  <2>3. g \in Surjection(1 .. L, T)
    BY <2>1, <2>2 DEF Surjection
  <2>4. IsFiniteSet(1 .. L)
    <3>1. 1 \in Int /\ L \in Int
      OBVIOUS
    <3> QED
      BY <3>1, FS_Interval
  <2>5. IsFiniteSet(T)
    BY <2>3, <2>4, FS_Surjection
  <2>6. N \in SUBSET T
    <3>1. ASSUME NEW m \in N
          PROVE  m \in T
      <4>1. PICK i \in DOMAIN pubs : m = pubs[i].nota
        BY <1>3 DEF Buscadas
      <4> QED
        BY <1>1, <2>1, <2>2, <4>1
    <3> QED
      BY <3>1
  <2> QED
    BY <2>5, <2>6, FS_Subset
<1>5. ASSUME f.kind = 1, NEW i \in Buscadas(pubs, rs, f)
      PROVE  pubs[i].nota \in N
  <2>1. PICK r \in pubs[i].en \cap rs : Pasa(f, pubs[i].nota)
    BY DEF Buscadas
  <2>2. i \in DOMAIN pubs /\ pubs[i].nota.kind = 1
    BY <1>5, <2>1 DEF Buscadas, Pasa
  <2>3. pubs[i].nota \in red[r]
    BY <2>1, <2>2 DEF EsRed, RedFiel, Reemplaza
  <2> QED
    BY <1>2, <2>1, <2>3 DEF Halladas
<1> QED
  BY <1>2, <1>3, <1>4, <1>5

LEMMA MaxEs ==
  ASSUME NEW n \in Nat, NEW T \in SUBSET (1 .. n), T # {}
  PROVE  Max(T) \in T /\ \A y \in T : y <= Max(T)
<1>1. T \in SUBSET (0 .. n) /\ T \subseteq Nat
  OBVIOUS
<1>2. \E x \in T : \A y \in T : x >= y
  BY <1>1, MaximoNat
<1>3. Max(T) \in T /\ \A y \in T : Max(T) >= y
  BY <1>2 DEF Max
<1> QED
  BY <1>1, <1>3

(* The newest of them is still there. *)
LEMMA LaUltimaEsta ==
  ASSUME NEW red, NEW pubs, NEW up \in SUBSET Relays, EsRed(red, pubs, up),
         NEW rs \in SUBSET Relays, NEW f, Sustituible(f), Buscadas(pubs, rs, f) # {}
  PROVE  /\ Max(Buscadas(pubs, rs, f)) \in Buscadas(pubs, rs, f)
         /\ \A i \in Buscadas(pubs, rs, f) : i <= Max(Buscadas(pubs, rs, f))
         /\ pubs[Max(Buscadas(pubs, rs, f))].nota \in Halladas(red, rs, f)
<1>1. PICK L \in Nat : L = Len(pubs) /\ DOMAIN pubs = 1 .. L
  BY DEF EsRed, PubsSanas
<1>2. PICK I : I = Buscadas(pubs, rs, f)
  OBVIOUS
<1>3. I \in SUBSET (1 .. L) /\ I # {}
  BY <1>1, <1>2 DEF Buscadas
<1>4. PICK u : u = Max(I)
  OBVIOUS
<1>5. u \in I /\ u \in 1 .. L /\ \A i \in I : i <= u
  BY <1>3, <1>4, MaxEs
<1>6. PICK r \in pubs[u].en \cap rs : Pasa(f, pubs[u].nota)
  BY <1>2, <1>5 DEF Buscadas
<1>7. pubs[u].nota \in red[r]
  <2>1. ASSUME NEW j \in DOMAIN pubs, j > u, r \in pubs[j].en, Reemplaza(pubs[j].nota, pubs[u].nota)
        PROVE  FALSE
    <3>1. pubs[j].nota \in NotaPosible /\ pubs[u].nota \in NotaPosible
      <4>1. pubs \in Seq(Publicacion) /\ j \in 1 .. Len(pubs) /\ u \in 1 .. Len(pubs)
        BY <1>1, <1>5 DEF EsRed, PubsSanas
      <4>2. pubs[j] \in Publicacion /\ pubs[u] \in Publicacion
        BY <4>1
      <4> QED
        BY <4>2 DEF Publicacion
    <3>2. Pasa(f, pubs[j].nota)
      BY <1>6, <2>1, <3>1 DEF Sustituible
    <3>3. j \in I
      BY <1>2, <1>6, <2>1, <3>2 DEF Buscadas
    <3> QED
      BY <1>1, <1>5, <2>1, <3>3
  <2> QED
    BY <1>1, <1>5, <1>6, <2>1 DEF EsRed, RedFiel
<1>8. pubs[u].nota \in Halladas(red, rs, f)
  BY <1>6, <1>7 DEF Halladas
<1> QED
  BY <1>2, <1>4, <1>5, <1>8

(* fetch_events with limit 1: the newest publication of the filter.        *)
EsLaUltima(evs, pubs, I) ==
  IF I = {} THEN evs = <<>> ELSE evs # <<>> /\ Head(evs) = pubs[Max(I)].nota

LEMMA UnaEs ==
  ASSUME NEW red, NEW pubs, NEW up \in SUBSET Relays, EsRed(red, pubs, up),
         NEW rs \in SUBSET Relays, NEW f, Sustituible(f)
  PROVE  EsLaUltima(fetch_events(red, rs, f, 1), pubs, Buscadas(pubs, rs, f))
<1>1. PICK N, I : N = Halladas(red, rs, f) /\ I = Buscadas(pubs, rs, f)
  OBVIOUS
<1>2. PICK s : s = fetch_events(red, rs, f, 1)
  OBVIOUS
<1>3. /\ IsFiniteSet(N)
      /\ \A m \in N : \E i \in I : m = pubs[i].nota /\ m.hora = i
      /\ I \subseteq Nat
  <2>1. I \subseteq Nat
    <3>1. DOMAIN pubs = 1 .. Len(pubs)
      BY DEF EsRed, PubsSanas
    <3> QED
      BY <1>1, <3>1 DEF Buscadas
  <2> QED
    BY <1>1, <2>1, HalladasSon
<1>4. EsNuevas(s, N, 1)
  <2>1. \A m \in N : m.hora \in Nat
    BY <1>3
  <2>2. \A m, q \in N : m.hora = q.hora => m = q
    BY <1>3
  <2>3. s = Nuevas(N, 1)
    BY <1>1, <1>2 DEF fetch_events, Halladas
  <2> QED
    BY <1>3, <2>1, <2>2, <2>3, NuevasEs
<1>5. CASE I = {}
  <2>1. N = {} /\ Cardinality(N) = 0
    BY <1>3, <1>5, FS_EmptySet
  <2>2. s \in Seq(N) /\ Len(s) = 0
    BY <1>4, <2>1 DEF EsNuevas
  <2>3. s = <<>>
    BY <2>2
  <2> QED
    BY <1>1, <1>2, <1>5, <2>3 DEF EsLaUltima
<1>6. CASE I # {}
  <2>1. PICK u : u = Max(I)
    OBVIOUS
  <2>2. u \in I /\ (\A i \in I : i <= u) /\ pubs[u].nota \in N
    BY <1>1, <1>6, <2>1, LaUltimaEsta
  <2>3. Cardinality(N) \in Nat /\ Cardinality(N) # 0
    BY <1>3, <2>2, FS_CardinalityType, FS_EmptySet
  <2>4. s \in Seq(N) /\ Len(s) = 1
    BY <1>4, <2>3 DEF EsNuevas
  <2>5. s # <<>> /\ Head(s) = s[1] /\ s[1] \in N
    BY <2>4
  <2>6. PICK i \in I : s[1] = pubs[i].nota /\ s[1].hora = i
    BY <1>3, <2>5
  <2>7. pubs[u].nota.hora = u
    BY <1>1, <2>2 DEF Buscadas, EsRed, PubsSanas
  <2>8. ~(u > i)
    <3>1. ASSUME u > i
          PROVE  FALSE
      <4>1. pubs[u].nota \in Range(s)
        BY <1>4, <2>2, <2>4, <2>6, <2>7, <3>1 DEF EsNuevas
      <4>2. DOMAIN s = {1}
        BY <2>4
      <4>3. pubs[u].nota = s[1]
        BY <4>1, <4>2 DEF Range
      <4> QED
        BY <1>3, <2>2, <2>6, <2>7, <3>1, <4>3
    <3> QED
      BY <3>1
  <2>9. i = u
    BY <1>3, <2>2, <2>6, <2>8
  <2> QED
    BY <1>1, <1>2, <1>6, <2>1, <2>5, <2>6, <2>9 DEF EsLaUltima
<1> QED
  BY <1>5, <1>6

(* fetch_events of the notes of an author or to one: none is left out for  *)
(* an older one.                                                           *)
SonRecientes(s, pubs, I) ==
  /\ \A i, j \in DOMAIN s : i < j => s[i].hora > s[j].hora
  /\ Range(s) \subseteq {pubs[i].nota : i \in I}
  /\ \A n \in Range(s), i \in I : pubs[i].nota.hora > n.hora => pubs[i].nota \in Range(s)

LEMMA VariasSon ==
  ASSUME NEW red, NEW pubs, NEW up \in SUBSET Relays, EsRed(red, pubs, up),
         NEW rs \in SUBSET Relays, NEW f, f.kind = 1, NEW limite \in Nat \ {0}
  PROVE  LET s == fetch_events(red, rs, f, limite)
             I == Buscadas(pubs, rs, f)
         IN /\ s \in Seq({pubs[i].nota : i \in I})
            /\ SonRecientes(s, pubs, I)
            /\ s = <<>> => I = {}
<1>1. PICK N, I : N = Halladas(red, rs, f) /\ I = Buscadas(pubs, rs, f)
  OBVIOUS
<1>2. PICK s : s = fetch_events(red, rs, f, limite)
  OBVIOUS
<1>3. /\ IsFiniteSet(N)
      /\ \A m \in N : \E i \in I : m = pubs[i].nota /\ m.hora = i
      /\ I \subseteq Nat
      /\ \A i \in I : pubs[i].nota \in N
  <2>1. I \subseteq Nat
    <3>1. DOMAIN pubs = 1 .. Len(pubs)
      BY DEF EsRed, PubsSanas
    <3> QED
      BY <1>1, <3>1 DEF Buscadas
  <2>2. /\ IsFiniteSet(Halladas(red, rs, f))
        /\ \A m \in Halladas(red, rs, f) : \E i \in Buscadas(pubs, rs, f) : m = pubs[i].nota /\ m.hora = i
        /\ f.kind = 1 => \A i \in Buscadas(pubs, rs, f) : pubs[i].nota \in Halladas(red, rs, f)
    BY HalladasSon, Zenon
  <2>3. f.kind = 1
    OBVIOUS
  <2> QED
    BY <1>1, <2>1, <2>2, <2>3
<1>4. EsNuevas(s, N, limite)
  <2>1. \A m \in N : m.hora \in Nat
    BY <1>3
  <2>2. \A m, q \in N : m.hora = q.hora => m = q
    BY <1>3
  <2>3. s = Nuevas(N, limite)
    BY <1>1, <1>2 DEF fetch_events, Halladas
  <2> QED
    BY <1>3, <2>1, <2>2, <2>3, NuevasEs
<1>5. N = {pubs[i].nota : i \in I}
  BY <1>3
<1>6. s \in Seq(N) /\ DOMAIN s = 1 .. Len(s)
  BY <1>4 DEF EsNuevas
<1>7. SonRecientes(s, pubs, I)
  <2>1. Range(s) \subseteq N
    BY <1>6 DEF Range
  <2>2. ASSUME NEW n \in Range(s), NEW i \in I, pubs[i].nota.hora > n.hora
        PROVE  pubs[i].nota \in Range(s)
    <3>1. PICK k \in 1 .. Len(s) : n = s[k]
      BY <1>6 DEF Range
    <3> QED
      BY <1>3, <1>4, <2>2, <3>1 DEF EsNuevas
  <2>3. \A i, j \in DOMAIN s : i < j => s[i].hora > s[j].hora
    BY <1>4, <1>6 DEF EsNuevas
  <2> QED
    BY <1>5, <2>1, <2>2, <2>3 DEF SonRecientes
<1>8. ASSUME s = <<>>
      PROVE  I = {}
  <2>1. Len(s) = 0
    BY <1>8
  <2>2. Cardinality(N) = 0
    BY <1>3, <1>4, <2>1, FS_CardinalityType DEF EsNuevas
  <2>3. N = {}
    BY <1>3, <2>2, FS_EmptySet
  <2> QED
    BY <1>3, <2>3
<1> QED
  BY <1>1, <1>2, <1>5, <1>6, <1>7, <1>8

(* The list a call publishes: the one it was given, with or without b.     *)
LEMMA ListaEs ==
  ASSUME NEW S, NEW l \in Seq(S), IsInjective(l), NEW b \in S, NEW si \in BOOLEAN
  PROVE  /\ Lista(l, b, si) \in Seq(S) /\ IsInjective(Lista(l, b, si))
         /\ Range(Lista(l, b, si)) = IF si THEN Range(l) \cup {b} ELSE Range(l) \ {b}
<1>1. PICK K : K = {i \in DOMAIN l : l[i] # b}
  OBVIOUS
<1>2. K \in SUBSET (1 .. Len(l)) /\ DOMAIN l = 1 .. Len(l)
  BY <1>1
<1>3. PICK o : o = Retiene(l, K)
  OBVIOUS
<1>4. o \in Seq(S) /\ IsInjective(o) /\ Range(o) = {l[i] : i \in K}
  BY <1>2, <1>3, RetieneInyecta
<1>5. Range(o) = Range(l) \ {b}
  <2>1. {l[i] : i \in K} = Range(l) \ {b}
    BY <1>1 DEF Range
  <2> QED
    BY <1>4, <2>1
<1>6. Lista(l, b, si) = IF si THEN Append(o, b) ELSE o
  BY <1>1, <1>3 DEF Lista
<1>7. CASE si
  <2>1. b \notin Range(o)
    BY <1>5
  <2>2. PICK u : u = Append(o, b)
    OBVIOUS
  <2>3. u \in Seq(S) /\ IsInjective(u) /\ Range(u) = Range(o) \cup {b}
    BY <1>4, <2>1, <2>2, AppendInyecta
  <2> QED
    BY <1>5, <1>6, <1>7, <2>2, <2>3
<1>8. CASE ~si
  BY <1>4, <1>5, <1>6, <1>8
<1> QED
  BY <1>7, <1>8

(* The newest publication of an author and a kind. *)
Suyas(pubs, a, kind) == {i \in DOMAIN pubs : pubs[i].nota.autor = a /\ pubs[i].nota.kind = kind}
Ult(pubs, a, kind) ==
  IF Suyas(pubs, a, kind) = {} THEN 0
  ELSE CHOOSE i \in Suyas(pubs, a, kind) : \A j \in Suyas(pubs, a, kind) : j <= i

LEMMA UltEs ==
  ASSUME NEW S, NEW pubs \in Seq(S), NEW a, NEW kind
  PROVE  /\ Ult(pubs, a, kind) \in 0 .. Len(pubs)
         /\ Ult(pubs, a, kind) = 0 => Suyas(pubs, a, kind) = {}
         /\ Ult(pubs, a, kind) # 0 => /\ Ult(pubs, a, kind) \in Suyas(pubs, a, kind)
                                      /\ \A j \in Suyas(pubs, a, kind) : j <= Ult(pubs, a, kind)
<1>1. PICK T : T = Suyas(pubs, a, kind)
  OBVIOUS
<1>2. PICK L \in Nat : L = Len(pubs) /\ DOMAIN pubs = 1 .. L
  OBVIOUS
<1>3. T \in SUBSET (1 .. L)
  BY <1>1, <1>2 DEF Suyas
<1>4. PICK u : u = Ult(pubs, a, kind)
  OBVIOUS
<1>5. u = IF T = {} THEN 0 ELSE CHOOSE i \in T : \A j \in T : j <= i
  BY <1>1, <1>4 DEF Ult
<1>6. CASE T = {}
  BY <1>1, <1>2, <1>4, <1>5, <1>6
<1>7. CASE T # {}
  <2>1. T \in SUBSET (0 .. L) /\ T \subseteq Nat
    BY <1>3
  <2>2. \E x \in T : \A y \in T : x >= y
    BY <1>7, <2>1, MaximoNat
  <2>3. \E x \in T : \A y \in T : y <= x
    BY <2>1, <2>2
  <2>4. u \in T /\ \A j \in T : j <= u
    BY <1>5, <1>7, <2>3
  <2> QED
    BY <1>1, <1>2, <1>3, <1>4, <2>4
<1> QED
  BY <1>6, <1>7

(* One more publication moves it only for its author and kind. *)
LEMMA UltPone ==
  ASSUME NEW S, NEW pubs \in Seq(S), NEW x \in S, NEW a, NEW kind
  PROVE  Ult(Append(pubs, x), a, kind) =
           IF x.nota.autor = a /\ x.nota.kind = kind THEN Len(pubs) + 1 ELSE Ult(pubs, a, kind)
<1>1. PICK L \in Nat : L = Len(pubs) /\ DOMAIN pubs = 1 .. L
  OBVIOUS
<1>2. PICK np : np = Append(pubs, x)
  OBVIOUS
<1>3. /\ np \in Seq(S) /\ Len(np) = L + 1 /\ DOMAIN np = 1 .. L + 1
      /\ np[L + 1] = x /\ \A i \in 1 .. L : np[i] = pubs[i]
  BY <1>1, <1>2
<1>4. CASE x.nota.autor = a /\ x.nota.kind = kind
  <2>1. L + 1 \in Suyas(np, a, kind)
    BY <1>1, <1>3, <1>4 DEF Suyas
  <2>2. PICK u : u = Ult(np, a, kind)
    OBVIOUS
  <2>3. u \in 0 .. L + 1 /\ u # 0 /\ L + 1 <= u
    BY <1>3, <2>1, <2>2, UltEs
  <2>4. u = L + 1
    BY <1>1, <2>3
  <2> QED
    BY <1>1, <1>2, <1>4, <2>2, <2>4
<1>5. CASE ~(x.nota.autor = a /\ x.nota.kind = kind)
  <2>1. Suyas(np, a, kind) = Suyas(pubs, a, kind)
    <3>1. ASSUME NEW i \in 1 .. L + 1
          PROVE  i \in Suyas(np, a, kind) <=> i \in Suyas(pubs, a, kind)
      <4>1. CASE i = L + 1
        BY <1>1, <1>3, <1>5, <4>1 DEF Suyas
      <4>2. CASE i # L + 1
        <5>1. i \in 1 .. L /\ np[i] = pubs[i]
          BY <1>1, <1>3, <4>2
        <5> QED
          BY <1>1, <1>3, <5>1 DEF Suyas
      <4> QED
        BY <4>1, <4>2
    <3>2. Suyas(np, a, kind) \subseteq 1 .. L + 1 /\ Suyas(pubs, a, kind) \subseteq 1 .. L + 1
      BY <1>1, <1>3 DEF Suyas
    <3> QED
      BY <3>1, <3>2
  <2>2. Ult(np, a, kind) = Ult(pubs, a, kind)
    BY <2>1 DEF Ult
  <2> QED
    BY <1>2, <1>5, <2>2
<1> QED
  BY <1>4, <1>5

(* Filters of what an author replaces. *)
LEMMA DeAutor ==
  ASSUME NEW a, NEW kind \in {0, 3, 10002}
  PROVE  Sustituible(Filtro(kind, a, Nada, Nada))
  BY DEF Sustituible, Filtro, Pasa, Reemplaza

LEMMA DePagina ==
  ASSUME NEW a, NEW d
  PROVE  Sustituible(Filtro(30023, a, Nada, d))
  BY DEF Sustituible, Filtro, Pasa, Reemplaza

(* The contacts the relays rs give: the newest list, if one of them has it. *)
LEMMA SeguidosEs ==
  ASSUME NEW red, NEW pubs, NEW up \in SUBSET Relays, EsRed(red, pubs, up),
         NEW rs \in SUBSET Relays, NEW a \in Autores
  PROVE  LET l == seguidos(red, rs, a)
             u == Ult(pubs, a, 3)
         IN /\ l \in Seq(Autores) /\ IsInjective(l)
            /\ u = 0 => l = <<>>
            /\ u # 0 /\ pubs[u].en \cap rs # {} => l = pubs[u].nota.p
<1>1. PICK I, u, l : I = Buscadas(pubs, rs, Filtro(3, a, Nada, Nada)) /\ u = Ult(pubs, a, 3) /\ l = seguidos(red, rs, a)
  OBVIOUS
<1>2. PICK evs : evs = fetch_events(red, rs, Filtro(3, a, Nada, Nada), 1)
  OBVIOUS
<1>3. EsLaUltima(evs, pubs, I)
  <2>1. Sustituible(Filtro(3, a, Nada, Nada))
    BY DeAutor
  <2> QED
    BY <1>1, <1>2, <2>1, UnaEs
<1>4. l = IF evs = <<>> THEN <<>> ELSE Head(evs).p
  BY <1>1, <1>2 DEF seguidos
<1>5. PICK L \in Nat : L = Len(pubs) /\ DOMAIN pubs = 1 .. L /\ pubs \in Seq(Publicacion)
  BY DEF EsRed, PubsSanas
<1>6. I = {i \in Suyas(pubs, a, 3) : pubs[i].en \cap rs # {}}
  BY <1>1, SupuestoSocial DEF Buscadas, Suyas, Pasa, Filtro
<1>7. I \in SUBSET (1 .. L)
  BY <1>5, <1>6 DEF Suyas
<1>8. /\ u \in 0 .. L
      /\ u = 0 => Suyas(pubs, a, 3) = {}
      /\ u # 0 => u \in Suyas(pubs, a, 3) /\ \A j \in Suyas(pubs, a, 3) : j <= u
  BY <1>1, <1>5, UltEs
<1>9. CASE I = {}
  <2>1. l = <<>>
    BY <1>3, <1>4, <1>9 DEF EsLaUltima
  <2>2. l \in Seq(Autores) /\ DOMAIN l = {}
    BY <2>1
  <2>3. IsInjective(l)
    BY <2>2 DEF IsInjective
  <2>4. ~(u # 0 /\ pubs[u].en \cap rs # {})
    BY <1>6, <1>8, <1>9
  <2> QED
    BY <1>1, <2>1, <2>2, <2>3, <2>4
<1>10. CASE I # {}
  <2>1. PICK x : x = Max(I)
    OBVIOUS
  <2>2. x \in I /\ \A y \in I : y <= x
    BY <1>7, <1>10, <2>1, MaxEs
  <2>3. l = pubs[x].nota.p
    BY <1>3, <1>4, <1>10, <2>1 DEF EsLaUltima
  <2>4. pubs[x] \in Publicacion /\ x \in DOMAIN pubs /\ pubs[x].nota.kind = 3
    BY <1>5, <1>6, <1>7, <2>2 DEF Suyas
  <2>5. l \in Seq(Autores)
    BY <2>3, <2>4 DEF Publicacion, NotaPosible
  <2>6. IsInjective(l)
    BY <2>3, <2>4 DEF EsRed, PubsSanas, NotaSana
  <2>7. u # 0
    BY <1>6, <1>8, <1>10
  <2>8. ASSUME pubs[u].en \cap rs # {}
        PROVE  u = x
    <3>1. u \in I
      BY <1>6, <1>8, <2>7, <2>8
    <3>2. u <= x /\ x <= u
      BY <1>6, <1>8, <2>2, <2>7, <3>1
    <3> QED
      BY <1>7, <1>8, <2>2, <3>2
  <2> QED
    BY <1>1, <2>3, <2>5, <2>6, <2>7, <2>8
<1> QED
  BY <1>9, <1>10

-----------------------------------------------------------------------------
(* What each screen shows, against the history.                            *)

DeOtros(pubs, is, a) == {i \in is : pubs[i].nota.autor # a}

FielPerfil(v, pubs) ==
  LET I == Buscadas(pubs, v.rs, Filtro(0, v.de, Nada, Nada))
  IN v.res = IF I = {} THEN perfil_vacio(v.de) ELSE metadata_a_perfil(pubs[Max(I)].nota)
FielMuro(v, pubs) ==
  LET I == Buscadas(pubs, v.rs, Filtro(1, v.de, Nada, Nada))
  IN SonRecientes(v.res, pubs, I) /\ (v.res = <<>> => I = {})
FielAvisos(v, pubs) ==
  LET I == Buscadas(pubs, v.rs, Filtro(1, Nada, v.de, Nada))
  IN SonRecientes(v.res, pubs, DeOtros(pubs, I, v.de))
FielRelays(v, pubs) ==
  LET I == Buscadas(pubs, v.rs, Filtro(10002, v.de, Nada, Nada))
  IN I # {} => v.res["u"].lectura /\ v.res["u"].escritura
FielContactos(v, pubs, quieren, turbios) ==
  LET u == Ult(pubs, v.de, 3)
  IN /\ IsInjective(v.res)
     /\ v.de \notin turbios /\ u # 0 /\ pubs[u].en \cap v.rs # {} => Range(v.res) = quieren[v.de]
FielPagina(v, pubs) ==
  LET I == Buscadas(pubs, v.rs, Filtro(30023, v.de, Nada, "inicio"))
  IN v.res = IF I = {} THEN Nada ELSE pubs[Max(I)].nota.texto
FielUsuarios(v) ==
  \A i, j \in DOMAIN v.res : i < j => Muestra(v.res[i]) <= Muestra(v.res[j])
FielNotas(v) == \A n \in Range(v.res) : n.kind = 1 /\ n.texto = v.de

(* Whom an author follows is who its newest list names, if it is clean. *)
ListaFiel(quieren, pubs, turbios) ==
  \A a \in Autores \ turbios :
    quieren[a] = IF Ult(pubs, a, 3) = 0 THEN {} ELSE Range(pubs[Ult(pubs, a, 3)].nota.p)

Mirada(op, a, rs, res) == [op |-> op, de |-> a, rs |-> rs, res |-> res]

LEMMA PerfilFiel ==
  ASSUME NEW red, NEW pubs, NEW up \in SUBSET Relays, EsRed(red, pubs, up),
         NEW rs \in SUBSET Relays, NEW a, NEW op
  PROVE  FielPerfil(Mirada(op, a, rs, perfil_fetch(red, rs, a)), pubs)
<1>1. PICK I, evs : I = Buscadas(pubs, rs, Filtro(0, a, Nada, Nada)) /\ evs = fetch_events(red, rs, Filtro(0, a, Nada, Nada), 1)
  OBVIOUS
<1>2. EsLaUltima(evs, pubs, I)
  <2>1. Sustituible(Filtro(0, a, Nada, Nada))
    BY DeAutor
  <2> QED
    BY <1>1, <2>1, UnaEs
<1>3. perfil_fetch(red, rs, a) = IF evs = <<>> THEN perfil_vacio(a) ELSE metadata_a_perfil(Head(evs))
  BY <1>1 DEF perfil_fetch
<1>4. perfil_fetch(red, rs, a) = IF I = {} THEN perfil_vacio(a) ELSE metadata_a_perfil(pubs[Max(I)].nota)
  BY <1>2, <1>3 DEF EsLaUltima
<1> QED
  BY <1>1, <1>4 DEF FielPerfil, Mirada

LEMMA PaginaFiel ==
  ASSUME NEW red, NEW pubs, NEW up \in SUBSET Relays, EsRed(red, pubs, up),
         NEW rs \in SUBSET Relays, NEW a, NEW op
  PROVE  FielPagina(Mirada(op, a, rs, nostr_page_fetch(red, rs, a, "inicio")), pubs)
<1>1. PICK I, evs : I = Buscadas(pubs, rs, Filtro(30023, a, Nada, "inicio")) /\ evs = fetch_events(red, rs, Filtro(30023, a, Nada, "inicio"), 1)
  OBVIOUS
<1>2. EsLaUltima(evs, pubs, I)
  <2>1. Sustituible(Filtro(30023, a, Nada, "inicio"))
    BY DePagina
  <2> QED
    BY <1>1, <2>1, UnaEs
<1>3. nostr_page_fetch(red, rs, a, "inicio") = IF evs = <<>> THEN Nada ELSE Head(evs).texto
  BY <1>1 DEF nostr_page_fetch
<1>4. nostr_page_fetch(red, rs, a, "inicio") = IF I = {} THEN Nada ELSE pubs[Max(I)].nota.texto
  BY <1>2, <1>3 DEF EsLaUltima
<1> QED
  BY <1>1, <1>4 DEF FielPagina, Mirada

LEMMA RelaysFiel ==
  ASSUME NEW red, NEW pubs, NEW up \in SUBSET Relays, EsRed(red, pubs, up),
         NEW rs \in SUBSET Relays, NEW a \in Autores, NEW op
  PROVE  FielRelays(Mirada(op, a, rs, relays_fetch(red, rs, rs, a)), pubs)
<1>1. PICK I, evs : I = Buscadas(pubs, rs, Filtro(10002, a, Nada, Nada)) /\ evs = fetch_events(red, rs, Filtro(10002, a, Nada, Nada), 1)
  OBVIOUS
<1>2. EsLaUltima(evs, pubs, I)
  <2>1. Sustituible(Filtro(10002, a, Nada, Nada))
    BY DeAutor
  <2> QED
    BY <1>1, <2>1, UnaEs
<1>3. ASSUME I # {}
      PROVE  relays_fetch(red, rs, rs, a)["u"].lectura /\ relays_fetch(red, rs, rs, a)["u"].escritura
  <2>1. PICK L \in Nat : L = Len(pubs) /\ DOMAIN pubs = 1 .. L
    BY DEF EsRed, PubsSanas
  <2>2. I \in SUBSET (1 .. L)
    BY <1>1, <2>1 DEF Buscadas
  <2>3. PICK x : x = Max(I)
    OBVIOUS
  <2>4. x \in I
    BY <1>3, <2>2, <2>3, MaxEs
  <2>5. pubs[x].nota.kind = 10002 /\ x \in DOMAIN pubs
    BY <1>1, <2>4 DEF Buscadas, Pasa, Filtro
  <2>6. ConSenales(pubs[x].nota.r)
    BY <2>5 DEF EsRed, PubsSanas, NotaSana
  <2>7. evs # <<>> /\ Head(evs) = pubs[x].nota
    BY <1>2, <1>3, <2>3 DEF EsLaUltima
  <2>8. MapaDe(Head(evs).r) # <<>>
    BY <2>6, <2>7 DEF ConSenales
  <2>9. relays_fetch(red, rs, rs, a) = MapaDe(Head(evs).r)
    BY <1>1, <2>7, <2>8 DEF relays_fetch
  <2> QED
    BY <2>6, <2>7, <2>9 DEF ConSenales
<1> QED
  BY <1>1, <1>3 DEF FielRelays, Mirada

LEMMA ContactosFiel ==
  ASSUME NEW red, NEW pubs, NEW up \in SUBSET Relays, EsRed(red, pubs, up),
         NEW quieren, NEW turbios, ListaFiel(quieren, pubs, turbios),
         NEW rs \in SUBSET Relays, NEW a \in Autores, NEW op
  PROVE  FielContactos(Mirada(op, a, rs, seguidos(red, rs, a)), pubs, quieren, turbios)
<1>1. PICK l, u : l = seguidos(red, rs, a) /\ u = Ult(pubs, a, 3)
  OBVIOUS
<1>2. IsInjective(l) /\ (u # 0 /\ pubs[u].en \cap rs # {} => l = pubs[u].nota.p)
  BY <1>1, SeguidosEs
<1>3. a \notin turbios /\ u # 0 => quieren[a] = Range(pubs[u].nota.p)
  BY <1>1 DEF ListaFiel
<1> QED
  BY <1>1, <1>2, <1>3 DEF FielContactos, Mirada

LEMMA MuroFiel ==
  ASSUME NEW red, NEW pubs, NEW up \in SUBSET Relays, EsRed(red, pubs, up),
         NEW rs \in SUBSET Relays, NEW a, NEW op, NEW limite \in Nat \ {0}
  PROVE  FielMuro(Mirada(op, a, rs, posts_fetch(red, rs, a, 0, limite)), pubs)
<1>1. PICK f : f = Filtro(1, a, Nada, Nada)
  OBVIOUS
<1>2. PICK nuevas : nuevas = [r \in Relays |-> {n \in red[r] : n.hora >= 0}]
  OBVIOUS
<1>3. \A r \in rs : nuevas[r] = red[r]
  <2>1. ASSUME NEW r \in rs, NEW n \in red[r]
        PROVE  n.hora >= 0
    <3>1. PICK i \in DOMAIN pubs : n = pubs[i].nota
      BY DEF EsRed, RedFiel
    <3>2. n.hora = i /\ i \in Nat
      BY <3>1 DEF EsRed, PubsSanas
    <3> QED
      BY <3>2
  <2> QED
    BY <1>2, <2>1
<1>4. PICK s : s = fetch_events(red, rs, f, limite)
  OBVIOUS
<1>5. posts_fetch(red, rs, a, 0, limite) = s
  <2>1. {nuevas[r] : r \in rs} = {red[r] : r \in rs}
    BY <1>3
  <2>2. fetch_events(nuevas, rs, f, limite) = s
    BY <1>4, <2>1 DEF fetch_events
  <2> QED
    BY <1>1, <1>2, <2>2 DEF posts_fetch
<1>6. SonRecientes(s, pubs, Buscadas(pubs, rs, f)) /\ (s = <<>> => Buscadas(pubs, rs, f) = {})
  <2>1. f.kind = 1
    BY <1>1 DEF Filtro
  <2> QED
    BY <1>4, <2>1, VariasSon
<1> QED
  BY <1>1, <1>5, <1>6 DEF FielMuro, Mirada

LEMMA AvisosFiel ==
  ASSUME NEW red, NEW pubs, NEW up \in SUBSET Relays, EsRed(red, pubs, up),
         NEW rs \in SUBSET Relays, NEW a \in Autores, NEW op, NEW limite \in Nat \ {0}
  PROVE  FielAvisos(Mirada(op, a, rs, notificaciones_fetch(red, rs, a, limite)), pubs)
<1>1. PICK f : f = Filtro(1, Nada, a, Nada)
  OBVIOUS
<1>2. PICK s, I : s = fetch_events(red, rs, f, limite) /\ I = Buscadas(pubs, rs, f)
  OBVIOUS
<1>3. s \in Seq({pubs[i].nota : i \in I}) /\ SonRecientes(s, pubs, I)
  <2>1. f.kind = 1
    BY <1>1 DEF Filtro
  <2> QED
    BY <1>2, <2>1, VariasSon
<1>4. PICK S : S = {pubs[i].nota : i \in I}
  OBVIOUS
<1>5. PICK K : K = {i \in DOMAIN s : s[i].autor # a}
  OBVIOUS
<1>6. s \in Seq(S) /\ DOMAIN s = 1 .. Len(s) /\ K \in SUBSET (1 .. Len(s))
  BY <1>3, <1>4, <1>5
<1>7. PICK r : r = Retiene(s, K)
  OBVIOUS
<1>8. notificaciones_fetch(red, rs, a, limite) = r
  BY <1>1, <1>2, <1>5, <1>7 DEF notificaciones_fetch
<1>9. EsParte(r, S, s, K)
  BY <1>6, <1>7, RetieneParte
<1>10. PICK n \in Nat : n = Len(r) /\ r \in Seq(S)
  BY <1>9 DEF EsParte
<1>11. PICK g \in [1 .. n -> K] : /\ \A i, j \in 1 .. n : i < j => g[i] < g[j]
                                  /\ \A i \in 1 .. n : r[i] = s[g[i]]
  BY <1>9, <1>10 DEF EsParte
<1>12. DOMAIN r = 1 .. n
  BY <1>10
<1>13. ASSUME NEW i \in 1 .. n, NEW j \in 1 .. n, i < j
       PROVE  r[i].hora > r[j].hora
  <2>1. g[i] \in DOMAIN s /\ g[j] \in DOMAIN s /\ g[i] < g[j] /\ r[i] = s[g[i]] /\ r[j] = s[g[j]]
    BY <1>5, <1>10, <1>11, <1>13
  <2> QED
    BY <1>3, <2>1 DEF SonRecientes
<1>14. Range(r) = {s[k] : k \in K}
  <2>1. Range(Retiene(s, K)) = {s[k] : k \in K}
    BY <1>6, RetieneRango
  <2> QED
    BY <1>7, <2>1
<1>15. \A q : q \in Range(r) <=> q \in Range(s) /\ q.autor # a
  BY <1>5, <1>14 DEF Range
<1>16. PICK J : J = DeOtros(pubs, I, a)
  OBVIOUS
<1>17. Range(r) \subseteq {pubs[i].nota : i \in J}
  <2>1. ASSUME NEW q \in Range(r)
        PROVE  q \in {pubs[i].nota : i \in J}
    <3>1. q \in Range(s) /\ q.autor # a
      BY <1>15
    <3>2. PICK i \in I : q = pubs[i].nota
      BY <1>3, <3>1 DEF SonRecientes
    <3>3. i \in J
      BY <1>16, <3>1, <3>2 DEF DeOtros
    <3> QED
      BY <3>2, <3>3
  <2> QED
    BY <2>1
<1>18. ASSUME NEW q \in Range(r), NEW i \in J, pubs[i].nota.hora > q.hora
       PROVE  pubs[i].nota \in Range(r)
  <2>1. i \in I /\ pubs[i].nota.autor # a
    BY <1>16 DEF DeOtros
  <2>2. pubs[i].nota \in Range(s)
    BY <1>3, <1>15, <1>18, <2>1 DEF SonRecientes
  <2> QED
    BY <1>15, <2>1, <2>2
<1>19. SonRecientes(r, pubs, J)
  BY <1>12, <1>13, <1>17, <1>18 DEF SonRecientes
<1> QED
  BY <1>1, <1>2, <1>8, <1>16, <1>19 DEF FielAvisos, Mirada

(* A search looks among some of what the relays hold. *)
LEMMA BusquedaEs ==
  ASSUME NEW red, NEW pubs, NEW up \in SUBSET Relays, EsRed(red, pubs, up),
         NEW rs \in SUBSET Relays, NEW f, NEW limite \in Nat,
         NEW hay, \A r \in Relays : hay[r] \subseteq red[r]
  PROVE  /\ fetch_events(hay, rs, f, limite) \in Seq(Halladas(hay, rs, f))
         /\ Halladas(hay, rs, f) \subseteq NotaPosible
<1>1. PICK N, A : N = Halladas(red, rs, f) /\ A = Halladas(hay, rs, f)
  OBVIOUS
<1>2. A \in SUBSET N
  BY <1>1 DEF Halladas
<1>3. IsFiniteSet(N) /\ \A m \in N : \E i \in Buscadas(pubs, rs, f) : m = pubs[i].nota /\ m.hora = i
  <2>1. /\ IsFiniteSet(Halladas(red, rs, f))
        /\ \A m \in Halladas(red, rs, f) : \E i \in Buscadas(pubs, rs, f) : m = pubs[i].nota /\ m.hora = i
        /\ f.kind = 1 => \A i \in Buscadas(pubs, rs, f) : pubs[i].nota \in Halladas(red, rs, f)
    BY HalladasSon, Zenon
  <2> QED
    BY <1>1, <2>1
<1>4. pubs \in Seq(Publicacion)
  BY DEF EsRed, PubsSanas
<1>5. ASSUME NEW m \in N
      PROVE  m \in NotaPosible
  <2>1. PICK i \in DOMAIN pubs : m = pubs[i].nota
    BY <1>3 DEF Buscadas
  <2>2. pubs[i] \in Publicacion
    BY <1>4
  <2> QED
    BY <2>1, <2>2 DEF Publicacion
<1>6. IsFiniteSet(A)
  BY <1>2, <1>3, FS_Subset
<1>7. \A m \in A : m.hora \in Nat
  BY <1>2, <1>5 DEF NotaPosible
<1>8. \A m, q \in A : m.hora = q.hora => m = q
  BY <1>2, <1>3
<1>9. EsNuevas(Nuevas(A, limite), A, limite)
  BY <1>6, <1>7, <1>8, NuevasEs
<1>10. fetch_events(hay, rs, f, limite) = Nuevas(A, limite)
  BY <1>1 DEF fetch_events, Halladas
<1> QED
  BY <1>1, <1>2, <1>5, <1>9, <1>10 DEF EsNuevas

LEMMA UsuariosFiel ==
  ASSUME NEW red, NEW pubs, NEW up \in SUBSET Relays, EsRed(red, pubs, up),
         NEW rs \in SUBSET Relays, NEW query, NEW op, NEW limite \in Nat
  PROVE  FielUsuarios(Mirada(op, query, rs, buscar_usuarios(red, rs, query, limite)))
<1>1. PICK res : res = buscar_usuarios(red, rs, query, limite)
  OBVIOUS
<1>2. CASE query = 0
  <2>1. DOMAIN res = {}
    BY <1>1, <1>2 DEF buscar_usuarios
  <2> QED
    BY <1>1, <2>1 DEF FielUsuarios, Mirada
<1>3. CASE query # 0
  <2>1. PICK hay : hay = [r \in Relays |-> {n \in red[r] : n.kind = 0 /\ query \in {n.perfil.name, n.perfil.display_name}}]
    OBVIOUS
  <2>2. PICK f : f = Filtro(0, Nada, Nada, Nada)
    OBVIOUS
  <2>3. PICK evs : evs = fetch_events(hay, rs, f, limite)
    OBVIOUS
  <2>4. evs \in Seq(NotaPosible)
    <3>1. \A r \in Relays : hay[r] \subseteq red[r]
      BY <2>1
    <3>2. evs \in Seq(Halladas(hay, rs, f)) /\ Halladas(hay, rs, f) \subseteq NotaPosible
      BY <2>3, <3>1, BusquedaEs
    <3> QED
      BY <3>2
  <2>5. PICK ps : ps = [i \in DOMAIN evs |-> metadata_a_perfil(evs[i])]
    OBVIOUS
  <2>6. PICK P : P = {metadata_a_perfil(n) : n \in NotaPosible}
    OBVIOUS
  <2>7. ps \in Seq(P)
    <3>1. DOMAIN evs = 1 .. Len(evs) /\ Len(evs) \in Nat
      BY <2>4
    <3>2. \A i \in DOMAIN evs : metadata_a_perfil(evs[i]) \in P
      BY <2>4, <2>6, <3>1
    <3> QED
      BY <2>5, <3>1, <3>2
  <2>8. \A p \in P : Muestra(p) \in Nat
    <3>1. ASSUME NEW n \in NotaPosible
          PROVE  Muestra(metadata_a_perfil(n)) \in Nat
      <4>1. n.perfil.name \in Nat /\ n.perfil.display_name \in Nat
        BY DEF NotaPosible, Perfiles
      <4> QED
        BY <4>1 DEF Muestra, metadata_a_perfil
    <3> QED
      BY <2>6, <3>1
  <2>9. res = PorNombre(ps)
    BY <1>1, <1>3, <2>1, <2>2, <2>3, <2>5 DEF buscar_usuarios
  <2>10. /\ DOMAIN PorNombre(ps) = DOMAIN ps
         /\ \A i, j \in DOMAIN ps : i < j => Muestra(PorNombre(ps)[i]) <= Muestra(PorNombre(ps)[j])
    BY <2>7, <2>8, PorNombreOrdena
  <2> QED
    BY <1>1, <2>9, <2>10 DEF FielUsuarios, Mirada
<1> QED
  BY <1>2, <1>3

LEMMA NotasFiel ==
  ASSUME NEW red, NEW pubs, NEW up \in SUBSET Relays, EsRed(red, pubs, up),
         NEW rs \in SUBSET Relays, NEW query, NEW op, NEW limite \in Nat
  PROVE  FielNotas(Mirada(op, query, rs, buscar_posts(red, rs, query, limite)))
<1>1. PICK res : res = buscar_posts(red, rs, query, limite)
  OBVIOUS
<1>2. CASE query = 0
  <2>1. Range(res) = {}
    BY <1>1, <1>2 DEF buscar_posts, Range
  <2> QED
    BY <1>1, <2>1 DEF FielNotas, Mirada
<1>3. CASE query # 0
  <2>1. PICK hay : hay = [r \in Relays |-> {n \in red[r] : n.kind = 1 /\ n.texto = query}]
    OBVIOUS
  <2>2. PICK f : f = Filtro(1, Nada, Nada, Nada)
    OBVIOUS
  <2>3. res = fetch_events(hay, rs, f, limite)
    BY <1>1, <1>3, <2>1, <2>2 DEF buscar_posts
  <2>4. res \in Seq(Halladas(hay, rs, f))
    <3>1. \A r \in Relays : hay[r] \subseteq red[r]
      BY <2>1
    <3> QED
      BY <2>3, <3>1, BusquedaEs
  <2>5. \A n \in Halladas(hay, rs, f) : n.kind = 1 /\ n.texto = query
    BY <2>1 DEF Halladas
  <2>6. Range(res) \subseteq Halladas(hay, rs, f)
    <3>1. DOMAIN res = 1 .. Len(res)
      BY <2>4
    <3> QED
      BY <2>4, <3>1 DEF Range
  <2> QED
    BY <1>1, <2>5, <2>6 DEF FielNotas, Mirada
<1> QED
  BY <1>2, <1>3

-----------------------------------------------------------------------------
(* The inductive invariant of the public side.                             *)

Pendiente == [lista : Seq(Autores), quien : Autores, si : BOOLEAN, entera : BOOLEAN, ultima : Nat]

(* A call that read the newest list, all of it, is about to publish what   *)
(* its author wants.                                                       *)
PendFiel(t, a, quieren, pubs, turbios) ==
  t # Nada =>
    /\ t \in Pendiente /\ IsInjective(t.lista) /\ t.ultima <= Len(pubs)
    /\ t.entera /\ t.ultima = Ult(pubs, a, 3) /\ a \notin turbios =>
         Range(t.lista) = IF t.si THEN quieren[a] \cup {t.quien} ELSE quieren[a] \ {t.quien}

VistaEs(v, pubs, quieren, turbios) ==
  v # Nada =>
    /\ v.op \in {"perfil", "muro", "avisos", "relays", "contactos", "pagina"} => v.de \in Autores
    /\ v.op = "perfil" => FielPerfil(v, pubs)
    /\ v.op = "muro" => FielMuro(v, pubs)
    /\ v.op = "avisos" => FielAvisos(v, pubs)
    /\ v.op = "relays" => FielRelays(v, pubs)
    /\ v.op = "contactos" => FielContactos(v, pubs, quieren, turbios)
    /\ v.op = "pagina" => FielPagina(v, pubs)
    /\ v.op = "usuarios" => FielUsuarios(v)
    /\ v.op = "notas" => FielNotas(v)
    /\ v.op \in {"perfil", "muro", "avisos", "relays", "contactos", "pagina", "usuarios", "notas"}

InvSocial ==
  /\ plan \in Planes
  /\ EsRed(notas, publicadas, Arriba)
  /\ quiere \in [Autores -> SUBSET Autores]
  /\ ListaFiel(quiere, publicadas, turbio)
  /\ siguiendo = [c \in Aparatos |-> siguiendo[c]]
  /\ \A c \in Aparatos : PendFiel(siguiendo[c], Dueno(c), quiere, publicadas, turbio)
  /\ VistaEs(vista, publicadas, quiere, turbio)

LEMMA SocialInicial ==
  ASSUME plan \in Planes, InitSocial
  PROVE  InvSocial
<1>1. EsRed(notas, publicadas, Arriba)
  <2>1. publicadas = <<>> /\ publicadas \in Seq(Publicacion) /\ DOMAIN publicadas = {}
    BY DEF InitSocial
  <2>2. \A r \in Relays : notas[r] = {}
    BY DEF InitSocial
  <2> QED
    BY <2>1, <2>2 DEF EsRed, PubsSanas, RedFiel
<1>2. ListaFiel(quiere, publicadas, turbio)
  <2>1. \A a \in Autores : quiere[a] = {} /\ Ult(publicadas, a, 3) = 0
    BY DEF InitSocial, Ult, Suyas
  <2> QED
    BY <2>1 DEF ListaFiel
<1>3. quiere \in [Autores -> SUBSET Autores]
  BY DEF InitSocial
<1>4. siguiendo = [c \in Aparatos |-> siguiendo[c]] /\ \A c \in Aparatos : siguiendo[c] = Nada
  BY DEF InitSocial
<1>5. VistaEs(vista, publicadas, quiere, turbio)
  BY DEF InitSocial, VistaEs
<1> QED
  BY <1>1, <1>2, <1>3, <1>4, <1>5 DEF InvSocial, PendFiel

(* What a publication x may do to whom authors follow.                     *)
CambiaBien(x, q, q2, tur, tur2) ==
  /\ tur \subseteq tur2
  /\ \A b \in Autores :
       IF x.nota.kind = 3 /\ x.nota.autor = b
       THEN b \notin tur2 => q2[b] = Range(x.nota.p)
       ELSE q2[b] = q[b]

LEMMA PoneLista ==
  ASSUME NEW pubs \in Seq(Publicacion), NEW x \in Publicacion,
         NEW q, NEW q2, NEW tur, NEW tur2, CambiaBien(x, q, q2, tur, tur2)
  PROVE  /\ ListaFiel(q, pubs, tur) => ListaFiel(q2, Append(pubs, x), tur2)
         /\ \A t, b : b \in Autores /\ PendFiel(t, b, q, pubs, tur) => PendFiel(t, b, q2, Append(pubs, x), tur2)
<1>1. PICK L \in Nat : L = Len(pubs) /\ DOMAIN pubs = 1 .. L
  OBVIOUS
<1>2. PICK np : np = Append(pubs, x)
  OBVIOUS
<1>3. /\ np \in Seq(Publicacion) /\ Len(np) = L + 1 /\ DOMAIN np = 1 .. L + 1
      /\ np[L + 1] = x /\ \A i \in 1 .. L : np[i] = pubs[i]
  BY <1>1, <1>2
<1>4. ASSUME NEW b
      PROVE  /\ Ult(np, b, 3) = IF x.nota.autor = b /\ x.nota.kind = 3 THEN L + 1 ELSE Ult(pubs, b, 3)
             /\ Ult(pubs, b, 3) \in 0 .. L
  BY <1>1, <1>2, UltPone, UltEs
<1>5. ASSUME ListaFiel(q, pubs, tur)
      PROVE  ListaFiel(q2, np, tur2)
  <2>1. ASSUME NEW b \in Autores \ tur2
        PROVE  q2[b] = IF Ult(np, b, 3) = 0 THEN {} ELSE Range(np[Ult(np, b, 3)].nota.p)
    <3>1. CASE x.nota.autor = b /\ x.nota.kind = 3
      BY <1>1, <1>3, <1>4, <3>1 DEF CambiaBien
    <3>2. CASE ~(x.nota.autor = b /\ x.nota.kind = 3)
      <4>1. q2[b] = q[b] /\ b \in Autores \ tur
        BY <3>2 DEF CambiaBien
      <4>2. PICK u : u = Ult(pubs, b, 3)
        OBVIOUS
      <4>3. u \in 0 .. L /\ Ult(np, b, 3) = u
        BY <1>4, <3>2, <4>2
      <4>4. u # 0 => np[u] = pubs[u]
        BY <1>1, <1>3, <4>3
      <4>5. q[b] = IF u = 0 THEN {} ELSE Range(pubs[u].nota.p)
        BY <1>5, <4>1, <4>2 DEF ListaFiel
      <4> QED
        BY <4>1, <4>3, <4>4, <4>5
    <3> QED
      BY <3>1, <3>2
  <2> QED
    BY <2>1 DEF ListaFiel
<1>6. ASSUME NEW t, NEW b \in Autores, PendFiel(t, b, q, pubs, tur)
      PROVE  PendFiel(t, b, q2, np, tur2)
  <2>1. SUFFICES ASSUME t # Nada
                 PROVE  PendFiel(t, b, q2, np, tur2)
    BY DEF PendFiel
  <2>2. t \in Pendiente /\ IsInjective(t.lista) /\ t.ultima <= L /\ t.ultima \in Nat
    BY <1>1, <1>6, <2>1 DEF PendFiel, Pendiente
  <2>3. CASE x.nota.autor = b /\ x.nota.kind = 3
    <3>1. t.ultima # Ult(np, b, 3) /\ t.ultima <= Len(np)
      BY <1>1, <1>3, <1>4, <2>2, <2>3
    <3> QED
      BY <2>2, <3>1 DEF PendFiel
  <2>4. CASE ~(x.nota.autor = b /\ x.nota.kind = 3)
    <3>1. q2[b] = q[b] /\ (b \notin tur2 => b \notin tur) /\ Ult(np, b, 3) = Ult(pubs, b, 3)
      BY <1>4, <2>4 DEF CambiaBien
    <3>2. t.ultima <= Len(np)
      BY <1>1, <1>3, <2>2
    <3> QED
      BY <1>6, <2>1, <2>2, <3>1, <3>2 DEF PendFiel
  <2> QED
    BY <2>3, <2>4
<1> QED
  BY <1>2, <1>5, <1>6

(* A publication of a device or of another program. *)
Publicado(n) ==
  /\ publicadas' = Append(publicadas, [nota |-> n, en |-> Escribe \cap Arriba])
  /\ [nota |-> n, en |-> Escribe \cap Arriba] \in Publicacion
  /\ EsRed(notas', publicadas', Arriba)

LEMMA Publicar ==
  ASSUME InvSocial, NEW n \in NotaPosible, n.hora = Hora, NotaSana(n), send_event_builder(n, Escribe)
  PROVE  Publicado(n)
<1>1. PICK rs : rs = Escribe \cap Arriba
  OBVIOUS
<1>2. rs \in SUBSET Arriba /\ rs # {} /\ Arriba \in SUBSET Relays
  BY <1>1 DEF send_event_builder, Arriba
<1>3. notas' = Guardadas(notas, rs, n) /\ publicadas' = Append(publicadas, [nota |-> n, en |-> rs])
  BY <1>1 DEF send_event_builder
<1>4. EsRed(notas, publicadas, Arriba) /\ n.hora = Len(publicadas) + 1
  BY DEF InvSocial, Hora
<1>5. EsRed(Guardadas(notas, rs, n), Append(publicadas, [nota |-> n, en |-> rs]), Arriba)
  BY <1>2, <1>4, GuardaRed
<1>6. [nota |-> n, en |-> rs] \in Publicacion
  BY <1>2 DEF Publicacion
<1> QED
  BY <1>1, <1>3, <1>5, <1>6 DEF Publicado

(* Calls about to publish a list may be let go, and nothing else of them changes. *)
Sueltan(s, z) == z = [c \in Aparatos |-> z[c]] /\ \A c \in Aparatos : z[c] \in {s[c], Nada}

(* A note whose publication changes whom authors follow as it may. *)
NotaBien(n) == CambiaBien([nota |-> n, en |-> Escribe \cap Arriba], quiere, quiere', turbio, turbio')

LEMMA PublicaSocial ==
  ASSUME InvSocial, NEW n \in NotaPosible, n.hora = Hora, NotaSana(n),
         send_event_builder(n, Escribe), UNCHANGED plan,
         NotaBien(n),
         quiere' \in [Autores -> SUBSET Autores], Sueltan(siguiendo, siguiendo')
  PROVE  InvSocial'
<1>1. PICK x : x = [nota |-> n, en |-> Escribe \cap Arriba]
  OBVIOUS
<1>2. x \in Publicacion /\ publicadas' = Append(publicadas, x) /\ EsRed(notas', publicadas', Arriba)
  BY <1>1, Publicar DEF Publicado
<1>3. publicadas \in Seq(Publicacion) /\ CambiaBien(x, quiere, quiere', turbio, turbio')
  BY <1>1 DEF InvSocial, EsRed, PubsSanas, NotaBien
<1>4. /\ ListaFiel(quiere, publicadas, turbio) => ListaFiel(quiere', Append(publicadas, x), turbio')
      /\ \A t, b : b \in Autores /\ PendFiel(t, b, quiere, publicadas, turbio)
                     => PendFiel(t, b, quiere', Append(publicadas, x), turbio')
  BY <1>2, <1>3, PoneLista
<1>5. ListaFiel(quiere', publicadas', turbio')
  BY <1>2, <1>4 DEF InvSocial
<1>6. Aparatos' = Aparatos /\ Arriba' = Arriba /\ plan' \in Planes /\ \A c : Dueno(c)' = Dueno(c)
  BY DEF Aparatos, Arriba, Dueno, InvSocial
<1>7. ASSUME NEW c \in Aparatos
      PROVE  PendFiel(siguiendo'[c], Dueno(c), quiere', publicadas', turbio')
  <2>1. Dueno(c) \in Autores /\ PendFiel(siguiendo[c], Dueno(c), quiere, publicadas, turbio)
    BY SupuestoSocial DEF InvSocial, Dueno, Aparatos
  <2>2. CASE siguiendo'[c] = siguiendo[c]
    BY <1>2, <1>4, <2>1, <2>2
  <2>3. CASE siguiendo'[c] = Nada
    BY <2>3 DEF PendFiel
  <2> QED
    BY <2>2, <2>3 DEF Sueltan
<1>8. VistaEs(vista', publicadas', quiere', turbio')
  BY DEF send_event_builder, VistaEs
<1>9. \A c \in Aparatos' : PendFiel(siguiendo'[c], Dueno(c)', quiere', publicadas', turbio')
  BY <1>6, <1>7
<1>10. siguiendo' = [c \in Aparatos' |-> siguiendo'[c]] /\ EsRed(notas', publicadas', Arriba')
  BY <1>2, <1>6 DEF Sueltan
<1> QED
  BY <1>5, <1>6, <1>8, <1>9, <1>10 DEF InvSocial

(* A note of a device, its list of contacts aside. *)
LEMMA NotaEs ==
  ASSUME NEW a \in Autores, NEW kind \in Nat, NEW e \in Nat, NEW p \in Seq(Autores), NEW texto \in Nat, InvSocial
  PROVE  /\ Nota(a, kind, e, p, texto) \in NotaPosible
         /\ Nota(a, kind, e, p, texto).hora = Hora
         /\ Nota(a, kind, e, p, texto).kind = kind /\ Nota(a, kind, e, p, texto).autor = a
         /\ Nota(a, kind, e, p, texto).p = p
<1>1. Hora \in Nat
  BY DEF InvSocial, EsRed, PubsSanas, Hora
<1>2. Vacio \in Perfiles /\ "" \in Cadenas
  BY DEF Vacio, Perfiles, Cadenas
<1>3. <<>> \in Etiquetas
  BY DEF Etiquetas
<1> QED
  BY <1>1, <1>2, <1>3 DEF Nota, NotaPosible

LEMMA DuenoEs ==
  ASSUME InvSocial, NEW c \in Aparatos
  PROVE  Dueno(c) \in Autores
  BY SupuestoSocial DEF InvSocial, Dueno, Aparatos

LEMMA QuietoSana ==
  ASSUME InvSocial, NEW n \in NotaPosible, n.hora = Hora, n.kind \notin {3, 10002},
         send_event_builder(n, Escribe), UNCHANGED plan, Quieto
  PROVE  InvSocial'
<1>1. Sueltan(siguiendo, siguiendo')
  BY DEF Quieto, InvSocial, Sueltan
<1>2. NotaSana(n)
  BY DEF NotaSana
<1>3. quiere' = quiere /\ turbio' = turbio /\ quiere' \in [Autores -> SUBSET Autores]
  BY DEF Quieto, InvSocial
<1>4. NotaBien(n)
  BY <1>3 DEF NotaBien, CambiaBien
<1> QED
  BY <1>1, <1>2, <1>3, <1>4, PublicaSocial

LEMMA PerfilSana ==
  ASSUME InvSocial, NEW c \in Aparatos, NEW pf \in Perfiles,
         send_event_builder([Nota(Dueno(c), 0, 0, <<>>, 0) EXCEPT !.perfil = pf], Escribe), Quieto, UNCHANGED plan
  PROVE  InvSocial'
<1>1. PICK m : m = Nota(Dueno(c), 0, 0, <<>>, 0)
  OBVIOUS
<1>2. m \in NotaPosible /\ m.hora = Hora /\ m.kind = 0
  <2>1. PICK v : v = <<>>
    OBVIOUS
  <2>2. PICK a : a = Dueno(c)
    OBVIOUS
  <2>3. PICK k : k = 0
    OBVIOUS
  <2>4. v \in Seq(Autores)
    BY <2>1
  <2>5. a \in Autores
    BY <2>2, DuenoEs
  <2>6. k \in Nat
    BY <2>3
  <2>7. Nota(a, k, k, v, k) \in NotaPosible /\ Nota(a, k, k, v, k).hora = Hora /\ Nota(a, k, k, v, k).kind = k
    BY <2>4, <2>5, <2>6, NotaEs
  <2>8. m = Nota(a, k, k, v, k)
    BY <1>1, <2>1, <2>2, <2>3
  <2> QED
    BY <2>3, <2>7, <2>8
<1>3. PICK n : n = [m EXCEPT !.perfil = pf]
  OBVIOUS
<1>4. n \in NotaPosible /\ n.hora = Hora /\ n.kind = 0
  BY <1>2, <1>3 DEF NotaPosible
<1>5. send_event_builder(n, Escribe) /\ Quieto
  BY <1>1, <1>3
<1>6. n.kind \notin {3, 10002}
  BY <1>4
<1> QED
  BY <1>4, <1>5, <1>6, QuietoSana

(* The fields a device puts in its profile. *)
LEMMA PerfilEs ==
  ASSUME NEW x \in Nat, NEW y \in Nat, NEW foto \in {"", "url"}
  PROVE  [name |-> x, display_name |-> y, picture |-> foto] \in Perfiles
<1>1. foto \in Cadenas
  BY DEF Cadenas
<1> QED
  BY <1>1 DEF Perfiles

LEMMA EscritaSana ==
  ASSUME InvSocial, NEW c \in Aparatos, NEW kind \in Nat \ {3, 10002}, NEW e \in Nat,
         NEW p \in Seq(Autores), NEW texto \in Nat,
         send_event_builder(Nota(Dueno(c), kind, e, p, texto), Escribe), Quieto, UNCHANGED plan
  PROVE  InvSocial'
<1>1. PICK n : n = Nota(Dueno(c), kind, e, p, texto)
  OBVIOUS
<1>2. n \in NotaPosible /\ n.hora = Hora /\ n.kind = kind
  BY <1>1, DuenoEs, NotaEs
<1> QED
  BY <1>1, <1>2, QuietoSana

LEMMA OriginalEs ==
  ASSUME InvSocial, NEW n \in Originales
  PROVE  n.hora \in Nat /\ <<n.autor>> \in Seq(Autores)
<1>1. PICK i \in DOMAIN publicadas : n = publicadas[i].nota
  BY DEF Originales
<1>2. publicadas[i] \in Publicacion
  BY DEF InvSocial, EsRed, PubsSanas
<1>3. n \in NotaPosible
  BY <1>1, <1>2 DEF Publicacion
<1>4. n.hora \in Nat /\ n.autor \in Autores
  BY <1>3 DEF NotaPosible
<1> QED
  BY <1>4

LEMMA SenalesEs ==
  ConSenales(<<<<"u", "read">>, <<"u", "write">>, <<"", "">>>>)
<1>1. PICK t, x, y, z : /\ t = <<<<"u", "read">>, <<"u", "write">>, <<"", "">>>>
                        /\ x = <<"u", "read">> /\ y = <<"u", "write">> /\ z = <<"", "">>
  OBVIOUS
<1>2. DOMAIN t = {1, 2, 3} /\ t[1][1] = "u" /\ t[2][1] = "u" /\ t[1][2] = "read" /\ t[2][2] = "write" /\ t[3][1] = ""
  <2>1. t = <<x, y, z>>
    BY <1>1
  <2>2. DOMAIN t = 1 .. 3 /\ t[1] = x /\ t[2] = y /\ t[3] = z
    BY <2>1
  <2>3. 1 .. 3 = {1, 2, 3}
    OBVIOUS
  <2>4. x[1] = "u" /\ x[2] = "read" /\ y[1] = "u" /\ y[2] = "write" /\ z[1] = ""
    BY <1>1
  <2> QED
    BY <2>2, <2>3, <2>4
<1>3. PICK m : m = MapaDe(t)
  OBVIOUS
<1>4. "u" # "" /\ "read" # "write"
  OBVIOUS
<1>5. PICK buenos : buenos = {i \in DOMAIN t : t[i][1] # ""}
  OBVIOUS
<1>6. 1 \in buenos /\ 2 \in buenos
  BY <1>2, <1>4, <1>5
<1>7. m = [url \in {t[i][1] : i \in buenos} |->
            [lectura |-> \E i \in buenos : t[i][1] = url /\ t[i][2] # "write",
             escritura |-> \E i \in buenos : t[i][1] = url /\ t[i][2] # "read"]]
  BY <1>3, <1>5 DEF MapaDe
<1>8. "u" \in {t[i][1] : i \in buenos}
  BY <1>2, <1>6
<1>9. m["u"].lectura /\ m["u"].escritura
  BY <1>2, <1>4, <1>6, <1>7, <1>8
<1>10. m # <<>>
  <2>1. "u" \in DOMAIN m /\ DOMAIN <<>> = {}
    BY <1>7, <1>8
  <2> QED
    BY <2>1
<1> QED
  BY <1>1, <1>3, <1>9, <1>10 DEF ConSenales

(* Its name and its relays replaced, a note is one. *)
Cambiada(m, d, r) == [m EXCEPT !.d = d, !.r = r]

LEMMA NotaCambia ==
  ASSUME NEW m \in NotaPosible, NEW d \in Cadenas, NEW r \in Etiquetas,
         NEW n, n = Cambiada(m, d, r)
  PROVE  n \in NotaPosible /\ n.hora = m.hora /\ n.kind = m.kind /\ n.autor = m.autor /\ n.p = m.p /\ n.r = r
<1>1. PICK k \in Nat, a \in Autores, h \in Nat, e \in Nat, p \in Seq(Autores), d0 \in Cadenas, t \in Nat,
           f \in Perfiles, r0 \in Etiquetas :
        m = [kind |-> k, autor |-> a, hora |-> h, e |-> e, p |-> p, d |-> d0, texto |-> t, perfil |-> f, r |-> r0]
  <2>1. m = [kind |-> m.kind, autor |-> m.autor, hora |-> m.hora, e |-> m.e, p |-> m.p, d |-> m.d,
             texto |-> m.texto, perfil |-> m.perfil, r |-> m.r]
    BY DEF NotaPosible
  <2>2. /\ m.kind \in Nat /\ m.autor \in Autores /\ m.hora \in Nat /\ m.e \in Nat /\ m.p \in Seq(Autores)
        /\ m.d \in Cadenas /\ m.texto \in Nat /\ m.perfil \in Perfiles /\ m.r \in Etiquetas
    BY DEF NotaPosible
  <2> QED
    BY <2>1, <2>2, Zenon
<1>2. n = [kind |-> k, autor |-> a, hora |-> h, e |-> e, p |-> p, d |-> d, texto |-> t, perfil |-> f, r |-> r]
  BY <1>1 DEF Cambiada
<1>3. n \in NotaPosible
  BY <1>2 DEF NotaPosible
<1> QED
  BY <1>1, <1>2, <1>3

(* Another program's list of contacts is empty. *)
Vacia(n) == /\ Range(n.p) = {} /\ turbio' = turbio
            /\ quiere' = IF n.kind = 3 THEN [quiere EXCEPT ![n.autor] = {}] ELSE quiere

LEMMA VaciaBien ==
  ASSUME NEW n, Vacia(n), quiere \in [Autores -> SUBSET Autores]
  PROVE  NotaBien(n)
<1> USE DEF Vacia
<1>1. PICK a : a = n.autor
  OBVIOUS
<1>2. CASE n.kind = 3
  <2>1. \A b \in Autores : quiere'[b] = IF a = b THEN {} ELSE quiere[b]
    BY <1>1, <1>2
  <2> QED
    BY <1>1, <1>2, <2>1 DEF NotaBien, CambiaBien
<1>3. CASE n.kind # 3
  BY <1>3 DEF NotaBien, CambiaBien
<1> QED
  BY <1>2, <1>3

(* A list of relays carries its marks. *)
SenalesDe(kind, r) == kind = 10002 => ConSenales(r)

LEMMA AjenaSana ==
  ASSUME InvSocial, NEW a \in Autores, NEW kind \in Nat, NEW d \in Cadenas, NEW r \in Etiquetas,
         SenalesDe(kind, r), Ajena(a, kind, d, r), UNCHANGED plan
  PROVE  InvSocial'
<1>1. PICK m : m = Nota(a, kind, 0, <<>>, 1)
  OBVIOUS
<1>2. m \in NotaPosible /\ m.hora = Hora /\ m.kind = kind /\ m.autor = a /\ m.p = <<>>
  <2>1. PICK v : v = <<>>
    OBVIOUS
  <2>2. PICK e, x : e = 0 /\ x = 1
    OBVIOUS
  <2>3. v \in Seq(Autores)
    BY <2>1
  <2>4. e \in Nat /\ x \in Nat
    BY <2>2
  <2>5. /\ Nota(a, kind, e, v, x) \in NotaPosible /\ Nota(a, kind, e, v, x).hora = Hora
        /\ Nota(a, kind, e, v, x).kind = kind /\ Nota(a, kind, e, v, x).autor = a
        /\ Nota(a, kind, e, v, x).p = v
    BY <2>3, <2>4, NotaEs
  <2>6. m = Nota(a, kind, e, v, x)
    BY <1>1, <2>1, <2>2
  <2> QED
    BY <2>1, <2>5, <2>6
<1>3. PICK n : n = Cambiada(m, d, r)
  OBVIOUS
<1>4. n \in NotaPosible /\ n.hora = Hora /\ n.kind = kind /\ n.autor = a /\ n.p = <<>> /\ n.r = r
  BY <1>2, <1>3, NotaCambia
<1>5. NotaSana(n)
  <2>1. IsInjective(n.p)
    BY <1>4 DEF IsInjective
  <2> QED
    BY <1>4, <2>1 DEF NotaSana, SenalesDe
<1>6. /\ send_event_builder(n, Escribe)
      /\ quiere' = IF kind = 3 THEN [quiere EXCEPT ![a] = {}] ELSE quiere
      /\ siguiendo' = siguiendo /\ turbio' = turbio
  BY <1>1, <1>3 DEF Ajena, Cambiada
<1>7. Sueltan(siguiendo, siguiendo')
  BY <1>6 DEF InvSocial, Sueltan
<1>8. quiere \in [Autores -> SUBSET Autores] /\ quiere' \in [Autores -> SUBSET Autores]
  BY <1>6 DEF InvSocial
<1>9. NotaBien(n)
  <2>1. Range(n.p) = {}
    BY <1>4 DEF Range
  <2>2. quiere' = IF n.kind = 3 THEN [quiere EXCEPT ![n.autor] = {}] ELSE quiere
    BY <1>4, <1>6
  <2>3. Vacia(n)
    <3>1. turbio' = turbio
      BY <1>6
    <3> QED
      BY <2>1, <2>2, <3>1, Zenon DEF Vacia
  <2> QED
    BY <1>8, <2>3, VaciaBien, Zenon
<1> QED
  BY <1>4, <1>5, <1>6, <1>7, <1>8, <1>9, PublicaSocial

(* Who follows whom: reading the list, and publishing it again. *)
LEMMA SeguirSana ==
  ASSUME InvSocial, NEW c \in Aparatos, NEW b \in Autores, NEW si \in BOOLEAN, NEW rs \in SUBSET Arriba,
         seguir(c, b, si, rs), UNCHANGED plan
  PROVE  InvSocial'
<1>1. PICK a \in Autores : a = Dueno(c)
  BY DuenoEs
<1>2. PICK l, u : l = seguidos(notas, rs, a) /\ u = Ult(publicadas, a, 3)
  OBVIOUS
<1>3. Arriba \in SUBSET Relays /\ rs \in SUBSET Relays /\ EsRed(notas, publicadas, Arriba)
  BY DEF Arriba, InvSocial
<1>4. /\ l \in Seq(Autores) /\ IsInjective(l)
      /\ u = 0 => l = <<>>
      /\ u # 0 /\ publicadas[u].en \cap rs # {} => l = publicadas[u].nota.p
  BY <1>1, <1>2, <1>3, SeguidosEs
<1>5. publicadas \in Seq(Publicacion)
  BY <1>3 DEF EsRed, PubsSanas
<1>6. u \in 0 .. Len(publicadas) /\ UltimaDe(a, 3) = u
  <2>1. u \in 0 .. Len(publicadas)
    BY <1>2, <1>5, UltEs
  <2>2. UltimaDe(a, 3) = Ult(publicadas, a, 3)
    BY DEF UltimaDe, Ult, Suyas
  <2> QED
    BY <1>2, <2>1, <2>2
<1>7. PICK l2 : l2 = Lista(l, b, si)
  OBVIOUS
<1>8. l2 \in Seq(Autores) /\ IsInjective(l2) /\ Range(l2) = IF si THEN Range(l) \cup {b} ELSE Range(l) \ {b}
  BY <1>4, <1>7, ListaEs
<1>9. PICK t : t = [lista |-> l2, quien |-> b, si |-> si, entera |-> rs = Arriba, ultima |-> u]
  OBVIOUS
<1>10. siguiendo' = [siguiendo EXCEPT ![c] = t]
  BY <1>1, <1>2, <1>6, <1>7, <1>9 DEF seguir
<1>11. PendFiel(t, a, quiere, publicadas, turbio)
  <2>1. t \in Pendiente /\ t.lista = l2 /\ t.ultima = u /\ t.si = si /\ t.quien = b /\ t.entera = (rs = Arriba)
    <3>1. (rs = Arriba) \in BOOLEAN /\ u \in Nat
      BY <1>6
    <3> QED
      BY <1>8, <1>9, <3>1 DEF Pendiente
  <2>2. ASSUME rs = Arriba, a \notin turbio
        PROVE  Range(l) = quiere[a]
    <3>1. quiere[a] = IF u = 0 THEN {} ELSE Range(publicadas[u].nota.p)
      BY <1>2, <2>2 DEF InvSocial, ListaFiel
    <3>2. CASE u = 0
      <4>1. Range(l) = {}
        BY <1>4, <3>2 DEF Range
      <4> QED
        BY <3>1, <3>2, <4>1
    <3>3. CASE u # 0
      <4>1. u \in DOMAIN publicadas
        BY <1>5, <1>6, <3>3
      <4>2. publicadas[u].en \cap rs # {}
        BY <1>3, <2>2, <4>1 DEF EsRed, PubsSanas
      <4> QED
        BY <1>4, <3>1, <3>3, <4>2
    <3> QED
      BY <3>2, <3>3
  <2>3. t.ultima <= Len(publicadas)
    BY <1>6, <2>1
  <2>4. t.entera /\ t.ultima = Ult(publicadas, a, 3) /\ a \notin turbio =>
          Range(t.lista) = IF t.si THEN quiere[a] \cup {t.quien} ELSE quiere[a] \ {t.quien}
    BY <1>8, <2>1, <2>2
  <2> QED
    BY <1>8, <2>1, <2>3, <2>4 DEF PendFiel
<1>12. UNCHANGED <<notas, publicadas, quiere, turbio, vista>>
  BY DEF seguir
<1>13. Aparatos' = Aparatos /\ Arriba' = Arriba /\ plan' \in Planes /\ \A e : Dueno(e)' = Dueno(e)
  BY DEF Aparatos, Arriba, Dueno, InvSocial
<1>14. siguiendo = [e \in Aparatos |-> siguiendo[e]]
  BY DEF InvSocial
<1>15. siguiendo' = [e \in Aparatos |-> siguiendo'[e]]
  BY <1>10, <1>14
<1>16. ASSUME NEW e \in Aparatos
       PROVE  PendFiel(siguiendo'[e], Dueno(e), quiere, publicadas, turbio)
  <2>1. CASE e = c
    BY <1>1, <1>10, <1>11, <1>14, <2>1
  <2>2. CASE e # c
    BY <1>10, <1>14, <2>2 DEF InvSocial
  <2> QED
    BY <2>1, <2>2
<1>17. ASSUME NEW e \in Aparatos'
       PROVE  PendFiel(siguiendo'[e], Dueno(e)', quiere', publicadas', turbio')
  <2>1. PendFiel(siguiendo'[e], Dueno(e), quiere, publicadas, turbio)
    BY <1>13, <1>16
  <2>2. Dueno(e)' = Dueno(e)
    BY <1>13
  <2> QED
    BY <1>12, <2>1, <2>2
<1>18. siguiendo' = [e \in Aparatos' |-> siguiendo'[e]]
  BY <1>13, <1>15, Zenon
<1>19. /\ EsRed(notas', publicadas', Arriba') /\ quiere' \in [Autores -> SUBSET Autores]
       /\ ListaFiel(quiere', publicadas', turbio') /\ VistaEs(vista', publicadas', quiere', turbio')
  <2>1. EsRed(notas', publicadas', Arriba') /\ quiere' \in [Autores -> SUBSET Autores]
    BY <1>12, <1>13 DEF InvSocial
  <2>2. ListaFiel(quiere', publicadas', turbio') /\ VistaEs(vista', publicadas', quiere', turbio')
    BY <1>12 DEF InvSocial
  <2> QED
    BY <2>1, <2>2
<1> QED
  BY <1>13, <1>17, <1>18, <1>19 DEF InvSocial

LEMMA SeguirPublicaSana ==
  ASSUME InvSocial, NEW c \in Aparatos, SeguirPublica(c), UNCHANGED plan
  PROVE  InvSocial'
<1>1. PICK a \in Autores : a = Dueno(c)
  BY DuenoEs
<1>2. PICK t : t = siguiendo[c]
  OBVIOUS
<1>3. t # Nada /\ PendFiel(t, a, quiere, publicadas, turbio)
  BY <1>1, <1>2 DEF InvSocial, SeguirPublica
<1>4. t \in Pendiente /\ IsInjective(t.lista)
  BY <1>3 DEF PendFiel
<1>5. t.lista \in Seq(Autores) /\ t.quien \in Autores /\ t.si \in BOOLEAN
  BY <1>4 DEF Pendiente
<1>6. PICK n : n = Nota(a, 3, 0, t.lista, 0)
  OBVIOUS
<1>7. n \in NotaPosible /\ n.hora = Hora /\ n.kind = 3 /\ n.autor = a /\ n.p = t.lista
  <2>1. PICK v : v = t.lista
    OBVIOUS
  <2>2. PICK k, e : k = 3 /\ e = 0
    OBVIOUS
  <2>3. v \in Seq(Autores)
    BY <1>5, <2>1
  <2>4. k \in Nat /\ e \in Nat
    BY <2>2
  <2>5. /\ Nota(a, k, e, v, e) \in NotaPosible /\ Nota(a, k, e, v, e).hora = Hora
        /\ Nota(a, k, e, v, e).kind = k /\ Nota(a, k, e, v, e).autor = a
        /\ Nota(a, k, e, v, e).p = v
    BY <2>3, <2>4, NotaEs
  <2>6. n = Nota(a, k, e, v, e)
    BY <1>6, <2>1, <2>2
  <2> QED
    BY <2>1, <2>2, <2>5, <2>6
<1>8. /\ send_event_builder(n, Escribe)
      /\ quiere' = [quiere EXCEPT ![a] = IF t.si THEN @ \cup {t.quien} ELSE @ \ {t.quien}]
      /\ turbio' = IF t.entera /\ t.ultima = UltimaDe(a, 3) THEN turbio ELSE turbio \cup {a}
      /\ siguiendo' = [siguiendo EXCEPT ![c] = Nada]
  BY <1>1, <1>2, <1>6 DEF SeguirPublica
<1>9. NotaSana(n)
  BY <1>4, <1>7 DEF NotaSana
<1>10. quiere \in [Autores -> SUBSET Autores]
  BY DEF InvSocial
<1>11. quiere' \in [Autores -> SUBSET Autores]
  BY <1>5, <1>8, <1>10
<1>12. siguiendo = [e \in Aparatos |-> siguiendo[e]]
  BY DEF InvSocial
<1>13. Sueltan(siguiendo, siguiendo')
  BY <1>8, <1>12 DEF Sueltan
<1>14. UltimaDe(a, 3) = Ult(publicadas, a, 3)
  BY DEF UltimaDe, Ult, Suyas
<1>15. NotaBien(n)
  <2>1. turbio \subseteq turbio'
    BY <1>8
  <2>2. ASSUME a \notin turbio'
        PROVE  quiere'[a] = Range(t.lista)
    <3>1. t.entera /\ t.ultima = Ult(publicadas, a, 3) /\ a \notin turbio
      BY <1>8, <1>14, <2>2
    <3>2. Range(t.lista) = IF t.si THEN quiere[a] \cup {t.quien} ELSE quiere[a] \ {t.quien}
      BY <1>3, <3>1 DEF PendFiel
    <3> QED
      BY <1>8, <1>10, <3>2
  <2>3. \A b \in Autores : b # a => quiere'[b] = quiere[b]
    BY <1>8, <1>10
  <2> QED
    BY <1>7, <2>1, <2>2, <2>3 DEF NotaBien, CambiaBien
<1> QED
  BY <1>7, <1>8, <1>9, <1>11, <1>13, <1>15, PublicaSocial

(* A screen that shows what it should. *)
LEMMA MiraSana ==
  ASSUME InvSocial, NEW op, NEW a, NEW rs, NEW res, Mira(op, a, rs, res), UNCHANGED plan,
         VistaEs(Mirada(op, a, rs, res), publicadas, quiere, turbio)
  PROVE  InvSocial'
<1>1. vista' = Mirada(op, a, rs, res) /\ UNCHANGED <<notas, publicadas, siguiendo, quiere, turbio>>
  BY DEF Mira, Mirada
<1>2. Aparatos' = Aparatos /\ Arriba' = Arriba /\ plan' \in Planes /\ \A e : Dueno(e)' = Dueno(e)
  BY DEF Aparatos, Arriba, Dueno, InvSocial
<1>3. VistaEs(vista', publicadas', quiere', turbio')
  BY <1>1
<1>4. \A e \in Aparatos' : PendFiel(siguiendo'[e], Dueno(e)', quiere', publicadas', turbio')
  BY <1>1, <1>2 DEF InvSocial
<1>5. siguiendo' = [e \in Aparatos' |-> siguiendo'[e]]
  BY <1>1, <1>2 DEF InvSocial
<1>6. EsRed(notas', publicadas', Arriba') /\ quiere' \in [Autores -> SUBSET Autores] /\ ListaFiel(quiere', publicadas', turbio')
  BY <1>1, <1>2 DEF InvSocial
<1> QED
  BY <1>2, <1>3, <1>4, <1>5, <1>6 DEF InvSocial

(* Each screen, on what the relays give it. *)
LEMMA PantallaSana ==
  ASSUME InvSocial, UNCHANGED plan, NEW a \in Autores, NEW rs \in SUBSET Arriba,
         \/ nostr_perfil_fetch(a, rs) \/ nostr_posts_fetch(a, rs) \/ nostr_notificaciones(a, rs)
         \/ nostr_relays_fetch(a, rs) \/ Contactos(a, rs) \/ Pagina(a, rs)
  PROVE  InvSocial'
<1>1. Arriba \in SUBSET Relays /\ rs \in SUBSET Relays /\ EsRed(notas, publicadas, Arriba)
  BY DEF Arriba, InvSocial
<1>2. ListaFiel(quiere, publicadas, turbio)
  BY DEF InvSocial
<1>3. PICK lim \in Nat \ {0} : lim = Limite
  BY DEF Limite
<1>4. CASE nostr_perfil_fetch(a, rs)
  <2>1. PICK res : res = perfil_fetch(notas, rs, a)
    OBVIOUS
  <2>2. Mira("perfil", a, rs, res)
    BY <1>4, <2>1 DEF nostr_perfil_fetch
  <2>3. FielPerfil(Mirada("perfil", a, rs, res), publicadas)
    BY <1>1, <2>1, PerfilFiel
  <2>4. VistaEs(Mirada("perfil", a, rs, res), publicadas, quiere, turbio)
    BY <2>3 DEF VistaEs, Mirada
  <2> QED
    BY <2>2, <2>4, MiraSana
<1>5. CASE nostr_posts_fetch(a, rs)
  <2>1. PICK res : res = posts_fetch(notas, rs, a, 0, lim)
    OBVIOUS
  <2>2. Mira("muro", a, rs, res)
    BY <1>3, <1>5, <2>1 DEF nostr_posts_fetch
  <2>3. FielMuro(Mirada("muro", a, rs, res), publicadas)
    BY <1>1, <2>1, MuroFiel
  <2>4. VistaEs(Mirada("muro", a, rs, res), publicadas, quiere, turbio)
    BY <2>3 DEF VistaEs, Mirada
  <2> QED
    BY <2>2, <2>4, MiraSana
<1>6. CASE nostr_notificaciones(a, rs)
  <2>1. PICK res : res = notificaciones_fetch(notas, rs, a, lim)
    OBVIOUS
  <2>2. Mira("avisos", a, rs, res)
    BY <1>3, <1>6, <2>1 DEF nostr_notificaciones
  <2>3. FielAvisos(Mirada("avisos", a, rs, res), publicadas)
    BY <1>1, <2>1, AvisosFiel
  <2>4. VistaEs(Mirada("avisos", a, rs, res), publicadas, quiere, turbio)
    BY <2>3 DEF VistaEs, Mirada
  <2> QED
    BY <2>2, <2>4, MiraSana
<1>7. CASE nostr_relays_fetch(a, rs)
  <2>1. PICK res : res = relays_fetch(notas, rs, rs, a)
    OBVIOUS
  <2>2. Mira("relays", a, rs, res)
    BY <1>7, <2>1 DEF nostr_relays_fetch
  <2>3. FielRelays(Mirada("relays", a, rs, res), publicadas)
    BY <1>1, <2>1, RelaysFiel
  <2>4. VistaEs(Mirada("relays", a, rs, res), publicadas, quiere, turbio)
    BY <2>3 DEF VistaEs, Mirada
  <2> QED
    BY <2>2, <2>4, MiraSana
<1>8. CASE Contactos(a, rs)
  <2>1. PICK res : res = seguidos(notas, rs, a)
    OBVIOUS
  <2>2. Mira("contactos", a, rs, res)
    BY <1>8, <2>1 DEF Contactos
  <2>3. FielContactos(Mirada("contactos", a, rs, res), publicadas, quiere, turbio)
    BY <1>1, <1>2, <2>1, ContactosFiel
  <2>4. VistaEs(Mirada("contactos", a, rs, res), publicadas, quiere, turbio)
    BY <2>3 DEF VistaEs, Mirada
  <2> QED
    BY <2>2, <2>4, MiraSana
<1>9. CASE Pagina(a, rs)
  <2>1. PICK res : res = nostr_page_fetch(notas, rs, a, "inicio")
    OBVIOUS
  <2>2. Mira("pagina", a, rs, res)
    BY <1>9, <2>1 DEF Pagina
  <2>3. FielPagina(Mirada("pagina", a, rs, res), publicadas)
    BY <1>1, <2>1, PaginaFiel
  <2>4. VistaEs(Mirada("pagina", a, rs, res), publicadas, quiere, turbio)
    BY <2>3 DEF VistaEs, Mirada
  <2> QED
    BY <2>2, <2>4, MiraSana
<1> QED
  BY <1>4, <1>5, <1>6, <1>7, <1>8, <1>9

LEMMA BuscaSana ==
  ASSUME InvSocial, UNCHANGED plan, NEW q, NEW rs \in SUBSET Arriba,
         nostr_buscar_usuarios(q, rs) \/ nostr_buscar_posts(q, rs)
  PROVE  InvSocial'
<1>1. Arriba \in SUBSET Relays /\ rs \in SUBSET Relays /\ EsRed(notas, publicadas, Arriba)
  BY DEF Arriba, InvSocial
<1>2. PICK lim \in Nat : lim = Limite
  BY DEF Limite
<1>3. CASE nostr_buscar_usuarios(q, rs)
  <2>1. PICK res : res = buscar_usuarios(notas, rs, q, lim)
    OBVIOUS
  <2>2. Mira("usuarios", q, rs, res)
    BY <1>2, <1>3, <2>1 DEF nostr_buscar_usuarios
  <2>3. FielUsuarios(Mirada("usuarios", q, rs, res))
    BY <1>1, <2>1, UsuariosFiel
  <2>4. VistaEs(Mirada("usuarios", q, rs, res), publicadas, quiere, turbio)
    BY <2>3 DEF VistaEs, Mirada
  <2> QED
    BY <2>2, <2>4, MiraSana
<1>4. CASE nostr_buscar_posts(q, rs)
  <2>1. PICK res : res = buscar_posts(notas, rs, q, lim)
    OBVIOUS
  <2>2. Mira("notas", q, rs, res)
    BY <1>2, <1>4, <2>1 DEF nostr_buscar_posts
  <2>3. FielNotas(Mirada("notas", q, rs, res))
    BY <1>1, <2>1, NotasFiel
  <2>4. VistaEs(Mirada("notas", q, rs, res), publicadas, quiere, turbio)
    BY <2>3 DEF VistaEs, Mirada
  <2> QED
    BY <2>2, <2>4, MiraSana
<1> QED
  BY <1>3, <1>4

(* The notes a device writes. *)
LEMMA Pocos == 0 .. 2 \subseteq Nat /\ 1 .. 2 \subseteq Nat /\ 0 .. 1 \subseteq Nat
  OBVIOUS

LEMMA Clases ==
  /\ 0 \in Nat /\ 1 \in Nat \ {3, 10002} /\ 6 \in Nat \ {3, 10002} /\ 7 \in Nat \ {3, 10002}
  /\ 30023 \in Nat \ {3, 10002}
  OBVIOUS

LEMMA SetPerfilSana ==
  ASSUME InvSocial, UNCHANGED plan, NEW c \in Aparatos, NEW x \in Nat, NEW y \in Nat,
         NEW foto \in {"", "url", "mala"}, set_perfil(c, x, y, foto)
  PROVE  InvSocial'
<1>1. PICK pf : pf = [name |-> x, display_name |-> y, picture |-> foto]
  OBVIOUS
<1>2. /\ foto # "mala" /\ Quieto
      /\ send_event_builder([Nota(Dueno(c), 0, 0, <<>>, 0) EXCEPT !.perfil = pf], Escribe)
  BY <1>1 DEF set_perfil
<1>3. foto \in {"", "url"}
  BY <1>2
<1>4. pf \in Perfiles
  BY <1>1, <1>3, PerfilEs
<1> QED
  BY <1>2, <1>4, PerfilSana

LEMMA PostearSana ==
  ASSUME InvSocial, UNCHANGED plan, NEW c \in Aparatos, NEW x \in Nat, postear(c, x)
  PROVE  InvSocial'
<1>1. PICK k, e, p, t : k = 1 /\ e = 0 /\ p = <<>> /\ t = x
  OBVIOUS
<1>2. send_event_builder(Nota(Dueno(c), k, e, p, t), Escribe) /\ Quieto
  BY <1>1 DEF postear
<1>3. k \in Nat \ {3, 10002} /\ e \in Nat /\ t \in Nat
  BY <1>1, Clases
<1>4. p \in Seq(Autores)
  BY <1>1
<1> QED
  BY <1>2, <1>3, <1>4, EscritaSana

LEMMA ResponderSana ==
  ASSUME InvSocial, UNCHANGED plan, NEW c \in Aparatos, NEW x \in Nat, NEW n \in Originales, responder(c, x, n)
  PROVE  InvSocial'
<1>1. PICK k, e, p, t : k = 1 /\ e = n.hora /\ p = <<n.autor>> /\ t = x
  OBVIOUS
<1>2. send_event_builder(Nota(Dueno(c), k, e, p, t), Escribe) /\ Quieto
  BY <1>1 DEF responder
<1>3. k \in Nat \ {3, 10002} /\ e \in Nat /\ t \in Nat
  BY <1>1, Clases, OriginalEs
<1>4. p \in Seq(Autores)
  BY <1>1, OriginalEs
<1> QED
  BY <1>2, <1>3, <1>4, EscritaSana

LEMMA ReaccionarSana ==
  ASSUME InvSocial, UNCHANGED plan, NEW c \in Aparatos, NEW n \in Originales, reaccionar(c, n)
  PROVE  InvSocial'
<1>1. PICK k, e, p, t : k = 7 /\ e = n.hora /\ p = <<n.autor>> /\ t = 0
  OBVIOUS
<1>2. send_event_builder(Nota(Dueno(c), k, e, p, t), Escribe) /\ Quieto
  BY <1>1 DEF reaccionar
<1>3. k \in Nat \ {3, 10002} /\ e \in Nat /\ t \in Nat
  BY <1>1, Clases, OriginalEs
<1>4. p \in Seq(Autores)
  BY <1>1, OriginalEs
<1> QED
  BY <1>2, <1>3, <1>4, EscritaSana

LEMMA RepostSana ==
  ASSUME InvSocial, UNCHANGED plan, NEW c \in Aparatos, NEW n \in Originales, repost(c, n)
  PROVE  InvSocial'
<1>1. PICK k, e, p, t : k = 6 /\ e = n.hora /\ p = <<n.autor>> /\ t = 0
  OBVIOUS
<1>2. send_event_builder(Nota(Dueno(c), k, e, p, t), Escribe) /\ Quieto
  BY <1>1 DEF repost
<1>3. k \in Nat \ {3, 10002} /\ e \in Nat /\ t \in Nat
  BY <1>1, Clases, OriginalEs
<1>4. p \in Seq(Autores)
  BY <1>1, OriginalEs
<1> QED
  BY <1>2, <1>3, <1>4, EscritaSana

LEMMA ArticuloSana ==
  ASSUME InvSocial, UNCHANGED plan, NEW c \in Aparatos, NEW titulo, NEW x \in Nat, NEW foto, articulo_publicar(c, titulo, x, foto)
  PROVE  InvSocial'
<1>1. PICK k, e, p, t : k = 30023 /\ e = 0 /\ p = <<>> /\ t = x
  OBVIOUS
<1>2. send_event_builder(Nota(Dueno(c), k, e, p, t), Escribe) /\ Quieto
  BY <1>1 DEF articulo_publicar
<1>3. k \in Nat \ {3, 10002} /\ e \in Nat /\ t \in Nat
  BY <1>1, Clases
<1>4. p \in Seq(Autores)
  BY <1>1
<1> QED
  BY <1>2, <1>3, <1>4, EscritaSana

(* What its other programs publish. *)
LEMMA ListadosSon ==
  /\ ListaDeRelays \in Etiquetas /\ ConSenales(ListaDeRelays)
  /\ RelaysEnContactos \in Etiquetas
<1>1. PICK P : P = Cadenas \X Cadenas
  OBVIOUS
<1>2. <<"u", "read">> \in P /\ <<"u", "write">> \in P /\ <<"", "">> \in P /\ <<"u", "">> \in P /\ <<"http", "">> \in P
  BY <1>1 DEF Cadenas
<1>3. PICK v \in P, w \in P, x \in P, y \in P, z \in P :
         v = <<"u", "read">> /\ w = <<"u", "write">> /\ x = <<"", "">> /\ y = <<"u", "">> /\ z = <<"http", "">>
  BY <1>2
<1>4. <<v, w, x>> \in Seq(P) /\ <<y, z>> \in Seq(P)
  OBVIOUS
<1>5. ListaDeRelays = <<v, w, x>> /\ RelaysEnContactos = <<y, z>>
  BY <1>3, Zenon DEF ListaDeRelays, RelaysEnContactos
<1>6. ConSenales(ListaDeRelays)
  BY SenalesEs DEF ListaDeRelays
<1> QED
  BY <1>1, <1>4, <1>5, <1>6 DEF Etiquetas

LEMMA AjenaRelaysSana ==
  ASSUME InvSocial, UNCHANGED plan, NEW a \in Autores, AjenaRelays(a)
  PROVE  InvSocial'
<1>1. PICK k \in Nat : k = RelayList
  BY DEF RelayList
<1>2. PICK d \in Cadenas : d = ""
  BY DEF Cadenas
<1>3. PICK t \in Etiquetas : t = ListaDeRelays
  BY ListadosSon
<1>4. Ajena(a, k, d, t)
  BY <1>1, <1>2, <1>3 DEF AjenaRelays
<1>5. SenalesDe(k, t)
  BY <1>3, ListadosSon DEF SenalesDe
<1> QED
  BY <1>4, <1>5, AjenaSana

LEMMA AjenaContactosSana ==
  ASSUME InvSocial, UNCHANGED plan, NEW a \in Autores, AjenaContactos(a)
  PROVE  InvSocial'
<1>1. PICK k \in Nat : k = 3
  OBVIOUS
<1>2. PICK d \in Cadenas : d = ""
  BY DEF Cadenas
<1>3. PICK t \in Etiquetas : t = RelaysEnContactos
  BY ListadosSon
<1>4. Ajena(a, k, d, t)
  BY <1>1, <1>2, <1>3 DEF AjenaContactos
<1>5. SenalesDe(k, t)
  BY <1>1, <1>3, ListadosSon DEF SenalesDe
<1> QED
  BY <1>4, <1>5, AjenaSana

LEMMA AjenaPaginaSana ==
  ASSUME InvSocial, UNCHANGED plan, NEW a \in Autores, AjenaPagina(a)
  PROVE  InvSocial'
<1>1. PICK k \in Nat : k = 30023
  OBVIOUS
<1>2. PICK d \in Cadenas : d = "inicio"
  BY DEF Cadenas
<1>3. PICK t \in Etiquetas : t = <<>>
  <2>1. <<>> \in Etiquetas
    BY DEF Etiquetas
  <2> QED
    BY <2>1, Zenon
<1>4. Ajena(a, k, d, t)
  BY <1>1, <1>2, <1>3 DEF AjenaPagina
<1>5. SenalesDe(k, t)
  BY <1>1, <1>3, ListadosSon DEF SenalesDe
<1> QED
  BY <1>4, <1>5, AjenaSana

LEMMA PasoSocial ==
  ASSUME InvSocial, NextSocial, UNCHANGED plan
  PROVE  InvSocial'
<1>1. ASSUME NEW c \in Aparatos, NEW x \in 0 .. 2, NEW y \in 0 .. 2, NEW foto \in {"", "url", "mala"},
             set_perfil(c, x, y, foto)
      PROVE  InvSocial'
  BY <1>1, Pocos, SetPerfilSana, Zenon
<1>2. ASSUME NEW c \in Aparatos, NEW x \in 0 .. 2, postear(c, x)
      PROVE  InvSocial'
  BY <1>2, Pocos, PostearSana, Zenon
<1>3. ASSUME NEW c \in Aparatos, NEW x \in 1 .. 2, NEW n \in Originales, responder(c, x, n)
      PROVE  InvSocial'
  BY <1>3, Pocos, ResponderSana, Zenon
<1>4. ASSUME NEW c \in Aparatos, NEW x \in 1 .. 2, NEW n \in Originales, citar(c, x, n)
      PROVE  InvSocial'
  BY <1>3, <1>4, Zenon DEF citar
<1>5. ASSUME NEW c \in Aparatos, NEW n \in Originales, reaccionar(c, n)
      PROVE  InvSocial'
  BY <1>5, ReaccionarSana, Zenon
<1>6. ASSUME NEW c \in Aparatos, NEW n \in Originales, repost(c, n)
      PROVE  InvSocial'
  BY <1>6, RepostSana, Zenon
<1>7. ASSUME NEW c \in Aparatos, NEW x \in 0 .. 1, NEW foto \in {"", "mala"}, articulo_publicar(c, 1, x, foto)
      PROVE  InvSocial'
  BY <1>7, Pocos, ArticuloSana, Zenon
<1>8. plan.habla \subseteq Autores
  BY SupuestoSocial DEF InvSocial
<1>9. ASSUME NEW c \in Aparatos, NEW b \in plan.habla \ {Dueno(c)}, NEW si \in BOOLEAN, NEW rs \in SUBSET Arriba,
             seguir(c, b, si, rs)
      PROVE  InvSocial'
  <2>1. b \in Autores
    BY <1>8
  <2> QED
    BY <1>9, <2>1, SeguirSana, Zenon
<1>10. ASSUME NEW c \in Aparatos, SeguirPublica(c)
       PROVE  InvSocial'
  BY <1>10, SeguirPublicaSana, Zenon
<1>11. ASSUME NEW a \in plan.habla, AjenaRelays(a) \/ AjenaContactos(a) \/ AjenaPagina(a)
       PROVE  InvSocial'
  BY <1>8, <1>11, AjenaRelaysSana, AjenaContactosSana, AjenaPaginaSana, Zenon
<1>14. ASSUME NEW a \in plan.habla, NEW rs \in SUBSET Arriba,
              \/ nostr_perfil_fetch(a, rs) \/ nostr_posts_fetch(a, rs) \/ nostr_notificaciones(a, rs)
              \/ nostr_relays_fetch(a, rs) \/ Contactos(a, rs) \/ Pagina(a, rs)
       PROVE  InvSocial'
  BY <1>8, <1>14, PantallaSana, Zenon
<1>15. ASSUME NEW q \in 0 .. 2, NEW rs \in SUBSET Arriba, nostr_buscar_usuarios(q, rs) \/ nostr_buscar_posts(q, rs)
       PROVE  InvSocial'
  BY <1>15, BuscaSana, Zenon
<1>16. ASSUME NEW c \in Aparatos,
              \/ \E x, y \in 0 .. 2, foto \in {"", "url", "mala"} : set_perfil(c, x, y, foto)
              \/ \E x \in 0 .. 2 : postear(c, x)
              \/ \E x \in 1 .. 2, n \in Originales : responder(c, x, n) \/ citar(c, x, n)
              \/ \E n \in Originales : reaccionar(c, n) \/ repost(c, n)
              \/ \E x \in 0 .. 1 : \E foto \in {"", "mala"} : articulo_publicar(c, 1, x, foto)
              \/ \E b \in plan.habla \ {Dueno(c)}, si \in BOOLEAN, rs \in SUBSET Arriba : seguir(c, b, si, rs)
              \/ SeguirPublica(c)
       PROVE  InvSocial'
  BY <1>1, <1>2, <1>3, <1>4, <1>5, <1>6, <1>7, <1>9, <1>10, <1>16, Zenon
<1> QED
  BY <1>14, <1>15, <1>11, <1>16, Zenon DEF NextSocial

(* The chats choose no other scenario. *)
LEMMA PlanFijo ==
  ASSUME NextChat
  PROVE  plan' = plan
<1>1. ASSUME NEW s, add_relays(s) \/ subscribe(s) \/ init_participant(s) \/ init_observer(s)
      PROVE  plan' = plan
  BY <1>1 DEF add_relays, subscribe, init_participant, init_observer, Iniciar
<1>2. ASSUME NEW s, Receptor(s) \/ poll_messages(s) \/ disconnect(s) \/ FinSuscripcion(s) \/ Otra(s)
      PROVE  plan' = plan
  BY <1>2 DEF Receptor, poll_messages, disconnect, FinSuscripcion, Corta, Otra
<1>3. ASSUME NEW s, NEW para, NEW clase, NEW fresco, Publica(s, para, clase, fresco)
      PROVE  plan' = plan
  BY <1>3 DEF Publica
<1>4. ASSUME NEW s, NEW x, set_peer(s, x) \/ Entrega(s, x)
      PROVE  plan' = plan
  BY <1>4 DEF set_peer, Entrega
<1>5. ASSUME NEW s, NEW fresco, send_message(s, fresco) \/ EnviarPar(s, fresco)
      PROVE  plan' = plan
  BY <1>3, <1>5 DEF send_message, EnviarPar, mostro_wrap
<1>6. ASSUME NEW s, NEW x, NEW clase, Ajeno(s, x, clase)
      PROVE  plan' = plan
  BY <1>3, <1>6 DEF Ajeno
<1>7. Espera => plan' = plan
  BY DEF Espera
<1> QED
  BY <1>1, <1>2, <1>4, <1>5, <1>6, <1>7, Zenon DEF NextChat

LEMMA QuedaSocial ==
  ASSUME InvSocial, UNCHANGED <<plan, socialVars>>
  PROVE  InvSocial'
<1>1. UNCHANGED <<notas, publicadas, siguiendo, quiere, turbio, vista>> /\ plan' = plan
  BY DEF socialVars
<1>2. Aparatos' = Aparatos /\ Arriba' = Arriba /\ plan' \in Planes /\ \A e : Dueno(e)' = Dueno(e)
  BY <1>1 DEF Aparatos, Arriba, Dueno, InvSocial
<1>3. \A e \in Aparatos' : PendFiel(siguiendo'[e], Dueno(e)', quiere', publicadas', turbio')
  BY <1>1, <1>2 DEF InvSocial
<1>4. siguiendo' = [e \in Aparatos' |-> siguiendo'[e]]
  BY <1>1, <1>2 DEF InvSocial
<1>5. /\ EsRed(notas', publicadas', Arriba') /\ quiere' \in [Autores -> SUBSET Autores]
      /\ ListaFiel(quiere', publicadas', turbio') /\ VistaEs(vista', publicadas', quiere', turbio')
  BY <1>1, <1>2 DEF InvSocial
<1> QED
  BY <1>2, <1>3, <1>4, <1>5 DEF InvSocial

LEMMA PasoVistas ==
  ASSUME InvSocial, [Next]_vars
  PROVE  InvSocial'
<1>1. CASE NextSocial /\ plan' = plan
  BY <1>1, PasoSocial
<1>2. CASE plan' = plan /\ UNCHANGED socialVars
  <2>1. UNCHANGED <<plan, socialVars>>
    BY <1>2
  <2> QED
    BY <2>1, QuedaSocial
<1>3. CASE NextChat /\ UNCHANGED socialVars
  BY <1>2, <1>3, PlanFijo
<1> QED
  BY <1>1, <1>2, <1>3 DEF Next, vars

(* What the invariant says of a screen is what VistaFiel asks. *)
LEMMA VistaDice ==
  ASSUME InvSocial
  PROVE  VistaFiel
<1>1. SUFFICES ASSUME vista # Nada
               PROVE  VistaFiel
  BY DEF VistaFiel
<1>2. PICK a, res, rs : a = vista.de /\ res = vista.res /\ rs = vista.rs
  OBVIOUS
<1>3. VistaEs(vista, publicadas, quiere, turbio)
  BY DEF InvSocial
<1>4. ASSUME vista.op \in {"perfil", "muro", "avisos", "relays", "contactos", "pagina"}
      PROVE  a \in Autores /\ a # Nada
  BY <1>1, <1>2, <1>3, <1>4, SupuestoSocial DEF VistaEs
<1>5. ASSUME a # Nada, NEW kind
      PROVE  DelAutor(a, kind) = Buscadas(publicadas, rs, Filtro(kind, a, Nada, Nada))
  BY <1>2, <1>5 DEF DelAutor, Vistas, Buscadas, Filtro, Pasa
<1>6. CASE vista.op = "perfil"
  <2>1. a # Nada
    BY <1>4, <1>6
  <2>2. FielPerfil(vista, publicadas)
    BY <1>1, <1>3, <1>6 DEF VistaEs
  <2>3. res = IF DelAutor(a, 0) = {} THEN perfil_vacio(a) ELSE metadata_a_perfil(Ultima(DelAutor(a, 0)))
    BY <1>2, <1>5, <2>1, <2>2 DEF FielPerfil, Ultima
  <2> QED
    BY <1>2, <1>6, <2>3 DEF VistaFiel
<1>7. CASE vista.op = "muro"
  <2>1. a # Nada
    BY <1>4, <1>7
  <2>2. FielMuro(vista, publicadas)
    BY <1>1, <1>3, <1>7 DEF VistaEs
  <2>3. SonRecientes(res, publicadas, DelAutor(a, 1)) /\ (res = <<>> => DelAutor(a, 1) = {})
    BY <1>2, <1>5, <2>1, <2>2 DEF FielMuro
  <2>4. Recientes(res, DelAutor(a, 1))
    BY <2>3 DEF SonRecientes, Recientes
  <2> QED
    BY <1>2, <1>7, <2>3, <2>4 DEF VistaFiel
<1>8. CASE vista.op = "avisos"
  <2>1. a # Nada
    BY <1>4, <1>8
  <2>2. FielAvisos(vista, publicadas)
    BY <1>1, <1>3, <1>8 DEF VistaEs
  <2>3. PICK ajenas : ajenas = {i \in Vistas(vista.rs) : LET n == publicadas[i].nota
                                                        IN n.kind = 1 /\ n.autor # a /\ a \in Range(n.p)}
    OBVIOUS
  <2>4. ajenas = DeOtros(publicadas, Buscadas(publicadas, rs, Filtro(1, Nada, a, Nada)), a)
    BY <1>2, <2>1, <2>3 DEF Vistas, DeOtros, Buscadas, Filtro, Pasa
  <2>5. SonRecientes(res, publicadas, ajenas)
    BY <1>2, <2>2, <2>4 DEF FielAvisos
  <2>6. Recientes(res, ajenas)
    BY <2>5 DEF SonRecientes, Recientes
  <2> QED
    BY <1>2, <1>8, <2>3, <2>6 DEF VistaFiel
<1>9. CASE vista.op = "relays"
  <2>1. a # Nada
    BY <1>4, <1>9
  <2>2. FielRelays(vista, publicadas)
    BY <1>1, <1>3, <1>9 DEF VistaEs
  <2>3. DelAutor(a, 10002) # {} => res["u"].lectura /\ res["u"].escritura
    BY <1>2, <1>5, <2>1, <2>2 DEF FielRelays
  <2> QED
    BY <1>2, <1>9, <2>3 DEF VistaFiel
<1>10. CASE vista.op = "contactos"
  <2>1. FielContactos(vista, publicadas, quiere, turbio)
    BY <1>1, <1>3, <1>10 DEF VistaEs
  <2>2. PICK u : u = UltimaDe(a, 3)
    OBVIOUS
  <2>3. u = Ult(publicadas, a, 3)
    BY <2>2 DEF UltimaDe, Ult, Suyas
  <2>4. ASSUME a \notin turbio, u \in Vistas(rs)
        PROVE  Range(res) = quiere[a]
    <3>1. u \in DOMAIN publicadas /\ publicadas[u].en \cap rs # {}
      BY <2>4 DEF Vistas
    <3>2. u # 0
      BY <3>1 DEF InvSocial, EsRed, PubsSanas
    <3> QED
      BY <1>2, <2>1, <2>3, <2>4, <3>1, <3>2 DEF FielContactos
  <2>5. IsInjective(res)
    BY <1>2, <2>1 DEF FielContactos
  <2> QED
    BY <1>2, <1>10, <2>2, <2>4, <2>5 DEF VistaFiel
<1>11. CASE vista.op = "pagina"
  <2>1. a # Nada /\ "inicio" # Nada
    BY <1>4, <1>11, SupuestoSocial
  <2>2. FielPagina(vista, publicadas)
    BY <1>1, <1>3, <1>11 DEF VistaEs
  <2>3. PICK k : k = 30023
    OBVIOUS
  <2>4. PICK paginas : paginas = {i \in DelAutor(a, k) : publicadas[i].nota.d = "inicio"}
    OBVIOUS
  <2>5. paginas = Buscadas(publicadas, rs, Filtro(k, a, Nada, "inicio"))
    BY <1>2, <2>1, <2>4 DEF DelAutor, Vistas, Buscadas, Filtro, Pasa
  <2>6. res = IF paginas = {} THEN Nada ELSE Ultima(paginas).texto
    BY <1>2, <2>2, <2>3, <2>5 DEF FielPagina, Ultima
  <2> QED
    BY <1>2, <1>11, <2>3, <2>4, <2>6 DEF VistaFiel
<1>12. CASE vista.op = "usuarios"
  <2>1. FielUsuarios(vista)
    BY <1>1, <1>3, <1>12 DEF VistaEs
  <2>2. \A i, j \in DOMAIN res : i < j => Muestra(res[i]) <= Muestra(res[j])
    BY <1>2, <2>1 DEF FielUsuarios
  <2> QED
    BY <1>2, <1>12, <2>2 DEF VistaFiel
<1>13. CASE vista.op = "notas"
  <2>1. FielNotas(vista)
    BY <1>1, <1>3, <1>13 DEF VistaEs
  <2> QED
    BY <1>2, <1>13, <2>1 DEF VistaFiel, FielNotas
<1> QED
  BY <1>1, <1>3, <1>6, <1>7, <1>8, <1>9, <1>10, <1>11, <1>12, <1>13 DEF VistaEs

(* Whatever relays answer and whoever publishes, a screen shows what was   *)
(* published as far as the relays that answered have it: the newest        *)
(* profile, notes with none left out for an older one, the flags of the    *)
(* relays, the page of that name, and the contacts the author's calls      *)
(* asked for (nostrbusca.rs, nostr_page.rs, gestion.rs).                   *)
THEOREM PantallasFieles == Spec => []VistaFiel
<1>1. Init => InvSocial
  BY SocialInicial DEF Init
<1>2. InvSocial /\ [Next]_vars => InvSocial'
  BY PasoVistas
<1>3. InvSocial => VistaFiel
  BY VistaDice
<1> QED
  BY <1>1, <1>2, <1>3, PTL DEF Spec
=============================================================================
