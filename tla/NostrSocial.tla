---------------------------- MODULE NostrSocial ----------------------------
(***************************************************************************)
(* The public side of an account (nostrn/gestion.rs: profile, notes,       *)
(* answers, contacts, articles), what its screens ask the relays for       *)
(* (nostrbusca.rs, api/nostr_busca.rs, api/nostr_page.rs), and the file    *)
(* the account is kept in.  A device is a connected GestionNostrn; an      *)
(* author may use two.                                                     *)
(***************************************************************************)
EXTENDS NostrChat

ASSUME SupuestoSocial ==
  /\ Nada \notin Autores \cup {"inicio"}
  /\ \A p \in Planes : p.habla \subseteq Autores /\ \A c \in DOMAIN p.aparatos : p.aparatos[c] \in Autores

VARIABLES
  notas,       \* what each relay holds
  publicadas,  \* history: [nota, en] of every publication, in order
  siguiendo,   \* per device: the contact list a call is about to publish, or Nada
  quiere,      \* history: whom each author follows, by its calls and its other programs
  turbio,      \* history: authors whose list was republished without its newest version
  vista,       \* the last answer a screen got: [op, de, rs, res], or Nada
  archivo,     \* the account file: [cifrado, pin, cuenta, entero], or Nada
  cuenta,      \* what the last load gave: [cuenta, pin], or Nada
  guardadas    \* history: <<account, pin>> of the saves that finished

socialVars == <<notas, publicadas, siguiendo, quiere, turbio, vista>>
cuentaVars == <<archivo, cuenta, guardadas>>

Aparatos == DOMAIN plan.aparatos
Dueno(c) == plan.aparatos[c]

InitSocial ==
  /\ notas = [r \in Relays |-> {}]
  /\ publicadas = <<>>
  /\ siguiendo = [c \in Aparatos |-> Nada]
  /\ quiere = [a \in Autores |-> {}]
  /\ turbio = {}
  /\ vista = Nada

-----------------------------------------------------------------------------
(* Publications, with the write relays of the device (send_event_builder). *)

Arriba == Relays \ plan.caidos
Hora == Len(publicadas) + 1
Nota(a, kind, e, p, texto) ==
  [kind |-> kind, autor |-> a, hora |-> Hora, e |-> e, p |-> p, d |-> "", texto |-> texto,
   perfil |-> Vacio, r |-> <<>>]

send_event_builder(n, rs) ==
  /\ Hora <= plan.notas
  /\ rs \cap Arriba # {}
  /\ notas' = Guardadas(notas, rs \cap Arriba, n)
  /\ publicadas' = Append(publicadas, [nota |-> n, en |-> rs \cap Arriba])
  /\ vista' = Nada

Hace(op) == op \in plan.hace
Quieto == UNCHANGED <<siguiendo, quiere, turbio>>
Escribe == connect_relays(plan.dm, {}).escribe

(* A whole new kind 0: fields left empty are not in it. *)
set_perfil(c, name, display_name, picture) ==
  /\ Hace("set_perfil")
  /\ picture # "mala" /\ [name |-> name, display_name |-> display_name, picture |-> picture] # Vacio
  /\ send_event_builder(
       [Nota(Dueno(c), 0, 0, <<>>, 0) EXCEPT !.perfil =
          [name |-> name, display_name |-> display_name, picture |-> picture]], Escribe)
  /\ Quieto

postear(c, texto) ==
  /\ Hace("nota") /\ texto # 0
  /\ send_event_builder(Nota(Dueno(c), 1, 0, <<>>, texto), Escribe)
  /\ Quieto

Originales == {publicadas[i].nota : i \in {j \in DOMAIN publicadas : publicadas[j].nota.kind = 1}}
responder(c, texto, n) ==
  /\ Hace("nota")
  /\ send_event_builder(Nota(Dueno(c), 1, n.hora, <<n.autor>>, texto), Escribe)
  /\ Quieto

(* An answer whose text quotes the other one. *)
citar(c, texto, n) == n.texto # 0 /\ responder(c, texto, n)

reaccionar(c, n) ==
  /\ Hace("nota")
  /\ send_event_builder(Nota(Dueno(c), 7, n.hora, <<n.autor>>, 0), Escribe)
  /\ Quieto

repost(c, n) ==
  /\ Hace("nota")
  /\ send_event_builder(Nota(Dueno(c), 6, n.hora, <<n.autor>>, 0), Escribe)
  /\ Quieto

(* An article has a title and no identifier. *)
articulo_publicar(c, titulo, cuerpo, imagen) ==
  /\ Hace("articulo") /\ titulo # 0 /\ cuerpo # 0 /\ imagen # "mala"
  /\ send_event_builder(Nota(Dueno(c), 30023, 0, <<>>, cuerpo), Escribe)
  /\ Quieto

(* Other programs of an author publish its relays, in the content of an    *)
(* empty contact list too, and pages by name.                              *)
ListaDeRelays == <<<<"u", "read">>, <<"u", "write">>, <<"", "">>>>
RelaysEnContactos == <<<<"u", "">>, <<"http", "">>>>
Ajena(a, kind, d, r) ==
  /\ Hace("ajena")
  /\ send_event_builder([Nota(a, kind, 0, <<>>, 1) EXCEPT !.d = d, !.r = r], Escribe)
  /\ quiere' = IF kind = 3 THEN [quiere EXCEPT ![a] = {}] ELSE quiere
  /\ UNCHANGED <<siguiendo, turbio>>
RelayList == 10002
AjenaRelays(a) == Ajena(a, RelayList, "", ListaDeRelays)
AjenaContactos(a) == Ajena(a, 3, "", RelaysEnContactos)
AjenaPagina(a) == Ajena(a, 30023, "inicio", <<>>)

-----------------------------------------------------------------------------
(* Contacts: the newest list that answers, without and perhaps with the    *)
(* key, is published again.  Every answer may miss relays.                 *)

(* Mutant: the key is removed after it was added. *)
ListaSinAgregar(lista, b, si) == SelectSeq(IF si THEN Append(lista, b) ELSE lista, LAMBDA x : x # b)

Lista(lista, b, si) ==
  LET otros == Retiene(lista, {i \in DOMAIN lista : lista[i] # b})
  IN IF si THEN Append(otros, b) ELSE otros

UltimaDe(a, kind) ==
  LET suyas == {i \in DOMAIN publicadas : publicadas[i].nota.autor = a /\ publicadas[i].nota.kind = kind}
  IN IF suyas = {} THEN 0 ELSE CHOOSE i \in suyas : \A j \in suyas : j <= i

seguir(c, b, si, rs) ==
  /\ Hace("seguir") /\ siguiendo[c] = Nada
  /\ siguiendo' = [siguiendo EXCEPT ![c] =
        [lista |-> Lista(seguidos(notas, rs, Dueno(c)), b, si), quien |-> b, si |-> si,
         entera |-> rs = Arriba, ultima |-> UltimaDe(Dueno(c), 3)]]
  /\ UNCHANGED <<notas, publicadas, quiere, turbio, vista>>

SeguirPublica(c) ==
  /\ siguiendo[c] # Nada
  /\ LET t == siguiendo[c]
         a == Dueno(c)
     IN /\ send_event_builder(Nota(a, 3, 0, t.lista, 0), Escribe)
        /\ quiere' = [quiere EXCEPT ![a] = IF t.si THEN @ \cup {t.quien} ELSE @ \ {t.quien}]
        /\ turbio' = IF t.entera /\ t.ultima = UltimaDe(a, 3) THEN turbio ELSE turbio \cup {a}
  /\ siguiendo' = [siguiendo EXCEPT ![c] = Nada]

-----------------------------------------------------------------------------
(* The screens: a query with a client of its own, thrown away after it.    *)
(* rs: of the relays it names, or of the defaults if it names none, those  *)
(* that answer in time.                                                    *)

Mira(op, de, rs, res) ==
  /\ Hace(op) /\ vista = Nada /\ publicadas # <<>>
  /\ vista' = [op |-> op, de |-> de, rs |-> rs, res |-> res]
  /\ UNCHANGED <<notas, publicadas, siguiendo, quiere, turbio>>

Limite == 2
nostr_perfil_fetch(a, rs) == Mira("perfil", a, rs, perfil_fetch(notas, rs, a))
nostr_posts_fetch(a, rs) == Mira("muro", a, rs, posts_fetch(notas, rs, a, 0, Limite))
nostr_notificaciones(a, rs) == Mira("avisos", a, rs, notificaciones_fetch(notas, rs, a, Limite))
nostr_relays_fetch(a, rs) == Mira("relays", a, rs, relays_fetch(notas, rs, rs, a))
Contactos(a, rs) == Mira("contactos", a, rs, seguidos(notas, rs, a))
Pagina(a, rs) == Mira("pagina", a, rs, nostr_page_fetch(notas, rs, a, "inicio"))
nostr_buscar_usuarios(q, rs) == Mira("usuarios", q, rs, buscar_usuarios(notas, rs, q, Limite))
nostr_buscar_posts(q, rs) == Mira("notas", q, rs, buscar_posts(notas, rs, q, Limite))

NextSocial ==
  \/ \E c \in Aparatos :
       \/ \E x, y \in 0 .. 2, foto \in {"", "url", "mala"} : set_perfil(c, x, y, foto)
       \/ \E x \in 0 .. 2 : postear(c, x)
       \/ \E x \in 1 .. 2, n \in Originales : responder(c, x, n) \/ citar(c, x, n)
       \/ \E n \in Originales : reaccionar(c, n) \/ repost(c, n)
       \/ \E x \in 0 .. 1 : \E foto \in {"", "mala"} : articulo_publicar(c, 1, x, foto)
       \/ \E b \in plan.habla \ {Dueno(c)}, si \in BOOLEAN, rs \in SUBSET Arriba : seguir(c, b, si, rs)
       \/ SeguirPublica(c)
  \/ \E a \in plan.habla : AjenaRelays(a) \/ AjenaContactos(a) \/ AjenaPagina(a)
  \/ \E rs \in SUBSET Arriba :
       \/ \E a \in plan.habla :
            \/ nostr_perfil_fetch(a, rs) \/ nostr_posts_fetch(a, rs) \/ nostr_notificaciones(a, rs)
            \/ nostr_relays_fetch(a, rs) \/ Contactos(a, rs) \/ Pagina(a, rs)
       \/ \E q \in 0 .. 2 : nostr_buscar_usuarios(q, rs) \/ nostr_buscar_posts(q, rs)

-----------------------------------------------------------------------------
(* The account file.  An empty pin leaves it open. *)

InitCuenta == archivo = Nada /\ cuenta = Nada /\ guardadas = {}

(* Written in place: the process may die before all of it is there. *)
Sobre(nueva, pin, entero) == [cifrado |-> pin # "", pin |-> pin, cuenta |-> nueva, entero |-> entero]
guardar_cuenta(nueva, pin, entero) ==
  /\ Hace("cuenta")
  /\ archivo' = Sobre(nueva, pin, entero)
  /\ cuenta' = Nada
  /\ guardadas' = IF entero THEN guardadas \cup {<<nueva, pin>>} ELSE guardadas

crear_cuenta(pin) ==
  \E entero \in BOOLEAN : guardar_cuenta("nueva", pin, entero)

(* An existing secret key; its public key is derived from it. *)
GuardarExistente(pin) ==
  \E entero \in BOOLEAN : guardar_cuenta("suya", pin, entero)

(* Mutant: a file that does not open is read as it is. *)
AbreIgual(pin) == archivo.entero

(* What a whole file gives for a pin; a cut one is not JSON, or does not   *)
(* decrypt.                                                                *)
Abre(pin) == archivo.entero /\ (archivo.cifrado => pin = archivo.pin)

cargar_cuenta(pin) ==
  /\ archivo # Nada /\ cuenta = Nada
  /\ Abre(pin)
  /\ cuenta' = [cuenta |-> archivo.cuenta, pin |-> pin]
  /\ UNCHANGED <<archivo, guardadas>>

NextCuenta ==
  \E pin \in {"", "p", "q"} : crear_cuenta(pin) \/ GuardarExistente(pin) \/ cargar_cuenta(pin)

-----------------------------------------------------------------------------
(* Properties. *)

(* A screen shows what was published, as far as the relays that answered   *)
(* have it: the newest profile, a wall of the author's newest notes and no *)
(* one else's, every newer answer of others than those shown, the relays   *)
(* with all their flags, the page of that name, and as contacts those the  *)
(* author's calls asked for, once each, unless a list was republished over *)
(* a newer one.                                                            *)
Vistas(rs) == {i \in DOMAIN publicadas : publicadas[i].en \cap rs # {}}
DelAutor(a, kind) ==
  {i \in Vistas(vista.rs) : publicadas[i].nota.kind = kind /\ publicadas[i].nota.autor = a}
Ultima(is) == publicadas[Max(is)].nota
Recientes(notasVistas, is) ==
  /\ \A i, j \in DOMAIN notasVistas : i < j => notasVistas[i].hora > notasVistas[j].hora
  /\ Range(notasVistas) \subseteq {publicadas[i].nota : i \in is}
  /\ \A n \in Range(notasVistas), i \in is : publicadas[i].nota.hora > n.hora => publicadas[i].nota \in Range(notasVistas)
VistaFiel ==
  vista # Nada =>
    LET a == vista.de
        res == vista.res
        ajenas == {i \in Vistas(vista.rs) : LET n == publicadas[i].nota
                                            IN n.kind = 1 /\ n.autor # a /\ a \in Range(n.p)}
        paginas == {i \in DelAutor(a, 30023) : publicadas[i].nota.d = "inicio"}
    IN CASE vista.op = "perfil" ->
              res = IF DelAutor(a, 0) = {} THEN perfil_vacio(a) ELSE metadata_a_perfil(Ultima(DelAutor(a, 0)))
         [] vista.op = "muro" ->
              Recientes(res, DelAutor(a, 1)) /\ (res = <<>> => DelAutor(a, 1) = {})
         [] vista.op = "avisos" -> Recientes(res, ajenas)
         [] vista.op = "relays" ->
              DelAutor(a, 10002) # {} => res["u"].lectura /\ res["u"].escritura
         [] vista.op = "contactos" ->
              /\ IsInjective(res)
              /\ (a \notin turbio /\ UltimaDe(a, 3) \in Vistas(vista.rs)) => Range(res) = quiere[a]
         [] vista.op = "pagina" ->
              res = IF paginas = {} THEN Nada ELSE Ultima(paginas).texto
         [] vista.op = "usuarios" ->
              \A i, j \in DOMAIN res : i < j => Muestra(res[i]) <= Muestra(res[j])
         [] OTHER ->
              \A n \in Range(res) : n.kind = 1 /\ n.texto = vista.de

(* Whatever pins it is saved and loaded with, and wherever the process     *)
(* dies in a save, loading the file never gives an account that no         *)
(* finished save had put there, nor a sealed one to another pin.           *)
CargaFiel ==
  cuenta # Nada =>
    \/ <<cuenta.cuenta, cuenta.pin>> \in guardadas
    \/ <<cuenta.cuenta, "">> \in guardadas
=============================================================================
