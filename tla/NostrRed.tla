------------------------------ MODULE NostrRed ------------------------------
(***************************************************************************)
(* Relays and what is read from them: the relay sets of nostrn/relays.rs,  *)
(* and the queries of nostrbusca.rs, api/nostr_page.rs and the contact     *)
(* list of nostrn/gestion.rs, as functions of what the relays hold.        *)
(*                                                                         *)
(* A note is [kind, autor, hora, e, p, d, texto, perfil, r]: hora is its   *)
(* time and its name, e the note it refers to (0: none), p the keys it     *)
(* names in order, d its identifier tag ("": none), perfil the fields of a *)
(* kind 0, r the relays <<url, mark>> it lists.  Names and texts are       *)
(* numbers, 0 the empty one, in alphabetical order.                        *)
(***************************************************************************)
EXTENDS Secuencias, SequencesExt

CONSTANTS
  Autores, Relays,
  FALLBACK_PUBLIC_RELAYS,
  Nada

ASSUME SupuestoRed == FALLBACK_PUBLIC_RELAYS \subseteq Relays

(* Mutant: the public relays are left out. *)
ComponerSinRespaldo(dm) == dm

compose_write_relays(dm) == dm \cup FALLBACK_PUBLIC_RELAYS

(* Where a client reads and writes: what it writes to it also reads.  No   *)
(* list to read from means the one of direct messages.                     *)
connect_relays(dm, read) ==
  LET write == compose_write_relays(dm)
  IN [lee |-> (IF read = {} THEN dm ELSE read) \cup write, escribe |-> write]

-----------------------------------------------------------------------------
(* A relay keeps the newest note of an author and a replaceable kind, and  *)
(* of an author and an identifier for articles.                            *)
Reemplaza(n, m) ==
  /\ n.autor = m.autor /\ n.kind = m.kind
  /\ n.kind \in {0, 3, 10002} \/ (n.kind = 30023 /\ n.d = m.d)
Guardadas(notas, rs, n) ==
  [r \in Relays |-> IF r \in rs THEN {n} \cup {m \in notas[r] : ~Reemplaza(n, m)} ELSE notas[r]]

(* A filter leaves open what is Nada. *)
Filtro(kind, autor, p, d) == [kind |-> kind, autor |-> autor, p |-> p, d |-> d]
Pasa(f, n) ==
  /\ n.kind = f.kind
  /\ f.autor # Nada => n.autor = f.autor
  /\ f.p # Nada => f.p \in Range(n.p)
  /\ f.d # Nada => n.d = f.d

(* The newest ones of a set, newest first. *)
Nuevas(notas, limite) ==
  LET n == Cardinality(notas)
      horas == EnOrdenDe({m.hora : m \in notas})
  IN [i \in 1 .. IF n < limite THEN n ELSE limite |->
        CHOOSE m \in notas : m.hora = horas[n + 1 - i]]

(* What the relays rs that answer in time give. *)
fetch_events(notas, rs, f, limite) ==
  Nuevas({n \in UNION {notas[r] : r \in rs} : Pasa(f, n)}, limite)

-----------------------------------------------------------------------------
Vacio == [name |-> 0, display_name |-> 0, picture |-> ""]
metadata_a_perfil(n) == [npub |-> n.autor, md |-> n.perfil]
perfil_vacio(a) == [npub |-> a, md |-> Vacio]

perfil_fetch(notas, rs, a) ==
  LET evs == fetch_events(notas, rs, Filtro(0, a, Nada, Nada), 1)
  IN IF evs = <<>> THEN perfil_vacio(a) ELSE metadata_a_perfil(Head(evs))

(* The relay searches (NIP-50): here, for a note whose text is the query.  *)
(* Profiles come sorted by the name they show.                             *)
Muestra(p) == IF p.md.display_name = 0 THEN p.md.name ELSE p.md.display_name
PorNombre(ps) ==
  LET antes(i, j) ==
        Muestra(ps[i]) < Muestra(ps[j]) \/ (Muestra(ps[i]) = Muestra(ps[j]) /\ i < j)
      puesto(i) == Cardinality({j \in DOMAIN ps : antes(j, i)}) + 1
  IN [k \in DOMAIN ps |-> ps[CHOOSE i \in DOMAIN ps : puesto(i) = k]]

buscar_usuarios(notas, rs, query, limite) ==
  IF query = 0 THEN <<>>
  ELSE LET hay == [r \in Relays |-> {n \in notas[r] : n.kind = 0 /\ query \in {n.perfil.name, n.perfil.display_name}}]
           evs == fetch_events(hay, rs, Filtro(0, Nada, Nada, Nada), limite)
       IN PorNombre([i \in DOMAIN evs |-> metadata_a_perfil(evs[i])])

posts_fetch(notas, rs, a, desde, limite) ==
  LET nuevas == [r \in Relays |-> {n \in notas[r] : n.hora >= desde}]
  IN fetch_events(nuevas, rs, Filtro(1, a, Nada, Nada), limite)

buscar_posts(notas, rs, query, limite) ==
  IF query = 0 THEN <<>>
  ELSE LET hay == [r \in Relays |-> {n \in notas[r] : n.kind = 1 /\ n.texto = query}]
       IN fetch_events(hay, rs, Filtro(1, Nada, Nada, Nada), limite)

(* Answers and mentions: my own notes do not count, after the limit. *)
notificaciones_fetch(notas, rs, a, limite) ==
  LET evs == fetch_events(notas, rs, Filtro(1, Nada, a, Nada), limite)
  IN Retiene(evs, {i \in DOMAIN evs : evs[i].autor # a})

(* r tags <<url, mark>>: the flags of a repeated url add up. *)
MapaDe(tags) ==
  LET buenos == {i \in DOMAIN tags : tags[i][1] # ""}
  IN [url \in {tags[i][1] : i \in buenos} |->
       [lectura |-> \E i \in buenos : tags[i][1] = url /\ tags[i][2] # "write",
        escritura |-> \E i \in buenos : tags[i][1] = url /\ tags[i][2] # "read"]]

(* The newest kind 10002, or the relays in the content of the newest kind  *)
(* 3, whose urls must look like one.                                       *)
relays_fetch(notas, rs, rs3, a) ==
  LET ev65 == fetch_events(notas, rs, Filtro(10002, a, Nada, Nada), 1)
      ev3 == fetch_events(notas, rs3, Filtro(3, a, Nada, Nada), 1)
      mapa == IF ev65 = <<>> THEN <<>> ELSE MapaDe(Head(ev65).r)
  IN IF mapa # <<>> THEN mapa
     ELSE IF ev3 = <<>> THEN <<>>
     ELSE MapaDe(SelectSeq(Head(ev3).r, LAMBDA t : t[1] # "http"))

seguidos(notas, rs, a) ==
  LET evs == fetch_events(notas, rs, Filtro(3, a, Nada, Nada), 1)
  IN IF evs = <<>> THEN <<>> ELSE Head(evs).p

nostr_page_fetch(notas, rs, a, nombre) ==
  LET evs == fetch_events(notas, rs, Filtro(30023, a, Nada, nombre), 1)
  IN IF evs = <<>> THEN Nada ELSE Head(evs).texto
=============================================================================
