------------------------------ MODULE NostrMC ------------------------------
(* The scenarios: two relays of one's own and a public one; each scenario  *)
(* names the sessions, screens and calls that take part.                   *)
EXTENDS Nostr

S(tipo, yo, peer, dm, read, ventana, observa) ==
  [tipo |-> tipo, yo |-> yo, peer |-> peer, dm |-> dm, read |-> read,
   ventana |-> ventana, observa |-> observa, n_limit |-> 1]
Plan(sesiones, mensajes, pasa, caidos) ==
  [sesiones |-> sesiones, mensajes |-> mensajes, pasa |-> pasa, caidos |-> caidos,
   habla |-> {"ana", "beto"}, dm |-> {"r1"}, aparatos |-> <<>>, notas |-> 0, hace |-> {}]
Social(aparatos, habla, hace, n) ==
  [Plan(<<>>, 0, {}, {"r2"}) EXCEPT !.aparatos = aparatos, !.habla = habla, !.hace = hace, !.notas = n]

Dm == S("dm", "ana", "beto", {"r1"}, {"r2"}, TRUE, FALSE)
Bandeja == S("bandeja", "beto", Nada, {"r2"}, {}, FALSE, FALSE)
Otro == S("bandeja", "caro", Nada, {"r1"}, {}, TRUE, FALSE)
Par(yo, peer, observa) == S("par", yo, peer, {"r1", "r2"}, {}, FALSE, observa)

PlanesMC ==
  {Plan([a |-> Dm, b |-> Bandeja], 2, {}, {"r1"}),
   Plan([a |-> Dm, b |-> Bandeja], 1, {"corta", "otra"}, {}),
   Plan([a |-> Dm, c |-> Otro], 2, {"ajeno"}, {}),
   Plan([a |-> Par("ana", "beto", FALSE), b |-> Par("beto", "ana", FALSE),
         c |-> Par("ana", "beto", TRUE)], 1, {"corta", "tiempo"}, {"pub"}),
   Social(<<"ana">>, {"ana"}, {"set_perfil", "perfil", "usuarios"}, 2),
   Social(<<"ana", "beto">>, {"ana"}, {"nota", "muro", "avisos", "notas"}, 3),
   Social(<<"ana", "ana">>, {"ana", "beto", "caro"}, {"seguir", "contactos"}, 2),
   Social(<<"ana">>, {"ana", "beto"}, {"seguir", "ajena", "contactos"}, 3),
   Social(<<"ana">>, {"ana"}, {"articulo", "ajena", "relays", "contactos", "pagina"}, 2),
   Social(<<>>, {}, {"cuenta"}, 0)}
=============================================================================
