-------------------------------- MODULE Iroh --------------------------------
(***************************************************************************)
(* The iroh chat and file transfer of rust/src/gt/irohp2p.rs, called       *)
(* through api/iroh_p2p.rs: an IrohViva per node, whose mutex is held for  *)
(* a whole call, and the tasks of its runtime, which run meanwhile.        *)
(*                                                                         *)
(* A ticket names an endpoint; endpoints are numbered in the order they    *)
(* are bound, and every start binds one of its own.  A channel is one QUIC *)
(* connection with one stream: side 1 dialled, side 2 accepted.  Text is a *)
(* sequence of bytes; "e1","e2" are the bytes of one character.            *)
(***************************************************************************)
EXTENDS Naturals, SequencesExt

CONSTANTS
  Nodos,
  Textos,          \* what a side writes: its first line, its second, ...
  Bloque,          \* the 4096 bytes of the reader's buffer
  Topes,           \* bounds to explore: [archivos, arranques, marcan, canales, lineas,
                   \* pasa]
  TopeCanales,     \* the largest of their channels
  Nada

(* A line has no line break: the screen's field is of one line.            *)
ASSUME SupuestoIroh ==
  /\ Bloque \in Nat \ {0}
  /\ TopeCanales \in Nat
  /\ Textos \in Seq(Seq(STRING))
  /\ \A i \in DOMAIN Textos : Textos[i] # <<>> /\ "\n" \notin Range(Textos[i])
  /\ \A t \in Topes :
       /\ t.canales \in 0 .. TopeCanales
       /\ \A l \in 1 .. 2 : t.lineas[l] \in 0 .. Len(Textos)

VARIABLES
  tope,       \* member of Topes: files, endpoints, who dials, channels, lines
              \* of each side of a channel, and what else may happen
  nodo,       \* [Nodos -> IrohPar], see NodoNuevo
  dueno,      \* sequence: the node that bound each endpoint
  abiertos,   \* endpoints that answer
  ofrecido,   \* <<endpoint, file>> in the MemStore of an endpoint
  canales,    \* sequence of channels, see CanalNuevo
  mandado,    \* history: lines accepted by chat_mandar on <<channel, side>>
  leido       \* history: lines chat_leer gave to a side of a channel

vars == <<tope, nodo, dueno, abiertos, ofrecido, canales, mandado, leido>>

Lados == 1 .. 2
Otro(l) == 3 - l
Puntas == (1 .. TopeCanales) \X Lados

(* IrohPar::new.  llamada is the long call that holds the mutex. *)
NodoNuevo ==
  [vivo |-> Nada, chat_salidas |-> <<>>, chat_entrantes |-> <<>>, llamada |-> <<>>,
   bajados |-> {}]

(* A connection with its stream open on the side that dialled. *)
CanalNuevo(e1, e2) ==
  [ends |-> <<e1, e2>>, conecta |-> TRUE, aceptado |-> FALSE,
   cola |-> <<<<>>, <<>>>>,     \* the lines in the mpsc channel of each writer
   cable |-> <<<<>>, <<>>>>,    \* the bytes each side wrote and the other has not read
   escritor |-> <<"vive", "no">>, lector |-> <<"vive", "no">>]

Init ==
  /\ tope \in Topes
  /\ nodo = [n \in Nodos |-> NodoNuevo]
  /\ dueno = <<>>
  /\ abiertos = {}
  /\ ofrecido = {}
  /\ canales = <<>>
  /\ mandado = [p \in Puntas |-> <<>>]
  /\ leido = [p \in Puntas |-> <<>>]

-----------------------------------------------------------------------------
(* The mutex: a call starts when no other runs (IrohViva::con). *)

con(n) == nodo[n].llamada = <<>>
Empieza(n, llamada) ==
  /\ con(n)
  /\ nodo' = [nodo EXCEPT ![n].llamada = llamada]
Vuelve(n) == [nodo EXCEPT ![n].llamada = <<>>]

(* Pasted text: the number of an endpoint, perhaps among blanks (0). *)
limpiar_ticket(s) == SelectSeq(s, LAMBDA c : c # 0)
Pegados == UNION {{<<e>>, <<0, e, 0>>} : e \in DOMAIN dueno}

-----------------------------------------------------------------------------
(* start_servidor waits for the bind and for the relay; it may fail. *)
start_servidor(n) ==
  /\ nodo[n].vivo = Nada
  /\ Len(dueno) < tope.arranques
  /\ Empieza(n, <<"start">>)
  /\ UNCHANGED <<tope, dueno, abiertos, ofrecido, canales, mandado, leido>>

FinStart(n) ==
  /\ nodo[n].llamada = <<"start">>
  /\ \/ /\ Len(dueno) < tope.arranques
        /\ dueno' = Append(dueno, n)
        /\ abiertos' = abiertos \cup {Len(dueno')}
        /\ nodo' = [Vuelve(n) EXCEPT ![n].vivo = Len(dueno')]
     \/ nodo' = Vuelve(n) /\ UNCHANGED <<dueno, abiertos>>
  /\ UNCHANGED <<tope, ofrecido, canales, mandado, leido>>

(* The file is hashed into the store of the endpoint. *)
ofrecer(n, f) ==
  /\ con(n) /\ nodo[n].vivo # Nada
  /\ ofrecido' = ofrecido \cup {<<nodo[n].vivo, f>>}
  /\ UNCHANGED <<tope, nodo, dueno, abiertos, canales, mandado, leido>>

bajar(n, e, f) ==
  /\ nodo[n].vivo # Nada
  /\ Empieza(n, <<"bajar", e, f>>)
  /\ UNCHANGED <<tope, dueno, abiertos, ofrecido, canales, mandado, leido>>

(* The blob is there already, or comes from the endpoint of the ticket if  *)
(* it still answers and offers it; else the call fails.                    *)
FinBajar(n) ==
  /\ nodo[n].llamada # <<>> /\ nodo[n].llamada[1] = "bajar"
  /\ LET e == nodo[n].llamada[2]
         f == nodo[n].llamada[3]
         yo == nodo[n].vivo
         esta == <<yo, f>> \in ofrecido \/ (e \in abiertos /\ <<e, f>> \in ofrecido)
     IN \/ /\ esta
           /\ nodo' = [Vuelve(n) EXCEPT ![n].bajados = @ \cup {f}]
           /\ ofrecido' = ofrecido \cup {<<yo, f>>}
        \/ nodo' = Vuelve(n) /\ UNCHANGED ofrecido
  /\ UNCHANGED <<tope, dueno, abiertos, canales, mandado, leido>>

chat_conectar(n, pegado) ==
  /\ n \in tope.marcan /\ Len(canales) < tope.canales
  /\ nodo[n].vivo # Nada
  /\ Empieza(n, <<"conectar", limpiar_ticket(pegado)[1]>>)
  /\ UNCHANGED <<tope, dueno, abiertos, ofrecido, canales, mandado, leido>>

(* The stream is wired before the call returns: the sender goes at the end *)
(* of chat_salidas.  An endpoint does not dial itself.                     *)
FinConectar(n) ==
  /\ nodo[n].llamada # <<>> /\ nodo[n].llamada[1] = "conectar"
  /\ LET e == nodo[n].llamada[2]
     IN \/ /\ Len(canales) < tope.canales
           /\ e \in abiertos \ {nodo[n].vivo}
           /\ canales' = Append(canales, CanalNuevo(nodo[n].vivo, e))
           /\ nodo' = [Vuelve(n) EXCEPT
                         ![n].chat_salidas = Append(@, <<Len(canales'), 1>>)]
        \/ nodo' = Vuelve(n) /\ UNCHANGED canales
  /\ UNCHANGED <<tope, dueno, abiertos, ofrecido, mandado, leido>>

(* The line goes to the first of chat_salidas, whose writer must live. *)
chat_mandar(n) ==
  /\ con(n)
  /\ nodo[n].chat_salidas # <<>>
  /\ LET p == Head(nodo[n].chat_salidas)
     IN /\ canales[p[1]].escritor[p[2]] = "vive"
        /\ Len(mandado[p]) < tope.lineas[p[2]]
        /\ LET texto == Textos[Len(mandado[p]) + 1]
           IN /\ canales' = [canales EXCEPT ![p[1]].cola[p[2]] = Append(@, texto)]
              /\ mandado' = [mandado EXCEPT ![p] = Append(@, texto)]
  /\ UNCHANGED <<tope, nodo, dueno, abiertos, ofrecido, leido>>

(* The texts of the lines of a list that came by p. *)
De(p, lineas) ==
  FlattenSeq([i \in DOMAIN lineas |-> IF lineas[i][1] = p THEN <<lineas[i][2]>> ELSE <<>>])

chat_leer(n) ==
  /\ con(n)
  /\ nodo[n].chat_entrantes # <<>>
  /\ nodo' = [nodo EXCEPT ![n].chat_entrantes = <<>>]
  /\ leido' = [p \in Puntas |-> leido[p] \o De(p, nodo[n].chat_entrantes)]
  /\ UNCHANGED <<tope, dueno, abiertos, ofrecido, canales, mandado>>

(* stop takes the endpoint, then waits for its shutdown. *)
stop(n) ==
  /\ "stop" \in tope.pasa
  /\ nodo[n].vivo # Nada
  /\ con(n)
  /\ nodo' = [nodo EXCEPT ![n].llamada = <<"stop", nodo[n].vivo>>, ![n].vivo = Nada]
  /\ UNCHANGED <<tope, dueno, abiertos, ofrecido, canales, mandado, leido>>

(* A channel loses its connection.  What the readers had not taken is lost *)
(* (a reader that takes some of it later could have done it before), and   *)
(* they end; a writer does when it next writes.                            *)
Roto(c) ==
  [c EXCEPT !.conecta = FALSE, !.cable = <<<<>>, <<>>>>, !.lector = <<"fin", "fin">>]

(* An endpoint closes: its connections are gone and so is its store. *)
Cierra(e) ==
  /\ abiertos' = abiertos \ {e}
  /\ ofrecido' = {o \in ofrecido : o[1] # e}
  /\ canales' = [c \in DOMAIN canales |->
                   IF e \in Range(canales[c].ends) THEN Roto(canales[c]) ELSE canales[c]]

FinStop(n) ==
  /\ nodo[n].llamada # <<>> /\ nodo[n].llamada[1] = "stop"
  /\ Cierra(nodo[n].llamada[2])
  /\ nodo' = Vuelve(n)
  /\ UNCHANGED <<tope, dueno, mandado, leido>>

(* The screen lets the node go (Drop stops it): the next one is another    *)
(* IrohPar.  The tasks of the runtime are gone with it.                    *)
Suelta(n) ==
  /\ "suelta" \in tope.pasa
  /\ con(n) /\ nodo[n].vivo # Nada
  /\ LET e == nodo[n].vivo
         mio(c, l) == dueno[canales[c].ends[l]] = n
     IN /\ abiertos' = abiertos \ {e}
        /\ ofrecido' = {o \in ofrecido : o[1] # e}
        /\ canales' = [c \in DOMAIN canales |->
             IF ~mio(c, 1) /\ ~mio(c, 2) THEN canales[c]
             ELSE [Roto(canales[c]) EXCEPT !.escritor =
                     [l \in Lados |-> IF mio(c, l) THEN "fin" ELSE @[l]]]]
  /\ nodo' = [nodo EXCEPT ![n] = NodoNuevo]
  /\ UNCHANGED <<tope, dueno, mandado, leido>>

-----------------------------------------------------------------------------
(* The tasks of a channel (ChatNodo). *)

NodoDe(p) == dueno[canales[p[1]].ends[p[2]]]
TieneSalida(p) == \E i \in DOMAIN nodo[NodoDe(p)].chat_salidas : nodo[NodoDe(p)].chat_salidas[i] = p

(* accept_bi returns when bytes of the stream come, and wires the other    *)
(* side into the node that accepts.                                        *)
accept(c) ==
  /\ canales[c].conecta /\ ~canales[c].aceptado
  /\ canales[c].cable[1] # <<>>
  /\ canales' = [canales EXCEPT ![c].aceptado = TRUE,
                                ![c].escritor[2] = "vive", ![c].lector[2] = "vive"]
  /\ nodo' = [nodo EXCEPT ![NodoDe(<<c, 2>>)].chat_salidas = Append(@, <<c, 2>>)]
  /\ UNCHANGED <<tope, dueno, abiertos, ofrecido, mandado, leido>>

(* Mutant: the writer ends with its sender and leaves what is queued. *)
escritorSinVaciar(p) ==
  LET c == p[1]
      l == p[2]
      cola == canales[c].cola[l]
  IN /\ canales[c].escritor[l] = "vive"
     /\ IF ~TieneSalida(p) THEN canales' = [canales EXCEPT ![c].escritor[l] = "fin", ![c].cola[l] = <<>>]
        ELSE /\ cola # <<>>
             /\ canales' =
                  IF canales[c].conecta
                  THEN [canales EXCEPT ![c].cola[l] = Tail(@), ![c].cable[l] = @ \o Append(Head(cola), "\n")]
                  ELSE [canales EXCEPT ![c].cola[l] = <<>>, ![c].escritor[l] = "fin"]
     /\ UNCHANGED <<tope, nodo, dueno, abiertos, ofrecido, mandado, leido>>

(* The writer: a line of the queue to the stream, which it finishes when   *)
(* the queue is empty and its sender gone, or when a write fails.          *)
escritor(p) ==
  LET c == p[1]
      l == p[2]
      cola == canales[c].cola[l]
  IN /\ canales[c].escritor[l] = "vive"
     /\ cola # <<>> \/ ~TieneSalida(p)
     /\ canales' =
          IF cola # <<>> /\ canales[c].conecta
          THEN [canales EXCEPT ![c].cola[l] = Tail(@), ![c].cable[l] = @ \o Append(Head(cola), "\n")]
          ELSE [canales EXCEPT ![c].cola[l] = <<>>, ![c].escritor[l] = "fin"]
     /\ UNCHANGED <<tope, nodo, dueno, abiertos, ofrecido, mandado, leido>>

(* String::from_utf8_lossy: half a character becomes a mark. *)
from_utf8_lossy(b) ==
  [i \in DOMAIN b |->
    CASE b[i] = "e1" -> IF i < Len(b) /\ b[i + 1] = "e2" THEN "e1" ELSE "?"
      [] b[i] = "e2" -> IF i > 1 /\ b[i - 1] = "e1" THEN "e2" ELSE "?"
      [] OTHER -> b[i]]

(* Mutant: the lines of a chunk are not told apart. *)
LineasJuntas(trozo) == <<SelectSeq(trozo, LAMBDA b : b # "\n")>>

(* What has been cut so far, with the line that is still growing. *)
Cerrada(c) == IF c.actual = <<>> THEN c.hechas ELSE Append(c.hechas, c.actual)

(* split('\n') without the empty pieces, byte by byte. *)
Lineas(trozo) ==
  LET corta[i \in 0 .. Len(trozo)] ==
        IF i = 0 THEN [hechas |-> <<>>, actual |-> <<>>]
        ELSE IF trozo[i] = "\n" THEN [hechas |-> Cerrada(corta[i - 1]), actual |-> <<>>]
        ELSE [corta[i - 1] EXCEPT !.actual = Append(@, trozo[i])]
  IN Cerrada(corta[Len(trozo)])

(* The reader takes what has come, up to its buffer. *)
lector(p) ==
  LET c == p[1]
      l == p[2]
      hay == canales[c].cable[Otro(l)]
      fin == canales[c].escritor[Otro(l)] = "fin"
  IN /\ canales[c].lector[l] = "vive"
     /\ \/ \E k \in 1 .. Bloque :
             /\ k <= Len(hay)
             /\ canales' = [canales EXCEPT ![c].cable[Otro(l)] = SubSeq(@, k + 1, Len(@))]
             /\ LET ls == Lineas(from_utf8_lossy(SubSeq(hay, 1, k)))
                IN nodo' = [nodo EXCEPT ![NodoDe(p)].chat_entrantes =
                              @ \o [i \in DOMAIN ls |-> <<p, ls[i]>>]]
        \/ /\ hay = <<>> /\ fin
           /\ canales' = [canales EXCEPT ![c].lector[l] = "fin"]
           /\ UNCHANGED nodo
     /\ UNCHANGED <<tope, dueno, abiertos, ofrecido, mandado, leido>>

(* 6 hours after a channel is wired its node loses every sender. *)
Limpia(n) ==
  /\ "limpia" \in tope.pasa
  /\ nodo[n].chat_salidas # <<>>
  /\ nodo' = [nodo EXCEPT ![n].chat_salidas = <<>>]
  /\ UNCHANGED <<tope, dueno, abiertos, ofrecido, canales, mandado, leido>>

(* The network loses a connection. *)
Corta(c) ==
  /\ "corta" \in tope.pasa
  /\ canales[c].conecta
  /\ canales' = [canales EXCEPT ![c] = Roto(@)]
  /\ UNCHANGED <<tope, nodo, dueno, abiertos, ofrecido, mandado, leido>>

Abiertas == {p \in Puntas : p[1] \in DOMAIN canales}
FinLlamada(n) == FinStart(n) \/ FinBajar(n) \/ FinConectar(n) \/ FinStop(n)
Tareas ==
  \/ \E c \in DOMAIN canales : accept(c)
  \/ \E p \in Abiertas : escritor(p) \/ lector(p)

Next ==
  \/ \E n \in Nodos :
       \/ start_servidor(n) \/ stop(n) \/ Suelta(n) \/ FinLlamada(n)
       \/ chat_leer(n) \/ chat_mandar(n) \/ Limpia(n)
       \/ \E f \in tope.archivos : ofrecer(n, f) \/ \E e \in DOMAIN dueno : bajar(n, e, f)
       \/ \E s \in Pegados : chat_conectar(n, s)
  \/ Tareas
  \/ \E c \in DOMAIN canales : Corta(c)

Spec == Init /\ [][Next]_vars

(* The runtime runs its tasks and a call ends; the screen's timer calls    *)
(* chat_leer every second, between one call of the user and the next.      *)
SpecJusta ==
  /\ Spec
  /\ WF_vars(Tareas)
  /\ \A n \in Nodos : WF_vars(FinLlamada(n)) /\ SF_vars(chat_leer(n))

-----------------------------------------------------------------------------
(* Properties. *)

Pegadas(lineas) == FlattenSeq(lineas)
Cortes(lineas) == {Len(Pegadas(SubSeq(lineas, 1, i))) : i \in DOMAIN lineas}

(* What a side reads from a channel is what the other side sent on it, in  *)
(* order and with nothing lost in between, whatever the reader's chunks    *)
(* and the other channels of both nodes do: no two lines are run together, *)
(* and only half a character at the edge of a chunk is spoilt.             *)
EnOrden ==
  \A p \in Puntas :
    LET va == Pegadas(mandado[<<p[1], Otro(p[2])>>])
        llega == Pegadas(leido[p])
    IN /\ Len(llega) <= Len(va)
       /\ \A i \in DOMAIN llega :
            llega[i] = va[i] \/ (llega[i] = "?" /\ va[i] \in {"e1", "e2"})
       /\ Cortes(mandado[<<p[1], Otro(p[2])>>]) \cap (0 .. Len(llega)) \subseteq {0} \cup Cortes(leido[p])

(* A line that chat_mandar accepted is read by the other side, even if the *)
(* senders are cleared meanwhile, unless the connection is lost.           *)
LineaLlega ==
  \A p \in Puntas : \A k \in DOMAIN Textos :
    Len(mandado[p]) >= k ~>
      \/ p[1] \in DOMAIN canales /\ ~canales[p[1]].conecta
      \/ /\ Len(mandado[p]) >= k
         /\ Len(Pegadas(leido[<<p[1], Otro(p[2])>>])) >= Len(Pegadas(SubSeq(mandado[p], 1, k)))
=============================================================================
