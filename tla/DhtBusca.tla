------------------------------ MODULE DhtBusca ------------------------------
(***************************************************************************)
(* The DHT spider with its metadata pipeline (gt/dhtbusca/mod.rs).  Every  *)
(* step of the life cycle in DhtVida is taken together with what it does   *)
(* to the index, and the metadata loop of each generation g runs the real  *)
(* sequence of meta_loop: drain the channel, harvest the session, mark the *)
(* captures, extend the index, announce, publish statistics, sleep.  All   *)
(* generations share index, announcements, captures and the cache file;    *)
(* each has its own channel, pending table, semaphore and rqbit session.   *)
(***************************************************************************)
EXTENDS DhtVida, SequencesExt

CONSTANTS
  MaxMeta,       \* max_meta: hashes pending per loop
  TopeCapturas,  \* live captures kept (5000 in the code)
  TopeIndice,    \* TOPE_INDICE
  MaxConc,       \* MAX_CONCURRENT_META
  MaxEspera      \* bound: tasks waiting for a permit of one semaphore

ASSUME SupuestoBusca ==
  /\ IsFiniteSet(Hash)
  /\ {MaxMeta, TopeCapturas, TopeIndice, MaxConc} \subseteq Nat \ {0}
  /\ MaxEspera \in Nat \ {0}

VARIABLES
  pc,          \* per loop: where it is in its cycle
  pend,        \* per loop: pendientes, oldest insertion first
  espera,      \* per loop: tasks waiting for a permit, first come first served
  curso,       \* per loop: hashes of the tasks that hold a permit
  sesion,      \* per loop: torrents of its rqbit session
  cos,         \* per loop: cosechados of the current cycle
  capturas,    \* captures, newest first
  indice,      \* Estado::hallados, oldest first
  nuevos,      \* nuevos_desde_poll (duplicates are not told apart)
  disco,       \* dhtbusca.json
  metaDisco,   \* resolved torrents in the persistence folder of the sessions
  recortados   \* history: hashes the index dropped to stay under its cap

tuberia == <<pc, pend, espera, curso, sesion, cos, capturas, indice, nuevos,
             disco, metaDisco, recortados>>
vars == <<vidaVars, tuberia>>

Punto == {"cabeza", "drenar", "cosechar", "marcar", "indexar", "anunciar", "estadisticas"}
Torrent == {"no", "sin", "con"}    \* absent, without metadata, with metadata and a name
Captura == [hash : Hash, resuelto : BOOLEAN]

Indexado == Range(indice)
Pendiente(g) == Range(pend[g])

TuberiaOK ==
  /\ pc \in [Gen -> Punto]
  /\ pend \in [Gen -> Seq(Hash)]
  /\ espera \in [Gen -> Seq(Hash)]
  /\ curso \in [Gen -> Seq(Hash)]
  /\ sesion \in [Gen -> [Hash -> Torrent]]
  /\ cos \in [Gen -> SUBSET Hash]
  /\ capturas \in Seq(Captura)
  /\ indice \in Seq(Hash)
  /\ nuevos \in SUBSET Hash
  /\ disco \in Seq(Hash)
  /\ metaDisco \in SUBSET Hash
  /\ recortados \in SUBSET Hash

(* DhtBusca::new on a first run: no cache file. *)
InitBusca ==
  /\ Init
  /\ pc = [g \in Gen |-> "cabeza"]
  /\ pend = [g \in Gen |-> <<>>]
  /\ espera = [g \in Gen |-> <<>>]
  /\ curso = [g \in Gen |-> <<>>]
  /\ sesion = [g \in Gen |-> [h \in Hash |-> "no"]]
  /\ cos = [g \in Gen |-> {}]
  /\ capturas = <<>>
  /\ indice = <<>>
  /\ nuevos = {}
  /\ disco = <<>>
  /\ metaDisco = {}
  /\ recortados = {}
-----------------------------------------------------------------------------
(***************************************************************************)
(* Life-cycle steps and what they do to the pipeline.                      *)
(***************************************************************************)
(* guardar: temporary file and rename, under the index lock; a crash or an *)
(* error before the rename leaves the previous file.                       *)
Guardar == disco' = indice

SinTuberia ==
  \/ \E t \in Toques :
       \/ PedirStart(t) \/ PedirStop(t) \/ Volver(t) \/ Rechazo(t)
       \/ StartOk(t) \/ StartError(t) \/ StartPanico(t) \/ StopError(t)
  \/ \E h \in Hash : Filtrar(h) \/ Probar(h)
  \/ \E g \in Gen, h \in Hash : Sondear(g, h)
  \/ \E g \in Gen : SpiderVeStop(g) \/ SesionFalla(g)

Vida == SinTuberia /\ UNCHANGED tuberia

Detener(t) ==
  /\ StopOk(t)
  /\ Guardar
  /\ UNCHANGED <<pc, pend, espera, curso, sesion, cos, capturas, indice,
                 nuevos, metaDisco, recortados>>

(* guardar_ahora, called every 3 s by the screen. *)
GuardarAhora ==
  /\ ~envenenado
  /\ Guardar
  /\ UNCHANGED <<vidaVars, pc, pend, espera, curso, sesion, cos, capturas,
                 indice, nuevos, metaDisco, recortados>>

(* A new session starts with the torrents of the persistence folder. *)
AbrirSesion(g) ==
  /\ SesionLista(g)
  /\ sesion' = [sesion EXCEPT ![g] = [h \in Hash |-> IF h \in metaDisco THEN "con" ELSE "no"]]
  /\ UNCHANGED <<pc, pend, espera, curso, cos, capturas, indice, nuevos,
                 disco, metaDisco, recortados>>

(* Mutant of TerminarBucle: the loop leaves at the head of any cycle. *)
TerminarBucleSinMirar(g) ==
  /\ pc[g] = "cabeza"
  /\ bucle[g] = "vivo"
  /\ Terminar(g)
  /\ pend' = [pend EXCEPT ![g] = <<>>]
  /\ UNCHANGED <<pc, espera, curso, sesion, cos, capturas, indice, nuevos, disco,
                 metaDisco, recortados>>

(* The loop's own state goes with it; its tasks keep running. *)
TerminarBucle(g) ==
  /\ \/ pc[g] = "cabeza" /\ BucleVeStop(g)
     \/ pc[g] = "drenar" /\ Desconectado(g)
  /\ pc' = [pc EXCEPT ![g] = "cabeza"]
  /\ pend' = [pend EXCEPT ![g] = <<>>]
  /\ UNCHANGED <<espera, curso, sesion, cos, capturas, indice, nuevos, disco,
                 metaDisco, recortados>>

(* What a process loses when it dies. *)
Olvidar ==
  /\ pc' = [g \in Gen |-> "cabeza"]
  /\ pend' = [g \in Gen |-> <<>>]
  /\ espera' = [g \in Gen |-> <<>>]
  /\ curso' = [g \in Gen |-> <<>>]
  /\ sesion' = [g \in Gen |-> [h \in Hash |-> "no"]]
  /\ cos' = [g \in Gen |-> {}]
  /\ capturas' = <<>>
  /\ nuevos' = {}

(* Mutant of ReabrirBusca: the cache is not loaded. *)
ReabrirBuscaSinCache(enOrden) ==
  /\ Reabrir
  /\ Olvidar
  /\ disco' = IF enOrden THEN indice ELSE disco
  /\ indice' = <<>>
  /\ UNCHANGED <<metaDisco, recortados>>

(* Process death and a new start of the app: new() loads the cache.        *)
(* Closing the motor in order (Drop) saves it first.                       *)
ReabrirBusca(enOrden) ==
  /\ Reabrir
  /\ Olvidar
  /\ disco' = IF enOrden THEN indice ELSE disco
  /\ indice' = disco'
  /\ UNCHANGED <<metaDisco, recortados>>
-----------------------------------------------------------------------------
(***************************************************************************)
(* meta_loop.                                                              *)
(***************************************************************************)
Ir(g, desde, hasta) ==
  /\ bucle[g] = "vivo"
  /\ pc[g] = desde
  /\ pc' = [pc EXCEPT ![g] = hasta]

EmpezarCiclo(g) ==
  /\ Ir(g, "cabeza", "drenar")
  /\ ~parar
  /\ UNCHANGED <<vidaVars, pend, espera, curso, sesion, cos, capturas, indice,
                 nuevos, disco, metaDisco, recortados>>

Descartar(g) ==
  /\ pc[g] = "drenar"
  /\ Sacar(g)
  /\ Head(cola[g]) \in Pendiente(g) \cup Indexado
  /\ UNCHANGED tuberia

(* Mutant of Insertar: off by one. *)
InsertarDeMas(s, h) == Append(IF Len(s) > MaxMeta THEN Tail(s) ELSE s, h)

(* At the cap the oldest pending hash makes room; its task is not cancelled. *)
Insertar(s, h) == Append(IF Len(s) >= MaxMeta THEN Tail(s) ELSE s, h)

(* The oldest capture is dropped before looking whether h is there already. *)
Capturar(c, h) ==
  LET d == IF Len(c) >= TopeCapturas THEN Front(c) ELSE c
  IN IF \E i \in DOMAIN d : d[i].hash = h
     THEN d
     ELSE <<[hash |-> h, resuelto |-> FALSE]>> \o d

Admitir(g) ==
  /\ pc[g] = "drenar"
  /\ Len(espera[g]) < MaxEspera
  /\ Sacar(g)
  /\ LET h == Head(cola[g]) IN
       /\ h \notin Pendiente(g) \cup Indexado
       /\ pend' = [pend EXCEPT ![g] = Insertar(@, h)]
       /\ capturas' = Capturar(capturas, h)
       /\ espera' = [espera EXCEPT ![g] = Append(@, h)]
  /\ UNCHANGED <<pc, curso, sesion, cos, indice, nuevos, disco, metaDisco, recortados>>

CanalVacio(g) ==
  /\ Ir(g, "drenar", "cosechar")
  /\ cola[g] = <<>>
  /\ ~SinEmisor(g)
  /\ UNCHANGED <<vidaVars, pend, espera, curso, sesion, cos, capturas, indice,
                 nuevos, disco, metaDisco, recortados>>

(* r lists the set S in the order in which s lists it. *)
MismoOrden(r, s) ==
  \A i, j \in DOMAIN r : i < j =>
    \E a, b \in DOMAIN s : a < b /\ s[a] = r[i] /\ s[b] = r[j]

(* Mutant of Cosechable: only what is still pending. *)
CosechablePendiente(g) == {h \in Pendiente(g) : sesion[g][h] = "con"} \ Indexado

(* Everything with metadata that is not indexed, pending here or not. *)
Cosechable(g) == {h \in Hash : sesion[g][h] = "con"} \ Indexado

Cosechar(g) ==
  /\ Ir(g, "cosechar", IF Cosechable(g) = {} THEN "estadisticas" ELSE "marcar")
  /\ cos' = [cos EXCEPT ![g] = Cosechable(g)]
  /\ \E r \in SetToSeqs(Pendiente(g) \ Cosechable(g)) :
       /\ MismoOrden(r, pend[g])
       /\ pend' = [pend EXCEPT ![g] = r]
  /\ UNCHANGED <<vidaVars, espera, curso, sesion, capturas, indice, nuevos,
                 disco, metaDisco, recortados>>

(* Mutants of Marcadas: only the newest capture; and any capture. *)
MarcadaNueva(c, S) ==
  [i \in DOMAIN c |-> [c[i] EXCEPT !.resuelto = @ \/ (i = 1 /\ c[i].hash \in S)]]
MarcadasTodas(c, S) == [i \in DOMAIN c |-> [c[i] EXCEPT !.resuelto = TRUE]]

Marcadas(c, S) ==
  [i \in DOMAIN c |-> [c[i] EXCEPT !.resuelto = @ \/ c[i].hash \in S]]

(* Mutant of Marcar: it also announces, before the index has the batch. *)
MarcarYAnunciar(g) ==
  /\ Ir(g, "marcar", "indexar")
  /\ capturas' = Marcadas(capturas, cos[g])
  /\ nuevos' = nuevos \cup cos[g]
  /\ UNCHANGED <<vidaVars, pend, espera, curso, sesion, cos, indice, disco,
                 metaDisco, recortados>>

Marcar(g) ==
  /\ Ir(g, "marcar", "indexar")
  /\ capturas' = Marcadas(capturas, cos[g])
  /\ UNCHANGED <<vidaVars, pend, espera, curso, sesion, cos, indice, nuevos,
                 disco, metaDisco, recortados>>

(* Mutant of Exceso: one too few. *)
ExcesoDeMenos(s) == IF Len(s) > TopeIndice THEN Len(s) - TopeIndice - 1 ELSE 0

(* Under the index lock: push what another loop has not pushed meanwhile,  *)
(* then drain the oldest entries over the cap.                             *)
Exceso(s) == IF Len(s) > TopeIndice THEN Len(s) - TopeIndice ELSE 0
Recortar(s) == SubSeq(s, Exceso(s) + 1, Len(s))

(* Mutant of Falta: the batch is not looked at again. *)
FaltaTodo(g) == cos[g]

Falta(g) == cos[g] \ Indexado

Indexar(g) ==
  /\ Ir(g, "indexar", "anunciar")
  /\ \E r \in SetToSeqs(Falta(g)) :
       LET s == indice \o r IN
       /\ indice' = Recortar(s)
       /\ recortados' = recortados \cup (Range(s) \ Range(Recortar(s)))
  /\ UNCHANGED <<vidaVars, pend, espera, curso, sesion, cos, capturas, nuevos,
                 disco, metaDisco>>

Anunciar(g) ==
  /\ Ir(g, "anunciar", "estadisticas")
  /\ nuevos' = nuevos \cup cos[g]
  /\ UNCHANGED <<vidaVars, pend, espera, curso, sesion, cos, capturas, indice,
                 disco, metaDisco, recortados>>

(* Publish the statistics (copies that no one here reads) and sleep 2 s. *)
Dormir(g) ==
  /\ Ir(g, "estadisticas", "cabeza")
  /\ cos' = [cos EXCEPT ![g] = {}]
  /\ UNCHANGED <<vidaVars, pend, espera, curso, sesion, capturas, indice,
                 nuevos, disco, metaDisco, recortados>>
-----------------------------------------------------------------------------
(***************************************************************************)
(* The tasks a loop spawned, and its rqbit session (external).             *)
(***************************************************************************)
restoTarea == <<vidaVars, pc, pend, cos, capturas, indice, nuevos, disco, recortados>>

TomarPermiso(g) ==
  /\ espera[g] # <<>>
  /\ Len(curso[g]) < MaxConc
  /\ espera' = [espera EXCEPT ![g] = Tail(@)]
  /\ curso' = [curso EXCEPT ![g] = Append(@, Head(espera[g]))]
  /\ UNCHANGED <<restoTarea, sesion, metaDisco>>

(* add_torrent puts the torrent in the session ... *)
Agregar(g, h) ==
  /\ h \in Range(curso[g])
  /\ sesion[g][h] = "no"
  /\ sesion' = [sesion EXCEPT ![g][h] = "sin"]
  /\ UNCHANGED <<restoTarea, espera, curso, metaDisco>>

(* ... which fetches its metadata, during the call or after it.            *)
Resolver(g, h) ==
  /\ sesion[g][h] = "sin"
  /\ sesion' = [sesion EXCEPT ![g][h] = "con"]
  /\ metaDisco' = metaDisco \cup {h}
  /\ UNCHANGED <<restoTarea, espera, curso>>

(* Mutant of SoltarPermiso: without RESOLVE_TIMEOUT. *)
SoltarPermisoSinTimeout(g, i) ==
  /\ i \in DOMAIN curso[g]
  /\ sesion[g][curso[g][i]] = "con"
  /\ curso' = [curso EXCEPT ![g] = RemoveAt(@, i)]
  /\ UNCHANGED <<restoTarea, espera, sesion, metaDisco>>

(* The call answers, fails, or RESOLVE_TIMEOUT cancels it. *)
SoltarPermiso(g, i) ==
  /\ i \in DOMAIN curso[g]
  /\ curso' = [curso EXCEPT ![g] = RemoveAt(@, i)]
  /\ UNCHANGED <<restoTarea, espera, sesion, metaDisco>>
-----------------------------------------------------------------------------
(* poll_nuevos: what is announced is looked up in the index and delivered. *)
PollNuevos ==
  /\ ~envenenado
  /\ nuevos # {}
  /\ nuevos' = {}
  /\ UNCHANGED <<vidaVars, pc, pend, espera, curso, sesion, cos, capturas,
                 indice, disco, metaDisco, recortados>>

NextBusca ==
  \/ Vida
  \/ \E t \in Toques : Detener(t)
  \/ GuardarAhora
  \/ PollNuevos
  \/ \E enOrden \in BOOLEAN : ReabrirBusca(enOrden)
  \/ \E g \in Gen :
       \/ AbrirSesion(g) \/ TerminarBucle(g)
       \/ EmpezarCiclo(g) \/ Descartar(g) \/ Admitir(g) \/ CanalVacio(g)
       \/ Cosechar(g) \/ Marcar(g) \/ Indexar(g) \/ Anunciar(g) \/ Dormir(g)
       \/ TomarPermiso(g)
       \/ \E h \in Hash : Agregar(g, h) \/ Resolver(g, h)
       \/ \E i \in 1 .. MaxConc : SoltarPermiso(g, i)

(* Threads and tasks are scheduled, timers fire, Session::new answers.      *)
(* Draining takes microseconds per hash and hashes arrive many orders of    *)
(* magnitude slower, so a loop finds its channel empty again and again:     *)
(* strong fairness for leaving the drain.  Nothing is assumed of the        *)
(* network: a torrent need not be added nor resolved.                       *)
EquidadBusca ==
  /\ \A t \in Toques : WF_vars(Detener(t) \/ (StopError(t) /\ UNCHANGED tuberia))
  /\ \A g \in Gen :
       /\ WF_vars(AbrirSesion(g) \/ (SesionFalla(g) /\ UNCHANGED tuberia))
       /\ WF_vars(SpiderVeStop(g) /\ UNCHANGED tuberia)
       /\ WF_vars(TerminarBucle(g))
       /\ WF_vars(EmpezarCiclo(g))
       /\ WF_vars(Descartar(g) \/ Admitir(g))
       /\ SF_vars(CanalVacio(g))
       /\ WF_vars(Cosechar(g) \/ Marcar(g) \/ Indexar(g) \/ Anunciar(g) \/ Dormir(g))
       /\ WF_vars(TomarPermiso(g))
       /\ \A i \in 1 .. MaxConc : WF_vars(SoltarPermiso(g, i))

SpecBusca == InitBusca /\ [][NextBusca]_vars
SpecBuscaJusta == SpecBusca /\ EquidadBusca
-----------------------------------------------------------------------------
(***************************************************************************)
(* Properties that hold, with any number of loops over the same index      *)
(* unless a comment says otherwise.                                        *)
(***************************************************************************)
(* No torrent is listed twice, in memory or in the cache file, although    *)
(* the check (ya_indexado) and the push of a harvest are separate steps    *)
(* and an old and a new loop may both carry the same hash between them.    *)
IndiceSinRepetidos == IsInjective(indice) /\ IsInjective(disco)

(* The three caps hold in every state, whoever inserts. *)
Topes ==
  /\ Len(indice) <= TopeIndice
  /\ Len(capturas) <= TopeCapturas
  /\ \A g \in Gen : Len(pend[g]) <= MaxMeta

(* What is announced can be delivered: poll_nuevos finds it in the index   *)
(* unless the cap dropped it.  Announcing before indexing would lose it.   *)
NuevosIndexados == nuevos \subseteq Indexado \cup recortados

(* A capture shown as resolved is in the index, was dropped by its cap, or *)
(* is in the hands of a loop that is about to index it.                    *)
ResueltoIndexado ==
  \A i \in DOMAIN capturas : capturas[i].resuelto =>
    capturas[i].hash \in Indexado \cup recortados \cup UNION {cos[g] : g \in Gen}

(* With a single loop the converse holds too: the screen never shows as    *)
(* unresolved a capture that is already in the index.                      *)
CapturaAlDia ==
  \A i \in DOMAIN capturas : capturas[i].hash \in Indexado => capturas[i].resuelto

(* A torrent that reached the cache file is never lost, through stops,     *)
(* restarts, crashes and later saves: only the cap forgets it.             *)
DiscoNoOlvida ==
  [][\A h \in Range(disco) : h \in Range(disco') \cup recortados']_vars

(* "Nunca nos quedamos colgados en un solo hash": a task that waits for a  *)
(* permit gets one, even if no torrent is ever resolved.                   *)
PermisoLlega ==
  \A g \in Gen, h \in Hash :
    h \in Range(espera[g]) ~> (h \in Range(curso[g]) \/ espera[g] = <<>>)

(* "No dependemos de seguir en pendientes": a torrent the session resolved *)
(* gets indexed while its loop runs, also after it was evicted from the    *)
(* pending table or its call timed out.                                    *)
ResueltoSeIndexa ==
  \A g \in Gen, h \in Hash :
    (sesion[g][h] = "con" /\ bucle[g] = "vivo")
      ~> (h \in Indexado \cup recortados \/ bucle[g] # "vivo")

(* The pipeline adds nothing to the life cycle and takes nothing from it:  *)
(* every step of it is a step of DhtVida, or none.                         *)
ImplementaVida == Spec

(* Seen from the screen, all the loops, sessions and crashes together are  *)
(* the store of findings that DhtHallados describes.                       *)
Hallados == INSTANCE DhtHallados WITH
  hallados <- Indexado,
  guardados <- Range(disco),
  avisos <- nuevos,
  cortados <- recortados

ImplementaHallados == Hallados!Spec
=============================================================================
