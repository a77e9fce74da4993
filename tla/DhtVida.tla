------------------------------ MODULE DhtVida ------------------------------
(***************************************************************************)
(* Life cycle of the DHT spider: the Dart singleton (lib/services/         *)
(* dht_busca.dart), the motor behind its mutex (rust/src/api/dht_busca.rs) *)
(* and the threads that start() leaves running (gt/dhtbusca/mod.rs): the   *)
(* spider thread, the mainline node with its request filter, and the       *)
(* metadata loop.  Each successful or failed start() creates a new         *)
(* generation g: a channel, and possibly a node, a spider and a loop.      *)
(* stop() joins nobody and start() resets the one stop flag all the        *)
(* generations share.                                                      *)
(*                                                                         *)
(* The metadata loop is coarse here (it drains its channel and ends);      *)
(* module DhtBusca refines it.                                             *)
(***************************************************************************)
EXTENDS Naturals, Sequences

CONSTANTS
  Hash,     \* info hashes that cross the node
  Toques,   \* concurrent callers of the Dart singleton (one per open screen)
  MaxGen,   \* bound: number of start() calls that reach the channel creation
  MaxCola,  \* bound: hashes waiting in one channel
  Fallas    \* environment failures that may happen, see FallasPosibles

(* puerto: another program holds UDP 6881.  socket: no socket can be bound. *)
(* disco: the index cannot be written.  sesion: rqbit's Session fails.      *)
FallasPosibles == {"puerto", "socket", "disco", "sesion"}

ASSUME SupuestoVida ==
  /\ MaxGen \in Nat
  /\ MaxCola \in Nat
  /\ Fallas \subseteq FallasPosibles

Gen == 1 .. MaxGen

VARIABLES
  corriendo,   \* DhtBusca._corriendo, the Dart flag
  toque,       \* per caller: the Dart call in flight
  envenenado,  \* the motor's mutex is poisoned: every call answers an error
  parar,       \* DhtBusca::stop, shared by all generations
  hilo,        \* DhtBusca::hilo_spider, 0 = None
  canal,       \* DhtBusca::canal: the generation of its sender, 0 = None
  gen,         \* generations created so far
  dht,         \* generation whose node is in DhtBusca::dht, 0 = None
  puerto,      \* UDP port of that node
  spider,      \* per generation: its spider thread
  bucle,       \* per generation: its metadata loop
  cola         \* per generation: the channel, oldest first

vidaVars == <<corriendo, toque, envenenado, parar, hilo, canal, gen, dht,
              puerto, spider, bucle, cola>>

Llamada == {"libre", "start", "stop", "start_ok", "stop_ok"}

TypeOK ==
  /\ corriendo \in BOOLEAN
  /\ toque \in [Toques -> Llamada]
  /\ envenenado \in BOOLEAN
  /\ parar \in BOOLEAN
  /\ gen \in 0 .. MaxGen
  /\ hilo \in 0 .. gen
  /\ canal \in 0 .. gen
  /\ dht \in 0 .. gen
  /\ puerto \in {"ninguno", "fijo", "efimero"}
  /\ spider \in [Gen -> {"no", "vivo", "fin"}]
  /\ bucle \in [Gen -> {"no", "sesion", "vivo", "fin", "fallo"}]
  /\ cola \in [Gen -> Seq(Hash)]

Init ==
  /\ corriendo = FALSE
  /\ toque = [t \in Toques |-> "libre"]
  /\ envenenado = FALSE
  /\ parar = FALSE
  /\ hilo = 0
  /\ canal = 0
  /\ gen = 0
  /\ dht = 0
  /\ puerto = "ninguno"
  /\ spider = [g \in Gen |-> "no"]
  /\ bucle = [g \in Gen |-> "no"]
  /\ cola = [g \in Gen |-> <<>>]
-----------------------------------------------------------------------------
(***************************************************************************)
(* The Dart singleton.                                                     *)
(***************************************************************************)
restoDart == <<envenenado, parar, hilo, canal, gen, dht, puerto, spider,
               bucle, cola>>

(* start() returns at once when _corriendo is set; that call changes nothing. *)
PedirStart(t) ==
  /\ toque[t] = "libre"
  /\ ~corriendo
  /\ toque' = [toque EXCEPT ![t] = "start"]
  /\ UNCHANGED <<corriendo, restoDart>>

PedirStop(t) ==
  /\ toque[t] = "libre"
  /\ toque' = [toque EXCEPT ![t] = "stop"]
  /\ UNCHANGED <<corriendo, restoDart>>

(* Mutant of Volver: the flag is raised whatever the answered call was. *)
VolverEncendido(t) ==
  /\ toque[t] \in {"start_ok", "stop_ok"}
  /\ corriendo' = TRUE
  /\ toque' = [toque EXCEPT ![t] = "libre"]
  /\ UNCHANGED restoDart

(* The continuation after a successful await. *)
Volver(t) ==
  /\ toque[t] \in {"start_ok", "stop_ok"}
  /\ corriendo' = (toque[t] = "start_ok")
  /\ toque' = [toque EXCEPT ![t] = "libre"]
  /\ UNCHANGED restoDart

(* con_mut: a poisoned mutex, start() on a running spider and stop() on a *)
(* stopped one answer an error, which leaves _corriendo as it was.        *)
Rechazo(t) ==
  /\ \/ toque[t] = "start" /\ (envenenado \/ hilo # 0)
     \/ toque[t] = "stop" /\ (envenenado \/ hilo = 0)
  /\ toque' = [toque EXCEPT ![t] = "libre"]
  /\ UNCHANGED <<corriendo, restoDart>>
-----------------------------------------------------------------------------
(***************************************************************************)
(* DhtBusca::start, run under the motor's mutex.                           *)
(***************************************************************************)
PuedeAbrir(t) ==
  /\ toque[t] = "start"
  /\ ~envenenado
  /\ hilo = 0
  /\ gen < MaxGen

(* Mutant of AbrirCanal: without lowering the stop flag. *)
AbrirCanalSinBajar(t) ==
  PuedeAbrir(t) /\ gen' = gen + 1 /\ canal' = gen + 1 /\ UNCHANGED parar

(* What every start does once it is past its guards. *)
AbrirCanal(t) ==
  PuedeAbrir(t) /\ gen' = gen + 1 /\ canal' = gen + 1 /\ parar' = FALSE

(* The node of the previous generation is dropped only when the new one    *)
(* replaces it: while it holds 6881 the first build cannot bind.           *)
PrimerBindFalla == puerto = "fijo" \/ "puerto" \in Fallas
PuertosObtenibles ==
  IF puerto = "fijo" THEN {"efimero"}
  ELSE {"fijo"} \cup (IF "puerto" \in Fallas THEN {"efimero"} ELSE {})

StartOk(t) ==
  /\ AbrirCanal(t)
  /\ hilo' = gen + 1
  /\ dht' = gen + 1
  /\ puerto' \in PuertosObtenibles
  /\ spider' = [spider EXCEPT ![gen + 1] = "vivo"]
  /\ bucle' = [bucle EXCEPT ![gen + 1] = "sesion"]
  /\ toque' = [toque EXCEPT ![t] = "start_ok"]
  /\ UNCHANGED <<corriendo, envenenado, cola>>

(* Both builds answer an error: the channel stays open, without receiver. *)
StartError(t) ==
  /\ "socket" \in Fallas
  /\ AbrirCanal(t)
  /\ toque' = [toque EXCEPT ![t] = "libre"]
  /\ UNCHANGED <<corriendo, envenenado, hilo, dht, puerto, spider, bucle,
                 cola>>

(* Dht::new: the actor thread that fails to bind looks for the Check       *)
(* message once and ends.  When it looks before the message is sent, the   *)
(* caller panics on the closed channel with the motor's mutex held.        *)
StartPanico(t) ==
  /\ PrimerBindFalla \/ "socket" \in Fallas
  /\ AbrirCanal(t)
  /\ envenenado' = TRUE
  /\ toque' = [toque EXCEPT ![t] = "libre"]
  /\ UNCHANGED <<corriendo, hilo, dht, puerto, spider, bucle, cola>>
-----------------------------------------------------------------------------
(***************************************************************************)
(* DhtBusca::stop.  The index is written after the flag and the channel    *)
(* are changed and before hilo_spider is cleared.                          *)
(***************************************************************************)
CerrarCanal(t) ==
  /\ toque[t] = "stop"
  /\ ~envenenado
  /\ hilo # 0
  /\ parar' = TRUE
  /\ canal' = 0
  /\ UNCHANGED <<corriendo, envenenado, gen, dht, puerto, spider, bucle,
                 cola>>

StopOk(t) ==
  /\ CerrarCanal(t)
  /\ hilo' = 0
  /\ toque' = [toque EXCEPT ![t] = "stop_ok"]

StopError(t) ==
  /\ "disco" \in Fallas
  /\ CerrarCanal(t)
  /\ hilo' = hilo
  /\ toque' = [toque EXCEPT ![t] = "libre"]
-----------------------------------------------------------------------------
(***************************************************************************)
(* Senders.  A hash sent to a channel whose receiver is gone is dropped.   *)
(***************************************************************************)
Recibe(g) == bucle[g] \in {"sesion", "vivo"}

Encolar(g, h) ==
  IF Recibe(g)
  THEN Len(cola[g]) < MaxCola /\ cola' = [cola EXCEPT ![g] = Append(@, h)]
  ELSE UNCHANGED cola

restoEnvio == <<corriendo, toque, envenenado, parar, hilo, canal, gen, dht,
                puerto, spider, bucle>>

(* FiltroAtrapador: the node keeps serving, and capturing, after stop(). *)
Filtrar(h) ==
  /\ dht # 0
  /\ Encolar(dht, h)
  /\ UNCHANGED restoEnvio

(* The random probe of the active mode: sends to its own generation. *)
Sondear(g, h) ==
  /\ spider[g] = "vivo"
  /\ Encolar(g, h)
  /\ UNCHANGED restoEnvio

(* probar(): reports success whatever happens to the hash. *)
Probar(h) ==
  /\ ~envenenado
  /\ canal # 0
  /\ Encolar(canal, h)
  /\ UNCHANGED restoEnvio
-----------------------------------------------------------------------------
(***************************************************************************)
(* The threads of generation g.                                            *)
(***************************************************************************)
restoHilo == <<corriendo, toque, envenenado, parar, hilo, canal, gen, dht,
               puerto>>

SpiderVeStop(g) ==
  /\ spider[g] = "vivo"
  /\ parar
  /\ spider' = [spider EXCEPT ![g] = "fin"]
  /\ UNCHANGED <<restoHilo, bucle, cola>>

SesionLista(g) ==
  /\ bucle[g] = "sesion"
  /\ bucle' = [bucle EXCEPT ![g] = "vivo"]
  /\ UNCHANGED <<restoHilo, spider, cola>>

(* The receiver is dropped with the loop, and its hashes with it. *)
Terminar(g) ==
  /\ bucle' = [bucle EXCEPT ![g] = "fin"]
  /\ cola' = [cola EXCEPT ![g] = <<>>]
  /\ UNCHANGED <<restoHilo, spider>>

SesionFalla(g) ==
  /\ "sesion" \in Fallas
  /\ bucle[g] = "sesion"
  /\ bucle' = [bucle EXCEPT ![g] = "fallo"]
  /\ cola' = [cola EXCEPT ![g] = <<>>]
  /\ UNCHANGED <<restoHilo, spider>>

(* Mutant of BucleVeStop: only the loop that has the motor's sender. *)
BucleVeStopPropio(g) == bucle[g] = "vivo" /\ parar /\ canal = g /\ Terminar(g)

BucleVeStop(g) ==
  /\ bucle[g] = "vivo"
  /\ parar
  /\ Terminar(g)

(* try_recv answers Disconnected: the queue is empty and no sender is left *)
(* (DhtBusca::canal, the filter inside the node, the spider's closure).    *)
SinEmisor(g) == canal # g /\ dht # g /\ spider[g] # "vivo"

(* Mutants of Desconectado: an empty channel taken for a disconnected one; *)
(* and a loop that leaves only when it is told to stop.                    *)
DesconectadoVacio(g) == bucle[g] = "vivo" /\ cola[g] = <<>> /\ Terminar(g)

DesconectadoConStop(g) ==
  bucle[g] = "vivo" /\ parar /\ cola[g] = <<>> /\ SinEmisor(g) /\ Terminar(g)

Desconectado(g) ==
  /\ bucle[g] = "vivo"
  /\ cola[g] = <<>>
  /\ SinEmisor(g)
  /\ Terminar(g)

Sacar(g) ==
  /\ bucle[g] = "vivo"
  /\ cola[g] # <<>>
  /\ cola' = [cola EXCEPT ![g] = Tail(@)]
  /\ UNCHANGED <<restoHilo, spider, bucle>>

(* The process dies (or is closed) and the app is opened again. *)
Reabrir ==
  /\ corriendo' = FALSE
  /\ toque' = [t \in Toques |-> "libre"]
  /\ envenenado' = FALSE
  /\ parar' = FALSE
  /\ hilo' = 0
  /\ canal' = 0
  /\ dht' = 0
  /\ puerto' = "ninguno"
  /\ spider' = [g \in Gen |-> "no"]
  /\ bucle' = [g \in Gen |-> "no"]
  /\ cola' = [g \in Gen |-> <<>>]
  /\ UNCHANGED gen
-----------------------------------------------------------------------------
Next ==
  \/ \E t \in Toques :
       \/ PedirStart(t) \/ PedirStop(t) \/ Volver(t) \/ Rechazo(t)
       \/ StartOk(t) \/ StartError(t) \/ StartPanico(t)
       \/ StopOk(t) \/ StopError(t)
  \/ \E h \in Hash : Filtrar(h) \/ Probar(h)
  \/ \E g \in Gen, h \in Hash : Sondear(g, h)
  \/ \E g \in Gen :
       \/ SpiderVeStop(g) \/ SesionLista(g) \/ SesionFalla(g)
       \/ BucleVeStop(g) \/ Desconectado(g) \/ Sacar(g)
  \/ Reabrir

(* Threads are scheduled, awaits return, and rqbit's Session::new answers. *)
Equidad ==
  /\ \A t \in Toques :
       /\ WF_vidaVars(Volver(t))
       /\ WF_vidaVars(Rechazo(t))
       /\ WF_vidaVars(StartOk(t) \/ StartError(t) \/ StartPanico(t))
       /\ WF_vidaVars(StopOk(t) \/ StopError(t))
  /\ \A g \in Gen :
       /\ WF_vidaVars(SpiderVeStop(g))
       /\ WF_vidaVars(SesionLista(g) \/ SesionFalla(g))
       /\ WF_vidaVars(BucleVeStop(g))
       /\ WF_vidaVars(Desconectado(g))
       /\ WF_vidaVars(Sacar(g))

Spec == Init /\ [][Next]_vidaVars
SpecJusta == Spec /\ Equidad
-----------------------------------------------------------------------------
(***************************************************************************)
(* Properties that hold.                                                   *)
(***************************************************************************)
(* While hilo_spider is set, the node and the open channel are those of    *)
(* that same start, and the stop flag is up exactly when the channel was   *)
(* closed by a stop() that could not write the index.                      *)
MotorCoherente ==
  hilo # 0 => /\ dht = hilo
              /\ canal \in {0, hilo}
              /\ parar <=> canal = 0

(* A spider that was started and not stopped is really there: its thread   *)
(* runs, and its metadata loop is gone only if rqbit's Session failed.  No *)
(* flag of an earlier or later generation can take them down.              *)
EnMarcha ==
  hilo # 0 /\ ~parar =>
    /\ spider[hilo] = "vivo"
    /\ Recibe(hilo) \/ bucle[hilo] = "fallo"

(* With one caller at a time, whenever no call is in flight the Dart flag   *)
(* and the motor agree on whether there is a spider to stop, also after    *)
(* failed starts, failed stops and panics: the flag is written by the      *)
(* continuation of a call, after others may have answered.                 *)
EnReposo == \A t \in Toques : toque[t] = "libre"
CorriendoFiel == EnReposo => (corriendo <=> hilo # 0)

(* stop() joins nobody, but once the flag stays up every spider thread and *)
(* every metadata loop of every generation ends, whatever state it was in. *)
TodoParaAlFin ==
  <>[]parar => <>[](\A g \in Gen : spider[g] # "vivo" /\ ~Recibe(g))

(* A metadata loop that outlives its own stop() because the next start()   *)
(* lowered the flag does not stay forever: without its spider it drains    *)
(* what is left in its channel and ends on the disconnected channel.       *)
BucleViejoTermina ==
  \A g \in Gen :
    (bucle[g] = "vivo" /\ g < dht /\ spider[g] # "vivo") ~> bucle[g] # "vivo"
-----------------------------------------------------------------------------
(***************************************************************************)
(* What comments and messages of the code say and the code does not do.    *)
(***************************************************************************)
(* Dht::new: "Could return an error if it failed to bind": an error is     *)
(* what the caller handles; the motor stays usable.                        *)
SinPanico == ~envenenado
=============================================================================
