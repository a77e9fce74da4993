-------------------------------- MODULE Tor --------------------------------
(***************************************************************************)
(* The embedded Tor client: the Dart singleton TorService                  *)
(* (lib/services/tor_service.dart), the statics behind it in               *)
(* rust/src/api/tor.rs (CLIENT, ESTADO, PROXY_PUERTO, the warm-up threads  *)
(* and the tunnel threads) and the browser's Tor switch                    *)
(* (lib/browser/browser_host.dart, _cambiarTor).                           *)
(*                                                                         *)
(* A context is one call in flight: a Tor screen's button or the browser   *)
(* menu.  Between two awaits a context runs alone on the Dart thread; each *)
(* await of a Rust function is a step of its own, and a Rust function that *)
(* touches two statics takes one step for each, because nothing locks them *)
(* together.                                                               *)
(***************************************************************************)
EXTENDS Naturals

CONSTANTS
  Pantallas,  \* calls that Tor screens can have in flight
  Nav,        \* the browser menu: one host, guarded by its _torBusy
  MaxCli,     \* bound: bootstraps that succeed
  MaxTun,     \* bound: tunnels that can be bound
  Fallas      \* environment failures: "tunel" a tunnel ends, "override" the
              \* WebView refuses the proxy

ASSUME SupuestoTor ==
  /\ Nav \notin Pantallas
  /\ MaxCli \in Nat
  /\ MaxTun \in Nat
  /\ Fallas \subseteq {"tunel", "override"}

Ctx == Pantallas \cup {Nav}

VARIABLES
  estado,    \* ESTADO: 0 off, 1 bootstrap, 2 warming up, 3 ready
  cliente,   \* CLIENT: which client, 0 = None
  creados,   \* clients created so far
  calor,     \* per client: its warm-up thread
  puerto,    \* PROXY_PUERTO: which tunnel, 0 = none
  tuneles,   \* tunnels created so far
  vivo,      \* per tunnel: its arti task serves the port
  busy,      \* TorService._busy
  running,   \* TorService._running
  proxyHP,   \* TorService._proxyHostPort: which tunnel, 0 = empty
  pc,        \* per context: what its call does next
  vuelve,    \* per context: where it goes on after its refresh() ("libre" when dead)
  lee,       \* per context: the answer of torIsRunning not yet stored
  hp,        \* the port that startProxy() answered to the browser (0 when dead)
  override,  \* the proxy the WebView uses: a tunnel, 0 = direct
  cruzado    \* history: the last refresh to read did so beside another one

rust == <<estado, cliente, creados, calor, puerto, tuneles, vivo>>
dart == <<busy, running, proxyHP, hp, override>>
vars == <<rust, dart, pc, vuelve, lee, cruzado>>

Corre == cliente # 0 /\ estado # 0

(* Contexts that hold _busy. *)
Ocupado == {"arrancar", "arrancarE", "boot", "marcar", "reboot", "rebota", "contesta"}
(* Contexts that have a torIsRunning still to ask. *)
PorLeer == Ocupado \cup {"quitar", "apagar", "soltar", "leer", "otra"}
(* Contexts whose torIsRunning has begun and is not stored yet. *)
Leyendo == {"leerE", "leido"}
Pcs == PorLeer \cup Leyendo \cup {"libre", "leerP", "decide", "comprueba", "atar",
                                  "poner", "override", "limpiar", "quitarN"}

(* The mutex of CLIENT: a re-bootstrap holds it while it waits for the network. *)
MutexLibre == \A c \in Ctx : pc[c] # "rebota"

TipoRust ==
  /\ estado \in 0 .. 3
  /\ creados \in 0 .. MaxCli
  /\ cliente \in 0 .. creados
  /\ calor \in [1 .. MaxCli -> {"no", "mira", "pide", "get", "fin"}]
  /\ tuneles \in 0 .. MaxTun
  /\ puerto \in 0 .. tuneles
  /\ vivo \in [1 .. MaxTun -> BOOLEAN]

TipoDart ==
  /\ busy \in BOOLEAN
  /\ running \in BOOLEAN
  /\ {proxyHP, hp, override} \subseteq 0 .. tuneles

TipoLlamadas ==
  /\ pc \in [Ctx -> Pcs]
  /\ vuelve \in [Ctx -> {"libre", "decide", "otra", "comprueba"}]
  /\ lee \in [Ctx -> BOOLEAN]
  /\ cruzado \in BOOLEAN

TypeOK == TipoRust /\ TipoDart /\ TipoLlamadas

Init ==
  /\ estado = 0 /\ cliente = 0 /\ creados = 0
  /\ calor = [g \in 1 .. MaxCli |-> "no"]
  /\ puerto = 0 /\ tuneles = 0
  /\ vivo = [k \in 1 .. MaxTun |-> FALSE]
  /\ busy = FALSE /\ running = FALSE /\ proxyHP = 0
  /\ pc = [c \in Ctx |-> "libre"]
  /\ vuelve = [c \in Ctx |-> "libre"]
  /\ lee = [c \in Ctx |-> FALSE]
  /\ hp = 0 /\ override = 0
  /\ cruzado = FALSE

(* Context c goes from step a to step b. *)
Va(c, a, b) ==
  /\ pc[c] = a
  /\ pc' = [pc EXCEPT ![c] = b]

(* Context c ends step a and calls refresh(), after which it goes on at b. *)
Refresca(c, a, b) ==
  /\ Va(c, a, "leer")
  /\ vuelve' = [vuelve EXCEPT ![c] = b]
-----------------------------------------------------------------------------
(***************************************************************************)
(* refresh(): ask torIsRunning (it reads CLIENT, then ESTADO), store the   *)
(* answer, then ask for the proxy port and store it.  The answer is stored *)
(* by a later Dart event: two refreshes can store theirs in either order.  *)
(***************************************************************************)
PedirRefresh(c) ==
  /\ c \in Pantallas
  /\ Refresca(c, "libre", "libre")
  /\ UNCHANGED <<rust, dart, lee, cruzado>>

Leer(c) ==
  /\ MutexLibre
  /\ \/ cliente = 0 /\ Va(c, "leer", "leido")
     \/ cliente # 0 /\ Va(c, "leer", "leerE")
  /\ lee' = [lee EXCEPT ![c] = FALSE]
  /\ cruzado' = (\E d \in Ctx \ {c} : pc[d] \in Leyendo)
  /\ UNCHANGED <<rust, dart, vuelve>>

LeerEstado(c) ==
  /\ Va(c, "leerE", "leido")
  /\ lee' = [lee EXCEPT ![c] = estado # 0]
  /\ UNCHANGED <<rust, dart, vuelve, cruzado>>

GuardarRunning(c) ==
  /\ Va(c, "leido", "leerP")
  /\ running' = lee[c]
  /\ lee' = [lee EXCEPT ![c] = FALSE]
  /\ UNCHANGED <<rust, busy, proxyHP, hp, override, vuelve, cruzado>>

GuardarPuerto(c) ==
  /\ Va(c, "leerP", vuelve[c])
  /\ proxyHP' = puerto
  /\ vuelve' = [vuelve EXCEPT ![c] = "libre"]
  /\ UNCHANGED <<rust, busy, running, hp, override, lee, cruzado>>
-----------------------------------------------------------------------------
(***************************************************************************)
(* start().                                                                *)
(***************************************************************************)
(* Mutant of PedirStart: the button forgets _busy. *)
PedirStartSinBusy(c) ==
  /\ c \in Pantallas
  /\ ~running
  /\ Va(c, "libre", "arrancar")
  /\ busy' = TRUE
  /\ vuelve' = [vuelve EXCEPT ![c] = "libre"]
  /\ UNCHANGED <<rust, running, proxyHP, hp, override, lee, cruzado>>

PedirStart(c) ==
  /\ c \in Pantallas
  /\ ~busy /\ ~running
  /\ Va(c, "libre", "arrancar")
  /\ busy' = TRUE
  /\ vuelve' = [vuelve EXCEPT ![c] = "libre"]
  /\ UNCHANGED <<rust, running, proxyHP, hp, override, lee, cruzado>>

(* The application's directory is not available: tor_start is not called. *)
SinCarpeta(c) ==
  /\ Va(c, "arrancar", "contesta")
  /\ UNCHANGED <<rust, dart, vuelve, lee, cruzado>>

(* tor_start asks tor_is_running first: CLIENT, then ESTADO. *)
MirarCliente(c) ==
  /\ MutexLibre
  /\ \/ cliente = 0 /\ estado' = 1 /\ Va(c, "arrancar", "boot")
     \/ cliente # 0 /\ UNCHANGED estado /\ Va(c, "arrancar", "arrancarE")
  /\ UNCHANGED <<cliente, creados, calor, puerto, tuneles, vivo, dart, vuelve, lee, cruzado>>

MirarEstado(c) ==
  /\ \/ estado # 0 /\ UNCHANGED estado /\ Va(c, "arrancarE", "contesta")
     \/ estado = 0 /\ estado' = 1 /\ Va(c, "arrancarE", "boot")
  /\ UNCHANGED <<cliente, creados, calor, puerto, tuneles, vivo, dart, vuelve, lee, cruzado>>

(* A failed bootstrap answers an error and leaves ESTADO at 1. *)
BootFalla(c) ==
  /\ Va(c, "boot", "contesta")
  /\ UNCHANGED <<rust, dart, vuelve, lee, cruzado>>

BootOk(c) ==
  /\ MutexLibre
  /\ creados < MaxCli
  /\ Va(c, "boot", "marcar")
  /\ creados' = creados + 1
  /\ cliente' = creados + 1
  /\ UNCHANGED <<estado, calor, puerto, tuneles, vivo, dart, vuelve, lee, cruzado>>

(* Mutant of Marcar: a compare-and-swap from 1. *)
MarcarSiSigue(c) ==
  /\ Va(c, "marcar", "contesta")
  /\ estado' = IF estado = 1 THEN 2 ELSE estado
  /\ calor' = [calor EXCEPT ![creados] = "mira"]
  /\ UNCHANGED <<cliente, creados, puerto, tuneles, vivo, dart, vuelve, lee, cruzado>>

(* ESTADO goes to 2 whatever a stop() did meanwhile; the warm-up starts. *)
Marcar(c) ==
  /\ Va(c, "marcar", "contesta")
  /\ estado' = 2
  /\ calor' = [calor EXCEPT ![creados] = "mira"]
  /\ UNCHANGED <<cliente, creados, puerto, tuneles, vivo, dart, vuelve, lee, cruzado>>

(* Mutant of Contesta: the finally without its refresh(). *)
ContestaSinRefrescar(c) ==
  /\ Va(c, "contesta", vuelve[c])
  /\ busy' = FALSE
  /\ UNCHANGED <<rust, running, proxyHP, hp, override, vuelve, lee, cruzado>>

(* The finally of start() and rebootstrap(). *)
Contesta(c) ==
  /\ Va(c, "contesta", "leer")
  /\ busy' = FALSE
  /\ UNCHANGED <<rust, running, proxyHP, hp, override, vuelve, lee, cruzado>>
-----------------------------------------------------------------------------
(***************************************************************************)
(* The warm-up thread of client g: while ESTADO is 2, one GET after        *)
(* another until one is answered.  It writes ESTADO without a second look. *)
(***************************************************************************)
Calienta(g) ==
  /\ calor[g] = "mira"
  /\ calor' = [calor EXCEPT ![g] = IF estado = 2 THEN "pide" ELSE "fin"]
  /\ UNCHANGED <<estado, cliente, creados, puerto, tuneles, vivo, dart, pc, vuelve, lee, cruzado>>

(* agente() takes the client out of CLIENT; without one the GET fails. *)
TomarAgente(g) ==
  /\ calor[g] = "pide"
  /\ MutexLibre
  /\ calor' = [calor EXCEPT ![g] = IF cliente = 0 THEN "mira" ELSE "get"]
  /\ UNCHANGED <<estado, cliente, creados, puerto, tuneles, vivo, dart, pc, vuelve, lee, cruzado>>

GetFalla(g) ==
  /\ calor[g] = "get"
  /\ calor' = [calor EXCEPT ![g] = "mira"]
  /\ UNCHANGED <<estado, cliente, creados, puerto, tuneles, vivo, dart, pc, vuelve, lee, cruzado>>

GetOk(g) ==
  /\ calor[g] = "get"
  /\ calor' = [calor EXCEPT ![g] = "fin"]
  /\ estado' = 3
  /\ UNCHANGED <<cliente, creados, puerto, tuneles, vivo, dart, pc, vuelve, lee, cruzado>>
-----------------------------------------------------------------------------
(***************************************************************************)
(* stop(): it takes no _busy, so it can overlap a start() and another      *)
(* stop().  tor_proxy_stop changes nothing the program reads; the port is  *)
(* not reset.                                                              *)
(***************************************************************************)
PedirStop(c) ==
  /\ c \in Pantallas
  /\ ~busy /\ running
  /\ Va(c, "libre", "quitar")
  /\ vuelve' = [vuelve EXCEPT ![c] = "libre"]
  /\ UNCHANGED <<rust, dart, lee, cruzado>>

QuitarProxy(c) ==
  /\ Va(c, "quitar", "apagar")
  /\ proxyHP' = 0
  /\ UNCHANGED <<rust, busy, running, hp, override, vuelve, lee, cruzado>>

Apagar(c) ==
  /\ Va(c, "apagar", "soltar")
  /\ estado' = 0
  /\ UNCHANGED <<cliente, creados, calor, puerto, tuneles, vivo, dart, vuelve, lee, cruzado>>

Soltar(c) ==
  /\ MutexLibre
  /\ Va(c, "soltar", "leer")
  /\ cliente' = 0
  /\ UNCHANGED <<estado, creados, calor, puerto, tuneles, vivo, dart, vuelve, lee, cruzado>>
-----------------------------------------------------------------------------
(***************************************************************************)
(* rebootstrap(): from a Tor screen, from the browser menu, or from the    *)
(* retry of a GET, which asks for it whatever became of the client.        *)
(***************************************************************************)
PedirRebootstrap(c) ==
  /\ ~busy
  /\ Va(c, "libre", "reboot")
  /\ busy' = TRUE
  /\ vuelve' = [vuelve EXCEPT ![c] = "libre"]
  /\ UNCHANGED <<rust, running, proxyHP, hp, override, lee, cruzado>>

(* Mutant of TomarMutex: without a client it waits for one. *)
TomarMutexEspera(c) ==
  /\ MutexLibre
  /\ cliente # 0
  /\ Va(c, "reboot", "rebota")
  /\ UNCHANGED <<rust, dart, vuelve, lee, cruzado>>

(* Without a client it answers an error; with one it keeps the mutex. *)
TomarMutex(c) ==
  /\ MutexLibre
  /\ \/ cliente = 0 /\ Va(c, "reboot", "contesta")
     \/ cliente # 0 /\ Va(c, "reboot", "rebota")
  /\ UNCHANGED <<rust, dart, vuelve, lee, cruzado>>

Rebota(c) ==
  /\ Va(c, "rebota", "contesta")
  /\ UNCHANGED <<rust, dart, vuelve, lee, cruzado>>
-----------------------------------------------------------------------------
(***************************************************************************)
(* The browser's Tor switch, _cambiarTor().                                *)
(***************************************************************************)
NavEncender ==
  /\ proxyHP = 0
  /\ Refresca(Nav, "libre", "decide")
  /\ UNCHANGED <<rust, dart, lee, cruzado>>

(* start() returns at once when another call is busy. *)
NavDecide ==
  /\ \/ /\ running
        /\ Va(Nav, "decide", "atar")
        /\ UNCHANGED <<busy, vuelve>>
     \/ /\ ~running /\ busy
        /\ Refresca(Nav, "decide", "comprueba")
        /\ UNCHANGED busy
     \/ /\ ~running /\ ~busy
        /\ Va(Nav, "decide", "arrancar")
        /\ busy' = TRUE
        /\ vuelve' = [vuelve EXCEPT ![Nav] = "otra"]
  /\ UNCHANGED <<rust, running, proxyHP, hp, override, lee, cruzado>>

NavOtra ==
  /\ Refresca(Nav, "otra", "comprueba")
  /\ UNCHANGED <<rust, dart, lee, cruzado>>

NavComprueba ==
  /\ Va(Nav, "comprueba", IF running THEN "atar" ELSE "libre")
  /\ UNCHANGED <<rust, dart, vuelve, lee, cruzado>>

(* tor_proxy_start: an error without a client; the port it already has; or *)
(* a new tunnel, whose task serves until arti ends it.                     *)
AtarNada ==
  /\ MutexLibre
  /\ cliente = 0 \/ (puerto = 0 /\ tuneles = MaxTun)
  /\ Va(Nav, "atar", "libre")
  /\ UNCHANGED <<rust, dart, vuelve, lee, cruzado>>

AtarMismo ==
  /\ MutexLibre
  /\ cliente # 0 /\ puerto # 0
  /\ Va(Nav, "atar", "poner")
  /\ hp' = puerto
  /\ UNCHANGED <<rust, busy, running, proxyHP, override, vuelve, lee, cruzado>>

(* Mutant of AtarNuevo: a new tunnel even when the port is in use. *)
AtarSiempre ==
  /\ MutexLibre
  /\ cliente # 0 /\ tuneles < MaxTun
  /\ Va(Nav, "atar", "poner")
  /\ tuneles' = tuneles + 1
  /\ puerto' = tuneles + 1
  /\ vivo' = [vivo EXCEPT ![tuneles + 1] = TRUE]
  /\ hp' = tuneles + 1
  /\ UNCHANGED <<estado, cliente, creados, calor, busy, running, proxyHP, override, vuelve, lee, cruzado>>

AtarNuevo ==
  /\ MutexLibre
  /\ cliente # 0 /\ puerto = 0 /\ tuneles < MaxTun
  /\ Va(Nav, "atar", "poner")
  /\ tuneles' = tuneles + 1
  /\ puerto' = tuneles + 1
  /\ vivo' = [vivo EXCEPT ![tuneles + 1] = TRUE]
  /\ hp' = tuneles + 1
  /\ UNCHANGED <<estado, cliente, creados, calor, busy, running, proxyHP, override, vuelve, lee, cruzado>>

NavPoner ==
  /\ Va(Nav, "poner", "override")
  /\ proxyHP' = hp
  /\ UNCHANGED <<rust, busy, running, hp, override, vuelve, lee, cruzado>>

NavOverride ==
  /\ Va(Nav, "override", "libre")
  /\ \/ override' = hp
     \/ "override" \in Fallas /\ UNCHANGED override
  /\ hp' = 0
  /\ UNCHANGED <<rust, busy, running, proxyHP, vuelve, lee, cruzado>>

NavApagar ==
  /\ proxyHP # 0
  /\ Va(Nav, "libre", "limpiar")
  /\ UNCHANGED <<rust, dart, vuelve, lee, cruzado>>

(* The answer of setProxy(false) is not looked at. *)
NavLimpiar ==
  /\ Va(Nav, "limpiar", "quitarN")
  /\ \/ override' = 0
     \/ "override" \in Fallas /\ UNCHANGED override
  /\ UNCHANGED <<rust, busy, running, proxyHP, hp, vuelve, lee, cruzado>>

NavQuitar ==
  /\ Va(Nav, "quitarN", "libre")
  /\ proxyHP' = 0
  /\ UNCHANGED <<rust, busy, running, hp, override, vuelve, lee, cruzado>>

(* run_proxy_with_listeners returns: the thread resets the port. *)
TunelCae(k) ==
  /\ "tunel" \in Fallas
  /\ vivo[k]
  /\ vivo' = [vivo EXCEPT ![k] = FALSE]
  /\ puerto' = 0
  /\ UNCHANGED <<estado, cliente, creados, calor, tuneles, dart, pc, vuelve, lee, cruzado>>
-----------------------------------------------------------------------------
(* Steps that answer a call already in flight. *)
Sigue(c) ==
  \/ Leer(c) \/ LeerEstado(c) \/ GuardarRunning(c) \/ GuardarPuerto(c)
  \/ SinCarpeta(c) \/ MirarCliente(c) \/ MirarEstado(c) \/ BootFalla(c) \/ BootOk(c)
  \/ Marcar(c) \/ Contesta(c)
  \/ QuitarProxy(c) \/ Apagar(c) \/ Soltar(c)
  \/ TomarMutex(c) \/ Rebota(c)

SigueNav ==
  \/ NavDecide \/ NavOtra \/ NavComprueba
  \/ AtarNada \/ AtarMismo \/ AtarNuevo
  \/ NavPoner \/ NavOverride \/ NavLimpiar \/ NavQuitar

Pide(c) == PedirRefresh(c) \/ PedirStart(c) \/ PedirStop(c) \/ PedirRebootstrap(c)

Warmup(g) == Calienta(g) \/ TomarAgente(g) \/ GetFalla(g) \/ GetOk(g)

Next ==
  \/ \E c \in Ctx : Pide(c) \/ Sigue(c)
  \/ NavEncender \/ NavApagar \/ SigueNav
  \/ \E g \in 1 .. MaxCli : Warmup(g)
  \/ \E k \in 1 .. MaxTun : TunelCae(k)

Spec == Init /\ [][Next]_vars

(* A call in flight is answered: the Rust worker and the Dart event loop   *)
(* keep running, and a bootstrap ends one way or the other.                *)
SpecJusta == Spec /\ \A c \in Ctx : WF_vars(Sigue(c))
-----------------------------------------------------------------------------
(* _busy is set exactly while one call is starting or re-bootstrapping:    *)
(* TorService.start and rebootstrap never overlap, whoever calls them, and *)
(* the browser's start never leaves the flag behind.                       *)
UnArranque ==
  /\ busy <=> \E c \in Ctx : pc[c] \in Ocupado
  /\ \A c, d \in Ctx : pc[c] \in Ocupado /\ pc[d] \in Ocupado => c = d

(* tor_proxy_start is idempotent: at most one tunnel serves, and it is the *)
(* one PROXY_PUERTO names, through stops, restarts and tunnels that end.   *)
UnTunel == \A k \in 1 .. MaxTun : vivo[k] <=> k = puerto

(* tor_stop against tor_start: however they overlap, once both are done a  *)
(* client is never left behind with ESTADO off.                            *)
ParadoSuelta ==
  estado = 0 /\ cliente # 0 => \E c \in Ctx : pc[c] \in {"soltar", "marcar"}

(* refresh(): when no call is in flight, what the screens show is what     *)
(* Rust would answer, unless the last refreshes crossed each other.        *)
RunningAlDia ==
  ~cruzado /\ (\A c \in Ctx : pc[c] \notin PorLeer \cup Leyendo) => (running <=> Corre)

(* The start and re-bootstrap buttons come back: _busy is always released, *)
(* also when stop() waits for the mutex of CLIENT.                         *)
BusyTermina == busy ~> ~busy
=============================================================================
