# Formal model of mimapp

TLA+ modules, TLC configurations and TLAPS proofs for the parts of mimapp (a
Flutter application over a Rust library, `rust/src`, with a vendored DHT crate,
`rust/mainline`) whose correctness depends on the order in which threads,
awaits, messages and failures meet. Paths below are relative to the repository
root; `mod.rs` is `rust/src/gt/dhtbusca/mod.rs` and `rpc.rs`, `dht.rs`, ... are
those of `rust/mainline/src`.

Check a run with `tlc -workers 2 -config <cfg> <module>` and a proof with
`tlapm <module>.tla`, both from this directory.

## 1. Inventory

### Components, their state and their operations

| Component | Code | State | Operations that change it |
|---|---|---|---|
| DHT spider | `mod.rs`, `rust/src/api/dht_busca.rs`, `lib/services/dht_busca.dart` | stop flag, thread handle, channel sender, node, captures, index, announcements, `dhtbusca.json`; per metadata loop a pending table, a semaphore and a torrent session; the Dart flag `_corriendo` | start, stop, probar, request filter, DHT sampling, harvest, save, poll |
| Mainline node | `rust/mainline/src` | routing table and own address; lookups, stores, cache, requests in flight; the senders of waiting callers; tokens, peers and values it serves | answer, maintenance, get, put, actor round, handle request |
| Tor | `rust/src/api/tor.rs`, `lib/services/tor_service.dart`, the switch of `lib/browser/browser_host.dart` | `CLIENT`, `ESTADO`, `PROXY_PUERTO`; Dart copies `_busy`, `_running`, `_proxyHostPort`; the WebView's proxy override | start, stop, re-bootstrap, refresh, warm-up, tunnel, switch on/off |
| Iroh chat and transfers | `rust/src/gt/irohp2p.rs`, `rust/src/api/iroh_p2p.rs` | endpoint, blob store, senders and lines read of the chat; per connection a writer and a reader task | start, offer, download, dial, accept, send, read, six-hour timer, stop, drop |
| Nostr | `rust/src/gt/nostr*`, `rust/src/gt/nostrn/`, `rust/src/api/nostr*` | per chat a client, its relays, subscription, receiver; the account file; what relays hold | connect, subscribe, send, poll, publish, follow, query, save and load the account |
| Downloads | `lib/services/download_manager.dart` | list of tasks, one HTTP client per task | start, chunk, cancel, fail |
| Preview RAM cache | `lib/modo_sql/test_screen.dart` | previews of the open mould, byte counter, stash of three moulds | open, load, close, delete |
| Disk caches of the SQL mode | `lib/modo_sql/cache/` | per-mould files with LRU touches | get, put, trim, migrate |
| Index and Hugging Face bridge | `lib/modo_sql/indice/indice.dart`, `lib/modo_sql/puente_hf.dart` | `indice.json`, remote repository | read-modify-write, upload, migrate |
| Colab keep-alive, Android service | `lib/colab_cli/colab_keep_alive.dart`, `android/.../ServicioMimapp.kt` | timers, alarm, service state | ping, watchdog, restart |
| The rest | see the components in `PROJECT.json` | user interface, wrappers over third-party engines, pure functions | not modelled |

### How they interact

Dart calls Rust through flutter_rust_bridge: a Rust function runs in a worker
thread and its answer is a later event of the single Dart thread. Between two
awaits Dart code runs alone, so the interleavings are at the awaits. In Rust,
the spider's motor sits behind one mutex (`MotorDht`), but the threads that
`start` leaves behind (spider, node, request filter, metadata loop) share
atomics and smaller mutexes and are never joined. The mainline node is one actor
thread fed by a channel: callers block on a channel of their own, and each round
of the actor takes one message, ticks every query and reads one datagram. Tor
keeps its state in separate statics that no common lock covers. An Iroh node is
one object behind a mutex held for whole calls, beside the tasks of its runtime.
Nostr chats are polled: the client's own tasks fill a bounded broadcast channel
and a screen empties it every two seconds.

### What is hard

* `start` after `stop` while threads of the earlier generation still run, with
  one stop flag for all generations.
* Check and use in different critical sections: index, captures, announcements.
* Copies of state: the Dart flags, the published statistics, the port.
* Crashes and orderly closes between two saves of a file.
* Bounded collections with evictions, and tasks that time out while what they
  wait for still arrives.
* A long network operation that keeps a mutex (`tor_rebootstrap`) or writes a
  result long after it was asked for (the warm-up).
* Datagrams lost, repeated and reordered under compare-and-swap stores, and
  tokens that the two sides age by different clocks.
* Lookups and stores of one target that join, replace or wait for each other.
* A routing table that is filled by answers while it is purged and while the
  node changes the id all its buckets are relative to.
* A byte stream cut into arbitrary chunks by the network and into lines by us.
* Relays that only some of the parties share, some of them down, and lists that
  are read, modified and published again by several devices.

`PROJECT.json` lists every hazard at its line with the properties that cover it.

### What makes each component correct

* DHT spider: a started spider runs until stopped and everything ends after a
  stop; nothing found is lost or listed twice; caps hold; what is announced and
  what is shown as resolved is in the index; a crash loses only what was not saved.
* Mainline node: buckets stay sane through id changes; BEP 42 holds in the whole
  table; every call is answered; a store reported as done was acknowledged;
  accepted compare-and-swap writes are kept; what is sent is understood as meant.
* Tor: one start at a time; flags agree with Rust when nothing is in flight;
  at most one tunnel; a stop leaves no client behind.
* Iroh chat: what is read is what was sent, in order; a line accepted arrives.
* Nostr: a message reaches a listening addressee, once; a screen shows what was
  published; the account file opens only to its pin.
* Downloads: a cancelled task stays cancelled; "ok" means complete.
* Caches: the byte counters equal what is stored; a late load does not land in
  another mould. Index: no update is lost; a half-done upload is recoverable.

## 2. Modules

| Module | What it is |
|---|---|
| `DhtVida` | life cycle of the spider: Dart flag, motor mutex, generations of channel, node, spider thread and metadata loop |
| `DhtBusca` | `DhtVida` plus the metadata pipeline, index, announcements and cache file; refines `DhtVida` and `DhtHallados` |
| `DhtHallados` | abstract store of findings |
| `Secuencias` | what `Vec::retain` keeps of a sequence, by its positions |
| `MainNodos` | ids, XOR distance, BEP 42, closest-node lists, buckets: pure operators |
| `MainTabla` | upkeep of the routing table, votes on the own address, change of id, server mode |
| `MainMensajes` | KRPC messages and their wire form, with the order in which answers are told apart |
| `MainLru` | the cache of the `lru` crate |
| `MainServidor` | tokens and the stores of peers and values, with clients over a lossy network |
| `MainRpc` | lookups, stores, request table, cache, the actor thread and its callers |
| `Iroh` | nodes, endpoints, channels and their tasks |
| `NostrRed` | relay sets and the queries of the screens as functions of what relays hold |
| `NostrChat` | the three kinds of chat session |
| `NostrSocial` | publications, contacts, screens and the account file |
| `Nostr` | the three side by side |
| `Tor` | Tor client, warm-ups, tunnel, Dart service, browser switch |
| `*MC` | model values, sets and scenarios for TLC |
| `*Proofs` | the theorems of the module they are named after, those of `DhtVida` with `DhtBusca`'s and those of the Nostr modules together; `SecuenciasProofs` has the lemmas about sequences that several of them rest on |

`DhtBusca` extends `DhtVida`; `MainTabla` extends `MainNodos`; `MainServidor`
extends `MainMensajes` and `MainLru`; `MainRpc` extends `MainLru`; `Nostr`,
`NostrSocial`, `NostrChat` and `NostrRed` are a chain; `MainNodos` and `NostrRed`
use `Secuencias`. The components share no
state with each other, except that the spider owns a mainline node: `DhtVida`
keeps what `start` sees of it.

Some operators are marked *Mutant* in a comment: they are plausible wrong
versions of the definition below them, used to make sure that each checked
property can fail. `PROJECT.json` "map" gives the source lines of each
definition.

### DhtVida

Each call of `start` that gets past its guard is a generation *g*, whether it
then succeeds or fails. `canal`, `hilo` and `dht` hold a generation number or 0
for `None`; `spider[g]`, `bucle[g]`, `cola[g]` are that generation's threads and
channel. A call from Dart has two halves (`PedirStart` ... `Volver`) because
`_corriendo` is read before the await and written after it. `StartOk`,
`StartError` and `StartPanico` are the three ways the Rust call ends: the node
comes up, its error is returned, or `Dht::new` panics because the actor thread
died before it got the `Check` message, which poisons the motor's mutex.
`Fallas` says what the environment may do: another program holds UDP 6881, no
socket binds, the index cannot be written, rqbit's session fails. `Reabrir` is
the process dying and starting again, possible at any moment.

### DhtBusca

Adds what the metadata loop does between two looks at the stop flag
(`pc[g]`: drain, harvest, mark, index, announce, statistics, sleep), the task of
each hash (`espera` waits for a permit, `curso` holds one), the torrent session,
which goes on resolving after a task's timeout, and what is on disk. Each action
takes a step of `DhtVida` together with its effect on the pipeline, or leaves
`vidaVars` alone; `ImplementaVida` says so and is proved. `recortados` is a
history variable: the hashes the cap of the index has dropped.

### MainTabla

One node. A unit of time is five minutes, the interval of the table's pings;
lookups last seconds, so they end and due maintenance runs before a unit passes
(`Pasa`). `Responde` and `PideFindNode` are the two ways a node enters the table,
`FinConsulta` the end of a lookup with the address most of its answers reported,
`RecibePing` the node's ping to itself coming back, with the change of id and
table that may follow. `alcanzada` is a history variable: the address, with its
port, from which that ping last came. CRC32 is a constant function from addresses and variants
to prefixes: BEP 42 needs nothing else of it. That a lookup is coarse here is
made good by `MainRpc`, where it is fine and the table is a set.

### MainMensajes and MainServidor

A message is a class and a record of arguments; an argument that is `None` is
absent. `into_serde_message` drops what the wire does not carry (class of an
answer, token and age of nodes, salt of a get) and `from_serde_message` chooses
the class again by the first variant that fits, as serde does with an untagged
enum. Each request of the server is one action with all its checks in their
order. Secrets are numbers, a signature is the tuple it signs, a hash is
injective. `red` holds datagrams that may be repeated (`Contestar` may leave the
request), lost (`Perder`) and reordered. The value of a mutable item is the set
of the writes it carries, so that a lost update shows; `desalojados` remembers the
targets whose item was evicted, `confirmados` the accepted writes with `cas` of the
others.

### MainRpc

`Vuelta` is one round of the actor: a message, the tick of the stores, the visits
and ends of the lookups in any order (the code iterates a hash map), one answer
or none, and the results to their callers. A transaction id stands for what was
asked; `inflight` are the requests that have not expired, and `Vence` lets them.
`iterative_queries` and `put_queries` are partial functions of the target, as the
hash maps they are, and `get_senders` and `put_senders` are the maps of `dht.rs`:
callers of one target share its query. A target is a hash of what is looked up, so it
determines the kind of request (`SupuestoMenus`). `Soltar` and `FinActor` are the drop of the last handle and the
end of the thread.

### Iroh

Endpoints are numbered as they are bound. A call that waits for the network is
two actions with the node's mutex held between them (`start_servidor` and
`FinStart`, `chat_conectar` and `FinConectar`, ...). A channel has a queue, a
writer, bytes in flight and a reader for each side; `accept` happens when bytes
come, as `accept_bi` returns only then. `lector` takes any prefix up to its
buffer and cuts it into lines byte by byte (`Lineas`), and `chat_leer` gives each side
its own (`De`). `Roto` is a lost connection. A line is not empty and has no line break
(`SupuestoIroh`): `chat_mandar` refuses blank text (`irohp2p.rs:334`) and the field of
the screen is of one line (`iroh_chat_screen.dart:292`).

### Nostr

A scenario (`plan`) says which sessions there are and what may happen. Events are
numbered as published and carry the relays that took them. `Receptor` is the
creation of the notification receiver after the subscription: what relays send
before it is marked as seen and lost. `Entrega` is a relay's delivery into a
bounded channel, `poll_messages` what a screen reads. Publications are notes with
an hour; screens ask the relays that answer (`rs`), and `vista` is what they got.
`seguir` and `SeguirPublica` are the two halves of changing the contact list,
with other devices in between. A program that is not mimapp may publish lists in an
author's name (`Ajena`): with an empty contact list the author follows nobody from
then on. `guardar_cuenta` may leave a cut file.

### Tor

A context is one call in flight, of a Tor screen or of the browser menu; `pc` is
what it does next. `leer ... leerP` is `refresh()`, which ends nearly every
operation: the answer of `torIsRunning` is read in a worker (`CLIENT` first,
`ESTADO` after it) and stored by a later event (`lee`). Stores to `ESTADO` and
`CLIENT` are separate steps, and `MutexLibre` is the mutex that a re-bootstrap
keeps while the network answers. `calor[g]` is the warm-up thread of client *g*.
Locals of a call are reset when dead. `cruzado` is a history variable: the last
refresh to read did so while another had read and not stored.

## 3. Runs

| Run | Bounds | Question |
|---|---|---|
| `dht_vida` | 3 generations, 1 hash, 1 caller, all failures | do flag, motor and threads agree, and does everything end? |
| `dht_panico` (violation) | 2 generations, no outside failure | does a failed bind come back as an error? |
| `dht_un_bucle` | 1 generation, 2 hashes, index cap 1, all failures, crashes | caps, captures, cache file, refinements |
| `dht_dos_bucles` | 2 generations, 1 hash | two loops over one index |
| `dht_avance` | 1 generation, 2 hashes, fairness | does a task get a permit, is what resolved indexed? |
| `tor_ciclo` | 1 screen call + browser, 2 clients, 2 tunnels, all failures | starts, stops, refreshes and warm-ups overlapping |
| `main_tabla` | ids of 3 bits, 5 neighbours at 3 addresses, 3 own addresses (2 of them differ in the port), buckets of 2, 2 lookups at a time, 3 units of time | does the table stay sane while it is filled, purged and re-based, and does the node know its own address? |
| `main_servidor` | 3 clients in 4 mixes, 1 of each store, seq up to 3 for two writers of one item and to 2 otherwise, 4 units of time | are messages understood, writes kept, tokens accepted? |
| `main_rpc` | 3 callers in 6 mixes, 2 targets, 2 nodes, cache of 1 | is every call answered, and every store reported as done acknowledged? |
| `main_put` (violation) | the same | is every store answered? |
| `iroh_chat` | 2 nodes, up to 3 endpoints, 2 channels, 2 lines, chunks of up to 3 bytes | what is read of what was sent? |
| `nostr` | 10 scenarios, 3 authors, 3 relays, up to 2 messages or 3 notes, channel of 1 | do messages arrive once, do screens show what was published, does the file open right? |

Why the bounds are enough to meet the cases. The spider's hazards need an old
and a new generation (2), and a third lets a failed start stand between them; an
index cap of 1 with 2 hashes makes every harvest of a second torrent drop the
first; one permit and one pending slot make every second hash wait or be
evicted. In Tor, two contexts are a stop overtaken by a start of the other and
two refreshes that cross; two clients and two tunnels are a restart and a tunnel
replaced after it ended. In the routing table five neighbours give a full bucket,
an insecure and a secure node of one address, the same id at two addresses, and
private addresses; three nodes or more at once, so that the closest two leave one
out, and an insecure node that comes before the secure one of its address when
a list of the closest is put together. The votes change the address, or its port
only; three units show a stale node that a purge leaves behind. A
server with room for one entry evicts at the second; two writers of an item and
one of two items meet every order of compare-and-swap. With two nodes, of which
one leads to the other, lookups have several rounds; with a cache of one every
second target evicts. A chunk of three bytes can hold a line and half of a
character of the next. A notification channel of one overflows at the
second event; two devices of one author are a lost update of the contact list.

Bounds in guards: `MaxGen` (starts), `MaxCola` (hashes in a channel), `MaxEspera`
(tasks waiting), `MaxCli` (bootstraps that succeed; afterwards they fail),
`MaxTun` (tunnels; afterwards the bind fails), `TopeTiempo` (clock), `TopeSeq`
(seq of a write, for each mix), the `Topes` of `Iroh`, `TopeEventos` and the counters of a
`plan` in Nostr. Three more are marked *Bound* where they stand: copies of one
request are handled one at a time, a client of `MainServidor` has one request
under way, and cached lookups age together. `PocasConsultas` is the constraint of
`main_tabla` on the lookups in flight.

Each component has one type invariant. Those of the spider's two modules and of Tor
are proved and no run checks them; the one of `MainServidor` is checked as well, since
it carries the bounds of the stores.

### Fairness

* `DhtVida!Equidad`, `DhtBusca!EquidadBusca`: threads are scheduled, Rust calls
  return, and rqbit's `Session::new` answers. The loop is a Tokio task that
  sleeps two seconds and never blocks on a peer: resolving is done by spawned
  tasks with a timeout. No fairness is given to users, peers, failures or crashes.
* `Tor!SpecJusta`: weak fairness on the next step of each context. It assumes
  that a bootstrap ends, successfully or not. It gives none to the warm-up's GET
  or to the tunnel. `BusyTermina` needs only weak fairness although the mutex of
  `CLIENT` is not fair: by `UnArranque` whoever holds it is the holder of `_busy`.
* `MainRpc!SpecJusta`: the actor's loop goes round (its socket read has a timeout
  of 50 ms) and requests grow old. No answer is promised.
* `Iroh!SpecJusta`: the runtime runs its tasks, calls of
  the library are taken to return, with or without success, and the screen's timer
  reads every second. The last is strong fairness: the mutex is free again and
  again, between calls of the user.
* `NostrChat!EquidadChat`: calls and deliveries end and screens poll. The screens
  of the two-party chats poll every two seconds (`nostr_dm_test_screen.dart:204`,
  `nostr_peer_test_screen.dart:144`); the inbox polls at the press of a button,
  and its reader is taken to press it again and again.

## 4. What disagrees with the documentation

Checked as violations (`PROJECT.json` "findings" quotes the lines):

1. A node that cannot bind can panic instead of returning an error, and the
   motor's mutex stays poisoned (`dht_panico`). A restart is enough: the first
   bind of 6881 fails because the previous node still holds it.
2. A store on a target that `find_node` was called on is never answered
   (`main_put`): if the lookup is still under way its end skips the store
   (`rpc.rs:1028`); if it is cached its nodes may have no tokens, but
   `Node::valid_token` looks at their age only, so the store starts with no
   request at all and `PutQuery::tick` waits for ever.

### Known divergences

Modelled as the code does, or met while reading, without a run of their own.

DHT spider and Tor:

* Two spiders can be alive after stop and start: the new start lowers the flag
  before the old thread has read it (`mod.rs:334`; the message at `mod.rs:329`
  takes it for stopped).
* The deafness warning compares copies of counters that are never updated
  (`mod.rs:921`), so it is never given.
* `capturas()` reads the list from the end the newest is not at (`mod.rs:580`,
  `mod.rs:87`): past its limit the newest capture is not shown.
* A restart lands on an ephemeral UDP port, because the motor's own previous node
  holds 6881 until the new one replaces it (`mod.rs:410`; the comment at
  `mod.rs:371` wants the fixed port).
* A failed `start` leaves the channel open, so `probar` accepts hashes nobody
  will look up (`mod.rs:338`, `mod.rs:641`).
* With two screens, the Dart flag can disagree with the motor at rest
  (`lib/services/dht_busca.dart:29`, `:43`): the continuations of a start and of a
  stop run in the order of their answers, not of their effects. `CorriendoFiel` is
  therefore stated, checked and proved for one caller.
* Torrents cut by the index cap are still in the session and are harvested again
  as the newest ones (`mod.rs:50`, `mod.rs:889`).
* After the browser's Tor switch goes off, any refresh shows it on again while
  the WebView navigates directly (`tor_service.dart:68`, `:47`).
* A warm-up that answers after the stop sets the phase "listo" (`tor.rs:117`), and
  a failed bootstrap leaves `ESTADO` at 1 (`tor.rs:69`). `tor_is_running` asks for
  a client as well, so only the phase is affected.
* Two refreshes can store their answers in the opposite order of their reads;
  `RunningAlDia` excludes exactly that with `cruzado`.

Mainline:

* A store that is full forgets an item and with it its seq: a later write to that
  target, with `cas` or not, meets nothing to compare with and starts again from
  whatever its writer had read (`rpc/server.rs:327`). An accepted write can be lost
  so; `ConfirmadoPerdura` speaks of the items that never had to go.
* `announce_peer` and `put_immutable` take a concurrency error for unreachable
  (`dht.rs:255`), although `PutQuery::tick` may return 301 or 302 for any class of
  store if nodes answer so: the caller would panic.
* An announce or an immutable store replaces the one in flight for its target
  without its caller being told; error codes other than 301 and 302 become a timeout.
* `get_mutable_most_recent` keeps the first item that comes unless one of the same
  seq and a greater value follows, so a more recent item may be passed over.
* A node that is already in its bucket is not refreshed by its answers
  (`common/routing_table.rs:47`).
* The node that joins by `find_node` at a first node is filed under the id it looks
  for, not under its own.
* Secrets rotate only when a request comes, so tokens may live past the documented
  ten minutes; `TokenFrescoSirve` is about the other side, that they do not die
  early.
* `implied_port` is sent as 1 whenever it is present, true or false.

Iroh:

* `chat_mandar` writes to the first channel ever wired, so after a reconnection
  lines go to the dead one, or to the first peer after a second was dialled;
  the first line after a loss is accepted and lost; `chat_activo` is true with
  only dead channels.
* The side that accepts cannot write first, since the stream appears with the
  first bytes of the other.
* The six-hour timer of one channel drops the senders of all.
* A line longer than the buffer is read as several, and a character cut by its
  edge becomes two marks. `EnOrden` says what remains true.

Nostr:

* What relays send between the subscription and the receiver reaches no poll
  (`nostrn/client.rs:194` says that all of it does).
* `set_perfil` replaces the whole profile, though `nostrn/gestion.rs:374` says that
  empty fields are left alone.
* `seguir` publishes what it fetched with a change: relays that did not answer, or
  another device, lose contacts, and the relays kept in the list's content are
  erased. `VistaFiel` excludes exactly those with `turbio`.
* Articles have no identifier: each replaces the last, and `nostr_page_fetch`
  cannot find them.
* `disconnect` of the account only ends the newest of its subscriptions
  (`nostrn/gestion.rs:259` keeps one id). For an older one the relays go on sending: a
  step of the model that changes nothing.
* `poll` does not wait, whatever its timeout (`api/nostr_dm.rs:50` says it blocks).

## 5. Proofs

Every safety property of a passing run, invariant or action property, and both
refinements are stated by a theorem, with one restriction, for `CapturaAlDia`, given
below. All theorems hold for every value of the constants allowed by the named
assumptions: naturals for the bounds, finitely many hashes, the browser's context is
not a screen's (`SupuestoVida`, `SupuestoBusca`, `SupuestoTor`); ids, addresses and
CRCs of the right sizes (`SupuestoNodos`, `SupuestoTabla`); capacities of at least
one, an empty receiver unlike the absence of one (`SupuestoServidor`,
`SupuestoChat`); requests as the calls of `Dht` make them,
with a target that determines their kind (`SupuestoRpc`, `SupuestoMenus`); the public
relays are relays, the owners of devices authors, `None` no author (`SupuestoRed`,
`SupuestoSocial`); lines without line breaks (`SupuestoIroh`). TLC evaluates all of
them on the runs' values.

**Lemmas about sequences** (`SecuenciasProofs`). The provers cannot instantiate the
library's induction theorems, which take an operator as parameter. `MinimoNat` (a
non-empty set of naturals has a least element) is derived instead from the library's
theorem that strict inclusion of finite sets is well founded, and induction is by the
least counterexample: `HastaN` for a set of positions, `Recursion` for a function
defined by its previous value. From these follow what `Retiene`, `RemoveAt`,
`InsertAt`, `FlattenSeq` and `FoldLeft` give, which the proofs below cite.

**Life cycle** (`DhtBuscaProofs`). `TypeOK /\ MotorCoherente /\ EnMarcha` is
inductive. `EnMarcha` ("while `hilo_spider` is set its spider and loop run")
needs `MotorCoherente` to know that the generation `hilo_spider` stands for is
the one whose sender `canal` keeps, since a loop ends only on the flag or on a
disconnected channel. `VidaFiel` proves `CorriendoFiel` under `UnSoloLlamador`
(at most one caller), by relating the call in flight to the motor: an answered
`start` found a spider, an answered `stop` left none.

**Pipeline** (`DhtBuscaProofs`). `BuscaImplementaVida` proves the refinement step
by step, which brings the life cycle's type invariant to the pipeline.
`InvBusca` has three parts that are preserved separately: `Almacen` (index, cache
file, announcements, what loops carry), `Vista` (captures) and `Tareas` (pending
tables and tasks). That no torrent is listed twice rests on `IndiceSinRepetidos`
being kept by the second check under the index's own lock (`Falta`), not by the
one made at harvest; that a resolved capture is indexed rests on the hashes a
loop carries between both critical sections (`cos`). `BuscaImplementaHallados` proves
step by step that the pipeline implements the store of `DhtHallados`: whoever pushes a
batch, announces it, saves, polls or dies takes a step of the store, and nobody else
touches it.

`CapturaAlDia` (no capture of an indexed torrent is shown as unresolved) does not
hold in general: of two loops that live at once, one indexes what the other has just
captured, and TLC finds it with two generations. `BuscaAlDia` proves it for the
behaviours in which no two loops overlap (`UnBucle`), whatever their number, and
`BuscaAlDiaSolo`, without that hypothesis, for one start, which is what its run
checks. `InvAlDia` adds that a loop in the middle of its cycle is alive, so no other
can capture, and that the captures of what it carries stay marked until it is indexed.

**Tor** (`TorProofs`). Types follow from two facts: the locals of the calls
(`PasoLlamadas`) and what each step does to the statics (`Estatico`, one disjunct
per way). `UnArranque`, `UnTunel` and `ParadoSuelta` are inductive given the
types. `RunningAlDia` is not: it says nothing of the states with a call in
flight. Its strengthening `UnLector /\ Vigente` says that, while reads have not
crossed, at most one is under way, and that unless some call has yet to begin its
read, the value on its way (or, with none, the stored one) is true of the
statics. The only step that could falsify it is a late warm-up, which makes
`ESTADO` non-zero with the client still in place; `ParadoSuelta` then names a
stop or a start that is not over and will refresh after it.

**Routing table** (`MainTablaProofs`). `AbiertoSeguro` is inductive: only the node's
own ping opens it, from the address it publishes (`alcanzada`) and with an id drawn
for that very address (`SorteadoVale`), and every new address, be it new in the port
only, closes it. `InvTabla` gives the rest: `TablaSana` (each bucket
within its size, each node in the bucket of its distance, once, the least recently
seen first), `UnoPorIpEn` over the whole table, and nobody in it was stale at the last
purge, which is not overdue. `Salida` says beside it what a step may take out. An entry
is removed by position, so order and uniqueness of the others survive (`RemoveAtEs`,
`RetieneEs`); a change of id moves every node to a new table, one `add` after the
other. `CierraBien` is about the lists of closest nodes, which must be complete as well as
sorted: a node of the table is refused only by another one that is in the list, and left
out of the answer only after K that are in it.
`Menor` on XOR distances is a total order (`XorEs`, `AntesEsOrden`), inserting by it
keeps a list sorted and each node that stays out has its reason (`AgregarCercanoEs`),
by induction over the nodes of the table (`CercanosEs`); the answer is a beginning of
that list.

**Tokens of the server** (`MainServidorProofs`). `TokensFrescos` proves
`TokenFrescoSirve`, which is not inductive: it says nothing of answers on their
way. `InvTokens` adds them (`EnCamino`: made since the clock last moved, hence
with the secret of now, and no rotation is due) and says of each client's token
that it is of the present secret and was got within an interval of its drawing,
or of the previous one and got before the last rotation, or too old to be
trusted (`Vale`). A lazy rotation can then skip only tokens nobody trusts. The
proof goes through the wire: `TokenViaja` shows that, whatever class the decoder
chooses for an answer, the token it finds is the one that was encoded, because a
variant that has a token is chosen only where the field is (`Elegible`).

**Writes with `cas`** (`MainServidorProofs`, on lemmas about the LRU cache).
`CasPerdura` proves `ConfirmadoPerdura` and `SeqCrece` proves
`SeqNoRetrocede`, for any clients, salts, sizes of the stores and bounds. Neither is
inductive: a late write could carry a `cas` and a value that never belonged
together. `InvCas` follows what was read from the server to the client and back
(`LeeBien`: not newer than the item that is kept, and with every confirmed write
if it has its seq), through answers on their way (`Sana`), what clients remember
(`LeidoSano`) and the writes made of it (`EscrituraSana`). In the store
(`AlmacenSano`) a confirmed item has a seq above 1, so a first write, which carries
no `cas`, can only replace what nobody confirmed. Every step either leaves the items
alone, but for their order (`Quieto`), or is an accepted put (`Acepta`). The wire
enters through `LecturaViaja` and `PeticionViaja`: only an item is decoded as one,
and a request is read as it was written.

**Messages and stores of the server** (`MainServidorProofs`). `LoEnviadoSeEntiende`
proves `IdaYVuelta` from `RedFormada`: what is on its way is a request as a client makes
it or an answer with the fields of its class (`CamposDeRespuesta`), and for each class
the first variant that fits its wire form is the one that was meant (`VarianteDe`,
`Viaja`), with its values but for those the wire does not carry (`Sentido`). `AlmacenesEnSuTalla` proves `TypeOK` from `InvTipos`, with the
capacity of every store (`AlmacenesAcotados`): a cache that is full evicts before it
takes an entry.

**Lookups, stores and callers** (`MainRpcProofs`). `Vuelta` is a chain of pure
functions on the record `rpc`, so the invariant is stated of values (`Sano`) and each
stage has a lemma that keeps it. Its parts are: a sender is kept for
the target its caller asked about, under a query that lives, and the put in flight
stands for every mutable item waited for (`Remitentes`); a put counts an answer only
when a node has acknowledged it, and waits only for its own (`PutSano`); a caller
told "Ok" has its acknowledgement (`Respaldo`); who waits is kept somewhere
(`EnEspera`). `SinHuerfanos` and `OkRespaldado` follow. What a stage does to the callers
is `Avanzan`: each keeps its request, may end, and is told "Ok" only with a node's word;
two stages make one.

**What a chat reads** (`IrohProofs`). `EnOrden` compares what was read with what was
sent, and says nothing of the queue, the stream and the reader between them, nor of the
lines read that `chat_leer` has not given yet. `InvIroh` is `Casa` (nodes, endpoints and
channels well formed: what a node holds names its own endpoint and existing channels)
and `Charla`, which says for each direction of a channel (`Sentido`) that the lines
read so far, given or not, are a faithful cut of a prefix *s* of the stream of
the lines sent, and, while it is connected, that *s* followed by what is on its way
(stream, then queue) is that whole stream. `FielTrozo` is its core: cutting a further
chunk into lines keeps the cut faithful, by induction over the bytes of the chunk,
whether the chunk ends within a line, within a character or at a break. The other
actions only keep or break a connection (`CharlaSigue`) or move one direction
(`CharlaVa`).

Two more theorems say what `LineaLlega` needs besides fairness. `NadaPerdido`: while a
channel is connected, what came and what is on its way add up to what was accepted
(`NadaSePierde`), which follows from `Charla`. `NadieSeAtasca`: if a side has not read
all of it, some task or call can move something (`LoQueFaltaAvanza`). That one needs
its own invariant, `Atendidos`, about the tasks of a connected channel: the side that
was dialled has none before `accept_bi`, both sides have a writer and a reader after,
what is queued has a living writer, and a reader has ended only after the other side's
writer, with the stream empty. Only steps on that very channel can disturb it
(`AtMandar`, ..., `AtCorta`); a broken one asks nothing (`AtiendeRoto`).

**Chat sessions, screens, account file** (`NostrProofs`). `LeidoFiel`: in each session
what its polls returned, what waits in the channel and what relays have still to
deliver are disjoint, and what was returned is for that session (`InvChat`).

`NadaExtraviado` is the safety half of `EnviadoLlega`: what was published while its
addressee listened is read, on its way, or in the receiver of a session whose next poll
may run, unless the session was cut or overrun or the window of "par" has passed
(`NadaSeExtravia`). Its invariant, `InvOyen`, adds that a listening session has a
receiver and that what it was meant to hear is addressed to it, so that the poll keeps
it (`VaValido`); before its first receiver a session was meant to hear nothing, which
is why what comes between subscription and receiver may be marked as seen. The
publication is its core (`PublicaEscucha`): the two have a relay that works in common
(`RelaysComunes`, which rests on the public relays every client but those of "par"
writes to and reads from), and the filter of the subscription lets the event through
(`CubreLoSuyo`).

`VistaFiel` is about one answer computed by a fold over what several relays return.
`InvSocial` relates the relays to the publications they took, with replaced ones gone
(`EsRed`), the newest list of an author nobody has republished over to whom it follows
(`ListaFiel`), and a contact list that a call is about to publish to what its author
wants, if it read the newest, all of it (`PendFiel`). Each screen then has its lemma (`PerfilFiel`, ...,
`NotasFiel`) over those of the queries (`BusquedaEs`, `EsLaUltima`, `SonRecientes`).
Its proof found the model wrong: another program's empty contact list left an author
following whom it did before.

`CargaFiel` speaks of what is loaded; `ArchivoFiel` adds that a whole file is what the
last finished save put there and that an open one has no pin, over saves that stop half
way.

**Only model-checked**: the liveness properties (`TodoParaAlFin`,
`BucleViejoTermina`, `PermisoLlega`, `ResueltoSeIndexa`, `BusyTermina`,
`TodosContestados`, `LineaLlega`, `EnviadoLlega`), which are out of the prover's reach,
since it has neither fairness nor ENABLED, and the two violations. What a theorem
says of them is that nothing is left where no step would take it (`NadieSeAtasca`,
`NadaExtraviado`, `NadieQuedaHuerfano`, and `TorUnArranque` for `_busy`).

## 6. Not modelled

* Searching and listing the index, the log ring, statistics, texts and phases
  shown to the user. They read state.
* The internals of rqbit, arti, iroh, nostr-sdk and of the operating system's
  sockets: only what the code sees of them.
* Mainline: the size estimator of the network and the statistics it feeds, the
  test network, builders and the bootstrap file, IPv6, and what CRC32, SHA-1 and
  Ed25519 compute. `dht_size_estimate` enters through `MasSeguros` only: how many
  nodes beyond K a list may have.
* Mainline: the panics of `messages.rs` (472, 475) on a put of a mutable item without
  `seq` or signature. The senders here are nodes of this crate, which send both.
* Tor: GETs, downloads and pings over the circuit, dormant mode, the panel for a
  generic proxy, and failing to spawn a thread. The answer of `setProxy(false)`
  is ignored by the code and so is its failure here.
* Nostr: key conversions (`nostr_keys.rs`), ciphers beyond who can open what, an
  author who follows itself (the library may drop such tags), and the relays'
  own policies (limits, expiry).
* Iroh: relay discovery, and the transfer of a blob block by block: a download
  succeeds or fails as a whole, as the code sees it.
* The components listed in `PROJECT.json` as `not_modelled`, each with its reason.

## 7. Plan

Done, in this order: the spider's life cycle, pipeline and abstract store; Tor;
the mainline node (table, messages, server, client half); Iroh; Nostr; the proofs
of section 5.

Left, in order of importance:

1. The composition of `MainTabla` and `MainRpc`: lookups that fill a real table
   while it changes id, instead of a set of nodes on one side and a coarse lookup
   on the other.
2. `Descargas`: tasks, stream loop, cancel against the error path.
3. `Indice` and `PuenteHf`: read-modify-write of the index against an abstract
   store with atomic updates; multi-step uploads with crashes.
4. `Previas`: loads in flight across moulds, LRU and stash accounting.
5. Proofs: of the components above as they are added, and that `MainTabla` and
   `MainServidor` are what `MainRpc` assumes of a node (an answer comes from the
   request's target, a token is valid where it was given).
