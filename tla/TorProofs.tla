----------------------------- MODULE TorProofs -----------------------------
(***************************************************************************)
(* Proofs about the Tor client, for any number of screens, clients,        *)
(* tunnels and failures.                                                   *)
(***************************************************************************)
EXTENDS Tor, TLAPS

(* The locals of the calls in flight keep their types. *)
LEMMA PasoLlamadas ==
  ASSUME TypeOK, [Next]_vars
  PROVE  TipoLlamadas'
<1> USE SupuestoTor DEF Pcs, PorLeer, Ocupado, Leyendo, Va, Refresca
<1>0. Nav \in Ctx /\ TipoLlamadas
  BY DEF Ctx, TypeOK
<1>1. ASSUME NEW c \in Ctx, Pide(c)
      PROVE  TipoLlamadas'
  BY <1>0, <1>1 DEF TipoLlamadas, Pide, PedirRefresh, PedirStart, PedirStop, PedirRebootstrap
<1>2. ASSUME NEW c \in Ctx, Leer(c) \/ LeerEstado(c) \/ GuardarRunning(c) \/ GuardarPuerto(c)
      PROVE  TipoLlamadas'
  <2>1. CASE Leer(c)
    BY <1>0, <2>1 DEF TipoLlamadas, Leer
  <2>2. CASE LeerEstado(c)
    BY <1>0, <2>2 DEF TipoLlamadas, LeerEstado
  <2>3. CASE GuardarRunning(c)
    BY <1>0, <2>3 DEF TipoLlamadas, GuardarRunning
  <2>4. CASE GuardarPuerto(c)
    BY <1>0, <2>4 DEF TipoLlamadas, GuardarPuerto
  <2> QED
    BY <1>2, <2>1, <2>2, <2>3, <2>4
<1>3. ASSUME NEW c \in Ctx,
             \/ MirarCliente(c) \/ MirarEstado(c) \/ SinCarpeta(c) \/ BootFalla(c) \/ BootOk(c)
             \/ Marcar(c) \/ Contesta(c)
      PROVE  TipoLlamadas'
  BY <1>0, <1>3 DEF TipoLlamadas, MirarCliente, MirarEstado, SinCarpeta, BootFalla, BootOk, Marcar, Contesta
<1>4. ASSUME NEW c \in Ctx,
             QuitarProxy(c) \/ Apagar(c) \/ Soltar(c) \/ TomarMutex(c) \/ Rebota(c)
      PROVE  TipoLlamadas'
  BY <1>0, <1>4 DEF TipoLlamadas, QuitarProxy, Apagar, Soltar, TomarMutex, Rebota
<1>5. CASE NavEncender \/ NavApagar \/ NavDecide \/ NavOtra \/ NavComprueba
  BY <1>0, <1>5 DEF TipoLlamadas, NavEncender, NavApagar, NavDecide, NavOtra, NavComprueba
<1>6. CASE AtarNada \/ AtarMismo \/ AtarNuevo
  BY <1>0, <1>6 DEF TipoLlamadas, AtarNada, AtarMismo, AtarNuevo
<1>7. CASE NavPoner \/ NavOverride \/ NavLimpiar \/ NavQuitar
  BY <1>0, <1>7 DEF TipoLlamadas, NavPoner, NavOverride, NavLimpiar, NavQuitar
<1>8. CASE (\E g \in 1 .. MaxCli : Warmup(g)) \/ (\E k \in 1 .. MaxTun : TunelCae(k))
  BY <1>0, <1>8 DEF TipoLlamadas, Warmup, Calienta, TomarAgente, GetFalla, GetOk, TunelCae
<1>9. CASE UNCHANGED vars
  BY <1>0, <1>9 DEF TipoLlamadas, vars
<1> QED
  BY <1>1, <1>2, <1>3, <1>4, <1>5, <1>6, <1>7, <1>8, <1>9 DEF Next, Sigue, SigueNav

(* What each step does to the Rust statics, one disjunct per way. *)
Estatico ==
  \/ UNCHANGED rust
  \/ estado' \in 0 .. 3 /\ UNCHANGED <<cliente, creados, calor, puerto, tuneles, vivo>>
  \/ cliente' = 0 /\ UNCHANGED <<estado, creados, calor, puerto, tuneles, vivo>>
  \/ \E g \in Nat, s \in {"mira", "pide", "get", "fin"} :
       /\ estado' \in 0 .. 3
       /\ calor' = [calor EXCEPT ![g] = s]
       /\ UNCHANGED <<cliente, creados, puerto, tuneles, vivo>>
  \/ \E c \in Ctx : BootOk(c)
  \/ AtarNuevo
  \/ \E k \in 1 .. MaxTun : TunelCae(k)

LEMMA PasoEstatico ==
  ASSUME TypeOK, [Next]_vars
  PROVE  Estatico
<1>0. /\ Nav \in Ctx
      /\ estado \in 0 .. 3
      /\ creados \in Nat
  BY SupuestoTor DEF Ctx, TypeOK, TipoRust
<1>1. ASSUME NEW c \in Ctx, Pide(c) \/ Sigue(c), ~BootOk(c)
      PROVE  Estatico
  <2>1. CASE \/ Pide(c) \/ Leer(c) \/ LeerEstado(c) \/ GuardarRunning(c) \/ GuardarPuerto(c)
             \/ SinCarpeta(c) \/ BootFalla(c) \/ Contesta(c) \/ QuitarProxy(c) \/ TomarMutex(c) \/ Rebota(c)
    <3>1. UNCHANGED rust
      BY <2>1 DEF Pide, PedirRefresh, PedirStart, PedirStop, PedirRebootstrap, Leer, LeerEstado,
         GuardarRunning, GuardarPuerto, SinCarpeta, BootFalla, Contesta, QuitarProxy, TomarMutex, Rebota
    <3> QED
      BY <3>1 DEF Estatico
  <2>2. CASE MirarCliente(c) \/ MirarEstado(c) \/ Apagar(c)
    <3>1. /\ estado' \in {0, 1, estado}
          /\ UNCHANGED <<cliente, creados, calor, puerto, tuneles, vivo>>
      BY <2>2 DEF MirarCliente, MirarEstado, Apagar
    <3> QED
      BY <1>0, <3>1 DEF Estatico
  <2>3. CASE Marcar(c)
    <3>1. /\ estado' = 2
          /\ calor' = [calor EXCEPT ![creados] = "mira"]
          /\ UNCHANGED <<cliente, creados, puerto, tuneles, vivo>>
      BY <2>3 DEF Marcar
    <3>2. \E g \in Nat, s \in {"mira", "pide", "get", "fin"} :
            /\ estado' \in 0 .. 3
            /\ calor' = [calor EXCEPT ![g] = s]
            /\ UNCHANGED <<cliente, creados, puerto, tuneles, vivo>>
      <4> creados \in Nat
        BY <1>0
      <4> WITNESS creados \in Nat, "mira" \in {"mira", "pide", "get", "fin"}
      <4> QED
        BY <3>1
    <3> QED
      BY <3>2 DEF Estatico
  <2>4. CASE Soltar(c)
    <3>1. cliente' = 0 /\ UNCHANGED <<estado, creados, calor, puerto, tuneles, vivo>>
      BY <2>4 DEF Soltar
    <3> QED
      BY <3>1 DEF Estatico
  <2> QED
    BY <1>1, <2>1, <2>2, <2>3, <2>4 DEF Sigue
<1>2. CASE NavEncender \/ NavApagar \/ (SigueNav /\ ~AtarNuevo)
  <2>1. UNCHANGED rust
    BY <1>2 DEF NavEncender, NavApagar, SigueNav, NavDecide, NavOtra, NavComprueba, AtarNada,
       AtarMismo, NavPoner, NavOverride, NavLimpiar, NavQuitar
  <2> QED
    BY <2>1 DEF Estatico
<1>3. ASSUME NEW g \in 1 .. MaxCli, Warmup(g)
      PROVE  Estatico
  BY <1>0, <1>3 DEF Estatico, Warmup, Calienta, TomarAgente, GetFalla, GetOk
<1>4. CASE UNCHANGED vars
  BY <1>4 DEF vars, rust, Estatico
<1> QED
  BY <1>1, <1>2, <1>3, <1>4 DEF Next, SigueNav, Estatico

LEMMA PasoRust ==
  ASSUME TypeOK, [Next]_vars
  PROVE  TipoRust'
<1> USE SupuestoTor
<1>0. TipoRust /\ Estatico
  BY PasoEstatico DEF TypeOK
<1>1. CASE UNCHANGED rust
  BY <1>0, <1>1 DEF TipoRust, rust
<1>2. CASE estado' \in 0 .. 3 /\ UNCHANGED <<cliente, creados, calor, puerto, tuneles, vivo>>
  BY <1>0, <1>2 DEF TipoRust
<1>3. CASE cliente' = 0 /\ UNCHANGED <<estado, creados, calor, puerto, tuneles, vivo>>
  BY <1>0, <1>3 DEF TipoRust
<1>4. ASSUME NEW g \in Nat, NEW s \in {"mira", "pide", "get", "fin"},
             estado' \in 0 .. 3, calor' = [calor EXCEPT ![g] = s],
             UNCHANGED <<cliente, creados, puerto, tuneles, vivo>>
      PROVE  TipoRust'
  <2>1. calor' \in [1 .. MaxCli -> {"no", "mira", "pide", "get", "fin"}]
    BY <1>0, <1>4 DEF TipoRust
  <2> QED
    BY <1>0, <1>4, <2>1 DEF TipoRust
<1>5. ASSUME NEW c \in Ctx, BootOk(c)
      PROVE  TipoRust'
  BY <1>0, <1>5 DEF TipoRust, BootOk
<1>6. CASE AtarNuevo
  <2>1. vivo' \in [1 .. MaxTun -> BOOLEAN]
    BY <1>0, <1>6 DEF TipoRust, AtarNuevo
  <2> QED
    BY <1>0, <1>6, <2>1 DEF TipoRust, AtarNuevo
<1>7. ASSUME NEW k \in 1 .. MaxTun, TunelCae(k)
      PROVE  TipoRust'
  <2>1. vivo' \in [1 .. MaxTun -> BOOLEAN]
    BY <1>0, <1>7 DEF TipoRust, TunelCae
  <2> QED
    BY <1>0, <1>7, <2>1 DEF TipoRust, TunelCae
<1> QED
  BY <1>0, <1>1, <1>2, <1>3, <1>4, <1>5, <1>6, <1>7 DEF Estatico

(* The Dart fields only copy one another and the port, and tunnels are only added. *)
LEMMA PasoDart ==
  ASSUME TypeOK, [Next]_vars
  PROVE  TipoDart'
<1> USE DEF TipoDart
<1>0. TypeOK /\ TipoDart /\ TipoRust /\ TipoRust' /\ TipoLlamadas
  BY PasoRust DEF TypeOK
<1>1. /\ tuneles \in Nat /\ tuneles' \in Nat
      /\ puerto \in 0 .. tuneles
      /\ {proxyHP, hp, override} \subseteq 0 .. tuneles
      /\ \A c \in Ctx : lee[c] \in BOOLEAN
  BY <1>0, SupuestoTor DEF TipoRust, TipoLlamadas
<1>2. tuneles <= tuneles'
  <2>1. Estatico
    BY PasoEstatico
  <2> QED
    BY <1>1, <2>1 DEF Estatico, rust, BootOk, AtarNuevo, TunelCae
<1>3. busy' \in BOOLEAN /\ running' \in BOOLEAN
  <2>1. ASSUME NEW c \in Ctx, Pide(c) \/ Sigue(c)
        PROVE  busy' \in BOOLEAN /\ running' \in BOOLEAN
    BY <1>0, <1>1, <2>1 DEF Pide, Sigue, PedirRefresh, PedirStart, PedirStop, PedirRebootstrap,
       Leer, LeerEstado, GuardarRunning, GuardarPuerto, MirarCliente, MirarEstado, SinCarpeta, BootFalla,
       BootOk, Marcar, Contesta, QuitarProxy, Apagar, Soltar, TomarMutex, Rebota, dart
  <2>2. CASE NavEncender \/ NavApagar \/ SigueNav
    BY <1>0, <2>2 DEF NavEncender, NavApagar, SigueNav, NavDecide, NavOtra, NavComprueba,
       AtarNada, AtarMismo, AtarNuevo, NavPoner, NavOverride, NavLimpiar, NavQuitar, dart
  <2>3. CASE (\E g \in 1 .. MaxCli : Warmup(g)) \/ (\E k \in 1 .. MaxTun : TunelCae(k))
    BY <1>0, <2>3 DEF Warmup, Calienta, TomarAgente, GetFalla, GetOk, TunelCae, dart
  <2> QED
    BY <1>0, <2>1, <2>2, <2>3 DEF Next, vars, dart
<1>4. {proxyHP', hp', override'} \subseteq {0, proxyHP, hp, override, puerto} \cup {puerto'}
  <2>1. ASSUME NEW c \in Ctx, Pide(c) \/ Sigue(c)
        PROVE  proxyHP' \in {0, proxyHP, puerto} /\ UNCHANGED <<hp, override>>
    BY <2>1 DEF Pide, Sigue, PedirRefresh, PedirStart, PedirStop, PedirRebootstrap,
       Leer, LeerEstado, GuardarRunning, GuardarPuerto, MirarCliente, MirarEstado, SinCarpeta, BootFalla,
       BootOk, Marcar, Contesta, QuitarProxy, Apagar, Soltar, TomarMutex, Rebota, dart
  <2>2. CASE AtarNuevo
    BY <2>2 DEF AtarNuevo
  <2>3. CASE NavEncender \/ NavApagar \/ (SigueNav /\ ~AtarNuevo)
    BY <2>3 DEF NavEncender, NavApagar, SigueNav, NavDecide, NavOtra, NavComprueba,
       AtarNada, AtarMismo, NavPoner, NavOverride, NavLimpiar, NavQuitar, dart
  <2>4. CASE (\E g \in 1 .. MaxCli : Warmup(g)) \/ (\E k \in 1 .. MaxTun : TunelCae(k))
    BY <2>4 DEF Warmup, Calienta, TomarAgente, GetFalla, GetOk, TunelCae, dart
  <2> QED
    BY <2>1, <2>2, <2>3, <2>4 DEF Next, SigueNav, vars, dart
<1>5. puerto \in 0 .. tuneles' /\ puerto' \in 0 .. tuneles' /\ 0 \in 0 .. tuneles'
  BY <1>0, <1>1, <1>2 DEF TipoRust
<1>6. {proxyHP, hp, override} \subseteq 0 .. tuneles'
  BY <1>1, <1>2
<1>7. {proxyHP', hp', override'} \subseteq 0 .. tuneles'
  BY <1>4, <1>5, <1>6
<1> QED
  BY <1>3, <1>7

(* Type correctness, for every number of screens, clients and tunnels. *)
THEOREM TorTipo == Spec => []TypeOK
<1>1. Init => TypeOK
  <2> SUFFICES ASSUME Init PROVE TypeOK
    OBVIOUS
  <2>1. TipoRust
    BY SupuestoTor DEF Init, TipoRust
  <2>2. TipoDart
    <3>1. proxyHP = 0 /\ hp = 0 /\ override = 0 /\ tuneles = 0 /\ 0 \in 0 .. 0
      BY DEF Init
    <3> QED
      BY <3>1 DEF Init, TipoDart
  <2>3. TipoLlamadas
    BY DEF Init, TipoLlamadas, Pcs
  <2> QED
    BY <2>1, <2>2, <2>3 DEF TypeOK
<1>2. TypeOK /\ [Next]_vars => TypeOK'
  BY PasoRust, PasoDart, PasoLlamadas DEF TypeOK
<1> QED
  BY <1>1, <1>2, PTL DEF Spec

(* At most one tunnel serves and PROXY_PUERTO names it. *)
THEOREM TorUnTunel == Spec => []UnTunel
<1>1. Init => UnTunel
  BY DEF Init, UnTunel
<1>2. TypeOK /\ UnTunel /\ [Next]_vars => UnTunel'
  <2> SUFFICES ASSUME TypeOK, UnTunel, [Next]_vars PROVE UnTunel'
    OBVIOUS
  <2>1. TipoRust /\ Estatico
    BY PasoEstatico DEF TypeOK
  <2>2. CASE AtarNuevo
    BY <2>1, <2>2 DEF AtarNuevo, UnTunel, TipoRust
  <2>3. ASSUME NEW k \in 1 .. MaxTun, TunelCae(k)
        PROVE  UnTunel'
    BY <2>1, <2>3 DEF TunelCae, UnTunel, TipoRust
  <2>4. CASE UNCHANGED <<puerto, vivo>>
    BY <2>4 DEF UnTunel
  <2> QED
    BY <2>1, <2>2, <2>3, <2>4 DEF Estatico, rust, BootOk
<1> QED
  BY <1>1, <1>2, TorTipo, PTL DEF Spec

(* UnArranque is inductive by itself: who takes _busy finds it free, and   *)
(* only its holder moves on to "contesta".                                 *)
THEOREM TorUnArranque == Spec => []UnArranque
<1>1. Init => UnArranque
  BY DEF Init, UnArranque, Ocupado
<1>2. TypeOK /\ UnArranque /\ [Next]_vars => UnArranque'
  <2> SUFFICES ASSUME TypeOK, UnArranque, [Next]_vars PROVE UnArranque'
    OBVIOUS
  <2> USE DEF UnArranque, Ocupado, Va, Refresca, dart
  <2>0. Nav \in Ctx /\ TipoLlamadas
    BY DEF Ctx, TypeOK
  <2>1. ASSUME NEW c \in Ctx, PedirStart(c) \/ PedirRebootstrap(c)
        PROVE  UnArranque'
    BY <2>0, <2>1 DEF TipoLlamadas, PedirStart, PedirRebootstrap
  <2>2. ASSUME NEW c \in Ctx,
               \/ MirarCliente(c) \/ MirarEstado(c) \/ SinCarpeta(c) \/ BootFalla(c) \/ BootOk(c)
               \/ Marcar(c) \/ TomarMutex(c) \/ Rebota(c)
        PROVE  UnArranque'
    BY <2>0, <2>2 DEF TipoLlamadas, MirarCliente, MirarEstado, SinCarpeta, BootFalla, BootOk, Marcar,
       TomarMutex, Rebota
  <2>3. ASSUME NEW c \in Ctx, Contesta(c)
        PROVE  UnArranque'
    BY <2>0, <2>3 DEF TipoLlamadas, Contesta
  <2>4. ASSUME NEW c \in Ctx,
               PedirRefresh(c) \/ Leer(c) \/ LeerEstado(c) \/ GuardarRunning(c) \/ GuardarPuerto(c)
        PROVE  UnArranque'
    <3>1. /\ pc[c] \notin Ocupado
          /\ \E b \in Pcs \ Ocupado : pc' = [pc EXCEPT ![c] = b]
          /\ busy' = busy
      BY <2>0, <2>4 DEF TipoLlamadas, PedirRefresh, Leer, LeerEstado, GuardarRunning,
         GuardarPuerto, Pcs, PorLeer, Leyendo
    <3> QED
      BY <2>0, <3>1 DEF TipoLlamadas
  <2>5. ASSUME NEW c \in Ctx, PedirStop(c) \/ QuitarProxy(c) \/ Apagar(c) \/ Soltar(c)
        PROVE  UnArranque'
    BY <2>0, <2>5 DEF TipoLlamadas, PedirStop, QuitarProxy, Apagar, Soltar
  <2>6. CASE NavDecide
    BY <2>0, <2>6 DEF TipoLlamadas, NavDecide
  <2>7. CASE NavEncender \/ NavApagar \/ NavOtra \/ NavComprueba
    BY <2>0, <2>7 DEF TipoLlamadas, NavEncender, NavApagar, NavOtra, NavComprueba
  <2>8. CASE AtarNada \/ AtarMismo \/ AtarNuevo \/ NavPoner \/ NavOverride \/ NavLimpiar \/ NavQuitar
    BY <2>0, <2>8 DEF TipoLlamadas, AtarNada, AtarMismo, AtarNuevo, NavPoner, NavOverride,
       NavLimpiar, NavQuitar
  <2>9. CASE (\E g \in 1 .. MaxCli : Warmup(g)) \/ (\E k \in 1 .. MaxTun : TunelCae(k)) \/ UNCHANGED vars
    BY <2>9 DEF Warmup, Calienta, TomarAgente, GetFalla, GetOk, TunelCae, vars
  <2> QED
    BY <2>1, <2>2, <2>3, <2>4, <2>5, <2>6, <2>7, <2>8, <2>9 DEF Next, Pide, Sigue, SigueNav
<1> QED
  BY <1>1, <1>2, TorTipo, PTL DEF Spec

(* A client outlives ESTADO only between the two stores of a stop or of a start. *)
LEMMA PasoSuelta ==
  ASSUME TypeOK, ParadoSuelta, [Next]_vars
  PROVE  ParadoSuelta'
<1> USE DEF ParadoSuelta, Va, Refresca, rust, Pcs, PorLeer, Ocupado, Leyendo
<1>0. Nav \in Ctx /\ TipoLlamadas
  BY DEF Ctx, TypeOK
<1>1. ASSUME NEW c \in Ctx,
             \/ Pide(c) \/ Leer(c) \/ LeerEstado(c) \/ GuardarRunning(c) \/ GuardarPuerto(c)
             \/ SinCarpeta(c) \/ BootFalla(c) \/ Contesta(c) \/ QuitarProxy(c) \/ TomarMutex(c) \/ Rebota(c)
      PROVE  ParadoSuelta'
  BY <1>0, <1>1 DEF TipoLlamadas, Pide, PedirRefresh, PedirStart, PedirStop, PedirRebootstrap,
     Leer, LeerEstado, GuardarRunning, GuardarPuerto, SinCarpeta, BootFalla, Contesta, QuitarProxy,
     TomarMutex, Rebota
<1>2. ASSUME NEW c \in Ctx, MirarCliente(c) \/ MirarEstado(c) \/ BootOk(c) \/ Marcar(c)
      PROVE  ParadoSuelta'
  BY <1>0, <1>2 DEF TipoLlamadas, MirarCliente, MirarEstado, BootOk, Marcar
<1>3. ASSUME NEW c \in Ctx, Apagar(c) \/ Soltar(c)
      PROVE  ParadoSuelta'
  BY <1>0, <1>3 DEF TipoLlamadas, Apagar, Soltar
<1>4. CASE NavEncender \/ NavApagar \/ SigueNav
  BY <1>0, <1>4 DEF TipoLlamadas, NavEncender, NavApagar, SigueNav, NavDecide, NavOtra,
     NavComprueba, AtarNada, AtarMismo, AtarNuevo, NavPoner, NavOverride, NavLimpiar, NavQuitar
<1>5. CASE (\E g \in 1 .. MaxCli : Warmup(g)) \/ (\E k \in 1 .. MaxTun : TunelCae(k)) \/ UNCHANGED vars
  BY <1>5 DEF Warmup, Calienta, TomarAgente, GetFalla, GetOk, TunelCae, vars
<1> QED
  BY <1>1, <1>2, <1>3, <1>4, <1>5 DEF Next, Pide, Sigue

(* However tor_stop and tor_start overlap, ESTADO is off beside a client   *)
(* only while one of them has a step to go.                                *)
THEOREM TorParadoSuelta == Spec => []ParadoSuelta
<1>1. Init => ParadoSuelta
  BY DEF Init, ParadoSuelta
<1> QED
  BY <1>1, PasoSuelta, TorTipo, PTL DEF Spec

(* What makes RunningAlDia inductive.  While the reads have not crossed    *)
(* there is one at most, and unless some call still has a read to begin,   *)
(* that read, or else the stored flag, is true of the statics.  A warm-up  *)
(* can make a stopped client run again, but then ParadoSuelta names a call *)
(* that will read later.                                                   *)
UnLector == ~cruzado => \A c, d \in Ctx : pc[c] \in Leyendo /\ pc[d] \in Leyendo => c = d

Vigente ==
  ~cruzado /\ (\A c \in Ctx : pc[c] \notin PorLeer) =>
    /\ \A c \in Ctx : pc[c] = "leerE" => cliente # 0
    /\ \A c \in Ctx : pc[c] = "leido" => (lee[c] <=> Corre)
    /\ (\A c \in Ctx : pc[c] \notin Leyendo) => (running <=> Corre)

LEMMA PasoVigente ==
  ASSUME TypeOK, ParadoSuelta, UnLector, Vigente, [Next]_vars
  PROVE  UnLector' /\ Vigente'
<1> USE DEF UnLector, Vigente, Corre, Va, Refresca, rust, dart, Pcs, PorLeer, Ocupado, Leyendo
<1>0. Nav \in Ctx /\ TipoLlamadas
  BY DEF Ctx, TypeOK
<1>1. ASSUME NEW c \in Ctx, Pide(c)
      PROVE  UnLector' /\ Vigente'
  BY <1>0, <1>1 DEF TipoLlamadas, Pide, PedirRefresh, PedirStart, PedirStop, PedirRebootstrap
<1>2. ASSUME NEW c \in Ctx, Leer(c)
      PROVE  UnLector' /\ Vigente'
  BY <1>0, <1>2 DEF TipoLlamadas, Leer
<1>3. ASSUME NEW c \in Ctx, LeerEstado(c)
      PROVE  UnLector' /\ Vigente'
  BY <1>0, <1>3 DEF TipoLlamadas, LeerEstado
<1>4. ASSUME NEW c \in Ctx, GuardarRunning(c)
      PROVE  UnLector' /\ Vigente'
  BY <1>0, <1>4 DEF TipoLlamadas, GuardarRunning
<1>5. ASSUME NEW c \in Ctx, GuardarPuerto(c)
      PROVE  UnLector' /\ Vigente'
  BY <1>0, <1>5 DEF TipoLlamadas, GuardarPuerto
<1>6. ASSUME NEW c \in Ctx,
             \/ MirarCliente(c) \/ MirarEstado(c) \/ SinCarpeta(c) \/ BootFalla(c) \/ BootOk(c)
             \/ Marcar(c) \/ Contesta(c)
      PROVE  UnLector' /\ Vigente'
  BY <1>0, <1>6 DEF TipoLlamadas, MirarCliente, MirarEstado, SinCarpeta, BootFalla, BootOk, Marcar, Contesta
<1>7. ASSUME NEW c \in Ctx,
             QuitarProxy(c) \/ Apagar(c) \/ Soltar(c) \/ TomarMutex(c) \/ Rebota(c)
      PROVE  UnLector' /\ Vigente'
  BY <1>0, <1>7 DEF TipoLlamadas, QuitarProxy, Apagar, Soltar, TomarMutex, Rebota
<1>8. CASE NavEncender \/ NavApagar \/ NavDecide \/ NavOtra \/ NavComprueba
  BY <1>0, <1>8 DEF TipoLlamadas, NavEncender, NavApagar, NavDecide, NavOtra, NavComprueba
<1>9. CASE AtarNada \/ AtarMismo \/ AtarNuevo \/ NavPoner \/ NavOverride \/ NavLimpiar \/ NavQuitar
  BY <1>0, <1>9 DEF TipoLlamadas, AtarNada, AtarMismo, AtarNuevo, NavPoner, NavOverride,
     NavLimpiar, NavQuitar
<1>10. ASSUME NEW g \in 1 .. MaxCli, Warmup(g)
       PROVE  UnLector' /\ Vigente'
  BY <1>0, <1>10 DEF TipoLlamadas, ParadoSuelta, Warmup, Calienta, TomarAgente, GetFalla, GetOk
<1>11. CASE (\E k \in 1 .. MaxTun : TunelCae(k)) \/ UNCHANGED vars
  BY <1>11 DEF TunelCae, vars
<1> QED
  BY <1>1, <1>2, <1>3, <1>4, <1>5, <1>6, <1>7, <1>8, <1>9, <1>10, <1>11 DEF Next, Sigue, SigueNav

(* When nothing is in flight the screens show what Rust would answer. *)
THEOREM TorRunningAlDia == Spec => []RunningAlDia
<1>1. Init => UnLector /\ Vigente
  BY DEF Init, UnLector, Vigente, Corre, Leyendo
<1>2. Vigente => RunningAlDia
  BY DEF Vigente, RunningAlDia
<1> QED
  BY <1>1, <1>2, PasoVigente, TorParadoSuelta, TorTipo, PTL DEF Spec
=============================================================================
