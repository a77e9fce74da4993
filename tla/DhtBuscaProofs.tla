--------------------------- MODULE DhtBuscaProofs ---------------------------
(***************************************************************************)
(* Proofs about the DHT spider: the life cycle (DhtVida), for any number   *)
(* of callers, starts, hashes and any set of environment failures; and the *)
(* metadata pipeline (DhtBusca), which implements it, for any number of    *)
(* loops, captures and any caps.                                           *)
(***************************************************************************)
EXTENDS DhtBusca, SecuenciasProofs

(* The three facts are inductive together: EnMarcha needs MotorCoherente   *)
(* to know that the running generation still has its channel open.         *)
InvVida == TypeOK /\ MotorCoherente /\ EnMarcha

LEMMA InvInicial == Init => InvVida
<1> SUFFICES ASSUME Init PROVE InvVida
  OBVIOUS
<1>1. TypeOK
  <2>1. cola \in [Gen -> Seq(Hash)]
    BY EmptySeq DEF Init
  <2>2. gen \in 0 .. MaxGen /\ hilo \in 0 .. gen /\ canal \in 0 .. gen /\ dht \in 0 .. gen
    BY SupuestoVida DEF Init
  <2> QED
    BY <2>1, <2>2 DEF Init, TypeOK, Llamada
<1>2. MotorCoherente /\ EnMarcha
  BY DEF Init, MotorCoherente, EnMarcha
<1> QED
  BY <1>1, <1>2 DEF InvVida

(* Sending to a channel keeps its type and touches nothing else. *)
LEMMA EncolarTipo ==
  ASSUME cola \in [Gen -> Seq(Hash)], NEW g \in Gen, NEW h \in Hash, Encolar(g, h)
  PROVE  cola' \in [Gen -> Seq(Hash)]
<1>1. CASE Recibe(g)
  <2>1. Append(cola[g], h) \in Seq(Hash)
    BY AppendProperties
  <2> QED
    BY <1>1, <2>1 DEF Encolar
<1>2. CASE ~Recibe(g)
  BY <1>2 DEF Encolar
<1> QED
  BY <1>1, <1>2

(* The calls of the Dart singleton that change only its own variables. *)
LEMMA PasoDart ==
  ASSUME InvVida, NEW t \in Toques,
         PedirStart(t) \/ PedirStop(t) \/ Volver(t) \/ Rechazo(t)
  PROVE  InvVida'
<1>1. /\ corriendo' \in BOOLEAN
      /\ toque' \in [Toques -> Llamada]
      /\ UNCHANGED restoDart
  BY DEF InvVida, TypeOK, Llamada, PedirStart, PedirStop, Volver, Rechazo, restoDart
<1>2. TypeOK'
  BY <1>1 DEF InvVida, TypeOK, restoDart
<1>3. MotorCoherente' /\ EnMarcha'
  BY <1>1 DEF InvVida, MotorCoherente, EnMarcha, Recibe, restoDart
<1> QED
  BY <1>2, <1>3 DEF InvVida

LEMMA PasoStart ==
  ASSUME InvVida, NEW t \in Toques,
         StartOk(t) \/ StartError(t) \/ StartPanico(t)
  PROVE  InvVida'
<1> USE SupuestoVida
<1>1. CASE StartOk(t)
  <2>1. /\ gen + 1 \in Gen
        /\ gen' = gen + 1
        /\ hilo' = gen + 1 /\ canal' = gen + 1 /\ dht' = gen + 1
        /\ parar' = FALSE
        /\ puerto' \in {"fijo", "efimero"}
    BY <1>1 DEF InvVida, TypeOK, Gen, StartOk, AbrirCanal, PuedeAbrir, PuertosObtenibles
  <2>2. /\ toque' \in [Toques -> Llamada]
        /\ spider' \in [Gen -> {"no", "vivo", "fin"}] /\ spider'[gen + 1] = "vivo"
        /\ bucle' \in [Gen -> {"no", "sesion", "vivo", "fin", "fallo"}] /\ bucle'[gen + 1] = "sesion"
    BY <1>1, <2>1 DEF InvVida, TypeOK, Llamada, StartOk
  <2>3. TypeOK'
    <3>1. gen' \in 0 .. MaxGen /\ hilo' \in 0 .. gen' /\ canal' \in 0 .. gen' /\ dht' \in 0 .. gen'
      BY <2>1 DEF InvVida, TypeOK, Gen
    <3> QED
      BY <1>1, <2>1, <2>2, <3>1 DEF InvVida, TypeOK, StartOk
  <2>4. MotorCoherente'
    BY <2>1 DEF InvVida, TypeOK, MotorCoherente
  <2>5. EnMarcha'
    BY <2>1, <2>2 DEF EnMarcha, Recibe
  <2> QED
    BY <2>3, <2>4, <2>5 DEF InvVida
<1>2. CASE StartError(t) \/ StartPanico(t)
  <2>1. /\ gen' = gen + 1 /\ gen + 1 \in 0 .. MaxGen
        /\ canal' = gen + 1 /\ parar' = FALSE
        /\ hilo = 0 /\ hilo' = hilo
    BY <1>2 DEF InvVida, TypeOK, StartError, StartPanico, AbrirCanal, PuedeAbrir
  <2>2. TypeOK'
    <3>1. gen' \in 0 .. MaxGen /\ hilo' \in 0 .. gen' /\ canal' \in 0 .. gen' /\ dht' \in 0 .. gen'
      BY <1>2, <2>1 DEF InvVida, TypeOK, StartError, StartPanico
    <3> QED
      BY <1>2, <2>1, <3>1 DEF InvVida, TypeOK, Llamada, StartError, StartPanico
  <2>3. MotorCoherente' /\ EnMarcha'
    BY <2>1 DEF MotorCoherente, EnMarcha
  <2> QED
    BY <2>2, <2>3 DEF InvVida
<1> QED
  BY <1>1, <1>2

LEMMA PasoStop ==
  ASSUME InvVida, NEW t \in Toques, StopOk(t) \/ StopError(t)
  PROVE  InvVida'
<1>1. /\ parar' = TRUE /\ canal' = 0 /\ hilo' \in {0, hilo}
      /\ hilo # 0
      /\ UNCHANGED <<gen, dht>>
  BY DEF StopOk, StopError, CerrarCanal
<1>2. TypeOK'
  <2>1. gen' \in 0 .. MaxGen /\ hilo' \in 0 .. gen' /\ canal' \in 0 .. gen' /\ dht' \in 0 .. gen'
    BY <1>1 DEF InvVida, TypeOK
  <2> QED
    BY <1>1, <2>1 DEF InvVida, TypeOK, Llamada, StopOk, StopError, CerrarCanal
<1>3. MotorCoherente' /\ EnMarcha'
  BY <1>1 DEF InvVida, MotorCoherente, EnMarcha
<1> QED
  BY <1>2, <1>3 DEF InvVida

LEMMA PasoEnvio ==
  ASSUME InvVida, NEW h \in Hash,
         Filtrar(h) \/ Probar(h) \/ (\E g \in Gen : Sondear(g, h))
  PROVE  InvVida'
<1> USE SupuestoVida
<1>1. cola' \in [Gen -> Seq(Hash)]
  <2>1. CASE Filtrar(h)
    BY <2>1, EncolarTipo DEF InvVida, TypeOK, Filtrar, Gen
  <2>2. CASE Probar(h)
    BY <2>2, EncolarTipo DEF InvVida, TypeOK, Probar, Gen
  <2>3. CASE \E g \in Gen : Sondear(g, h)
    BY <2>3, EncolarTipo DEF InvVida, TypeOK, Sondear
  <2> QED
    BY <2>1, <2>2, <2>3
<1>2. UNCHANGED <<corriendo, toque, envenenado, parar, hilo, canal, gen, dht,
                  puerto, spider, bucle>>
  BY DEF InvVida, TypeOK, Filtrar, Probar, Sondear, restoEnvio
<1>3. TypeOK'
  BY <1>1, <1>2 DEF InvVida, TypeOK
<1>4. MotorCoherente' /\ EnMarcha'
  BY <1>2 DEF InvVida, MotorCoherente, EnMarcha, Recibe
<1> QED
  BY <1>3, <1>4 DEF InvVida

LEMMA PasoHilo ==
  ASSUME InvVida, NEW g \in Gen,
         \/ SpiderVeStop(g) \/ SesionLista(g) \/ SesionFalla(g)
         \/ BucleVeStop(g) \/ Desconectado(g) \/ Sacar(g)
  PROVE  InvVida'
<1>1. UNCHANGED restoHilo
  BY DEF SpiderVeStop, SesionLista, SesionFalla, BucleVeStop, Desconectado, Sacar, Terminar
<1>2. cola' \in [Gen -> Seq(Hash)]
  <2>0. cola \in [Gen -> Seq(Hash)]
    BY DEF InvVida, TypeOK
  <2>1. CASE Sacar(g)
    <3>1. Tail(cola[g]) \in Seq(Hash)
      BY <2>0, <2>1, HeadTailProperties DEF Sacar
    <3> QED
      BY <2>0, <2>1, <3>1 DEF Sacar
  <2>2. CASE Terminar(g) \/ SesionFalla(g)
    <3>1. cola' = [cola EXCEPT ![g] = <<>>]
      BY <2>2 DEF Terminar, SesionFalla
    <3> QED
      BY <2>0, <3>1
  <2>3. CASE SpiderVeStop(g) \/ SesionLista(g)
    BY <2>3 DEF InvVida, TypeOK, SpiderVeStop, SesionLista
  <2> QED
    BY <2>1, <2>2, <2>3 DEF BucleVeStop, Desconectado
<1>3. /\ spider' \in [Gen -> {"no", "vivo", "fin"}]
      /\ bucle' \in [Gen -> {"no", "sesion", "vivo", "fin", "fallo"}]
  BY DEF InvVida, TypeOK, SpiderVeStop, SesionLista, SesionFalla, BucleVeStop,
         Desconectado, Sacar, Terminar
<1>4. TypeOK'
  BY <1>1, <1>2, <1>3 DEF InvVida, TypeOK, restoHilo
<1>5. MotorCoherente'
  BY <1>1 DEF InvVida, MotorCoherente, restoHilo
<1>6. EnMarcha'
  <2> SUFFICES ASSUME hilo # 0, ~parar
               PROVE  /\ spider'[hilo] = "vivo"
                      /\ bucle'[hilo] \in {"sesion", "vivo", "fallo"}
    BY <1>1 DEF EnMarcha, Recibe, restoHilo
  <2>1. /\ spider[hilo] = "vivo"
        /\ bucle[hilo] \in {"sesion", "vivo", "fallo"}
        /\ canal = hilo
    BY DEF InvVida, EnMarcha, MotorCoherente, Recibe
  <2>2. CASE SpiderVeStop(g)
    BY <2>2 DEF SpiderVeStop
  <2>3. CASE SesionLista(g)
    BY <2>1, <2>3 DEF SesionLista, InvVida, TypeOK
  <2>4. CASE SesionFalla(g)
    BY <2>1, <2>4 DEF SesionFalla, InvVida, TypeOK
  <2>5. CASE BucleVeStop(g)
    BY <2>5 DEF BucleVeStop
  <2>6. CASE Desconectado(g)
    <3>1. g # hilo
      BY <2>1, <2>6 DEF Desconectado, SinEmisor
    <3> QED
      BY <2>1, <2>6, <3>1 DEF Desconectado, Terminar, InvVida, TypeOK
  <2>7. CASE Sacar(g)
    BY <2>1, <2>7 DEF Sacar
  <2> QED
    BY <2>2, <2>3, <2>4, <2>5, <2>6, <2>7
<1> QED
  BY <1>4, <1>5, <1>6 DEF InvVida

LEMMA PasoReabrir == ASSUME InvVida, Reabrir PROVE InvVida'
<1>1. TypeOK'
  <2>1. cola' \in [Gen -> Seq(Hash)]
    BY EmptySeq DEF Reabrir
  <2>2. gen' \in 0 .. MaxGen /\ hilo' \in 0 .. gen' /\ canal' \in 0 .. gen' /\ dht' \in 0 .. gen'
    BY SupuestoVida DEF InvVida, TypeOK, Reabrir
  <2> QED
    BY <2>1, <2>2 DEF Reabrir, TypeOK, Llamada
<1>2. MotorCoherente' /\ EnMarcha'
  BY DEF Reabrir, MotorCoherente, EnMarcha
<1> QED
  BY <1>1, <1>2 DEF InvVida

LEMMA PasoVida == InvVida /\ [Next]_vidaVars => InvVida'
<1> SUFFICES ASSUME InvVida, [Next]_vidaVars PROVE InvVida'
  OBVIOUS
<1>1. CASE UNCHANGED vidaVars
  BY <1>1 DEF InvVida, TypeOK, MotorCoherente, EnMarcha, Recibe, vidaVars
<1>2. CASE \E t \in Toques :
            \/ PedirStart(t) \/ PedirStop(t) \/ Volver(t) \/ Rechazo(t)
            \/ StartOk(t) \/ StartError(t) \/ StartPanico(t)
            \/ StopOk(t) \/ StopError(t)
  BY <1>2, PasoDart, PasoStart, PasoStop
<1>3. CASE \/ \E h \in Hash : Filtrar(h) \/ Probar(h)
          \/ \E g \in Gen, h \in Hash : Sondear(g, h)
  BY <1>3, PasoEnvio
<1>4. CASE \E g \in Gen :
            \/ SpiderVeStop(g) \/ SesionLista(g) \/ SesionFalla(g)
            \/ BucleVeStop(g) \/ Desconectado(g) \/ Sacar(g)
  BY <1>4, PasoHilo
<1>5. CASE Reabrir
  BY <1>5, PasoReabrir
<1> QED
  BY <1>1, <1>2, <1>3, <1>4, <1>5 DEF Next

(* Every variable keeps its type. *)
THEOREM TipoVida == Spec => []TypeOK
BY InvInicial, PasoVida, PTL DEF Spec, InvVida

(* While hilo_spider is set, node and channel are those of the same start. *)
THEOREM VidaCoherente == Spec => []MotorCoherente
BY InvInicial, PasoVida, PTL DEF Spec, InvVida

(* A spider started and not stopped keeps its thread and its loop. *)
THEOREM VidaEnMarcha == Spec => []EnMarcha
BY InvInicial, PasoVida, PTL DEF Spec, InvVida

(***************************************************************************)
(* The Dart flag, with one caller.                                         *)
(***************************************************************************)
UnSoloLlamador == \A t, u \in Toques : t = u

(* Between the motor's answer and the Dart continuation the flag lags, and *)
(* the call in flight says in which direction.                             *)
InvDart ==
  /\ \A t \in Toques : toque[t] = "start_ok" => hilo # 0
  /\ \A t \in Toques : toque[t] = "stop_ok" => hilo = 0
  /\ \A t \in Toques : toque[t] = "start" => ~corriendo
  /\ (\A t \in Toques : toque[t] \notin {"start_ok", "stop_ok"})
       => (corriendo <=> hilo # 0)

LEMMA DartInicial == Init => InvDart
BY DEF Init, InvDart

LEMMA DartLlamada ==
  ASSUME UnSoloLlamador, TypeOK, InvDart, NEW t \in Toques,
         \/ PedirStart(t) \/ PedirStop(t) \/ Volver(t) \/ Rechazo(t)
         \/ StartOk(t) \/ StartError(t) \/ StartPanico(t)
         \/ StopOk(t) \/ StopError(t)
  PROVE  InvDart'
<1> USE DEF UnSoloLlamador, InvDart, TypeOK
<1>1. CASE PedirStart(t)
  BY <1>1 DEF PedirStart, restoDart
<1>2. CASE PedirStop(t)
  BY <1>2 DEF PedirStop, restoDart
<1>3. CASE Volver(t)
  BY <1>3 DEF Volver, restoDart
<1>4. CASE Rechazo(t)
  BY <1>4 DEF Rechazo, restoDart
<1>5. CASE StartOk(t)
  BY <1>5 DEF StartOk, AbrirCanal, PuedeAbrir
<1>6. CASE StartError(t) \/ StartPanico(t)
  BY <1>6 DEF StartError, StartPanico, AbrirCanal, PuedeAbrir
<1>7. CASE StopOk(t)
  BY <1>7 DEF StopOk, CerrarCanal
<1>8. CASE StopError(t)
  BY <1>8 DEF StopError, CerrarCanal
<1> QED
  BY <1>1, <1>2, <1>3, <1>4, <1>5, <1>6, <1>7, <1>8

LEMMA PasoFiel ==
  ASSUME UnSoloLlamador, TypeOK, InvDart, [Next]_vidaVars
  PROVE  InvDart'
<1>1. CASE \E t \in Toques :
            \/ PedirStart(t) \/ PedirStop(t) \/ Volver(t) \/ Rechazo(t)
            \/ StartOk(t) \/ StartError(t) \/ StartPanico(t)
            \/ StopOk(t) \/ StopError(t)
  BY <1>1, DartLlamada
<1>2. CASE Reabrir
  BY <1>2 DEF Reabrir, InvDart
<1>3. CASE UNCHANGED <<corriendo, toque, parar, hilo>>
  BY <1>3 DEF InvDart
<1>4. ASSUME \/ \E h \in Hash : Filtrar(h) \/ Probar(h)
             \/ \E g \in Gen, h \in Hash : Sondear(g, h)
             \/ \E g \in Gen :
                  \/ SpiderVeStop(g) \/ SesionLista(g) \/ SesionFalla(g)
                  \/ BucleVeStop(g) \/ Desconectado(g) \/ Sacar(g)
             \/ UNCHANGED vidaVars
      PROVE  UNCHANGED <<corriendo, toque, parar, hilo>>
  BY <1>4 DEF Filtrar, Probar, Sondear, restoEnvio, SpiderVeStop, SesionLista,
              SesionFalla, BucleVeStop, Desconectado, Sacar, Terminar, restoHilo, vidaVars
<1> QED
  BY <1>1, <1>2, <1>3, <1>4 DEF Next

(* DhtBusca._corriendo agrees with the motor whenever no call is in flight. *)
THEOREM VidaFiel ==
  ASSUME UnSoloLlamador
  PROVE  Spec => []CorriendoFiel
<1>1. TypeOK /\ InvDart /\ [Next]_vidaVars => InvDart'
  BY PasoFiel
<1>2. InvDart => CorriendoFiel
  BY DEF InvDart, CorriendoFiel, EnReposo
<1> QED
  BY DartInicial, TipoVida, <1>1, <1>2, PTL DEF Spec


(***************************************************************************)
(* The pipeline implements the life cycle.                                 *)
(***************************************************************************)
LEMMA PasoImplementa == [NextBusca]_vars => [Next]_vidaVars
<1> SUFFICES ASSUME NextBusca PROVE [Next]_vidaVars
  BY DEF vars
<1>1. CASE Vida
  BY <1>1 DEF Vida, SinTuberia, Next
<1>2. CASE \E t \in Toques : Detener(t)
  BY <1>2 DEF Detener, Next
<1>3. CASE GuardarAhora \/ PollNuevos
  BY <1>3 DEF GuardarAhora, PollNuevos
<1>4. CASE \E enOrden \in BOOLEAN : ReabrirBusca(enOrden)
  BY <1>4 DEF ReabrirBusca, Next
<1>5. CASE \E g \in Gen :
            \/ AbrirSesion(g) \/ TerminarBucle(g)
            \/ Descartar(g) \/ Admitir(g)
  BY <1>5 DEF AbrirSesion, TerminarBucle, Descartar, Admitir, Next
<1>6. CASE \E g \in Gen :
            \/ EmpezarCiclo(g) \/ CanalVacio(g) \/ Cosechar(g) \/ Marcar(g)
            \/ Indexar(g) \/ Anunciar(g) \/ Dormir(g) \/ TomarPermiso(g)
            \/ \E h \in Hash : Agregar(g, h) \/ Resolver(g, h)
            \/ \E i \in 1 .. MaxConc : SoltarPermiso(g, i)
  BY <1>6 DEF EmpezarCiclo, CanalVacio, Cosechar, Marcar, Indexar, Anunciar,
              Dormir, TomarPermiso, Agregar, Resolver, SoltarPermiso, restoTarea
<1> QED
  BY <1>1, <1>2, <1>3, <1>4, <1>5, <1>6 DEF NextBusca

(* Every behaviour of the pipeline is a behaviour of the life cycle. *)
THEOREM BuscaImplementaVida == SpecBusca => ImplementaVida
<1>1. InitBusca => Init
  BY DEF InitBusca
<1> QED
  BY <1>1, PasoImplementa, PTL DEF SpecBusca, ImplementaVida, Spec

-----------------------------------------------------------------------------
(***************************************************************************)
(* The helpers on sequences.                                               *)
(***************************************************************************)
(* At the cap an insertion makes room first. *)
LEMMA InsertarCabe ==
  ASSUME NEW s \in Seq(Hash), NEW h \in Hash, Len(s) <= MaxMeta
  PROVE  Insertar(s, h) \in Seq(Hash) /\ Len(Insertar(s, h)) <= MaxMeta
<1> USE SupuestoBusca
<1>1. CASE Len(s) >= MaxMeta
  <2>1. s # <<>>
    BY <1>1
  <2>2. Tail(s) \in Seq(Hash) /\ Len(Tail(s)) = Len(s) - 1
    BY <2>1, HeadTailProperties
  <2> QED
    BY <1>1, <2>2, AppendProperties DEF Insertar
<1>2. CASE ~(Len(s) >= MaxMeta)
  BY <1>2, AppendProperties DEF Insertar
<1> QED
  BY <1>1, <1>2

(* The list without its last element. *)
LEMMA FrenteTipo ==
  ASSUME NEW S, NEW c \in Seq(S), c # <<>>
  PROVE  /\ Front(c) \in Seq(S)
         /\ Len(Front(c)) = Len(c) - 1
         /\ \A i \in 1 .. Len(c) - 1 : Front(c)[i] = c[i]
<1> DEFINE k == Len(c) - 1
<1>1. k \in Nat
  BY EmptySeq
<1>2. \A i \in 1 .. k : c[i] \in S
  BY ElementOfSeq
<1>3. /\ SubSeq(c, 1, k) \in Seq(S)
      /\ Len(SubSeq(c, 1, k)) = IF 1 <= k THEN k - 1 + 1 ELSE 0
      /\ \A i \in 1 .. k - 1 + 1 : SubSeq(c, 1, k)[i] = c[1 + i - 1]
  <2> HIDE DEF k
  <2> QED
    BY <1>1, <1>2, SubSeqProperties
<1>4. Len(SubSeq(c, 1, k)) = k
  <2> HIDE DEF k
  <2>1. Len(SubSeq(c, 1, k)) = IF 1 <= k THEN k - 1 + 1 ELSE 0
    BY <1>3
  <2> QED
    BY <1>1, <2>1
<1>5. \A i \in 1 .. k : SubSeq(c, 1, k)[i] = c[i]
  <2> HIDE DEF k
  <2> QED
    BY <1>1, <1>3
<1> QED
  BY <1>3, <1>4, <1>5 DEF Front

(* A capture comes first and unresolved, or the list only loses its oldest. *)
LEMMA CapturarCabe ==
  ASSUME NEW c \in Seq(Captura), NEW h \in Hash, Len(c) <= TopeCapturas
  PROVE  /\ Capturar(c, h) \in Seq(Captura)
         /\ Len(Capturar(c, h)) <= TopeCapturas
         /\ \A i \in DOMAIN Capturar(c, h) :
              \/ ~Capturar(c, h)[i].resuelto /\ Capturar(c, h)[i].hash = h
              \/ \E j \in DOMAIN c : c[j] = Capturar(c, h)[i]
<1> USE SupuestoBusca
<1> DEFINE d == IF Len(c) >= TopeCapturas THEN Front(c) ELSE c
           n == [hash |-> h, resuelto |-> FALSE]
<1>1. /\ d \in Seq(Captura)
      /\ Len(d) + 1 <= TopeCapturas
      /\ \A i \in DOMAIN d : i \in DOMAIN c /\ d[i] = c[i]
  <2>1. CASE Len(c) >= TopeCapturas
    <3>2. /\ Front(c) \in Seq(Captura)
          /\ Len(Front(c)) = Len(c) - 1
          /\ \A i \in 1 .. Len(c) - 1 : Front(c)[i] = c[i]
      <4>1. c # <<>>
        BY <2>1
      <4> QED
        BY <4>1, FrenteTipo
    <3>3. DOMAIN Front(c) = 1 .. Len(c) - 1
      BY <3>2, LenProperties
    <3>4. DOMAIN c = 1 .. Len(c) /\ Len(c) \in Nat
      BY LenProperties
    <3>5. d = Front(c)
      BY <2>1
    <3> HIDE DEF d
    <3> QED
      BY <2>1, <3>2, <3>3, <3>4, <3>5
  <2>2. CASE ~(Len(c) >= TopeCapturas)
    BY <2>2
  <2> QED
    BY <2>1, <2>2
<1>2. n \in Captura
  BY DEF Captura
<1>3. CASE \E i \in DOMAIN d : d[i].hash = h
  <2>1. Capturar(c, h) = d
    BY <1>3 DEF Capturar
  <2> QED
    BY <1>1, <2>1
<1>4. CASE ~(\E i \in DOMAIN d : d[i].hash = h)
  <2>1. Capturar(c, h) = <<n>> \o d
    BY <1>4 DEF Capturar
  <2>2. <<n>> \in Seq(Captura) /\ Len(<<n>>) = 1
    BY <1>2
  <2>3. /\ Capturar(c, h) \in Seq(Captura)
        /\ Len(Capturar(c, h)) = 1 + Len(d)
        /\ \A i \in 1 .. 1 + Len(d) :
             Capturar(c, h)[i] = IF i <= 1 THEN n ELSE d[i - 1]
    <3> HIDE DEF d, n
    <3>1. /\ <<n>> \o d \in Seq(Captura)
          /\ Len(<<n>> \o d) = Len(<<n>>) + Len(d)
          /\ \A i \in 1 .. Len(<<n>>) + Len(d) :
               (<<n>> \o d)[i] = IF i <= Len(<<n>>) THEN <<n>>[i] ELSE d[i - Len(<<n>>)]
      BY <1>1, <2>2, ConcatProperties
    <3> QED
      BY <2>1, <2>2, <3>1, <1>1
  <2>4. Len(d) \in Nat /\ DOMAIN Capturar(c, h) = 1 .. 1 + Len(d)
    BY <1>1, <2>3, LenProperties
  <2>5. ASSUME NEW i \in 1 .. 1 + Len(d)
        PROVE  \/ ~Capturar(c, h)[i].resuelto /\ Capturar(c, h)[i].hash = h
               \/ \E j \in DOMAIN c : c[j] = Capturar(c, h)[i]
    <3>1. CASE i <= 1
      <4>1. Capturar(c, h)[i] = n
        BY <2>3, <3>1
      <4> QED
        BY <4>1
    <3>2. CASE ~(i <= 1)
      <4> HIDE DEF d, n
      <4>1. i - 1 \in 1 .. Len(d) /\ DOMAIN d = 1 .. Len(d)
        BY <1>1, <2>4, <3>2, LenProperties
      <4>2. Capturar(c, h)[i] = d[i - 1]
        BY <2>3, <3>2
      <4> QED
        BY <1>1, <4>1, <4>2
    <3> QED
      BY <3>1, <3>2
  <2>6. Len(Capturar(c, h)) <= TopeCapturas
    <3> HIDE DEF d, n
    <3> QED
      BY <1>1, <2>3, <2>4, SupuestoBusca DEF SupuestoBusca
  <2> HIDE DEF d, n
  <2> QED
    BY <2>3, <2>4, <2>5, <2>6
<1> QED
  BY <1>3, <1>4

(* SetToSeqs lists every element exactly once. *)
LEMMA Listado ==
  ASSUME NEW S \in SUBSET Hash, NEW r \in SetToSeqs(S)
  PROVE  /\ r \in Seq(Hash)
         /\ Len(r) = Cardinality(S)
         /\ IsInjective(r)
         /\ Range(r) = S
<1>1. IsFiniteSet(S) /\ Cardinality(S) \in Nat
  BY SupuestoBusca, FS_Subset, FS_CardinalityType
<1>2. /\ r \in [1 .. Cardinality(S) -> S]
      /\ \A i, j \in 1 .. Cardinality(S) : i # j => r[i] # r[j]
  BY DEF SetToSeqs
<1>3. /\ r \in Seq(Hash) /\ Len(r) = Cardinality(S) /\ IsInjective(r)
      /\ Range(r) \subseteq S
  BY <1>1, <1>2 DEF IsInjective, Range
<1>4. ASSUME NEW x \in S, x \notin Range(r) PROVE FALSE
  <2>1. r \in [1 .. Cardinality(S) -> S \ {x}]
    BY <1>1, <1>2, <1>4 DEF Range
  <2>2. /\ IsFiniteSet(S \ {x})
        /\ Cardinality(S \ {x}) = Cardinality(S) - 1
    BY <1>1, FS_RemoveElement
  <2>3. /\ IsFiniteSet(1 .. Cardinality(S))
        /\ Cardinality(1 .. Cardinality(S)) = Cardinality(S)
    BY <1>1, FS_Interval
  <2>4. \E i, j \in 1 .. Cardinality(S) : i # j /\ r[i] = r[j]
    BY <1>1, <2>1, <2>2, <2>3, FS_PigeonHole
  <2> QED
    BY <1>2, <2>4
<1> QED
  BY <1>3, <1>4

(* What the cap leaves is a suffix. *)
LEMMA RecortarCabe ==
  ASSUME NEW s \in Seq(Hash)
  PROVE  /\ Recortar(s) \in Seq(Hash)
         /\ Len(Recortar(s)) <= TopeIndice
         /\ IsInjective(s) => IsInjective(Recortar(s))
<1>1. Exceso(s) \in 0 .. Len(s) /\ Len(s) - Exceso(s) <= TopeIndice
  BY SupuestoBusca DEF Exceso
<1>2. PICK e \in Nat, l \in Nat : e = Exceso(s) /\ l = Len(s) /\ e <= l
  BY <1>1
<1>3. PICK r : r = Recortar(s)
  OBVIOUS
<1>4. r \in Seq(Hash) /\ Len(r) = l - e /\ \A i \in 1 .. l - e : r[i] = s[i + e]
  <2>1. PICK m \in Int : m = e + 1
    OBVIOUS
  <2>2. r = SubSeq(s, m, l)
    BY <1>2, <1>3, <2>1 DEF Recortar
  <2>3. \A i \in m .. l : s[i] \in Hash
    <3>1. \A i \in 1 .. l : s[i] \in Hash
      BY <1>2, ElementOfSeq
    <3> QED
      BY <1>2, <2>1, <3>1
  <2>4. /\ r \in Seq(Hash)
        /\ Len(r) = IF m <= l THEN l - m + 1 ELSE 0
        /\ \A i \in 1 .. l - m + 1 : r[i] = s[m + i - 1]
    <3>1. /\ SubSeq(s, m, l) \in Seq(Hash)
          /\ Len(SubSeq(s, m, l)) = IF m <= l THEN l - m + 1 ELSE 0
          /\ \A i \in 1 .. l - m + 1 : SubSeq(s, m, l)[i] = s[m + i - 1]
      BY <2>3, SubSeqProperties
    <3> QED
      BY <2>2, <3>1, Zenon
  <2>5. Len(r) = l - e /\ l - m + 1 = l - e
    BY <1>2, <2>1, <2>4
  <2>6. ASSUME NEW i \in 1 .. l - e
        PROVE  r[i] = s[i + e]
    <3>1. m + i - 1 = i + e
      BY <2>1
    <3> QED
      BY <2>4, <2>5, <3>1
  <2> QED
    BY <2>4, <2>5, <2>6
<1>5. ASSUME IsInjective(s)
      PROVE  IsInjective(r)
  <2>1. DOMAIN s = 1 .. l
    BY <1>2
  <2>2. DOMAIN r = 1 .. l - e
    BY <1>4
  <2>3. ASSUME NEW i \in 1 .. l - e, NEW j \in 1 .. l - e, r[i] = r[j]
        PROVE  i = j
    <3>1. PICK x \in 1 .. l, y \in 1 .. l : x = i + e /\ y = j + e
      BY <1>2
    <3>2. s[x] = s[y]
      BY <1>4, <2>3, <3>1
    <3>3. x = y
      BY <1>5, <2>1, <3>2 DEF IsInjective
    <3>4. i \in Int /\ j \in Int /\ e \in Int
      BY <1>2
    <3> QED
      BY <3>1, <3>3, <3>4
  <2> QED
    BY <2>2, <2>3 DEF IsInjective
<1> QED
  BY <1>1, <1>2, <1>3, <1>4, <1>5

(* Marking changes no hash and resolves only what is in the batch. *)
LEMMA MarcadasTipo ==
  ASSUME NEW c \in Seq(Captura), NEW S
  PROVE  /\ Marcadas(c, S) \in Seq(Captura)
         /\ Len(Marcadas(c, S)) = Len(c)
         /\ DOMAIN Marcadas(c, S) = DOMAIN c
         /\ \A i \in DOMAIN c :
              /\ Marcadas(c, S)[i].hash = c[i].hash
              /\ Marcadas(c, S)[i].resuelto <=> c[i].resuelto \/ c[i].hash \in S
<1>1. /\ DOMAIN c = 1 .. Len(c) /\ Len(c) \in Nat
      /\ \A i \in 1 .. Len(c) : c[i] \in Captura
  BY LenProperties, ElementOfSeq
<1>2. DOMAIN Marcadas(c, S) = 1 .. Len(c)
  BY <1>1 DEF Marcadas
<1>3. \A i \in 1 .. Len(c) :
        /\ Marcadas(c, S)[i] \in Captura
        /\ Marcadas(c, S)[i].hash = c[i].hash
        /\ Marcadas(c, S)[i].resuelto <=> c[i].resuelto \/ c[i].hash \in S
  BY <1>1 DEF Marcadas, Captura
<1>4. Marcadas(c, S) \in [1 .. Len(c) -> Captura]
  BY <1>1, <1>2, <1>3 DEF Marcadas
<1> QED
  BY <1>1, <1>2, <1>3, <1>4
-----------------------------------------------------------------------------
(***************************************************************************)
(* The inductive invariant.  Cosecha ties the batch in the hands of a loop *)
(* to where the loop is: empty before the harvest, covered by the index    *)
(* once it was pushed.  DiscoCubierto lets the cache file be reloaded.     *)
(***************************************************************************)
Cubierto == Indexado \cup recortados

Cosecha ==
  \A g \in Gen :
    /\ pc[g] \in {"cabeza", "drenar", "cosechar"} => cos[g] = {}
    /\ pc[g] \in {"anunciar", "estadisticas"} => cos[g] \subseteq Cubierto

DiscoCubierto == Range(disco) \subseteq Cubierto /\ Len(disco) <= TopeIndice

(* The part about the index, the cache, the announcements and the batches. *)
Almacen ==
  /\ pc \in [Gen -> Punto]
  /\ cos \in [Gen -> SUBSET Hash]
  /\ indice \in Seq(Hash)
  /\ disco \in Seq(Hash)
  /\ nuevos \in SUBSET Hash
  /\ recortados \in SUBSET Hash
  /\ Len(indice) <= TopeIndice
  /\ IndiceSinRepetidos
  /\ NuevosIndexados
  /\ Cosecha
  /\ DiscoCubierto

(* The part about the captures. *)
Vista ==
  /\ capturas \in Seq(Captura)
  /\ Len(capturas) <= TopeCapturas
  /\ ResueltoIndexado

(* The part about the tables and tasks of the loops. *)
Tareas ==
  /\ pend \in [Gen -> Seq(Hash)]
  /\ \A g \in Gen : Len(pend[g]) <= MaxMeta
  /\ espera \in [Gen -> Seq(Hash)]
  /\ curso \in [Gen -> Seq(Hash)]
  /\ sesion \in [Gen -> [Hash -> Torrent]]
  /\ metaDisco \in SUBSET Hash

InvBusca == Almacen /\ Vista /\ Tareas

LEMMA BuscaInicial == InitBusca => InvBusca
<1> SUFFICES ASSUME InitBusca PROVE InvBusca
  OBVIOUS
<1> USE SupuestoBusca
<1>2. \A S : <<>> \in Seq(S) /\ Len(<<>>) = 0
  BY EmptySeq
<1>3. Almacen
  BY <1>2 DEF InitBusca, Almacen, Punto, IndiceSinRepetidos, IsInjective,
              NuevosIndexados, Cosecha, DiscoCubierto, Range
<1>4. Vista
  BY <1>2 DEF InitBusca, Vista, ResueltoIndexado
<1>5. Tareas
  <2>1. \A g \in Gen : pend[g] = <<>>
    BY DEF InitBusca
  <2> QED
    BY <1>2, <2>1 DEF InitBusca, Tareas, Torrent
<1> QED
  BY <1>3, <1>4, <1>5 DEF InvBusca

(***************************************************************************)
(* The store.                                                              *)
(***************************************************************************)
LEMMA AlmacenIgual ==
  ASSUME Almacen, UNCHANGED <<pc, cos, indice, disco, nuevos, recortados>>
  PROVE  Almacen'
BY DEF Almacen, Indexado, IndiceSinRepetidos, NuevosIndexados, Cosecha, DiscoCubierto, Cubierto

(* A loop moves without touching the store, and its batch fits where it is. *)
LEMMA AlmacenMueve ==
  ASSUME Almacen, NEW g \in Gen, NEW p \in Punto, NEW C \in SUBSET Hash,
         pc' = [pc EXCEPT ![g] = p], cos' = [cos EXCEPT ![g] = C],
         p \in {"cabeza", "drenar", "cosechar"} => C = {},
         p \in {"anunciar", "estadisticas"} => C \subseteq Cubierto,
         UNCHANGED <<indice, disco, nuevos, recortados>>
  PROVE  Almacen'
<1>1. pc' \in [Gen -> Punto] /\ cos' \in [Gen -> SUBSET Hash]
  BY DEF Almacen
<1>2. Cosecha'
  BY DEF Almacen, Cosecha, Cubierto, Indexado
<1>3. IndiceSinRepetidos' /\ NuevosIndexados' /\ DiscoCubierto'
  BY DEF Almacen, IndiceSinRepetidos, NuevosIndexados, DiscoCubierto, Cubierto, Indexado
<1> QED
  BY <1>1, <1>2, <1>3 DEF Almacen

LEMMA AlmacenBucle ==
  ASSUME Almacen, NEW g \in Gen,
         \/ TerminarBucle(g) \/ EmpezarCiclo(g) \/ CanalVacio(g) \/ Cosechar(g)
         \/ Marcar(g) \/ Dormir(g)
  PROVE  Almacen'
<1> DEFINE igual == UNCHANGED <<indice, disco, nuevos, recortados>>
<1>0. cos \in [Gen -> SUBSET Hash] /\ pc \in [Gen -> Punto] /\ cos[g] \in SUBSET Hash
  BY DEF Almacen
<1>a. cos = [cos EXCEPT ![g] = cos[g]]
  BY <1>0
<1>1. CASE TerminarBucle(g)
  <2>1. /\ igual /\ cos' = cos /\ pc' = [pc EXCEPT ![g] = "cabeza"]
        /\ pc[g] \in {"cabeza", "drenar"}
    BY <1>1 DEF TerminarBucle
  <2>2. cos[g] = {}
    BY <2>1 DEF Almacen, Cosecha
  <2>3. "cabeza" \in Punto
    BY DEF Punto
  <2> QED
    BY <1>0, <1>a, <2>1, <2>2, <2>3, AlmacenMueve
<1>2. CASE EmpezarCiclo(g)
  <2>1. /\ igual /\ cos' = cos /\ pc' = [pc EXCEPT ![g] = "drenar"]
        /\ pc[g] = "cabeza"
    BY <1>2 DEF EmpezarCiclo, Ir
  <2>2. cos[g] = {}
    BY <2>1 DEF Almacen, Cosecha
  <2>3. "drenar" \in Punto
    BY DEF Punto
  <2> QED
    BY <1>0, <1>a, <2>1, <2>2, <2>3, AlmacenMueve
<1>3. CASE CanalVacio(g)
  <2>1. /\ igual /\ cos' = cos /\ pc' = [pc EXCEPT ![g] = "cosechar"]
        /\ pc[g] = "drenar"
    BY <1>3 DEF CanalVacio, Ir
  <2>2. cos[g] = {}
    BY <2>1 DEF Almacen, Cosecha
  <2>3. "cosechar" \in Punto
    BY DEF Punto
  <2> QED
    BY <1>0, <1>a, <2>1, <2>2, <2>3, AlmacenMueve
<1>4. CASE Cosechar(g)
  <2> DEFINE C == Cosechable(g)
             p == IF C = {} THEN "estadisticas" ELSE "marcar"
  <2>1. igual /\ cos' = [cos EXCEPT ![g] = C] /\ pc' = [pc EXCEPT ![g] = p]
    BY <1>4 DEF Cosechar, Ir
  <2>2. /\ C \in SUBSET Hash
        /\ p \in Punto \ {"cabeza", "drenar", "cosechar", "anunciar"}
        /\ p = "estadisticas" => C = {}
    BY DEF Cosechable, Punto
  <2> HIDE DEF C, p
  <2> QED
    BY <2>1, <2>2, AlmacenMueve
<1>5. CASE Marcar(g)
  <2>1. igual /\ cos' = cos /\ pc' = [pc EXCEPT ![g] = "indexar"]
    BY <1>5 DEF Marcar, Ir
  <2>2. "indexar" \in Punto
    BY DEF Punto
  <2> QED
    BY <1>0, <1>a, <2>1, <2>2, AlmacenMueve
<1>6. CASE Dormir(g)
  <2>1. /\ igual /\ cos' = [cos EXCEPT ![g] = {}]
        /\ pc' = [pc EXCEPT ![g] = "cabeza"]
    BY <1>6 DEF Dormir, Ir
  <2>2. "cabeza" \in Punto
    BY DEF Punto
  <2> QED
    BY <2>1, <2>2, AlmacenMueve
<1> QED
  BY <1>1, <1>2, <1>3, <1>4, <1>5, <1>6

(* Pushing a batch: everything in it is in the index or cut, and nothing   *)
(* the index covered is lost.                                              *)
LEMMA IndexarCubre ==
  ASSUME Almacen, NEW g \in Gen, Indexar(g)
  PROVE  /\ indice' \in Seq(Hash) /\ Len(indice') <= TopeIndice /\ IsInjective(indice')
         /\ recortados' \in SUBSET Hash
         /\ Cubierto \cup cos[g] \subseteq Cubierto'
<1> USE DEF Almacen
<1>1. PICK r \in SetToSeqs(Falta(g)) :
        /\ indice' = Recortar(indice \o r)
        /\ recortados' = recortados \cup (Range(indice \o r) \ Range(Recortar(indice \o r)))
  BY DEF Indexar
<1>2. Falta(g) \in SUBSET Hash /\ Falta(g) \cap Indexado = {}
  BY DEF Falta
<1>3. r \in Seq(Hash) /\ IsInjective(r) /\ Range(r) = Falta(g)
  BY <1>2, Listado
<1>4. /\ indice \o r \in Seq(Hash)
      /\ IsInjective(indice \o r)
      /\ Range(indice \o r) = Indexado \cup Falta(g)
  BY <1>2, <1>3, ConcatInyecta DEF IndiceSinRepetidos, Indexado
<1>5. /\ indice' \in Seq(Hash) /\ Len(indice') <= TopeIndice /\ IsInjective(indice')
  BY <1>1, <1>4, RecortarCabe
<1>6. Range(indice \o r) \subseteq Cubierto' /\ recortados \subseteq recortados'
  BY <1>1 DEF Cubierto, Indexado
<1>7. recortados' \in SUBSET Hash
  BY <1>1, <1>2, <1>4 DEF Indexado, Range
<1> QED
  BY <1>4, <1>5, <1>6, <1>7 DEF Cubierto, Falta

LEMMA AlmacenIndexar ==
  ASSUME Almacen, NEW g \in Gen, Indexar(g)
  PROVE  Almacen'
<1>1. /\ indice' \in Seq(Hash) /\ Len(indice') <= TopeIndice /\ IsInjective(indice')
      /\ recortados' \in SUBSET Hash
      /\ Cubierto \cup cos[g] \subseteq Cubierto'
  BY IndexarCubre
<1>2. /\ pc' = [pc EXCEPT ![g] = "anunciar"]
      /\ UNCHANGED <<cos, nuevos, disco>>
  BY DEF Indexar, Ir
<1>3. pc' \in [Gen -> Punto]
  BY <1>2 DEF Almacen, Punto
<1>4. Cosecha'
  BY <1>1, <1>2 DEF Almacen, Cosecha
<1>5. IndiceSinRepetidos' /\ DiscoCubierto'
  BY <1>1, <1>2 DEF Almacen, IndiceSinRepetidos, DiscoCubierto
<1>6. NuevosIndexados'
  BY <1>1, <1>2 DEF Almacen, NuevosIndexados, Cubierto
<1> QED
  BY <1>1, <1>2, <1>3, <1>4, <1>5, <1>6 DEF Almacen

LEMMA AlmacenAnunciar ==
  ASSUME Almacen, NEW g \in Gen, Anunciar(g)
  PROVE  Almacen'
<1>1. /\ pc[g] = "anunciar" /\ pc' = [pc EXCEPT ![g] = "estadisticas"]
      /\ nuevos' = nuevos \cup cos[g]
      /\ UNCHANGED <<cos, indice, disco, recortados>>
  BY DEF Anunciar, Ir
<1>2. cos[g] \subseteq Cubierto /\ cos[g] \in SUBSET Hash
  BY <1>1 DEF Almacen, Cosecha
<1>3. pc' \in [Gen -> Punto]
  BY <1>1 DEF Almacen, Punto
<1>4. Cosecha'
  BY <1>1, <1>2 DEF Almacen, Cosecha, Cubierto, Indexado
<1>5. NuevosIndexados'
  BY <1>1, <1>2 DEF Almacen, NuevosIndexados, Cubierto, Indexado
<1> QED
  BY <1>1, <1>2, <1>3, <1>4, <1>5 DEF Almacen, IndiceSinRepetidos, DiscoCubierto, Cubierto, Indexado

(* Saving, delivering and reopening. *)
LEMMA AlmacenGuardar ==
  ASSUME Almacen, Guardar, UNCHANGED <<pc, cos, indice, nuevos, recortados>>
  PROVE  Almacen'
BY DEF Almacen, Guardar, IndiceSinRepetidos, NuevosIndexados, Cosecha, DiscoCubierto, Cubierto, Indexado

LEMMA AlmacenEntregar == ASSUME Almacen, PollNuevos PROVE Almacen'
BY DEF PollNuevos, Almacen, IndiceSinRepetidos, NuevosIndexados, Cosecha, DiscoCubierto, Cubierto, Indexado

LEMMA AlmacenReabrir ==
  ASSUME Almacen, NEW enOrden \in BOOLEAN, ReabrirBusca(enOrden)
  PROVE  Almacen'
<1>1. disco' \in {disco, indice} /\ indice' = disco' /\ recortados' = recortados
  BY DEF ReabrirBusca
<1>2. /\ pc' = [g \in Gen |-> "cabeza"] /\ cos' = [g \in Gen |-> {}]
      /\ nuevos' = {}
  BY DEF ReabrirBusca, Olvidar
<1>3. pc' \in [Gen -> Punto] /\ cos' \in [Gen -> SUBSET Hash] /\ Cosecha' /\ NuevosIndexados'
  BY <1>2 DEF Punto, Cosecha, NuevosIndexados
<1>4. /\ IndiceSinRepetidos' /\ DiscoCubierto' /\ Len(indice') <= TopeIndice
      /\ indice' \in Seq(Hash) /\ disco' \in Seq(Hash)
  BY <1>1 DEF Almacen, IndiceSinRepetidos, DiscoCubierto, Cubierto, Indexado
<1> QED
  BY <1>1, <1>2, <1>3, <1>4 DEF Almacen

-----------------------------------------------------------------------------
(***************************************************************************)
(* The captures.  What a loop holds or the index covers stays held or      *)
(* covered, except when the process dies, which empties the captures too.  *)
(***************************************************************************)
EnManos == UNION {cos[g] : g \in Gen}

LEMMA VistaCrece ==
  ASSUME Vista, UNCHANGED capturas,
         Cubierto \cup EnManos \subseteq Cubierto' \cup EnManos'
  PROVE  Vista'
BY DEF Vista, ResueltoIndexado, Cubierto, EnManos

LEMMA VistaIgual ==
  ASSUME Vista, UNCHANGED <<capturas, indice, recortados, cos>>
  PROVE  Vista'
BY DEF Vista, ResueltoIndexado, Indexado

LEMMA VistaBucle ==
  ASSUME Almacen, Vista, NEW g \in Gen,
         Cosechar(g) \/ Marcar(g) \/ Indexar(g) \/ Dormir(g)
  PROVE  Vista'
<1>1. CASE Cosechar(g)
  <2>1. pc[g] = "cosechar" /\ cos[g] = {}
    BY <1>1 DEF Cosechar, Ir, Almacen, Cosecha
  <2>2. \A f \in Gen : cos[f] \subseteq cos'[f]
    BY <1>1, <2>1 DEF Cosechar, Almacen
  <2>3. UNCHANGED <<capturas, indice, recortados>>
    BY <1>1 DEF Cosechar
  <2> QED
    BY <2>2, <2>3, VistaCrece DEF EnManos, Cubierto, Indexado
<1>2. CASE Marcar(g)
  <2>1. capturas' = Marcadas(capturas, cos[g]) /\ UNCHANGED <<indice, recortados, cos>>
    BY <1>2 DEF Marcar
  <2>2. /\ capturas' \in Seq(Captura) /\ Len(capturas') = Len(capturas)
        /\ DOMAIN capturas' = DOMAIN capturas
        /\ \A i \in DOMAIN capturas :
             /\ capturas'[i].hash = capturas[i].hash
             /\ capturas'[i].resuelto => capturas[i].resuelto \/ capturas[i].hash \in cos[g]
    BY <2>1, MarcadasTipo DEF Vista
  <2>3. cos[g] \subseteq EnManos
    BY DEF EnManos
  <2>4. ResueltoIndexado'
    BY <2>1, <2>2, <2>3 DEF Vista, ResueltoIndexado, Indexado, EnManos
  <2> QED
    BY <2>2, <2>4 DEF Vista
<1>3. CASE Indexar(g)
  <2>1. Cubierto \cup cos[g] \subseteq Cubierto' /\ UNCHANGED <<capturas, cos>>
    BY <1>3, IndexarCubre DEF Indexar
  <2> QED
    BY <2>1, VistaCrece DEF EnManos
<1>4. CASE Dormir(g)
  <2>1. cos[g] \subseteq Cubierto
    BY <1>4 DEF Dormir, Ir, Almacen, Cosecha
  <2>2. \A f \in Gen : f # g => cos'[f] = cos[f]
    BY <1>4 DEF Dormir, Almacen
  <2>3. UNCHANGED <<capturas, indice, recortados>>
    BY <1>4 DEF Dormir
  <2> QED
    BY <2>1, <2>2, <2>3, VistaCrece DEF EnManos, Cubierto, Indexado
<1> QED
  BY <1>1, <1>2, <1>3, <1>4

LEMMA CabezaDeCola ==
  ASSUME TypeOK, NEW g \in Gen, Sacar(g)
  PROVE  Head(cola[g]) \in Hash
BY HeadTailProperties DEF TypeOK, Sacar

LEMMA VistaAdmitir ==
  ASSUME TypeOK, Vista, NEW g \in Gen, Admitir(g)
  PROVE  Vista'
<1> DEFINE h == Head(cola[g])
<1>1. h \in Hash
  BY CabezaDeCola DEF Admitir
<1>2. capturas' = Capturar(capturas, h) /\ UNCHANGED <<indice, recortados, cos>>
  BY DEF Admitir
<1> HIDE DEF h
<1>3. /\ capturas' \in Seq(Captura) /\ Len(capturas') <= TopeCapturas
      /\ \A i \in DOMAIN capturas' : capturas'[i].resuelto =>
           \E j \in DOMAIN capturas : capturas[j] = capturas'[i]
  BY <1>1, <1>2, CapturarCabe DEF Vista
<1> QED
  BY <1>2, <1>3 DEF Vista, ResueltoIndexado, Indexado

LEMMA VistaReabrir ==
  ASSUME NEW enOrden \in BOOLEAN, ReabrirBusca(enOrden)
  PROVE  Vista'
<1>1. capturas' = <<>>
  BY DEF ReabrirBusca, Olvidar
<1>2. <<>> \in Seq(Captura) /\ Len(<<>>) = 0
  BY EmptySeq
<1> QED
  BY <1>1, <1>2, SupuestoBusca DEF Vista, ResueltoIndexado

-----------------------------------------------------------------------------
(***************************************************************************)
(* The tables and tasks of the loops.                                      *)
(***************************************************************************)
LEMMA TareasIgual ==
  ASSUME Tareas, UNCHANGED <<pend, espera, curso, sesion, metaDisco>>
  PROVE  Tareas'
BY DEF Tareas

LEMMA TareasAdmitir ==
  ASSUME TypeOK, Tareas, NEW g \in Gen, Admitir(g)
  PROVE  Tareas'
<1> DEFINE h == Head(cola[g])
<1>1. h \in Hash
  BY CabezaDeCola DEF Admitir
<1>2. /\ pend' = [pend EXCEPT ![g] = Insertar(pend[g], h)]
      /\ espera' = [espera EXCEPT ![g] = Append(espera[g], h)]
      /\ UNCHANGED <<curso, sesion, metaDisco>>
  BY DEF Admitir
<1> HIDE DEF h
<1>3. /\ Insertar(pend[g], h) \in Seq(Hash) /\ Len(Insertar(pend[g], h)) <= MaxMeta
      /\ Append(espera[g], h) \in Seq(Hash)
  BY <1>1, InsertarCabe, AppendProperties DEF Tareas
<1> QED
  BY <1>2, <1>3 DEF Tareas

(* The surviving entries of a table are no more than it had. *)
LEMMA MenosPendientes ==
  ASSUME NEW s \in Seq(Hash), NEW C
  PROVE  Cardinality(Range(s) \ C) <= Len(s)
<1>1. Range(s) \in SUBSET Hash /\ IsFiniteSet(Range(s))
  BY SupuestoBusca, RangeOfSeq, FS_Subset
<1>2. Cardinality(Range(s) \ C) <= Cardinality(Range(s)) /\ Cardinality(Range(s) \ C) \in Nat
  BY <1>1, FS_Subset, FS_CardinalityType
<1>3. s \in [1 .. Len(s) -> Range(s)] /\ Len(s) \in Nat
  BY LenProperties DEF Range
<1>4. s \in Surjection(1 .. Len(s), Range(s))
  BY <1>3 DEF Surjection, Range
<1>5. Cardinality(Range(s)) <= Len(s)
  BY <1>3, <1>4, FS_SurjCardinalityBound DEF ExistsSurjection
<1> QED
  BY <1>1, <1>2, <1>3, <1>5, FS_CardinalityType

LEMMA TareasCosechar ==
  ASSUME Tareas, NEW g \in Gen, Cosechar(g)
  PROVE  Tareas'
<1>1. PICK r \in SetToSeqs(Pendiente(g) \ Cosechable(g)) : pend' = [pend EXCEPT ![g] = r]
  BY DEF Cosechar
<1>2. pend[g] \in Seq(Hash)
  BY DEF Tareas
<1>3. Pendiente(g) \ Cosechable(g) \in SUBSET Hash
  BY <1>2, RangeOfSeq DEF Pendiente
<1>4. r \in Seq(Hash) /\ Len(r) = Cardinality(Pendiente(g) \ Cosechable(g))
  BY <1>3, Listado
<1>5. Len(r) <= Len(pend[g]) /\ Len(r) \in Nat /\ Len(pend[g]) \in Nat
  BY <1>2, <1>4, MenosPendientes, LenProperties DEF Pendiente
<1>6. Len(r) <= MaxMeta
  BY <1>5, SupuestoBusca DEF Tareas
<1> QED
  BY <1>1, <1>4, <1>6 DEF Tareas, Cosechar

LEMMA TareasAbrir ==
  ASSUME Tareas, NEW g \in Gen, AbrirSesion(g) \/ TerminarBucle(g)
  PROVE  Tareas'
<1>1. CASE AbrirSesion(g)
  <2>1. [h \in Hash |-> IF h \in metaDisco THEN "con" ELSE "no"] \in [Hash -> Torrent]
    BY DEF Torrent
  <2> QED
    BY <1>1, <2>1 DEF AbrirSesion, Tareas
<1>2. CASE TerminarBucle(g)
  <2>1. <<>> \in Seq(Hash) /\ Len(<<>>) = 0
    BY EmptySeq
  <2> QED
    BY <1>2, <2>1, SupuestoBusca DEF TerminarBucle, Tareas
<1> QED
  BY <1>1, <1>2

(* A sequence without one of its elements. *)
LEMMA QuitarTipo ==
  ASSUME NEW s \in Seq(Hash), NEW i \in DOMAIN s
  PROVE  RemoveAt(s, i) \in Seq(Hash)
<1>1. i \in Nat /\ i >= 1 /\ i <= Len(s) /\ Len(s) \in Nat
  OBVIOUS
<1>2. \A j \in 1 .. i - 1 : s[j] \in Hash
  BY <1>1, ElementOfSeq
<1>3. \A j \in i + 1 .. Len(s) : s[j] \in Hash
  BY <1>1, ElementOfSeq
<1>4. SubSeq(s, 1, i - 1) \in Seq(Hash)
  BY <1>1, <1>2, SubSeqProperties
<1>5. SubSeq(s, i + 1, Len(s)) \in Seq(Hash)
  BY <1>1, <1>3, SubSeqProperties
<1> QED
  BY <1>4, <1>5, ConcatProperties DEF RemoveAt

LEMMA TareasTarea ==
  ASSUME Tareas, NEW g \in Gen,
         \/ TomarPermiso(g)
         \/ \E h \in Hash : Agregar(g, h) \/ Resolver(g, h)
         \/ \E i \in 1 .. MaxConc : SoltarPermiso(g, i)
  PROVE  Tareas'
<1>1. CASE TomarPermiso(g)
  <2>1. /\ Head(espera[g]) \in Hash /\ Tail(espera[g]) \in Seq(Hash)
    BY <1>1, HeadTailProperties DEF TomarPermiso, Tareas
  <2>2. Append(curso[g], Head(espera[g])) \in Seq(Hash)
    BY <2>1, AppendProperties DEF Tareas
  <2> QED
    BY <1>1, <2>1, <2>2 DEF TomarPermiso, Tareas, restoTarea
<1>2. CASE \E h \in Hash : Agregar(g, h) \/ Resolver(g, h)
  <2>1. PICK h \in Hash : Agregar(g, h) \/ Resolver(g, h)
    BY <1>2
  <2>2. PICK t \in {"sin", "con"} : sesion' = [sesion EXCEPT ![g][h] = t]
    BY <2>1 DEF Agregar, Resolver
  <2>3. sesion[g] \in [Hash -> Torrent]
    BY DEF Tareas
  <2>4. [sesion[g] EXCEPT ![h] = t] \in [Hash -> Torrent]
    BY <2>3 DEF Torrent
  <2>5. sesion' \in [Gen -> [Hash -> Torrent]]
    BY <2>2, <2>4 DEF Tareas
  <2>6. metaDisco' \in SUBSET Hash /\ UNCHANGED <<pend, espera, curso>>
    BY <2>1 DEF Agregar, Resolver, Tareas, restoTarea
  <2> QED
    BY <2>5, <2>6 DEF Tareas
<1>3. CASE \E i \in 1 .. MaxConc : SoltarPermiso(g, i)
  <2>1. PICK i \in DOMAIN curso[g] : curso' = [curso EXCEPT ![g] = RemoveAt(curso[g], i)]
    BY <1>3 DEF SoltarPermiso
  <2>2. RemoveAt(curso[g], i) \in Seq(Hash)
    BY QuitarTipo DEF Tareas
  <2> QED
    BY <1>3, <2>1, <2>2 DEF SoltarPermiso, Tareas, restoTarea
<1> QED
  BY <1>1, <1>2, <1>3

LEMMA TareasReabrir ==
  ASSUME Tareas, NEW enOrden \in BOOLEAN, ReabrirBusca(enOrden)
  PROVE  Tareas'
<1>1. <<>> \in Seq(Hash) /\ Len(<<>>) = 0
  BY EmptySeq
<1>2. \A g \in Gen : pend'[g] = <<>>
  BY DEF ReabrirBusca, Olvidar
<1> QED
  BY <1>1, <1>2, SupuestoBusca DEF ReabrirBusca, Olvidar, Tareas, Torrent

-----------------------------------------------------------------------------
(***************************************************************************)
(* One lemma per part, then the theorems.                                  *)
(***************************************************************************)
LEMMA PasoAlmacen == ASSUME Almacen, [NextBusca]_vars PROVE Almacen'
<1> DEFINE igual == UNCHANGED <<pc, cos, indice, disco, nuevos, recortados>>
<1>1. CASE Vida \/ UNCHANGED vars
  BY <1>1, AlmacenIgual DEF Vida, vars, tuberia
<1>2. CASE (\E t \in Toques : Detener(t)) \/ GuardarAhora
  BY <1>2, AlmacenGuardar DEF Detener, GuardarAhora
<1>3. CASE PollNuevos
  BY <1>3, AlmacenEntregar
<1>4. CASE \E enOrden \in BOOLEAN : ReabrirBusca(enOrden)
  BY <1>4, AlmacenReabrir
<1>5. ASSUME NEW g \in Gen,
             \/ TerminarBucle(g) \/ EmpezarCiclo(g) \/ CanalVacio(g) \/ Cosechar(g)
             \/ Marcar(g) \/ Dormir(g) \/ Indexar(g) \/ Anunciar(g)
      PROVE  Almacen'
  BY <1>5, AlmacenBucle, AlmacenIndexar, AlmacenAnunciar
<1>6. ASSUME NEW g \in Gen,
             \/ AbrirSesion(g) \/ Descartar(g) \/ Admitir(g) \/ TomarPermiso(g)
             \/ \E h \in Hash : Agregar(g, h) \/ Resolver(g, h)
             \/ \E i \in 1 .. MaxConc : SoltarPermiso(g, i)
      PROVE  Almacen'
  <2>1. igual
    BY <1>6 DEF AbrirSesion, Descartar, Admitir, TomarPermiso, Agregar, Resolver,
                SoltarPermiso, tuberia, restoTarea
  <2> QED
    BY <2>1, AlmacenIgual
<1> QED
  BY <1>1, <1>2, <1>3, <1>4, <1>5, <1>6 DEF NextBusca

LEMMA PasoVista ==
  ASSUME TypeOK, Almacen, Vista, [NextBusca]_vars
  PROVE  Vista'
<1> DEFINE igual == UNCHANGED <<capturas, indice, recortados, cos>>
<1>1. CASE Vida \/ UNCHANGED vars
  BY <1>1, VistaIgual DEF Vida, vars, tuberia
<1>2. CASE (\E t \in Toques : Detener(t)) \/ GuardarAhora \/ PollNuevos
  BY <1>2, VistaIgual DEF Detener, GuardarAhora, PollNuevos
<1>3. CASE \E enOrden \in BOOLEAN : ReabrirBusca(enOrden)
  BY <1>3, VistaReabrir
<1>4. ASSUME NEW g \in Gen,
             Cosechar(g) \/ Marcar(g) \/ Indexar(g) \/ Dormir(g) \/ Admitir(g)
      PROVE  Vista'
  BY <1>4, VistaBucle, VistaAdmitir
<1>5. ASSUME NEW g \in Gen,
             \/ AbrirSesion(g) \/ TerminarBucle(g) \/ EmpezarCiclo(g)
             \/ Descartar(g) \/ CanalVacio(g) \/ Anunciar(g) \/ TomarPermiso(g)
             \/ \E h \in Hash : Agregar(g, h) \/ Resolver(g, h)
             \/ \E i \in 1 .. MaxConc : SoltarPermiso(g, i)
      PROVE  Vista'
  <2>1. igual
    BY <1>5 DEF AbrirSesion, TerminarBucle, EmpezarCiclo, Descartar, CanalVacio,
                Anunciar, TomarPermiso, Agregar, Resolver, SoltarPermiso, tuberia,
                restoTarea
  <2> QED
    BY <2>1, VistaIgual
<1> QED
  BY <1>1, <1>2, <1>3, <1>4, <1>5 DEF NextBusca

LEMMA PasoTareas ==
  ASSUME TypeOK, Tareas, [NextBusca]_vars
  PROVE  Tareas'
<1> DEFINE igual == UNCHANGED <<pend, espera, curso, sesion, metaDisco>>
<1>1. CASE Vida \/ UNCHANGED vars
  BY <1>1, TareasIgual DEF Vida, vars, tuberia
<1>2. CASE (\E t \in Toques : Detener(t)) \/ GuardarAhora \/ PollNuevos
  BY <1>2, TareasIgual DEF Detener, GuardarAhora, PollNuevos
<1>3. CASE \E enOrden \in BOOLEAN : ReabrirBusca(enOrden)
  BY <1>3, TareasReabrir
<1>4. ASSUME NEW g \in Gen,
             \/ AbrirSesion(g) \/ TerminarBucle(g) \/ Cosechar(g) \/ Admitir(g)
             \/ TomarPermiso(g)
             \/ \E h \in Hash : Agregar(g, h) \/ Resolver(g, h)
             \/ \E i \in 1 .. MaxConc : SoltarPermiso(g, i)
      PROVE  Tareas'
  BY <1>4, TareasAbrir, TareasCosechar, TareasAdmitir, TareasTarea
<1>5. ASSUME NEW g \in Gen,
             \/ EmpezarCiclo(g) \/ Descartar(g) \/ CanalVacio(g) \/ Marcar(g)
             \/ Indexar(g) \/ Anunciar(g) \/ Dormir(g)
      PROVE  Tareas'
  <2>1. igual
    BY <1>5 DEF EmpezarCiclo, Descartar, CanalVacio, Marcar, Indexar, Anunciar,
                Dormir, tuberia
  <2> QED
    BY <2>1, TareasIgual
<1> QED
  BY <1>1, <1>2, <1>3, <1>4, <1>5 DEF NextBusca

LEMMA InvBuscaVale == SpecBusca => [](TypeOK /\ InvBusca)
<1>1. TypeOK /\ InvBusca /\ [NextBusca]_vars => InvBusca'
  BY PasoAlmacen, PasoVista, PasoTareas DEF InvBusca
<1>2. SpecBusca => []TypeOK
  BY BuscaImplementaVida, TipoVida DEF ImplementaVida
<1> QED
  BY <1>1, <1>2, BuscaInicial, PTL DEF SpecBusca

(* Every variable of the pipeline keeps its type. *)
THEOREM BuscaTipo == SpecBusca => []TuberiaOK
<1>1. InvBusca => TuberiaOK
  BY DEF InvBusca, Almacen, Vista, Tareas, TuberiaOK
<1> QED
  BY <1>1, InvBuscaVale, PTL

(* However many loops harvest the same torrent, the index lists it once. *)
THEOREM BuscaSinRepetidos == SpecBusca => []IndiceSinRepetidos
<1>1. InvBusca => IndiceSinRepetidos
  BY DEF InvBusca, Almacen
<1> QED
  BY <1>1, InvBuscaVale, PTL

(* The caps of index, captures and pending tables hold. *)
THEOREM BuscaTopes == SpecBusca => []Topes
<1>1. InvBusca => Topes
  BY DEF InvBusca, Almacen, Vista, Tareas, Topes
<1> QED
  BY <1>1, InvBuscaVale, PTL

(* What is announced is in the index or was cut by its cap. *)
THEOREM BuscaNuevosIndexados == SpecBusca => []NuevosIndexados
<1>1. InvBusca => NuevosIndexados
  BY DEF InvBusca, Almacen
<1> QED
  BY <1>1, InvBuscaVale, PTL

(* A resolved capture is indexed, cut, or about to be indexed. *)
THEOREM BuscaResueltoIndexado == SpecBusca => []ResueltoIndexado
<1>1. InvBusca => ResueltoIndexado
  BY DEF InvBusca, Vista
<1> QED
  BY <1>1, InvBuscaVale, PTL

(* No stop, save, crash or restart loses a torrent of the cache file.      *)
THEOREM BuscaNoOlvida == SpecBusca => DiscoNoOlvida
<1>1. InvBusca /\ [NextBusca]_vars =>
        [\A h \in Range(disco) : h \in Range(disco') \cup recortados']_vars
  <2> SUFFICES ASSUME InvBusca, NextBusca
               PROVE  Range(disco) \subseteq Range(disco') \cup recortados'
    OBVIOUS
  <2>1. Range(disco) \subseteq Range(indice) \cup recortados
    BY DEF InvBusca, Almacen, DiscoCubierto, Cubierto, Indexado
  <2>2. CASE (\E t \in Toques : Detener(t)) \/ GuardarAhora
    BY <2>1, <2>2 DEF Detener, GuardarAhora, Guardar
  <2>3. CASE \E enOrden \in BOOLEAN : ReabrirBusca(enOrden)
    BY <2>1, <2>3 DEF ReabrirBusca
  <2>4. CASE disco' = disco
    BY <2>4
  <2>5. ASSUME \/ Vida \/ PollNuevos
               \/ \E g \in Gen :
                    \/ AbrirSesion(g) \/ TerminarBucle(g)
                    \/ EmpezarCiclo(g) \/ Descartar(g) \/ Admitir(g) \/ CanalVacio(g)
                    \/ Cosechar(g) \/ Marcar(g) \/ Indexar(g) \/ Anunciar(g) \/ Dormir(g)
                    \/ TomarPermiso(g)
                    \/ \E h \in Hash : Agregar(g, h) \/ Resolver(g, h)
                    \/ \E i \in 1 .. MaxConc : SoltarPermiso(g, i)
        PROVE  disco' = disco
    <3>1. CASE Vida \/ PollNuevos
      BY <3>1 DEF Vida, tuberia, PollNuevos
    <3>2. ASSUME NEW g \in Gen,
                 \/ AbrirSesion(g) \/ TerminarBucle(g)
                 \/ EmpezarCiclo(g) \/ Descartar(g) \/ Admitir(g) \/ CanalVacio(g)
                 \/ Cosechar(g) \/ Marcar(g)
          PROVE  disco' = disco
      BY <3>2 DEF AbrirSesion, TerminarBucle, EmpezarCiclo, Descartar, Admitir, CanalVacio,
                  Cosechar, Marcar, restoTarea, tuberia
    <3>3. ASSUME NEW g \in Gen,
                 \/ Indexar(g) \/ Anunciar(g) \/ Dormir(g) \/ TomarPermiso(g)
                 \/ \E h \in Hash : Agregar(g, h) \/ Resolver(g, h)
                 \/ \E i \in 1 .. MaxConc : SoltarPermiso(g, i)
          PROVE  disco' = disco
      BY <3>3 DEF Indexar, Anunciar, Dormir, TomarPermiso, Agregar, Resolver, SoltarPermiso, restoTarea
    <3> QED
      BY <2>5, <3>1, <3>2, <3>3
  <2> QED
    BY <2>2, <2>3, <2>4, <2>5 DEF NextBusca
<1> QED
  BY <1>1, InvBuscaVale, PTL DEF SpecBusca, DiscoNoOlvida

(* A sequence without repetitions has as many elements as positions. *)
LEMMA TantosComoLargo ==
  ASSUME NEW s \in Seq(Hash), IsInjective(s)
  PROVE  Cardinality(Range(s)) = Len(s)
<1>1. PICK n \in Nat : n = Len(s)
  OBVIOUS
<1>2. s \in [1 .. n -> Range(s)] /\ DOMAIN s = 1 .. n
  BY <1>1, LenProperties DEF Range
<1>3. s \in Bijection(1 .. n, Range(s))
  BY <1>2 DEF Bijection, Injection, Surjection, IsInjective, Range
<1>4. IsFiniteSet(1 .. n) /\ Cardinality(1 .. n) = n
  <2>1. Cardinality(1 .. n) = IF 1 > n THEN 0 ELSE n - 1 + 1
    BY FS_Interval
  <2> QED
    BY <2>1, FS_Interval
<1>5. ExistsBijection(1 .. n, Range(s))
  BY <1>3 DEF ExistsBijection
<1> QED
  BY <1>1, <1>4, <1>5, FS_Bijection

(* The push of a batch: what is new comes in, and the cap drops only what  *)
(* it must.                                                                *)
LEMMA IndexarHalla ==
  ASSUME Almacen, NEW g \in Gen, Indexar(g)
  PROVE  /\ Indexado' \subseteq Indexado \cup cos[g]
         /\ \E C \in SUBSET Hash :
              /\ C \subseteq Indexado \cup Falta(g)
              /\ Indexado' = (Indexado \cup Falta(g)) \ C
              /\ recortados' = recortados \cup C
              /\ Cardinality(Indexado') <= TopeIndice
              /\ C # {} => Cardinality(Indexado') = TopeIndice
<1>1. PICK r \in SetToSeqs(Falta(g)) :
        /\ indice' = Recortar(indice \o r)
        /\ recortados' = recortados \cup (Range(indice \o r) \ Range(Recortar(indice \o r)))
  BY DEF Indexar
<1>2. Falta(g) \in SUBSET Hash /\ Falta(g) \cap Indexado = {} /\ Falta(g) \subseteq cos[g]
  BY DEF Falta, Almacen
<1>3. r \in Seq(Hash) /\ IsInjective(r) /\ Range(r) = Falta(g) /\ indice \in Seq(Hash)
  BY <1>2, Listado DEF Almacen
<1>4. PICK s, t : s = indice \o r /\ t = Recortar(s)
  OBVIOUS
<1>5. s \in Seq(Hash) /\ IsInjective(s) /\ Range(s) = Indexado \cup Falta(g)
  BY <1>2, <1>3, <1>4, ConcatInyecta DEF Almacen, IndiceSinRepetidos, Indexado
<1>6. t \in Seq(Hash) /\ Len(t) <= TopeIndice /\ IsInjective(t)
  BY <1>4, <1>5, RecortarCabe
<1>7. /\ Range(t) \subseteq Range(s)
      /\ Len(s) > TopeIndice => Len(t) = TopeIndice
      /\ ~(Len(s) > TopeIndice) => Range(t) = Range(s)
  <2>1. PICK e, n : e = Exceso(s) /\ n = Len(s)
    OBVIOUS
  <2>2. n \in Nat /\ TopeIndice \in Nat /\ e \in 0 .. n /\ e = IF n > TopeIndice THEN n - TopeIndice ELSE 0
    BY <1>5, <2>1, SupuestoBusca DEF Exceso
  <2>3. \A i \in e + 1 .. n : s[i] \in Hash
    BY <1>5, <2>1, <2>2, ElementOfSeq
  <2>4. t = SubSeq(s, e + 1, n)
    BY <1>4, <2>1 DEF Recortar
  <2>5. PICK m \in Int : m = e + 1
    <3>1. e \in Int
      BY <2>2
    <3>2. e + 1 \in Int
      BY <3>1
    <3> QED
      BY <3>2
  <2>6. /\ Len(t) = IF m <= n THEN n - m + 1 ELSE 0
        /\ \A i \in 1 .. n - m + 1 : t[i] = s[m + i - 1]
    BY <1>5, <2>2, <2>3, <2>4, <2>5, SubSeqProperties
  <2>7. Len(t) = n - e /\ \A i \in 1 .. n - e : t[i] = s[i + e]
    BY <2>2, <2>5, <2>6
  <2>8. DOMAIN t = 1 .. n - e /\ DOMAIN s = 1 .. n
    BY <1>5, <1>6, <2>1, <2>7
  <2>9. Range(t) \subseteq Range(s)
    <3>1. ASSUME NEW i \in DOMAIN t
          PROVE  i + e \in DOMAIN s /\ t[i] = s[i + e]
      <4>1. i \in 1 .. n - e /\ e \in Nat /\ n \in Nat
        BY <2>2, <2>8
      <4>2. i + e \in 1 .. n
        BY <4>1
      <4> QED
        BY <2>7, <2>8, <4>1, <4>2
    <3> QED
      BY <3>1 DEF Range
  <2>10. e = 0 => Range(t) = Range(s)
    <3>1. ASSUME e = 0
          PROVE  DOMAIN t = DOMAIN s /\ \A i \in DOMAIN s : t[i] = s[i]
      BY <2>2, <2>7, <2>8, <3>1
    <3> QED
      BY <3>1 DEF Range
  <2> QED
    BY <2>1, <2>2, <2>7, <2>9, <2>10
<1>8. PICK C : C = Range(s) \ Range(t)
  OBVIOUS
<1>9. /\ Indexado' = Range(t) /\ recortados' = recortados \cup C
      /\ Cardinality(Range(t)) = Len(t)
  BY <1>1, <1>4, <1>6, <1>8, TantosComoLargo DEF Indexado
<1>10. C \in SUBSET Hash /\ C \subseteq Range(s) /\ Range(t) = Range(s) \ C
  BY <1>5, <1>7, <1>8 DEF Range
<1>11. C # {} => Len(t) = TopeIndice
  BY <1>7, <1>8
<1>12. Cardinality(Indexado') <= TopeIndice /\ (C # {} => Cardinality(Indexado') = TopeIndice)
  BY <1>6, <1>9, <1>11
<1>13. Indexado' = (Indexado \cup Falta(g)) \ C /\ C \subseteq Indexado \cup Falta(g)
  BY <1>5, <1>9, <1>10
<1>14. Indexado' \subseteq Indexado \cup cos[g]
  BY <1>2, <1>13
<1> QED
  BY <1>9, <1>10, <1>12, <1>13, <1>14

-----------------------------------------------------------------------------
(***************************************************************************)
(* The captures shown, while no two loops are alive at a time.             *)
(***************************************************************************)
UnBucle == \A f, g \in Gen : bucle[f] = "vivo" /\ bucle[g] = "vivo" => f = g

(* A loop in the middle of its cycle is alive, and what it has marked and  *)
(* not yet pushed is still marked.                                         *)
EnCiclo ==
  /\ \A g \in Gen : g > gen => bucle[g] = "no"
  /\ \A g \in Gen : pc[g] # "cabeza" => bucle[g] = "vivo"
Marcado ==
  \A g \in Gen : pc[g] = "indexar" =>
    \A i \in DOMAIN capturas : capturas[i].hash \in cos[g] => capturas[i].resuelto
InvAlDia == EnCiclo /\ Marcado /\ CapturaAlDia

(* Nothing is captured and no loop runs. *)
LEMMA AlDiaInicial == ASSUME InitBusca PROVE InvAlDia
<1>1. capturas = <<>> /\ \A g \in Gen : pc[g] = "cabeza" /\ bucle[g] = "no"
  BY DEF InitBusca, Init
<1> QED
  BY <1>1 DEF InvAlDia, EnCiclo, Marcado, CapturaAlDia

(* A start gives its loop a number that no loop had. *)
LEMMA PasoEnCiclo ==
  ASSUME TypeOK, pc \in [Gen -> Punto], EnCiclo, [NextBusca]_vars
  PROVE  EnCiclo'
<1> USE DEF EnCiclo
<1>1. gen \in Nat /\ bucle \in [Gen -> {"no", "sesion", "vivo", "fin", "fallo"}] /\ Gen \subseteq Nat
  BY SupuestoVida DEF TypeOK, Gen
<1>2. CASE \E t \in Toques : StartOk(t) /\ UNCHANGED tuberia
  <2>1. /\ gen' = gen + 1 /\ bucle' = [bucle EXCEPT ![gen + 1] = "sesion"] /\ pc' = pc
    BY <1>2 DEF StartOk, AbrirCanal, tuberia
  <2>2. \A g \in Gen : g > gen + 1 => g > gen /\ g # gen + 1
    BY <1>1
  <2>3. gen + 1 \in Gen => bucle[gen + 1] # "vivo"
    BY <1>1
  <2> QED
    BY <1>1, <2>1, <2>2, <2>3
<1>3. CASE UNCHANGED <<bucle, pc>> /\ gen' \in {gen, gen + 1}
  BY <1>1, <1>3
<1>4. CASE \E g \in Gen : AbrirSesion(g) \/ (SesionFalla(g) /\ UNCHANGED tuberia)
  <2>1. PICK g \in Gen, b \in {"vivo", "fallo"} :
          /\ bucle[g] = "sesion" /\ bucle' = [bucle EXCEPT ![g] = b] /\ UNCHANGED <<pc, gen>>
    BY <1>4 DEF AbrirSesion, SesionLista, SesionFalla, restoHilo, tuberia
  <2> QED
    BY <1>1, <2>1
<1>5. CASE \E g \in Gen : TerminarBucle(g)
  <2>1. PICK g \in Gen :
          /\ bucle[g] = "vivo" /\ bucle' = [bucle EXCEPT ![g] = "fin"]
          /\ pc' = [pc EXCEPT ![g] = "cabeza"] /\ gen' = gen
    BY <1>5 DEF TerminarBucle, BucleVeStop, Desconectado, Terminar, restoHilo
  <2> QED
    BY <1>1, <2>1
<1>6. CASE \E g \in Gen, p \in Punto : Ir(g, pc[g], p) /\ UNCHANGED vidaVars
  <2>1. PICK g \in Gen, p \in Punto :
          bucle[g] = "vivo" /\ pc' = [pc EXCEPT ![g] = p] /\ UNCHANGED <<bucle, gen>>
    BY <1>6 DEF Ir, vidaVars
  <2> QED
    BY <1>1, <2>1
<1>7. CASE \E enOrden \in BOOLEAN : ReabrirBusca(enOrden)
  BY <1>7 DEF ReabrirBusca, Reabrir, Olvidar
<1>8. CASE Vida
  <2>1. CASE \E g \in Gen : SesionFalla(g)
    BY <1>4, <1>8, <2>1 DEF Vida
  <2>2. CASE \E t \in Toques : StartOk(t)
    BY <1>2, <1>8, <2>2 DEF Vida
  <2>3. ASSUME \/ \E t \in Toques :
                    \/ PedirStart(t) \/ PedirStop(t) \/ Volver(t) \/ Rechazo(t)
                    \/ StartError(t) \/ StartPanico(t) \/ StopError(t)
               \/ \E h \in Hash : Filtrar(h) \/ Probar(h)
               \/ \E g \in Gen, h \in Hash : Sondear(g, h)
               \/ \E g \in Gen : SpiderVeStop(g)
        PROVE  bucle' = bucle /\ gen' \in {gen, gen + 1}
    BY <2>3 DEF PedirStart, PedirStop, Volver, Rechazo, restoDart, StartError, StartPanico,
                AbrirCanal, StopError, CerrarCanal, Filtrar, Probar, Sondear, restoEnvio,
                SpiderVeStop, restoHilo
  <2> QED
    BY <1>3, <1>8, <2>1, <2>2, <2>3 DEF Vida, SinTuberia, tuberia
<1>9. CASE \E g \in Gen :
            \/ EmpezarCiclo(g) \/ CanalVacio(g) \/ Cosechar(g) \/ Marcar(g)
            \/ Indexar(g) \/ Anunciar(g) \/ Dormir(g)
  <2>1. PICK g \in Gen : \/ EmpezarCiclo(g) \/ CanalVacio(g) \/ Cosechar(g) \/ Marcar(g)
                         \/ Indexar(g) \/ Anunciar(g) \/ Dormir(g)
    BY <1>9
  <2>2. UNCHANGED vidaVars
    BY <2>1 DEF EmpezarCiclo, CanalVacio, Cosechar, Marcar, Indexar, Anunciar, Dormir
  <2>3. PICK p \in Punto : Ir(g, pc[g], p)
    BY <2>1 DEF EmpezarCiclo, CanalVacio, Cosechar, Marcar, Indexar, Anunciar, Dormir, Ir, Punto
  <2> QED
    BY <1>6, <2>2, <2>3
<1>10. CASE \/ UNCHANGED vars \/ GuardarAhora \/ PollNuevos
            \/ \E t \in Toques : Detener(t)
            \/ \E g \in Gen :
                 \/ Descartar(g) \/ Admitir(g) \/ TomarPermiso(g)
                 \/ \E h \in Hash : Agregar(g, h) \/ Resolver(g, h)
                 \/ \E i \in 1 .. MaxConc : SoltarPermiso(g, i)
  <2>1. UNCHANGED <<bucle, pc, gen>>
    BY <1>10 DEF vars, vidaVars, tuberia, GuardarAhora, PollNuevos, Detener, StopOk, CerrarCanal,
                 Descartar, Admitir, Sacar, restoHilo, TomarPermiso, Agregar, Resolver,
                 SoltarPermiso, restoTarea
  <2> QED
    BY <1>3, <2>1
<1> QED
  BY <1>4, <1>5, <1>7, <1>8, <1>9, <1>10 DEF NextBusca

(* Nothing else moves the index, the captures or a batch. *)
LEMMA AlDiaIgual ==
  ASSUME Marcado, CapturaAlDia, UNCHANGED <<capturas, indice>>,
         \A g \in Gen : pc'[g] = "indexar" => pc[g] = "indexar" /\ cos'[g] = cos[g]
  PROVE  Marcado' /\ CapturaAlDia'
BY DEF Marcado, CapturaAlDia, Indexado

(* What a loop pushes it marked before, and nobody captured it in between. *)
LEMMA PasoAlDia ==
  ASSUME TypeOK, InvBusca, EnCiclo, UnBucle, Marcado, CapturaAlDia, [NextBusca]_vars
  PROVE  Marcado' /\ CapturaAlDia'
<1>1. /\ pc \in [Gen -> Punto] /\ cos \in [Gen -> SUBSET Hash] /\ capturas \in Seq(Captura)
      /\ Len(capturas) <= TopeCapturas
  BY DEF InvBusca, Almacen, Vista
<1>2. CASE \E enOrden \in BOOLEAN : ReabrirBusca(enOrden)
  BY <1>2 DEF ReabrirBusca, Olvidar, Marcado, CapturaAlDia
<1>3. ASSUME NEW g \in Gen, Marcar(g)
      PROVE  Marcado' /\ CapturaAlDia'
  <2>1. /\ pc' = [pc EXCEPT ![g] = "indexar"] /\ capturas' = Marcadas(capturas, cos[g])
        /\ UNCHANGED <<cos, indice>>
    BY <1>3 DEF Marcar, Ir
  <2>2. /\ DOMAIN capturas' = DOMAIN capturas
        /\ \A i \in DOMAIN capturas :
             /\ capturas'[i].hash = capturas[i].hash
             /\ capturas'[i].resuelto <=> capturas[i].resuelto \/ capturas[i].hash \in cos[g]
    BY <1>1, <2>1, MarcadasTipo
  <2> QED
    BY <1>1, <2>1, <2>2 DEF Marcado, CapturaAlDia, Indexado
<1>4. ASSUME NEW g \in Gen, Indexar(g)
      PROVE  Marcado' /\ CapturaAlDia'
  <2>1. /\ pc[g] = "indexar" /\ pc' = [pc EXCEPT ![g] = "anunciar"] /\ UNCHANGED <<capturas, cos>>
    BY <1>4 DEF Indexar, Ir
  <2>2. Indexado' \subseteq Indexado \cup cos[g]
    BY <1>4, IndexarHalla DEF InvBusca
  <2> QED
    BY <1>1, <2>1, <2>2 DEF Marcado, CapturaAlDia
<1>5. ASSUME NEW g \in Gen, Admitir(g)
      PROVE  Marcado' /\ CapturaAlDia'
  <2>1. PICK h : h = Head(cola[g])
    OBVIOUS
  <2>2. /\ h \in Hash /\ h \notin Indexado /\ capturas' = Capturar(capturas, h)
        /\ UNCHANGED <<pc, cos, indice>> /\ pc[g] = "drenar"
    BY <1>5, <2>1, CabezaDeCola DEF Admitir
  <2>3. \A i \in DOMAIN capturas' :
          \/ capturas'[i].hash = h
          \/ \E j \in DOMAIN capturas : capturas[j] = capturas'[i]
    BY <1>1, <2>2, CapturarCabe
  <2>4. CapturaAlDia'
    BY <2>2, <2>3 DEF CapturaAlDia, Indexado
  <2>5. \A f \in Gen : pc[f] # "indexar"
    BY <2>2 DEF EnCiclo, UnBucle
  <2> QED
    BY <2>2, <2>4, <2>5 DEF Marcado
<1>6. ASSUME NEW g \in Gen,
             \/ EmpezarCiclo(g) \/ CanalVacio(g) \/ Cosechar(g) \/ Anunciar(g) \/ Dormir(g)
             \/ TerminarBucle(g)
      PROVE  Marcado' /\ CapturaAlDia'
  <2>1. PICK p \in Punto \ {"indexar"} : pc' = [pc EXCEPT ![g] = p]
    BY <1>6 DEF EmpezarCiclo, CanalVacio, Cosechar, Anunciar, Dormir, TerminarBucle, Ir, Punto
  <2>2. /\ UNCHANGED <<capturas, indice>>
        /\ \A f \in Gen : f # g => cos'[f] = cos[f]
    BY <1>1, <1>6 DEF EmpezarCiclo, CanalVacio, Cosechar, Anunciar, Dormir, TerminarBucle
  <2> QED
    BY <1>1, <2>1, <2>2, AlDiaIgual
<1>7. CASE \/ UNCHANGED vars \/ Vida \/ GuardarAhora \/ PollNuevos
           \/ \E t \in Toques : Detener(t)
           \/ \E g \in Gen :
                \/ AbrirSesion(g) \/ Descartar(g) \/ TomarPermiso(g)
                \/ \E h \in Hash : Agregar(g, h) \/ Resolver(g, h)
                \/ \E i \in 1 .. MaxConc : SoltarPermiso(g, i)
  <2>1. UNCHANGED <<capturas, indice, pc, cos>>
    BY <1>7 DEF vars, tuberia, Vida, GuardarAhora, PollNuevos, Detener, AbrirSesion,
                Descartar, TomarPermiso, Agregar, Resolver, SoltarPermiso, restoTarea
  <2> QED
    BY <2>1, AlDiaIgual
<1> QED
  BY <1>2, <1>3, <1>4, <1>5, <1>6, <1>7 DEF NextBusca

(* However often the spider is started, stopped, saved and reopened, as    *)
(* long as a new metadata loop does not meet an old one a capture in the   *)
(* index is shown as resolved (mod.rs, meta_loop).                         *)
THEOREM BuscaAlDia == SpecBusca /\ []UnBucle => []CapturaAlDia
<1>1. InitBusca => InvAlDia
  BY AlDiaInicial
<1>2. TypeOK /\ InvBusca /\ UnBucle /\ InvAlDia /\ [NextBusca]_vars => InvAlDia'
  BY PasoEnCiclo, PasoAlDia DEF InvAlDia, InvBusca, Almacen
<1>3. InvAlDia => CapturaAlDia
  BY DEF InvAlDia
<1> QED
  BY <1>1, <1>2, <1>3, InvBuscaVale, PTL DEF SpecBusca

(* With one start at most there is one loop at most. *)
THEOREM BuscaAlDiaSolo == ASSUME MaxGen = 1 PROVE SpecBusca => []CapturaAlDia
<1>1. UnBucle
  BY DEF UnBucle, Gen
<1> QED
  BY <1>1, BuscaAlDia, PTL

-----------------------------------------------------------------------------
(***************************************************************************)
(* The pipeline implements the store of findings.                          *)
(***************************************************************************)
(* Who saves, polls, pushes a batch, announces it or dies takes a step of   *)
(* the store; nobody else touches it.                                      *)
LEMMA PasoHallados ==
  ASSUME Almacen, [NextBusca]_vars
  PROVE  [Hallados!Next]_<<Indexado, Range(disco), nuevos, recortados>>
<1>1. ASSUME UNCHANGED <<indice, disco, nuevos, recortados>>
      PROVE  UNCHANGED <<Indexado, Range(disco), nuevos, recortados>>
  BY <1>1 DEF Indexado
<1>2. CASE GuardarAhora \/ \E t \in Toques : Detener(t)
  <2>1. disco' = indice /\ UNCHANGED <<indice, nuevos, recortados>>
    BY <1>2 DEF GuardarAhora, Detener, Guardar
  <2>2. Hallados!Guardar
    BY <2>1 DEF Hallados!Guardar, Indexado
  <2> QED
    BY <2>2 DEF Hallados!Next
<1>3. CASE PollNuevos
  <2>1. Hallados!Entregar
    BY <1>3 DEF PollNuevos, Hallados!Entregar, Indexado
  <2> QED
    BY <2>1 DEF Hallados!Next
<1>4. CASE \E enOrden \in BOOLEAN : ReabrirBusca(enOrden)
  <2>1. disco' \in {disco, indice} /\ indice' = disco' /\ nuevos' = {} /\ UNCHANGED recortados
    BY <1>4 DEF ReabrirBusca, Olvidar
  <2>2. Hallados!Cerrar
    BY <2>1 DEF Hallados!Cerrar, Indexado
  <2> QED
    BY <2>2 DEF Hallados!Next
<1>5. ASSUME NEW g \in Gen, Indexar(g)
      PROVE  Hallados!Next
  <2>1. PICK C \in SUBSET Hash :
          /\ C \subseteq Indexado \cup Falta(g)
          /\ Indexado' = (Indexado \cup Falta(g)) \ C
          /\ recortados' = recortados \cup C
          /\ Cardinality(Indexado') <= TopeIndice
          /\ C # {} => Cardinality(Indexado') = TopeIndice
    BY <1>5, IndexarHalla
  <2>2. Falta(g) \in SUBSET (Hash \ Indexado)
    BY DEF Falta, Almacen
  <2>3. UNCHANGED <<Range(disco), nuevos>>
    BY <1>5 DEF Indexar
  <2>4. Hallados!Hallar
    <3>1. PICK S \in SUBSET (Hash \ Indexado) : S = Falta(g)
      BY <2>2
    <3>2. /\ C \subseteq Indexado \cup S
          /\ Indexado' = (Indexado \cup S) \ C
          /\ recortados' = recortados \cup C
          /\ Cardinality(Indexado') <= TopeIndice
          /\ C # {} => Cardinality(Indexado') = TopeIndice
          /\ UNCHANGED <<Range(disco), nuevos>>
      BY <2>1, <2>3, <3>1
    <3>3. \E T \in SUBSET (Hash \ Indexado), D \in SUBSET Hash :
            /\ D \subseteq Indexado \cup T
            /\ Indexado' = (Indexado \cup T) \ D
            /\ recortados' = recortados \cup D
            /\ Cardinality(Indexado') <= TopeIndice
            /\ D # {} => Cardinality(Indexado') = TopeIndice
            /\ UNCHANGED <<Range(disco), nuevos>>
      BY <3>1, <3>2
    <3>4. Hallados!Cardinality(Indexado') = Cardinality(Indexado')
      BY Zenon DEF Cardinality, Hallados!Cardinality
    <3> QED
      BY <3>3, <3>4 DEF Hallados!Hallar
  <2> QED
    BY <2>4 DEF Hallados!Next
<1>6. ASSUME NEW g \in Gen, Anunciar(g)
      PROVE  Hallados!Next
  <2>1. /\ nuevos' = nuevos \cup cos[g] /\ cos[g] \subseteq Cubierto
        /\ UNCHANGED <<indice, disco, recortados>>
    BY <1>6 DEF Anunciar, Ir, Almacen, Cosecha
  <2>2. Hallados!Avisar
    BY <2>1 DEF Hallados!Avisar, Cubierto, Indexado
  <2> QED
    BY <2>2 DEF Hallados!Next
<1>7. ASSUME \/ UNCHANGED vars \/ Vida
             \/ \E g \in Gen :
                  \/ AbrirSesion(g) \/ TerminarBucle(g)
                  \/ EmpezarCiclo(g) \/ Descartar(g) \/ Admitir(g) \/ CanalVacio(g)
                  \/ Cosechar(g) \/ Marcar(g) \/ Dormir(g) \/ TomarPermiso(g)
                  \/ \E h \in Hash : Agregar(g, h) \/ Resolver(g, h)
                  \/ \E i \in 1 .. MaxConc : SoltarPermiso(g, i)
      PROVE  UNCHANGED <<indice, disco, nuevos, recortados>>
  <2>1. CASE UNCHANGED vars \/ Vida
    BY <2>1 DEF vars, Vida, tuberia
  <2>2. ASSUME NEW g \in Gen,
               \/ AbrirSesion(g) \/ TerminarBucle(g)
               \/ EmpezarCiclo(g) \/ Descartar(g) \/ Admitir(g) \/ CanalVacio(g)
        PROVE  UNCHANGED <<indice, disco, nuevos, recortados>>
    BY <2>2 DEF AbrirSesion, TerminarBucle, EmpezarCiclo, Descartar, Admitir, CanalVacio, restoTarea, tuberia
  <2>3. ASSUME NEW g \in Gen,
               \/ Cosechar(g) \/ Marcar(g) \/ Dormir(g) \/ TomarPermiso(g)
               \/ \E h \in Hash : Agregar(g, h) \/ Resolver(g, h)
               \/ \E i \in 1 .. MaxConc : SoltarPermiso(g, i)
        PROVE  UNCHANGED <<indice, disco, nuevos, recortados>>
    BY <2>3 DEF Cosechar, Marcar, Dormir, TomarPermiso, Agregar, Resolver, SoltarPermiso, restoTarea
  <2> QED
    BY <1>7, <2>1, <2>2, <2>3
<1> QED
  BY <1>1, <1>2, <1>3, <1>4, <1>5, <1>6, <1>7 DEF NextBusca

(* All the loops, sessions, saves and crashes together are, for whoever    *)
(* lists, saves and polls, one store that drops nothing below its cap,     *)
(* announces only what was found and reloads what was last saved.          *)
THEOREM BuscaImplementaHallados == SpecBusca => ImplementaHallados
<1>1. InitBusca => Hallados!Init
  BY DEF InitBusca, Hallados!Init, Indexado, Range
<1>2. InvBusca /\ [NextBusca]_vars => [Hallados!Next]_<<Indexado, Range(disco), nuevos, recortados>>
  BY PasoHallados DEF InvBusca
<1> QED
  BY <1>1, <1>2, InvBuscaVale, PTL DEF SpecBusca, ImplementaHallados, Hallados!Spec
=============================================================================
