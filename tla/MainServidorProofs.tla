------------------------- MODULE MainServidorProofs -------------------------
(***************************************************************************)
(* Proofs about the server and its clients, for any clients, stores, clock *)
(* and rotation interval, over a network that loses, repeats and reorders: *)
(* the tokens, the writes with cas, what travels, and the stores.          *)
(***************************************************************************)
EXTENDS MainServidor, SecuenciasProofs

-----------------------------------------------------------------------------
(* The LRU caches of the stores: with one entry for each key, an operation *)
(* changes the entry of one key, and evicts, but leaves the others alone.  *)

(* A sequence of pairs, one for each key. *)
EsLru(lru) ==
  /\ \E S : lru \in Seq(S)
  /\ \A i \in DOMAIN lru : lru[i] = <<lru[i][1], lru[i][2]>>
  /\ \A i, j \in DOMAIN lru : lru[i][1] = lru[j][1] => i = j

LEMMA PosicionEs ==
  ASSUME NEW lru, NEW k \in Claves(lru)
  PROVE  Posicion(lru, k) \in DOMAIN lru /\ lru[Posicion(lru, k)][1] = k
  BY DEF Claves, Posicion

LEMMA ValorEs ==
  ASSUME NEW lru, EsLru(lru), NEW i \in DOMAIN lru
  PROVE  lru[i][1] \in Claves(lru) /\ Valor(lru, lru[i][1]) = lru[i][2]
<1>1. lru[i][1] \in Claves(lru)
  BY DEF Claves
<1>2. Posicion(lru, lru[i][1]) = i
  BY <1>1, PosicionEs DEF EsLru
<1> QED
  BY <1>1, <1>2 DEF Valor

(* Entries taken from a cache, in any places, keep their values. *)
LEMMA MismoValor ==
  ASSUME NEW lru, EsLru(lru), NEW s, EsLru(s),
         \A i \in DOMAIN s : \E j \in DOMAIN lru : s[i] = lru[j]
  PROVE  Claves(s) \subseteq Claves(lru) /\ \A k \in Claves(s) : Valor(s, k) = Valor(lru, k)
<1>1. SUFFICES ASSUME NEW k \in Claves(s)
               PROVE  k \in Claves(lru) /\ Valor(s, k) = Valor(lru, k)
  OBVIOUS
<1>2. PICK i \in DOMAIN s : s[i][1] = k
  BY DEF Claves
<1>3. PICK j \in DOMAIN lru : s[i] = lru[j]
  OBVIOUS
<1> QED
  BY <1>2, <1>3, ValorEs

LEMMA SinEs ==
  ASSUME NEW lru, EsLru(lru), NEW k
  PROVE  /\ EsLru(Sin(lru, k))
         /\ Claves(Sin(lru, k)) = Claves(lru) \ {k}
         /\ \A x \in Claves(lru) \ {k} : Valor(Sin(lru, k), x) = Valor(lru, x)
<1>1. CASE k \notin Claves(lru)
  BY <1>1 DEF Sin
<1>2. CASE k \in Claves(lru)
  <2> DEFINE p == Posicion(lru, k)
             s == RemoveAt(lru, p)
  <2>1. PICK S : lru \in Seq(S)
    BY DEF EsLru
  <2>2. p \in 1 .. Len(lru) /\ lru[p][1] = k /\ DOMAIN lru = 1 .. Len(lru) /\ Len(lru) \in Nat
    BY <1>2, <2>1, PosicionEs
  <2>3. Sin(lru, k) = s
    BY <1>2 DEF Sin
  <2> HIDE DEF p
  <2>4. /\ s \in Seq(S) /\ Len(s) = Len(lru) - 1
        /\ \A i \in 1 .. Len(lru) - 1 : s[i] = IF i < p THEN lru[i] ELSE lru[i + 1]
    BY <2>1, <2>2, RemoveAtEs, Zenon
  <2> HIDE DEF s
  <2>5. DOMAIN s = 1 .. Len(lru) - 1
    BY <2>4
  <2> DEFINE de(i) == IF i < p THEN i ELSE i + 1
  <2>6. \A i \in DOMAIN s : de(i) \in DOMAIN lru /\ s[i] = lru[de(i)] /\ de(i) # p
    BY <2>2, <2>4, <2>5
  <2>7. \A i, j \in DOMAIN s : de(i) = de(j) => i = j
    BY <2>2, <2>5
  <2>8. EsLru(s)
    <3> HIDE DEF de
    <3> QED
      BY <2>4, <2>6, <2>7 DEF EsLru
  <2>9. Claves(s) \subseteq Claves(lru) /\ \A x \in Claves(s) : Valor(s, x) = Valor(lru, x)
    <3> HIDE DEF de
    <3> QED
      BY <2>6, <2>8, MismoValor
  <2>10. k \notin Claves(s)
    <3> HIDE DEF de
    <3> QED
      BY <2>2, <2>6 DEF Claves, EsLru
  <2>11. ASSUME NEW x \in Claves(lru) \ {k}
         PROVE  x \in Claves(s)
    <3>1. PICK j \in DOMAIN lru : lru[j][1] = x
      BY DEF Claves
    <3>2. j # p
      BY <2>2, <3>1
    <3>3. \E i \in DOMAIN s : s[i] = lru[j]
      <4>1. CASE j < p
        BY <2>2, <2>4, <2>5, <4>1
      <4>2. CASE j > p
        <5>1. j - 1 \in DOMAIN s /\ ~(j - 1 < p) /\ (j - 1) + 1 = j
          BY <2>2, <2>5, <4>2
        <5> QED
          BY <2>4, <2>5, <5>1
      <4> QED
        BY <2>2, <3>2, <4>1, <4>2
    <3> QED
      BY <3>1, <3>3 DEF Claves
  <2> QED
    BY <2>3, <2>8, <2>9, <2>10, <2>11
<1> QED
  BY <1>1, <1>2

(* An entry put before those of the other keys. *)
LEMMA DelanteEs ==
  ASSUME NEW lru, EsLru(lru), NEW k, NEW v
  PROVE  LET con == <<<<k, v>>>> \o Sin(lru, k)
         IN /\ EsLru(con)
            /\ Claves(con) = Claves(lru) \cup {k}
            /\ Valor(con, k) = v
            /\ \A x \in Claves(lru) \ {k} : Valor(con, x) = Valor(lru, x)
            /\ Len(con) \in Nat \ {0} /\ con[1] = <<k, v>>
<1> DEFINE s == Sin(lru, k)
           e == <<k, v>>
           con == <<e>> \o s
<1>1. /\ EsLru(s) /\ Claves(s) = Claves(lru) \ {k}
      /\ \A x \in Claves(lru) \ {k} : Valor(s, x) = Valor(lru, x)
  BY SinEs
<1> HIDE DEF s
<1>2. PICK S : s \in Seq(S)
  BY <1>1 DEF EsLru
<1>3. s \in Seq(S \cup {e}) /\ <<e>> \in Seq(S \cup {e}) /\ Len(<<e>>) = 1
  BY <1>2
<1>0. e[1] = k /\ e[2] = v /\ e = <<e[1], e[2]>>
  OBVIOUS
<1> HIDE DEF e
<1>4. /\ con \in Seq(S \cup {e}) /\ Len(con) = 1 + Len(s)
      /\ \A i \in 1 .. 1 + Len(s) : con[i] = IF i <= 1 THEN <<e>>[i] ELSE s[i - 1]
  BY <1>3, ConcatProperties
<1> HIDE DEF con
<1>5. Len(s) \in Nat /\ DOMAIN s = 1 .. Len(s) /\ DOMAIN con = 1 .. 1 + Len(s)
  BY <1>3, <1>4
<1>6. con[1] = e /\ \A i \in DOMAIN con : i # 1 => i - 1 \in DOMAIN s /\ con[i] = s[i - 1]
  BY <1>4, <1>5
<1>7. \A i \in DOMAIN s : i + 1 \in DOMAIN con /\ con[i + 1] = s[i]
  BY <1>4, <1>5
<1>8. \A i \in DOMAIN s : s[i][1] # k
  BY <1>1 DEF Claves
<1>9. EsLru(con)
  <2>1. SUFFICES ASSUME NEW i \in DOMAIN con, NEW j \in DOMAIN con, con[i][1] = con[j][1]
                 PROVE  i = j
    <3>1. \A i \in DOMAIN con : con[i] = <<con[i][1], con[i][2]>>
      BY <1>0, <1>1, <1>6 DEF EsLru
    <3> QED
      BY <1>4, <3>1 DEF EsLru
  <2>2. CASE i = 1 \/ j = 1
    BY <1>0, <1>6, <1>8, <2>1, <2>2
  <2>3. CASE i # 1 /\ j # 1
    <3>1. i - 1 = j - 1
      BY <1>1, <1>6, <2>1, <2>3 DEF EsLru
    <3> QED
      BY <1>5, <3>1
  <2> QED
    BY <2>2, <2>3
<1>10. 1 \in DOMAIN con
  BY <1>5
<1>11. k \in Claves(con) /\ Valor(con, k) = v
  BY <1>0, <1>6, <1>9, <1>10, ValorEs
<1>12. ASSUME NEW x \in Claves(s)
       PROVE  x \in Claves(con) /\ Valor(con, x) = Valor(s, x)
  <2>1. PICK i \in DOMAIN s : s[i][1] = x
    BY DEF Claves
  <2>2. Valor(s, x) = s[i][2]
    BY <1>1, <2>1, ValorEs
  <2> QED
    BY <1>7, <1>9, <2>1, <2>2, ValorEs
<1>13. Claves(con) \subseteq Claves(s) \cup {k}
  BY <1>0, <1>6 DEF Claves
<1>14. Len(con) \in Nat \ {0}
  BY <1>4, <1>5
<1> QED
  BY <1>1, <1>6, <1>9, <1>11, <1>12, <1>13, <1>14 DEF con, e, s

(* get: what is there stays as it is. *)
LEMMA TocarEs ==
  ASSUME NEW lru, EsLru(lru), NEW k
  PROVE  /\ EsLru(Tocar(lru, k))
         /\ Claves(Tocar(lru, k)) = Claves(lru)
         /\ \A x \in Claves(lru) : Valor(Tocar(lru, k), x) = Valor(lru, x)
<1>1. CASE k \in Claves(lru)
  <2> DEFINE t == <<<<k, Valor(lru, k)>>>> \o Sin(lru, k)
  <2>1. Tocar(lru, k) = t
    BY <1>1 DEF Tocar
  <2>2. /\ EsLru(t) /\ Claves(t) = Claves(lru) \cup {k} /\ Valor(t, k) = Valor(lru, k)
        /\ \A x \in Claves(lru) \ {k} : Valor(t, x) = Valor(lru, x)
    BY DelanteEs
  <2> HIDE DEF t
  <2> QED
    BY <1>1, <2>1, <2>2
<1>2. CASE k \notin Claves(lru)
  BY <1>2 DEF Tocar
<1> QED
  BY <1>1, <1>2

(* put: the new entry is there, the cache is within its size, and what was *)
(* not evicted stays as it is.                                             *)
LEMMA MeterEs ==
  ASSUME NEW lru, EsLru(lru), NEW k, NEW v, NEW tope \in Nat \ {0}
  PROVE  LET m == Meter(lru, k, v, tope)
         IN /\ EsLru(m)
            /\ Len(m) <= tope
            /\ k \in Claves(m) /\ Valor(m, k) = v
            /\ Claves(m) \subseteq Claves(lru) \cup {k}
            /\ \A x \in Claves(m) \ {k} : Valor(m, x) = Valor(lru, x)
<1> DEFINE con == <<<<k, v>>>> \o Sin(lru, k)
           n == IF Len(con) > tope THEN tope ELSE Len(con)
           m == SubSeq(con, 1, n)
<1>1. Meter(lru, k, v, tope) = m
  BY DEF Meter
<1>2. /\ EsLru(con) /\ Claves(con) = Claves(lru) \cup {k} /\ Valor(con, k) = v
      /\ \A x \in Claves(lru) \ {k} : Valor(con, x) = Valor(lru, x)
      /\ Len(con) \in Nat \ {0} /\ con[1] = <<k, v>>
  BY DelanteEs
<1>3. PICK S : con \in Seq(S)
  BY <1>2 DEF EsLru
<1> HIDE DEF con
<1>4. n \in 1 .. Len(con) /\ n <= tope
  BY <1>2
<1> HIDE DEF n
<1>5. m \in Seq(S) /\ Len(m) = n /\ \A i \in 1 .. n : m[i] = con[i]
  BY <1>2, <1>3, <1>4, SubSeqProperties
<1> HIDE DEF m
<1>6. DOMAIN m = 1 .. n /\ DOMAIN con = 1 .. Len(con) /\ DOMAIN m \subseteq DOMAIN con
  BY <1>2, <1>3, <1>4, <1>5
<1>7. EsLru(m)
  BY <1>2, <1>5, <1>6 DEF EsLru
<1>8. Claves(m) \subseteq Claves(con) /\ \A x \in Claves(m) : Valor(m, x) = Valor(con, x)
  BY <1>2, <1>5, <1>6, <1>7, MismoValor
<1>9. k \in Claves(m)
  <2>1. 1 \in DOMAIN m /\ m[1] = <<k, v>>
    BY <1>2, <1>4, <1>5, <1>6
  <2> QED
    BY <2>1 DEF Claves
<1> QED
  BY <1>1, <1>2, <1>4, <1>5, <1>7, <1>8, <1>9

(* As many entries as keys. *)
LEMMA UnaPorClave ==
  ASSUME NEW lru, EsLru(lru)
  PROVE  IsFiniteSet(Claves(lru)) /\ Len(lru) \in Nat /\ Len(lru) = Cardinality(Claves(lru))
<1>1. PICK S : lru \in Seq(S)
  BY DEF EsLru
<1>2. PICK n \in Nat : n = Len(lru)
  BY <1>1
<1>3. DOMAIN lru = 1 .. n
  BY <1>1, <1>2
<1> DEFINE f == [i \in 1 .. n |-> lru[i][1]]
<1>4. f \in [1 .. n -> Claves(lru)] /\ \A i \in 1 .. n : f[i] = lru[i][1]
  BY <1>3 DEF Claves
<1> HIDE DEF f
<1>5. \A i, j \in 1 .. n : f[i] = f[j] => i = j
  BY <1>3, <1>4 DEF EsLru
<1>6. \A k \in Claves(lru) : \E i \in 1 .. n : f[i] = k
  BY <1>3, <1>4 DEF Claves
<1>7. f \in Bijection(1 .. n, Claves(lru))
  <2>1. DOMAIN f = 1 .. n
    BY <1>4
  <2>2. IsInjective(f)
    BY <1>5, <2>1, Zenon DEF IsInjective
  <2> QED
    BY <1>4, <1>6, <2>2, Zenon DEF Bijection, Injection, Surjection
<1>8. ExistsBijection(1 .. n, Claves(lru))
  BY <1>7 DEF ExistsBijection
<1>9. IsFiniteSet(1 .. n) /\ Cardinality(1 .. n) = n
  BY FS_Interval
<1> QED
  BY <1>2, <1>8, <1>9, FS_Bijection

-----------------------------------------------------------------------------
(* The codec. *)

(* The decoder takes the token of an answer from the answer: a variant     *)
(* that has one is chosen only where the field is there.                   *)
LEMMA ElegibleEs ==
  ASSUME NEW campos, "id" \in campos
  PROVE  \E i \in 1 .. 7 : Elegir(campos) = Variantes[i] /\ Variantes[i][2] \subseteq campos
<1> DEFINE P(i) == Variantes[i][2] \subseteq campos
           Q(i) == P(i) /\ \A j \in 1 .. 7 : P(j) => i <= j
<1>1. DOMAIN Variantes = 1 .. 7
  BY DEF Variantes
<1>2. P(7)
  BY DEF Variantes
<1>3. \E i \in 1 .. 7 : Q(i)
  <2> HIDE DEF P
  <2>1. CASE P(1)
    BY <2>1
  <2>2. CASE ~P(1) /\ P(2)
    BY <2>2
  <2>3. CASE ~P(1) /\ ~P(2) /\ P(3)
    BY <2>3
  <2>4. CASE ~P(1) /\ ~P(2) /\ ~P(3) /\ P(4)
    BY <2>4
  <2>5. CASE ~P(1) /\ ~P(2) /\ ~P(3) /\ ~P(4) /\ P(5)
    BY <2>5
  <2>6. CASE ~P(1) /\ ~P(2) /\ ~P(3) /\ ~P(4) /\ ~P(5)
    BY <2>6, <1>2
  <2> QED
    BY <2>1, <2>2, <2>3, <2>4, <2>5, <2>6
<1> QED
  BY <1>1, <1>3 DEF Elegir

LEMMA Elegible ==
  ASSUME NEW campos, "id" \in campos
  PROVE  /\ Elegir(campos)[2] \subseteq campos
         /\ Elegir(campos)[1] \notin {"ping", "find_node"} => "token" \in Elegir(campos)[2]
<1>1. PICK i \in 1 .. 7 : Elegir(campos) = Variantes[i] /\ Variantes[i][2] \subseteq campos
  BY ElegibleEs
<1>2. Variantes[i][1] \notin {"ping", "find_node"} => "token" \in Variantes[i][2]
  BY DEF Variantes
<1> QED
  BY <1>1, <1>2

LEMMA TokenViaja ==
  ASSUME NEW m, m.tipo # "q", m.tipo = "r" => "id" \in DOMAIN m.args,
         get_token(from_serde_message(into_serde_message(m))) # <<>>
  PROVE  /\ m.tipo = "r" /\ "token" \in DOMAIN m.args
         /\ get_token(from_serde_message(into_serde_message(m)))[1].token = m.args.token
<1> DEFINE w == into_serde_message(m)
           d == from_serde_message(w)
           variante == Elegir(DOMAIN w.cuerpo)
<1>1. w.y = m.tipo /\ d.tipo = w.y
  BY DEF into_serde_message, from_serde_message
<1>2. m.tipo = "r"
  BY <1>1 DEF get_token
<1>3. w.cuerpo = ConNodos(m.args)
  BY <1>2 DEF into_serde_message, CodificarRespuesta
<1>4. DOMAIN w.cuerpo = DOMAIN m.args
  BY <1>3 DEF ConNodos
<1>5. d.clase = variante[1] /\ d.args = SoloCampos(w.cuerpo, variante[2] \cup {"nodes"})
  BY <1>1, <1>2 DEF from_serde_message
<1>6. d.clase \notin {"ping", "find_node"}
  BY <1>1, <1>2 DEF get_token
<1>7. variante[2] \subseteq DOMAIN m.args /\ "token" \in variante[2]
  <2> HIDE DEF d
  <2> QED
    BY <1>2, <1>4, <1>5, <1>6, Elegible
<1>8. w.cuerpo.token = m.args.token
  BY <1>3, <1>7 DEF ConNodos
<1>9. d.args.token = m.args.token
  <2> HIDE DEF d, w
  <2> QED
    BY <1>4, <1>5, <1>7, <1>8 DEF SoloCampos
<1>10. get_token(d)[1].token = d.args.token
  <2> HIDE DEF d
  <2> QED
    BY <1>1, <1>2, <1>6 DEF get_token
<1> QED
  BY <1>2, <1>7, <1>9, <1>10

-----------------------------------------------------------------------------
(* The invariant.  Answers on their way were made since the last time the  *)
(* clock moved, with the secret of now; a token a client keeps is of that  *)
(* secret, of the one before, or older than the client trusts.             *)

RelojSano ==
  /\ ahora \in Nat /\ last_updated \in 0 .. ahora
  /\ curr_secret \in Nat /\ prev_secret \in Nat /\ prev_secret < curr_secret

Trae(p) == get_token(from_serde_message(p.cable))

EnCamino ==
  \A p \in red :
    (p.cable.y # "q" /\ Trae(p) # <<>>) =>
      Trae(p)[1].token.secreto = curr_secret /\ ~should_update

Vale(c) ==
  \/ c.token = Nada
  \/ /\ c.token.secreto = curr_secret
     /\ c.visto - last_updated <= TOKEN_ROTATE_INTERVAL
  \/ c.token.secreto = prev_secret /\ c.visto <= last_updated
  \/ ahora - c.visto > TOKEN_ROTATE_INTERVAL

Conocidos == \A c \in Clientes : cli[c].visto \in 0 .. ahora /\ Vale(cli[c])

CliTipo ==
  /\ DOMAIN cli = Clientes
  /\ \A c \in Clientes : DOMAIN cli[c] = {"token", "visto", "leido"}

InvTokens == RelojSano /\ EnCamino /\ CliTipo /\ Conocidos

LEMMA TokensInicial ==
  ASSUME Init
  PROVE  InvTokens
<1>1. RelojSano
  BY DEF Init, RelojSano
<1>2. EnCamino /\ CliTipo
  BY DEF Init, EnCamino, CliTipo
<1>3. Conocidos
  BY DEF Init, Conocidos, Vale
<1> QED
  BY <1>1, <1>2, <1>3 DEF InvTokens

(* Nothing that is trusted needs an older secret than the server accepts.  *)
LEMMA TokensBasta ==
  ASSUME InvTokens
  PROVE  TokenFrescoSirve
<1> USE SupuestoServidor DEF SupuestoServidor
<1>1. SUFFICES ASSUME NEW c \in Clientes, cli[c].token # Nada,
                      ahora - cli[c].visto <= TOKEN_ROTATE_INTERVAL
               PROVE  cli[c].token.secreto >= IF should_update THEN curr_secret ELSE prev_secret
  BY DEF TokenFrescoSirve
<1>2. RelojSano /\ cli[c].visto \in 0 .. ahora /\ Vale(cli[c])
  BY DEF InvTokens, Conocidos
<1>3. CASE cli[c].token.secreto = curr_secret
  BY <1>2, <1>3 DEF RelojSano
<1>4. CASE cli[c].token.secreto = prev_secret /\ cli[c].visto <= last_updated
  <2>1. ~should_update
    BY <1>1, <1>2, <1>4 DEF RelojSano, should_update
  <2> QED
    BY <1>2, <1>4, <2>1 DEF RelojSano
<1> QED
  BY <1>1, <1>2, <1>3, <1>4 DEF Vale, RelojSano

-----------------------------------------------------------------------------
(* What an answer carries besides the id of the server, and its token.     *)
LEMMA Unido ==
  ASSUME NEW p, NEW args
  PROVE  LET m == Junto([id |-> "servidor"], args)
             t == ConToken(p, args)
         IN /\ "id" \in DOMAIN m
            /\ "token" \in DOMAIN m => "token" \in DOMAIN args /\ m.token = args.token
            /\ "token" \in DOMAIN t /\ t.token = generate_token(p.cliente)
  BY DEF Junto, ConToken

(* Before a request is handled the secrets are those of now, and what was  *)
(* trusted still is.                                                       *)
LEMMA RotarGuarda ==
  ASSUME InvTokens, RotarSiToca, UNCHANGED <<ahora, cli>>
  PROVE  /\ RelojSano' /\ CliTipo' /\ Conocidos'
         /\ ~should_update'
         /\ \A p \in red : (p.cable.y # "q" /\ Trae(p) # <<>>) =>
              Trae(p)[1].token.secreto = curr_secret'
<1> USE SupuestoServidor DEF SupuestoServidor
<1>1. CASE should_update
  <2>1. prev_secret' = curr_secret /\ curr_secret' = curr_secret + 1 /\ last_updated' = ahora
    BY <1>1 DEF RotarSiToca
  <2>2. RelojSano' /\ ~should_update' /\ CliTipo'
    BY <2>1 DEF InvTokens, RelojSano, should_update, CliTipo
  <2>3. ASSUME NEW c \in Clientes
        PROVE  cli[c].visto \in 0 .. ahora /\ Vale(cli[c])'
    <3>1. cli[c].visto \in 0 .. ahora /\ Vale(cli[c])
      BY DEF InvTokens, Conocidos
    <3>2. ahora - last_updated > TOKEN_ROTATE_INTERVAL
      BY <1>1 DEF should_update
    <3>3. ahora \in Nat /\ last_updated \in 0 .. ahora
      BY DEF InvTokens, RelojSano
    <3>4. CASE cli[c].token = Nada
      BY <3>1, <3>4 DEF Vale
    <3>5. CASE cli[c].token.secreto = curr_secret
      BY <2>1, <3>1, <3>3, <3>5 DEF Vale
    <3>6. CASE cli[c].visto <= last_updated
      <4>1. ahora - cli[c].visto > TOKEN_ROTATE_INTERVAL
        BY <3>1, <3>2, <3>3, <3>6
      <4> QED
        BY <3>1, <4>1 DEF Vale
    <3>7. CASE ahora - cli[c].visto > TOKEN_ROTATE_INTERVAL
      BY <3>1, <3>7 DEF Vale
    <3> QED
      BY <3>1, <3>4, <3>5, <3>6, <3>7 DEF Vale
  <2>4. Conocidos'
    BY <2>3 DEF Conocidos
  <2>5. \A p \in red : ~(p.cable.y # "q" /\ Trae(p) # <<>>)
    BY <1>1 DEF InvTokens, EnCamino
  <2> QED
    BY <2>2, <2>4, <2>5
<1>2. CASE ~should_update
  <2>1. UNCHANGED <<prev_secret, curr_secret, last_updated>>
    BY <1>2 DEF RotarSiToca
  <2> QED
    BY <1>2, <2>1 DEF InvTokens, RelojSano, should_update, CliTipo, Conocidos, Vale, EnCamino
<1> QED
  BY <1>1, <1>2

(* An answer whose token, if it has one, is of the secret of now.          *)
LEMMA ContestarGuarda ==
  ASSUME InvTokens, NEW p \in red, NEW clase, Llega(p, clase),
         NEW m, m.tipo \in {"r", "e"}, m.tipo = "r" => "id" \in DOMAIN m.args,
         "token" \in DOMAIN m.args => m.args.token = generate_token(p.cliente),
         Contestar(p, m)
  PROVE  InvTokens'
<1>1. RotarSiToca /\ UNCHANGED <<ahora, cli>>
  BY DEF Llega
<1>2. red' \subseteq red \cup {Paquete(p.cliente, m)}
  BY DEF Contestar
<1>3. ASSUME NEW q \in red', q.cable.y # "q", Trae(q) # <<>>
      PROVE  Trae(q)[1].token.secreto = curr_secret'
  <2>1. CASE q \in red
    BY <1>1, <1>3, <2>1, RotarGuarda
  <2>2. CASE q = Paquete(p.cliente, m)
    <3>1. Trae(q) = get_token(from_serde_message(into_serde_message(m)))
      BY <2>2 DEF Trae, Paquete
    <3>2. "token" \in DOMAIN m.args /\ Trae(q)[1].token = m.args.token
      BY <1>3, <3>1, TokenViaja
    <3> QED
      BY <3>2 DEF generate_token, Token
  <2> QED
    BY <1>2, <1>3, <2>1, <2>2
<1>4. ~should_update' /\ RelojSano' /\ CliTipo' /\ Conocidos'
  BY <1>1, RotarGuarda
<1>5. EnCamino'
  BY <1>3, <1>4 DEF EnCamino, Trae
<1> QED
  BY <1>4, <1>5 DEF InvTokens

LEMMA ContestaGuarda ==
  ASSUME InvTokens, NEW p \in red, NEW clase, Llega(p, clase), NEW otra, NEW args,
         "token" \in DOMAIN args => args.token = generate_token(p.cliente),
         Contesta(p, otra, args)
  PROVE  InvTokens'
<1> DEFINE m == Respuesta(p.era.transaction_id, p.cliente, FALSE, otra,
                          Junto([id |-> "servidor"], args))
<1>1. m.tipo = "r" /\ m.args = Junto([id |-> "servidor"], args)
  BY DEF Respuesta
<1>2. Contestar(p, m)
  BY DEF Contesta
<1> HIDE DEF m
<1>3. /\ "id" \in DOMAIN m.args
      /\ "token" \in DOMAIN m.args => "token" \in DOMAIN args /\ m.args.token = args.token
  BY <1>1, Unido
<1>4. "token" \in DOMAIN m.args => m.args.token = generate_token(p.cliente)
  BY <1>3
<1> QED
  BY <1>1, <1>2, <1>3, <1>4, ContestarGuarda

LEMMA RechazaGuarda ==
  ASSUME InvTokens, NEW p \in red, NEW clase, Llega(p, clase), NEW code, Rechaza(p, code)
  PROVE  InvTokens'
<1> DEFINE m == Error(p.era.transaction_id, p.cliente, FALSE, code)
<1>1. m.tipo = "e" /\ m.args = [code |-> code]
  BY DEF Error
<1>2. Contestar(p, m)
  BY DEF Rechaza
<1>3. "token" \notin DOMAIN m.args
  BY <1>1
<1> HIDE DEF m
<1> QED
  BY <1>1, <1>2, <1>3, ContestarGuarda

(* The reads: what they answer has no token, or that of ConToken.          *)
LEMMA LecturasGuardan ==
  ASSUME InvTokens, NEW p \in red, Ping(p) \/ FindNode(p) \/ GetPeers(p) \/ GetValue(p)
  PROVE  InvTokens'
<1>1. CASE Ping(p)
  <2>1. Llega(p, "ping") /\ Contesta(p, "ping", <<>>) /\ "token" \notin DOMAIN <<>>
    BY <1>1 DEF Ping
  <2> QED
    BY <2>1, ContestaGuarda
<1>2. CASE FindNode(p)
  <2> DEFINE args == [nodes |-> Cercanos]
  <2>1. Llega(p, "find_node") /\ Contesta(p, "find_node", args) /\ "token" \notin DOMAIN args
    BY <1>2 DEF FindNode
  <2> HIDE DEF args
  <2> QED
    BY <2>1, ContestaGuarda
<1>3. CASE GetPeers(p)
  <2>1. \E otra, args : Contesta(p, otra, ConToken(p, args))
    BY <1>3 DEF GetPeers
  <2>2. Llega(p, "get_peers")
    BY <1>3 DEF GetPeers
  <2> QED
    BY <2>1, <2>2, Unido, ContestaGuarda
<1>4. CASE GetValue(p)
  <2>1. Llega(p, "get_value")
    BY <1>4 DEF GetValue
  <2>2. \E otra, args : Contesta(p, otra, ConToken(p, args))
    <3>1. CASE handle_get_mutable(p)
      BY <3>1 DEF handle_get_mutable
    <3>2. CASE ~handle_get_mutable(p)
      BY <1>4, <3>2 DEF GetValue
    <3> QED
      BY <3>1, <3>2
  <2> QED
    BY <2>1, <2>2, Unido, ContestaGuarda
<1> QED
  BY <1>1, <1>2, <1>3, <1>4

(* The writes: they refuse, or acknowledge without a token.                *)
LEMMA EscriturasGuardan ==
  ASSUME InvTokens, NEW p \in red, AnnouncePeer(p) \/ PutImmutable(p) \/ PutMutable(p)
  PROVE  InvTokens'
<1>1. "token" \notin DOMAIN <<>>
  OBVIOUS
<1>2. \E clase : Llega(p, clase)
  BY DEF AnnouncePeer, PutImmutable, PutMutable
<1>3. (\E code : Rechaza(p, code)) \/ Contesta(p, "ping", <<>>)
  <2>1. CASE AnnouncePeer(p)
    BY <2>1 DEF AnnouncePeer
  <2>2. CASE PutImmutable(p)
    BY <2>2 DEF PutImmutable
  <2>3. CASE PutMutable(p)
    BY <2>3 DEF PutMutable
  <2> QED
    BY <2>1, <2>2, <2>3
<1> QED
  BY <1>1, <1>2, <1>3, ContestaGuarda, RechazaGuarda

(* A request of a client carries no answer. *)
LEMMA EnviarGuarda ==
  ASSUME InvTokens, NEW c \in Clientes, NEW clase, NEW tid, NEW args,
         Enviar(c, clase, tid, args), CliTipo',
         \A k \in Clientes : cli'[k].token = cli[k].token /\ cli'[k].visto = cli[k].visto
  PROVE  InvTokens'
<1> DEFINE q == Paquete(c, Peticion(tid, TRUE, clase, Junto([id |-> c], args)))
<1>1. red' = red \cup {q}
      /\ UNCHANGED <<ahora, curr_secret, prev_secret, last_updated>>
  BY DEF Enviar
<1>2. q.cable.y = "q"
  BY DEF Paquete, into_serde_message, Peticion
<1> HIDE DEF q
<1>3. RelojSano'
  BY <1>1 DEF InvTokens, RelojSano
<1>4. EnCamino'
  BY <1>1, <1>2 DEF InvTokens, EnCamino, Trae, should_update
<1>5. Conocidos'
  BY <1>1 DEF InvTokens, Conocidos, Vale
<1> QED
  BY <1>3, <1>4, <1>5 DEF InvTokens

(* What was read may be forgotten; the token is kept. *)
LEMMA ClientesGuardan ==
  ASSUME InvTokens, NEW c \in Clientes,
         EnviarLectura(c) \/ EnviarAnuncio(c) \/ EnviarInmutable(c) \/ EnviarMutable(c)
  PROVE  InvTokens'
<1>0. CliTipo
  BY DEF InvTokens
<1>1. cli' = cli \/ cli' = [cli EXCEPT ![c].leido = Nada]
  BY DEF EnviarLectura, EnviarAnuncio, EnviarInmutable, EnviarMutable
<1>2. CliTipo' /\ \A k \in Clientes : cli'[k].token = cli[k].token /\ cli'[k].visto = cli[k].visto
  <2>1. CASE cli' = cli
    BY <1>0, <2>1 DEF CliTipo
  <2>2. CASE cli' = [cli EXCEPT ![c].leido = Nada]
    BY <1>0, <2>2 DEF CliTipo
  <2> QED
    BY <1>1, <2>1, <2>2
<1>3. \E clase, tid, args : Enviar(c, clase, tid, args)
  <2>1. CASE EnviarLectura(c)
    BY <2>1 DEF EnviarLectura
  <2>2. CASE EnviarAnuncio(c)
    BY <2>2 DEF EnviarAnuncio
  <2>3. CASE EnviarInmutable(c)
    BY <2>3 DEF EnviarInmutable
  <2>4. CASE EnviarMutable(c)
    <3>1. PICK sal \in Sales : \E t, m : Enviar(c, "put_mutable", t, m)
      BY <2>4, Zenon DEF EnviarMutable
    <3> QED
      BY <3>1
  <2> QED
    BY <2>1, <2>2, <2>3, <2>4
<1> QED
  BY <1>2, <1>3, EnviarGuarda

(* A token that arrives is of now. *)
LEMMA RecibirGuarda ==
  ASSUME InvTokens, NEW p \in red, RecibeRespuesta(p)
  PROVE  InvTokens'
<1> USE SupuestoServidor DEF SupuestoServidor
<1> DEFINE c == p.cliente
           trae == Trae(p)
<1>1. /\ p.cable.y # "q" /\ red' = red \ {p}
      /\ UNCHANGED <<ahora, curr_secret, prev_secret, last_updated>>
  BY DEF RecibeRespuesta
<1>2. \E leido :
        cli' = [cli EXCEPT ![c] =
          [token |-> IF trae = <<>> THEN @.token ELSE trae[1].token,
           visto |-> IF trae = <<>> THEN @.visto ELSE ahora,
           leido |-> leido]]
  BY DEF RecibeRespuesta, Trae
<1>3. trae # <<>> => trae[1].token.secreto = curr_secret /\ ~should_update
  BY <1>1 DEF InvTokens, EnCamino
<1> HIDE DEF trae
<1>4. RelojSano'
  BY <1>1 DEF InvTokens, RelojSano
<1>5. EnCamino'
  BY <1>1 DEF InvTokens, EnCamino, Trae, should_update
<1>6. CliTipo'
  BY <1>2 DEF InvTokens, CliTipo
<1>7. ASSUME NEW k \in Clientes
      PROVE  cli'[k].visto \in 0 .. ahora /\ Vale(cli'[k])
  <2>1. cli[k].visto \in 0 .. ahora /\ Vale(cli[k])
    BY DEF InvTokens, Conocidos
  <2>2. CASE k # c \/ trae = <<>>
    <3>1. cli'[k].token = cli[k].token /\ cli'[k].visto = cli[k].visto
      BY <1>2, <2>2 DEF InvTokens, CliTipo
    <3> QED
      BY <2>1, <3>1 DEF Vale
  <2>3. CASE k = c /\ trae # <<>>
    <3>1. cli'[k].token = trae[1].token /\ cli'[k].visto = ahora
      BY <1>2, <2>3 DEF InvTokens, CliTipo
    <3>2. ahora \in Nat /\ last_updated \in 0 .. ahora
      BY DEF InvTokens, RelojSano
    <3>3. ahora - last_updated <= TOKEN_ROTATE_INTERVAL
      BY <1>3, <2>3, <3>2 DEF should_update
    <3> QED
      BY <1>3, <2>3, <3>1, <3>2, <3>3 DEF Vale
  <2> QED
    BY <2>2, <2>3
<1>8. Conocidos'
  BY <1>1, <1>7 DEF Conocidos, Vale
<1> QED
  BY <1>4, <1>5, <1>6, <1>8 DEF InvTokens

(* Time only ages what is trusted, and nothing is on its way after it. *)
LEMMA PasaGuarda ==
  ASSUME InvTokens, Pasa
  PROVE  InvTokens'
<1> USE SupuestoServidor DEF SupuestoServidor
<1>1. ahora' = ahora + 1 /\ red' = {} /\ UNCHANGED <<curr_secret, prev_secret, last_updated, cli>>
  BY DEF Pasa
<1>2. RelojSano'
  BY <1>1 DEF InvTokens, RelojSano
<1>3. EnCamino' /\ CliTipo'
  BY <1>1 DEF InvTokens, EnCamino, CliTipo
<1>4. ASSUME NEW k \in Clientes
      PROVE  cli[k].visto \in 0 .. ahora' /\ Vale(cli[k])'
  <2>1. cli[k].visto \in 0 .. ahora /\ Vale(cli[k]) /\ ahora \in Nat
    BY DEF InvTokens, Conocidos, RelojSano
  <2>2. cli[k].visto \in 0 .. ahora'
    BY <1>1, <2>1
  <2> QED
    BY <1>1, <2>1, <2>2 DEF Vale
<1>5. Conocidos'
  BY <1>1, <1>4 DEF Conocidos
<1> QED
  BY <1>2, <1>3, <1>5 DEF InvTokens

LEMMA PasoTokens ==
  ASSUME InvTokens, [Next]_servVars
  PROVE  InvTokens'
<1>1. ASSUME NEW p \in red, handle_request(p)
      PROVE  InvTokens'
  BY <1>1, LecturasGuardan, EscriturasGuardan DEF handle_request
<1>2. ASSUME NEW p \in red, RecibeRespuesta(p)
      PROVE  InvTokens'
  BY <1>2, RecibirGuarda
<1>3. ASSUME NEW p \in red, Perder(p)
      PROVE  InvTokens'
  BY <1>3 DEF Perder, InvTokens, RelojSano, EnCamino, CliTipo, Conocidos, Vale, Trae, should_update
<1>4. ASSUME NEW c \in Clientes,
             EnviarLectura(c) \/ EnviarAnuncio(c) \/ EnviarInmutable(c) \/ EnviarMutable(c)
      PROVE  InvTokens'
  BY <1>4, ClientesGuardan
<1>5. CASE Pasa
  BY <1>5, PasaGuarda
<1>6. CASE UNCHANGED servVars
  BY <1>6 DEF servVars, InvTokens, RelojSano, EnCamino, CliTipo, Conocidos, Vale, Trae, should_update
<1> QED
  BY <1>1, <1>2, <1>3, <1>4, <1>5, <1>6 DEF Next

(* A token that a client still trusts (Node::valid_token) is accepted by   *)
(* the server that gave it, for any rotation interval and however requests *)
(* and answers are lost, repeated and delayed (server/tokens.rs).          *)
THEOREM TokensFrescos == Spec => []TokenFrescoSirve
<1>1. Init => InvTokens
  BY TokensInicial
<1>2. InvTokens /\ [Next]_servVars => InvTokens'
  BY PasoTokens
<1>3. InvTokens => TokenFrescoSirve
  BY TokensBasta
<1> QED
  BY <1>1, <1>2, <1>3, PTL DEF Spec

-----------------------------------------------------------------------------
(* Writes with cas.  v carries every confirmed write to t.                   *)
Lleva(t, v) == \A w \in confirmados : w[1] = t => w[2] \in v

(* Something read of t: not newer than what is kept, and complete if it is *)
(* what is kept.                                                           *)
LeeBien(t, s, v) ==
  /\ s \in Nat \ {0}
  /\ t \notin desalojados =>
       /\ t \in Claves(mutable_values)
       /\ s <= Valor(mutable_values, t).seq
       /\ s = Valor(mutable_values, t).seq => Lleva(t, v)

(* A write with cas adds to what was read with that seq. *)
EscrituraSana(c, a) ==
  /\ a.seq \in Nat \ {0} /\ <<c, a.seq>> \in a.v
  /\ IF "cas" \in DOMAIN a THEN a.seq = a.cas + 1 /\ LeeBien(a.target, a.cas, a.v)
     ELSE a.seq = 1

Sana(p) ==
  LET m == from_serde_message(p.cable)
  IN /\ p.cable.y = "q" /\ m.clase = "get_value" => p.era.transaction_id = m.args.target
     /\ p.cable.y = "q" /\ m.clase = "put_mutable" => EscrituraSana(p.cliente, m.args)
     /\ p.cable.y # "q" /\ m.clase = "get_mutable" =>
          LeeBien(m.transaction_id, m.args.seq, m.args.v)

RedSana == \A p \in red : Sana(p)

LeidoSano ==
  \A c \in Clientes :
    cli[c].leido # Nada => LeeBien(cli[c].leido.target, cli[c].leido.seq, cli[c].leido.v)

AlmacenSano ==
  /\ EsLru(mutable_values)
  /\ \A t \in Claves(mutable_values) : Valor(mutable_values, t).seq \in Nat \ {0}
  /\ \A w \in confirmados :
       /\ w[1] \notin desalojados /\ w[1] \in Claves(mutable_values)
       /\ w[2] \in Valor(mutable_values, w[1]).v
       /\ Valor(mutable_values, w[1]).seq > 1

InvCas == CliTipo /\ AlmacenSano /\ LeidoSano /\ RedSana

LEMMA CasInicial ==
  ASSUME Init
  PROVE  InvCas
<1>1. CliTipo /\ LeidoSano /\ RedSana
  BY DEF Init, CliTipo, LeidoSano, RedSana
<1>2. EsLru(mutable_values) /\ Claves(mutable_values) = {}
  <2>1. <<>> \in Seq({}) /\ DOMAIN <<>> = {}
    OBVIOUS
  <2> QED
    BY <2>1 DEF Init, EsLru, Claves
<1>3. AlmacenSano
  BY <1>2 DEF Init, AlmacenSano
<1> QED
  BY <1>1, <1>3 DEF InvCas

LEMMA CasBasta ==
  ASSUME InvCas
  PROVE  ConfirmadoPerdura
BY DEF InvCas, AlmacenSano, ConfirmadoPerdura

-----------------------------------------------------------------------------
(* What a step does to the items: nothing but their order, or the put that *)
(* is accepted.                                                            *)
Quieto ==
  /\ EsLru(mutable_values')
  /\ Claves(mutable_values') = Claves(mutable_values)
  /\ \A t \in Claves(mutable_values) : Valor(mutable_values', t) = Valor(mutable_values, t)
  /\ UNCHANGED historia

(* What was well read still is. *)
Sigue == \A t, s, v : LeeBien(t, s, v) => LeeBien(t, s, v)'

LEMMA QuietoGuarda ==
  ASSUME AlmacenSano, Quieto
  PROVE  AlmacenSano' /\ Sigue
<1>1. UNCHANGED <<confirmados, desalojados>>
  BY DEF Quieto, historia
<1>2. AlmacenSano'
  BY <1>1 DEF AlmacenSano, Quieto
<1>3. Sigue
  BY <1>1 DEF Sigue, LeeBien, Lleva, Quieto
<1> QED
  BY <1>2, <1>3

LEMMA IgualQuieto ==
  ASSUME AlmacenSano, UNCHANGED <<mutable_values, historia>>
  PROVE  Quieto
BY DEF AlmacenSano, Quieto

(* The put that is accepted, c's with arguments a. *)
Acepta(c, a) ==
  LET nuevos == Meter(mutable_values, a.target, Item(a), MAX_VALUES)
  IN /\ Conflicto(a) = 0
     /\ mutable_values' = nuevos
     /\ desalojados' = desalojados \cup (Claves(mutable_values) \ Claves(nuevos))
     /\ confirmados' =
          {w \in confirmados \cup
                (IF "cas" \in DOMAIN a THEN {<<a.target, <<c, a.seq>>>>} ELSE {}) :
             w[1] \notin desalojados'}

LEMMA SinConflicto ==
  ASSUME NEW a, Conflicto(a) = 0, a.target \in Claves(mutable_values)
  PROVE  /\ ~(a.seq < Valor(mutable_values, a.target).seq)
         /\ "cas" \in DOMAIN a => Valor(mutable_values, a.target).seq = a.cas
BY DEF Conflicto

LEMMA AceptaGuarda ==
  ASSUME AlmacenSano, NEW c, NEW a, EscrituraSana(c, a), Acepta(c, a)
  PROVE  /\ AlmacenSano' /\ Sigue
         /\ \A t \in Claves(mutable_values) \cap Claves(mutable_values') :
              Valor(mutable_values, t).seq <= Valor(mutable_values', t).seq
<1> USE SupuestoServidor DEF SupuestoServidor
<1> DEFINE T == a.target
           mv == mutable_values
           mv2 == mutable_values'
<1>1. /\ EsLru(mv2) /\ T \in Claves(mv2) /\ Valor(mv2, T) = Item(a)
      /\ Claves(mv2) \subseteq Claves(mv) \cup {T}
      /\ \A x \in Claves(mv2) \ {T} : Valor(mv2, x) = Valor(mv, x)
  BY MeterEs DEF Acepta, AlmacenSano
<1>2. Valor(mv2, T).seq = a.seq /\ Valor(mv2, T).v = a.v
  BY <1>1 DEF Item
<1>3. /\ desalojados' = desalojados \cup (Claves(mv) \ Claves(mv2))
      /\ confirmados' =
           {w \in confirmados \cup
                 (IF "cas" \in DOMAIN a THEN {<<T, <<c, a.seq>>>>} ELSE {}) :
              w[1] \notin desalojados'}
      /\ Conflicto(a) = 0
  BY DEF Acepta
<1>4. /\ EsLru(mv)
      /\ \A t \in Claves(mv) : Valor(mv, t).seq \in Nat \ {0}
      /\ \A w \in confirmados :
           /\ w[1] \notin desalojados /\ w[1] \in Claves(mv)
           /\ w[2] \in Valor(mv, w[1]).v /\ Valor(mv, w[1]).seq > 1
  BY DEF AlmacenSano
<1>5. a.seq \in Nat \ {0} /\ <<c, a.seq>> \in a.v
  BY DEF EscrituraSana
<1>6. T \in Claves(mv) => Valor(mv, T).seq <= a.seq
  BY <1>3, <1>4, <1>5, SinConflicto
(* With cas, on what is kept: the next seq, with every confirmed write. *)
<1>7. ASSUME "cas" \in DOMAIN a, T \notin desalojados
      PROVE  T \in Claves(mv) /\ a.seq = Valor(mv, T).seq + 1 /\ Lleva(T, a.v)
  <2>1. a.seq = a.cas + 1 /\ LeeBien(T, a.cas, a.v)
    BY <1>7 DEF EscrituraSana
  <2>2. T \in Claves(mv) /\ (a.cas = Valor(mv, T).seq => Lleva(T, a.v))
    BY <1>7, <2>1 DEF LeeBien
  <2>3. Valor(mv, T).seq = a.cas
    BY <1>3, <1>7, <2>2, SinConflicto
  <2> QED
    BY <2>1, <2>2, <2>3
(* Without it, nothing is confirmed of what it replaces. *)
<1>8. ASSUME "cas" \notin DOMAIN a
      PROVE  \A w \in confirmados : w[1] # T
  <2>1. a.seq = 1
    BY <1>8 DEF EscrituraSana
  <2> QED
    BY <1>4, <1>6, <2>1
<1>9. ASSUME NEW t, t \notin desalojados', t \in Claves(mv)
      PROVE  t \notin desalojados /\ t \in Claves(mv2)
  BY <1>3, <1>9
<1>10. ASSUME NEW w \in confirmados'
       PROVE  /\ w[1] \notin desalojados' /\ w[1] \in Claves(mv2)
              /\ w[2] \in Valor(mv2, w[1]).v /\ Valor(mv2, w[1]).seq > 1
  <2>1. w[1] \notin desalojados' /\ w[1] \notin desalojados
    BY <1>3
  <2>2. CASE w \in confirmados
    <3>1. w[1] \in Claves(mv) /\ w[1] \in Claves(mv2)
      BY <1>4, <1>9, <2>1, <2>2
    <3>2. CASE w[1] # T
      BY <1>1, <1>4, <2>1, <2>2, <3>1, <3>2
    <3>3. CASE w[1] = T
      <4>1. "cas" \in DOMAIN a
        BY <1>8, <2>2, <3>3
      <4>2. Valor(mv, T).seq \in Nat \ {0} /\ a.seq = Valor(mv, T).seq + 1 /\ w[2] \in a.v
        BY <1>4, <1>7, <2>1, <2>2, <3>1, <3>3, <4>1 DEF Lleva
      <4> QED
        BY <1>2, <2>1, <3>1, <3>3, <4>2
    <3> QED
      BY <3>2, <3>3
  <2>3. CASE w \notin confirmados
    <3>1. "cas" \in DOMAIN a /\ w = <<T, <<c, a.seq>>>>
      BY <1>3, <2>3
    <3>2. w[1] = T /\ w[2] = <<c, a.seq>>
      BY <3>1
    <3>3. T \in Claves(mv) /\ a.seq = Valor(mv, T).seq + 1
      BY <1>7, <2>1, <3>1, <3>2
    <3> QED
      BY <1>1, <1>2, <1>4, <1>5, <2>1, <3>2, <3>3
  <2> QED
    BY <2>2, <2>3
<1>11. \A t \in Claves(mv2) : Valor(mv2, t).seq \in Nat \ {0}
  BY <1>1, <1>2, <1>4, <1>5
<1>12. AlmacenSano'
  BY <1>1, <1>10, <1>11 DEF AlmacenSano
<1>13. Sigue
  <2>1. SUFFICES ASSUME NEW t, NEW s, NEW v, LeeBien(t, s, v)
                 PROVE  LeeBien(t, s, v)'
    BY DEF Sigue
  <2>2. s \in Nat \ {0}
    BY <2>1 DEF LeeBien
  <2>3. ASSUME t \notin desalojados'
        PROVE  /\ t \in Claves(mv2) /\ s <= Valor(mv2, t).seq
               /\ s = Valor(mv2, t).seq => Lleva(t, v)'
    <3>1. /\ t \notin desalojados /\ t \in Claves(mv)
          /\ s <= Valor(mv, t).seq
          /\ s = Valor(mv, t).seq => Lleva(t, v)
      BY <1>3, <2>1, <2>3 DEF LeeBien
    <3>2. t \in Claves(mv2)
      BY <1>9, <2>3, <3>1
    <3>3. CASE t # T
      <4>1. Valor(mv2, t) = Valor(mv, t)
        BY <1>1, <3>2, <3>3
      <4>2. \A w \in confirmados' : w[1] = t => w \in confirmados
        <5>1. <<T, <<c, a.seq>>>>[1] = T
          OBVIOUS
        <5> QED
          BY <1>3, <3>3, <5>1
      <4> QED
        BY <3>1, <3>2, <4>1, <4>2 DEF Lleva
    <3>4. CASE t = T
      <4>1. Valor(mv, t).seq \in Nat \ {0} /\ s <= a.seq
        BY <1>4, <1>5, <1>6, <2>2, <3>1, <3>4
      <4>2. ASSUME s = a.seq
            PROVE  Lleva(t, v)'
        <5>1. "cas" \notin DOMAIN a
          BY <1>7, <2>2, <3>1, <3>4, <4>1, <4>2
        <5>2. confirmados' \subseteq confirmados
          BY <1>3, <5>1
        <5> QED
          BY <1>8, <3>4, <5>1, <5>2 DEF Lleva
      <4> QED
        BY <1>2, <3>2, <3>4, <4>1, <4>2
    <3> QED
      BY <3>3, <3>4
  <2> QED
    BY <2>2, <2>3 DEF LeeBien
<1>14. ASSUME NEW t \in Claves(mv) \cap Claves(mv2)
       PROVE  Valor(mv, t).seq <= Valor(mv2, t).seq
  <2>1. CASE t = T
    BY <1>2, <1>6, <2>1
  <2>2. CASE t # T
    BY <1>1, <1>4, <2>2
  <2> QED
    BY <2>1, <2>2
<1> QED
  BY <1>12, <1>13, <1>14

-----------------------------------------------------------------------------
(* What the messages mean to their receiver. *)

LEMMA JuntoEs ==
  ASSUME NEW f, NEW g, NEW x
  PROVE  /\ DOMAIN Junto(f, g) = DOMAIN f \cup DOMAIN g
         /\ x \in DOMAIN f => Junto(f, g)[x] = f[x]
         /\ x \in DOMAIN g \ DOMAIN f => Junto(f, g)[x] = g[x]
BY DEF Junto

(* A variant is chosen where its fields are, and only that of an item has  *)
(* this class.                                                             *)
LEMMA ElegidoItem ==
  ASSUME NEW campos, "id" \in campos, Elegir(campos)[1] = "get_mutable"
  PROVE  Elegir(campos)[2] \subseteq campos /\ {"sig", "seq", "v"} \subseteq Elegir(campos)[2]
<1>1. PICK i \in 1 .. 7 : Elegir(campos) = Variantes[i]
  BY ElegibleEs
<1>2. i = 1
  BY <1>1 DEF Variantes
<1>3. {"sig", "seq", "v"} \subseteq Variantes[1][2]
  BY DEF Variantes
<1> QED
  BY <1>1, <1>2, <1>3, Elegible

(* An answer is read as an item only if it carries one. *)
LEMMA LecturaViaja ==
  ASSUME NEW m, m.tipo \in {"r", "e"}, m.tipo = "r" => "id" \in DOMAIN m.args,
         from_serde_message(into_serde_message(m)).clase = "get_mutable"
  PROVE  LET d == from_serde_message(into_serde_message(m))
         IN /\ m.tipo = "r" /\ {"sig", "seq", "v"} \subseteq DOMAIN m.args
            /\ d.transaction_id = m.transaction_id
            /\ d.args.seq = m.args.seq /\ d.args.v = m.args.v
<1> DEFINE w == into_serde_message(m)
           d == from_serde_message(w)
           variante == Elegir(DOMAIN w.cuerpo)
<1>1. w.y = m.tipo /\ d.tipo = w.y /\ d.transaction_id = m.transaction_id
  BY DEF into_serde_message, from_serde_message
<1>2. m.tipo = "r"
  <2>1. w.y = "e" => d.clase = "error"
    BY DEF from_serde_message
  <2> QED
    BY <1>1, <2>1
<1>3. w.cuerpo = ConNodos(m.args)
  BY <1>2 DEF into_serde_message, CodificarRespuesta
<1>4. DOMAIN w.cuerpo = DOMAIN m.args
  BY <1>3 DEF ConNodos
<1>5. d.clase = variante[1] /\ d.args = SoloCampos(w.cuerpo, variante[2] \cup {"nodes"})
  BY <1>1, <1>2 DEF from_serde_message
<1>6. variante[2] \subseteq DOMAIN m.args /\ {"sig", "seq", "v"} \subseteq variante[2]
  <2>1. d.clase = "get_mutable"
    OBVIOUS
  <2> HIDE DEF d, w
  <2> QED
    BY <1>2, <2>1, <1>4, <1>5, ElegidoItem
<1>7. w.cuerpo.seq = m.args.seq /\ w.cuerpo.v = m.args.v
  BY <1>3, <1>6 DEF ConNodos
<1>8. d.args.seq = m.args.seq /\ d.args.v = m.args.v
  <2> HIDE DEF d, w
  <2> QED
    BY <1>4, <1>5, <1>6, <1>7 DEF SoloCampos
<1> QED
  BY <1>1, <1>2, <1>6, <1>8

-----------------------------------------------------------------------------
(* The server answers p. *)

LEMMA ContestarSano ==
  ASSUME InvCas, NEW p \in red, UNCHANGED cli, AlmacenSano', Sigue,
         NEW m, m.tipo \in {"r", "e"}, m.tipo = "r" => "id" \in DOMAIN m.args,
         {"sig", "seq", "v"} \subseteq DOMAIN m.args =>
           LeeBien(m.transaction_id, m.args.seq, m.args.v)',
         Contestar(p, m)
  PROVE  InvCas'
<1>1. red' \subseteq red \cup {Paquete(p.cliente, m)}
  BY DEF Contestar
<1>2. ASSUME NEW q \in red, Sana(q)
      PROVE  Sana(q)'
  BY <1>2 DEF Sana, Sigue, EscrituraSana
<1>3. ASSUME NEW q, q = Paquete(p.cliente, m)
      PROVE  Sana(q)'
  <2>1. q.cable = into_serde_message(m) /\ q.cable.y = m.tipo /\ q.cable.y # "q"
    BY <1>3 DEF Paquete, into_serde_message
  <2>2. SUFFICES ASSUME from_serde_message(q.cable).clase = "get_mutable"
                 PROVE  LeeBien(from_serde_message(q.cable).transaction_id,
                                from_serde_message(q.cable).args.seq,
                                from_serde_message(q.cable).args.v)'
    BY <2>1 DEF Sana
  <2>3. /\ {"sig", "seq", "v"} \subseteq DOMAIN m.args
        /\ from_serde_message(q.cable).transaction_id = m.transaction_id
        /\ from_serde_message(q.cable).args.seq = m.args.seq
        /\ from_serde_message(q.cable).args.v = m.args.v
    BY <2>1, <2>2, LecturaViaja
  <2> QED
    BY <2>3
<1>4. RedSana'
  BY <1>1, <1>2, <1>3 DEF InvCas, RedSana
<1>5. CliTipo' /\ LeidoSano'
  BY DEF InvCas, CliTipo, LeidoSano, Sigue
<1> QED
  BY <1>4, <1>5 DEF InvCas

LEMMA ContestaSano ==
  ASSUME InvCas, NEW p \in red, UNCHANGED cli, AlmacenSano', Sigue, NEW otra, NEW args,
         "sig" \in DOMAIN args => LeeBien(p.era.transaction_id, args.seq, args.v)'
                                  /\ "seq" \in DOMAIN args /\ "v" \in DOMAIN args,
         Contesta(p, otra, args)
  PROVE  InvCas'
<1> DEFINE m == Respuesta(p.era.transaction_id, p.cliente, FALSE, otra,
                          Junto([id |-> "servidor"], args))
<1>1. /\ m.tipo = "r" /\ m.args = Junto([id |-> "servidor"], args)
      /\ m.transaction_id = p.era.transaction_id
  BY DEF Respuesta
<1>2. Contestar(p, m)
  BY DEF Contesta
<1> HIDE DEF m
<1>3. /\ DOMAIN m.args = {"id"} \cup DOMAIN args
      /\ \A x \in DOMAIN args : x # "id" => m.args[x] = args[x]
  BY <1>1 DEF Junto
<1>4. ASSUME {"sig", "seq", "v"} \subseteq DOMAIN m.args
      PROVE  LeeBien(m.transaction_id, m.args.seq, m.args.v)'
  <2>1. "sig" \in DOMAIN args /\ "seq" \in DOMAIN args /\ "v" \in DOMAIN args
    BY <1>3, <1>4
  <2>2. m.args.seq = args.seq /\ m.args.v = args.v
    BY <1>3, <2>1
  <2> QED
    BY <1>1, <2>1, <2>2
<1> QED
  BY <1>1, <1>2, <1>3, <1>4, ContestarSano

LEMMA RechazaSano ==
  ASSUME InvCas, NEW p \in red, UNCHANGED cli, AlmacenSano', Sigue,
         NEW code, Rechaza(p, code)
  PROVE  InvCas'
<1> DEFINE m == Error(p.era.transaction_id, p.cliente, FALSE, code)
<1>1. m.tipo = "e" /\ "sig" \notin DOMAIN m.args
  BY DEF Error
<1>2. Contestar(p, m)
  BY DEF Rechaza
<1> HIDE DEF m
<1> QED
  BY <1>1, <1>2, ContestarSano

LEMMA ConTokenEs ==
  ASSUME NEW p, NEW args
  PROVE  /\ DOMAIN ConToken(p, args) = {"token", "nodes"} \cup DOMAIN args
         /\ \A x \in DOMAIN args \ {"token", "nodes"} : ConToken(p, args)[x] = args[x]
BY DEF ConToken, Junto

(* An answer with a token and, if it says so, what is kept of its target. *)
LEMMA ContestaItem ==
  ASSUME InvCas, NEW p \in red, UNCHANGED cli, AlmacenSano', Sigue, NEW otra, NEW args,
         "sig" \in DOMAIN args => LeeBien(p.era.transaction_id, args.seq, args.v)'
                                  /\ "seq" \in DOMAIN args /\ "v" \in DOMAIN args,
         Contesta(p, otra, ConToken(p, args))
  PROVE  InvCas'
<1>0. PICK t : t = ConToken(p, args)
  OBVIOUS
<1>1. /\ DOMAIN t = {"token", "nodes"} \cup DOMAIN args
      /\ \A x \in DOMAIN args \ {"token", "nodes"} : t[x] = args[x]
  BY <1>0, ConTokenEs
<1>2. ASSUME "sig" \in DOMAIN t
      PROVE  LeeBien(p.era.transaction_id, t.seq, t.v)' /\ "seq" \in DOMAIN t /\ "v" \in DOMAIN t
  <2>1. "sig" \in DOMAIN args
    BY <1>1, <1>2
  <2>2. t.seq = args.seq /\ t.v = args.v
    BY <1>1, <2>1
  <2> QED
    BY <1>1, <2>1, <2>2
<1>3. Contesta(p, otra, t)
  BY <1>0
<1> QED
  BY <1>2, <1>3, ContestaSano

(* An answer that carries no item. *)
LEMMA ContestaSinItem ==
  ASSUME InvCas, NEW p \in red, UNCHANGED cli, AlmacenSano', Sigue, NEW otra, NEW args,
         "sig" \notin DOMAIN args,
         Contesta(p, otra, args) \/ Contesta(p, otra, ConToken(p, args))
  PROVE  InvCas'
BY ContestaSano, ContestaItem

LEMMA SinItems == "sig" \notin DOMAIN <<>>
OBVIOUS

(* What the server tells of an item it keeps is well read. *)
LEMMA LeidoDeAqui ==
  ASSUME AlmacenSano, NEW t \in Claves(mutable_values)
  PROVE  LeeBien(t, Valor(mutable_values, t).seq, Valor(mutable_values, t).v)
BY DEF AlmacenSano, LeeBien, Lleva

LEMMA MutableSano ==
  ASSUME InvCas, NEW p \in red, Llega(p, "get_value"), handle_get_mutable(p), UNCHANGED historia
  PROVE  InvCas' /\ Quieto
<1> DEFINE mv == mutable_values
<1>1. PICK t : t = Pide(p).target
  OBVIOUS
<1>2. mutable_values' = Tocar(mv, t)
  BY <1>1 DEF handle_get_mutable
<1>3. AlmacenSano /\ UNCHANGED cli /\ Sana(p)
  BY DEF InvCas, RedSana, Llega
<1>4. Quieto
  BY <1>2, <1>3, TocarEs DEF Quieto, AlmacenSano
<1>5. AlmacenSano' /\ Sigue
  BY <1>3, <1>4, QuietoGuarda
<1>6. p.era.transaction_id = t
  BY <1>1, <1>3 DEF Sana, Llega, Pide
<1>7. CASE t \notin Claves(mv)
  <2>1. Contesta(p, "no_values", ConToken(p, <<>>))
    BY <1>1, <1>7 DEF handle_get_mutable
  <2> QED
    BY <1>3, <1>4, <1>5, <2>1, SinItems, ContestaSinItem
<1>8. CASE t \in Claves(mv)
  <2>1. PICK item : item = Valor(mv, t)
    OBVIOUS
  <2>2. \/ Contesta(p, "no_more_recent_value", ConToken(p, [seq |-> item.seq]))
        \/ Contesta(p, "get_mutable",
             ConToken(p, [v |-> item.v, k |-> item.k, seq |-> item.seq, sig |-> item.sig]))
    BY <1>1, <1>8, <2>1 DEF handle_get_mutable
  <2>3. CASE Contesta(p, "no_more_recent_value", ConToken(p, [seq |-> item.seq]))
    <3>1. "sig" \notin DOMAIN [seq |-> item.seq]
      OBVIOUS
    <3> QED
      BY <1>3, <1>4, <1>5, <2>3, <3>1, ContestaSinItem
  <2>4. CASE Contesta(p, "get_mutable",
               ConToken(p, [v |-> item.v, k |-> item.k, seq |-> item.seq, sig |-> item.sig]))
    <3>1. PICK args : args = [v |-> item.v, k |-> item.k, seq |-> item.seq, sig |-> item.sig]
      OBVIOUS
    <3>2. args.seq = item.seq /\ args.v = item.v /\ "seq" \in DOMAIN args /\ "v" \in DOMAIN args
      BY <3>1
    <3>3. LeeBien(t, item.seq, item.v)
      BY <1>3, <1>8, <2>1, LeidoDeAqui
    <3>4. LeeBien(t, item.seq, item.v)'
      BY <1>5, <3>3 DEF Sigue
    <3>5. LeeBien(p.era.transaction_id, args.seq, args.v)'
      BY <1>6, <3>2, <3>4
    <3>6. Contesta(p, "get_mutable", ConToken(p, args))
      BY <2>4, <3>1
    <3> QED
      BY <1>3, <1>4, <1>5, <3>2, <3>5, <3>6, ContestaItem
  <2> QED
    BY <2>2, <2>3, <2>4
<1> QED
  BY <1>7, <1>8, <1>4

(* A handler that leaves the items alone, and answers none. *)
LEMMA AjenoSano ==
  ASSUME InvCas, NEW p \in red, UNCHANGED <<cli, mutable_values, historia>>,
         \/ \E otra, args : /\ "sig" \notin DOMAIN args
                            /\ Contesta(p, otra, args) \/ Contesta(p, otra, ConToken(p, args))
         \/ \E code : Rechaza(p, code)
  PROVE  InvCas' /\ Quieto
<1>1. AlmacenSano /\ Quieto
  BY IgualQuieto DEF InvCas
<1>2. AlmacenSano' /\ Sigue
  BY <1>1, QuietoGuarda
<1> QED
  BY <1>1, <1>2, ContestaSinItem, RechazaSano

LEMMA LecturasSanas ==
  ASSUME InvCas, NEW p \in red, Ping(p) \/ FindNode(p) \/ GetPeers(p) \/ GetValue(p)
  PROVE  InvCas' /\ Quieto
<1>1. CASE Ping(p)
  <2>1. UNCHANGED <<cli, mutable_values, historia>> /\ Contesta(p, "ping", <<>>)
    BY <1>1 DEF Ping, Llega, almacenes
  <2> QED
    BY <2>1, SinItems, AjenoSano
<1>2. CASE FindNode(p)
  <2>1. UNCHANGED <<cli, mutable_values, historia>>
    BY <1>2 DEF FindNode, Llega, almacenes
  <2>2. PICK args : args = [nodes |-> Cercanos]
    OBVIOUS
  <2>3. Contesta(p, "find_node", args) /\ "sig" \notin DOMAIN args
    BY <1>2, <2>2 DEF FindNode
  <2> QED
    BY <2>1, <2>3, AjenoSano
<1>3. CASE GetPeers(p)
  <2>1. UNCHANGED <<cli, mutable_values, historia>>
    BY <1>3 DEF GetPeers, Llega
  <2>2. \E otra, args : "sig" \notin DOMAIN args /\ Contesta(p, otra, ConToken(p, args))
    <3>1. CASE Contesta(p, "no_values", ConToken(p, <<>>))
      BY <3>1, SinItems
    <3>2. CASE ~Contesta(p, "no_values", ConToken(p, <<>>))
      <4>1. PICK pares : Contesta(p, "get_peers", ConToken(p, [values |-> pares]))
        BY <1>3, <3>2 DEF GetPeers
      <4>2. "sig" \notin DOMAIN [values |-> pares]
        OBVIOUS
      <4> QED
        BY <4>1, <4>2
    <3> QED
      BY <3>1, <3>2
  <2> QED
    BY <2>1, <2>2, AjenoSano
<1>4. CASE GetValue(p)
  <2>1. Llega(p, "get_value") /\ UNCHANGED historia
    BY <1>4 DEF GetValue
  <2>2. CASE handle_get_mutable(p)
    BY <2>1, <2>2, MutableSano
  <2>3. CASE ~handle_get_mutable(p)
    <3>1. UNCHANGED <<cli, mutable_values, historia>>
      BY <1>4, <2>3 DEF GetValue, Llega
    <3>2. PICK args : args = [v |-> Valor(immutable_values, Pide(p).target)]
      OBVIOUS
    <3>3. Contesta(p, "get_immutable", ConToken(p, args)) /\ "sig" \notin DOMAIN args
      BY <1>4, <2>3, <3>2 DEF GetValue
    <3> QED
      BY <3>1, <3>3, AjenoSano
  <2> QED
    BY <2>2, <2>3
<1> QED
  BY <1>1, <1>2, <1>3, <1>4

(* The seq of what is kept only grows, in this step. *)
NoRetrocede ==
  \A t \in Claves(mutable_values) \cap Claves(mutable_values') :
    Valor(mutable_values, t).seq <= Valor(mutable_values', t).seq

LEMMA QuietoNoRetrocede ==
  ASSUME AlmacenSano, Quieto
  PROVE  NoRetrocede
BY DEF AlmacenSano, Quieto, NoRetrocede

LEMMA PutMutableSano ==
  ASSUME InvCas, NEW p \in red, PutMutable(p)
  PROVE  InvCas' /\ NoRetrocede
<1>1. PICK a : a = Pide(p)
  OBVIOUS
<1>2. Llega(p, "put_mutable") /\ UNCHANGED cli /\ AlmacenSano
  BY DEF PutMutable, Llega, InvCas
<1>3. EscrituraSana(p.cliente, a)
  BY <1>1, <1>2 DEF InvCas, RedSana, Sana, Llega, Pide
<1>4. ASSUME NEW code, Rechaza(p, code),
             mutable_values' \in {mutable_values, Tocar(mutable_values, a.target)}
      PROVE  InvCas' /\ NoRetrocede
  <2>1. Quieto
    BY <1>2, <1>4, TocarEs DEF Quieto, AlmacenSano, Rechaza
  <2>2. AlmacenSano' /\ Sigue
    BY <1>2, <2>1, QuietoGuarda
  <2> QED
    BY <1>2, <1>4, <2>1, <2>2, RechazaSano, QuietoNoRetrocede
<1>5. ASSUME Acepta(p.cliente, a), Contesta(p, "ping", <<>>)
      PROVE  InvCas' /\ NoRetrocede
  <2>1. AlmacenSano' /\ Sigue /\ NoRetrocede
    BY <1>2, <1>3, <1>5, AceptaGuarda DEF NoRetrocede
  <2> QED
    BY <1>2, <1>5, <2>1, SinItems, ContestaSinItem
<1>6. \/ Acepta(p.cliente, a) /\ Contesta(p, "ping", <<>>)
      \/ \E code : /\ Rechaza(p, code)
                   /\ mutable_values' \in {mutable_values, Tocar(mutable_values, a.target)}
  <2>1. PICK no : no = IF ~validate(p.cliente, a.token) THEN 203
                      ELSE IF \E w \in a.v : w[1] \in Gordos THEN 205
                      ELSE IF Sal(a) \in SalesGrandes THEN 207
                      ELSE IF Conflicto(a) # 0 THEN Conflicto(a)
                      ELSE IF ~Firmado(a) THEN 206
                      ELSE 0
    OBVIOUS
  <2>2. CASE no # 0
    <3>1. /\ Rechaza(p, no)
          /\ mutable_values' =
               IF no \in {301, 302, 206} THEN Tocar(mutable_values, a.target) ELSE mutable_values
      BY <1>1, <2>1, <2>2 DEF PutMutable
    <3> QED
      BY <3>1
  <2>3. CASE no = 0
    <3>1. Conflicto(a) = 0
      BY <2>1, <2>3
    <3> QED
      BY <1>1, <2>1, <2>3, <3>1 DEF PutMutable, Acepta
  <2> QED
    BY <2>2, <2>3
<1> QED
  BY <1>4, <1>5, <1>6

LEMMA EscriturasSanas ==
  ASSUME InvCas, NEW p \in red, AnnouncePeer(p) \/ PutImmutable(p)
  PROVE  InvCas' /\ Quieto
<1>1. CASE Contesta(p, "ping", <<>>) /\ UNCHANGED historia
  <2>1. UNCHANGED <<cli, mutable_values, historia>>
    BY <1>1 DEF AnnouncePeer, PutImmutable, Llega
  <2> QED
    BY <1>1, <2>1, SinItems, AjenoSano
<1>2. CASE \E code : Rechaza(p, code)
  <2>1. UNCHANGED <<cli, mutable_values, historia>>
    BY <1>2 DEF AnnouncePeer, PutImmutable, Llega, Rechaza
  <2> QED
    BY <1>2, <2>1, AjenoSano
<1> QED
  BY <1>1, <1>2 DEF AnnouncePeer, PutImmutable

-----------------------------------------------------------------------------
(* The clients ask. *)

(* The requests that matter are read as they were written. *)
LEMMA PeticionViaja ==
  ASSUME NEW c, NEW m, m.tipo = "q", m.clase \notin {"get", "put"},
         NEW q, q = Paquete(c, m), NEW d, d = from_serde_message(q.cable)
  PROVE  /\ q.cable.y = "q" /\ q.cliente = c /\ q.era.transaction_id = m.transaction_id
         /\ d.clase = "get_value" =>
              m.clase = "get_value" /\ d.args = SinCampos(m.args, {"salt"})
         /\ d.clase = "put_mutable" => "k" \in DOMAIN m.args /\ d.args = m.args
<1> DEFINE w == into_serde_message(m)
<1>1. q.cable = w /\ q.cliente = c /\ q.era = m
  BY DEF Paquete
<1>2. w.y = "q" /\ w.q = Verbo(m.clase) /\ w.cuerpo = CodificarPeticion(m)
  BY <1>1 DEF into_serde_message
<1> HIDE DEF w
<1>3. d.clase = ClaseDePeticion(w) /\ d.args = DecodificarPeticion(w)
  BY <1>1, <1>2 DEF from_serde_message
<1>4. ASSUME d.clase = "get_value"
      PROVE  m.clase = "get_value" /\ d.args = SinCampos(m.args, {"salt"})
  <2>1. w.q = "get" \/ w.q = "get_value"
    BY <1>3, <1>4 DEF ClaseDePeticion
  <2>2. m.clase = "get_value"
    BY <1>2, <2>1 DEF Verbo
  <2> QED
    BY <1>1, <1>2, <1>3, <2>1, <2>2 DEF Verbo, CodificarPeticion, DecodificarPeticion
<1>5. ASSUME d.clase = "put_mutable"
      PROVE  "k" \in DOMAIN m.args /\ d.args = m.args
  <2>1. (w.q = "put" /\ "k" \in DOMAIN w.cuerpo) \/ w.q = "put_mutable"
    BY <1>3, <1>5 DEF ClaseDePeticion
  <2>2. m.clase \in {"put_immutable", "put_mutable"}
    BY <1>2, <2>1 DEF Verbo
  <2>3. w.cuerpo = m.args
    BY <1>1, <1>2, <2>2 DEF CodificarPeticion
  <2> QED
    BY <1>2, <1>3, <2>1, <2>2, <2>3 DEF Verbo, DecodificarPeticion
<1> QED
  BY <1>1, <1>2, <1>4, <1>5

LEMMA EnviarSano ==
  ASSUME InvCas, NEW c \in Clientes, NEW clase, clase \notin {"get", "put"}, NEW tid, NEW args,
         cli' = cli \/ cli' = [cli EXCEPT ![c].leido = Nada],
         clase = "get_value" => "target" \in DOMAIN args /\ args.target = tid,
         "k" \in DOMAIN args => EscrituraSana(c, Junto([id |-> c], args)),
         Enviar(c, clase, tid, args)
  PROVE  InvCas' /\ Quieto
<1>1. PICK todo : todo = Junto([id |-> c], args)
  OBVIOUS
<1>2. PICK q : q = Paquete(c, Peticion(tid, TRUE, clase, todo))
  OBVIOUS
<1>3. red' = red \cup {q} /\ UNCHANGED <<mutable_values, historia>>
  BY <1>1, <1>2 DEF Enviar, almacenes
<1>4. Quieto /\ AlmacenSano
  BY <1>3, IgualQuieto DEF InvCas
<1>5. AlmacenSano' /\ Sigue
  BY <1>4, QuietoGuarda
<1>6. /\ DOMAIN todo = {"id"} \cup DOMAIN args
      /\ \A x \in DOMAIN args : x # "id" => todo[x] = args[x]
  BY <1>1 DEF Junto
<1>7. Sana(q)
  <2>1. PICK d : d = from_serde_message(q.cable)
    OBVIOUS
  <2>2. /\ q.cable.y = "q" /\ q.cliente = c /\ q.era.transaction_id = tid
        /\ d.clase = "get_value" => clase = "get_value" /\ d.args = SinCampos(todo, {"salt"})
        /\ d.clase = "put_mutable" => "k" \in DOMAIN todo /\ d.args = todo
    <3>1. PICK m : m = Peticion(tid, TRUE, clase, todo)
      OBVIOUS
    <3>2. /\ m.tipo = "q" /\ m.clase = clase /\ m.args = todo /\ m.transaction_id = tid
          /\ q = Paquete(c, m)
      BY <1>2, <3>1 DEF Peticion
    <3> QED
      BY <2>1, <3>2, PeticionViaja
  <2>3. ASSUME d.clase = "get_value"
        PROVE  tid = d.args.target
    <3>1. "target" \in DOMAIN args /\ args.target = tid
      BY <2>2, <2>3
    <3>2. "target" \in DOMAIN todo \ {"salt"} /\ todo.target = tid
      BY <1>6, <3>1
    <3> QED
      BY <2>2, <2>3, <3>2 DEF SinCampos
  <2>4. ASSUME d.clase = "put_mutable"
        PROVE  EscrituraSana(c, d.args)
    <3>1. "k" \in DOMAIN args
      BY <1>6, <2>2, <2>4
    <3> QED
      BY <1>1, <2>2, <2>4, <3>1
  <2> QED
    BY <2>1, <2>2, <2>3, <2>4 DEF Sana
<1>8. ASSUME NEW x, Sana(x)
      PROVE  Sana(x)'
  BY <1>5, <1>8 DEF Sana, Sigue, EscrituraSana
<1>9. RedSana'
  BY <1>3, <1>7, <1>8 DEF InvCas, RedSana
<1>10. CliTipo' /\ \A k \in Clientes : cli'[k].leido \in {cli[k].leido, Nada}
  BY DEF InvCas, CliTipo
<1>11. LeidoSano'
  BY <1>5, <1>10 DEF InvCas, LeidoSano, Sigue
<1> QED
  BY <1>4, <1>5, <1>9, <1>10, <1>11 DEF InvCas

(* A request that writes no item. *)
Pregunta(c) ==
  \E clase, tid, args :
    /\ Enviar(c, clase, tid, args)
    /\ clase \notin {"get", "put"} /\ "k" \notin DOMAIN args
    /\ clase = "get_value" => "target" \in DOMAIN args /\ args.target = tid

LEMMA LecturaPregunta ==
  ASSUME NEW c \in Clientes, EnviarLectura(c)
  PROVE  Pregunta(c)
<1>1. CASE Enviar(c, "ping", Nada, <<>>)
  <2>1. "k" \notin DOMAIN <<>>
    OBVIOUS
  <2> QED
    BY <1>1, <2>1 DEF Pregunta
<1>2. CASE Enviar(c, "find_node", Nada, [target |-> c])
  <2>1. PICK args : args = [target |-> c]
    OBVIOUS
  <2>2. "k" \notin DOMAIN args
    BY <2>1
  <2> QED
    BY <1>2, <2>1, <2>2 DEF Pregunta
<1>3. CASE \E h \in Hashes : Enviar(c, "get_peers", h, [info_hash |-> h])
  <2>1. PICK h, args : args = [info_hash |-> h] /\ Enviar(c, "get_peers", h, args)
    BY <1>3
  <2>2. "k" \notin DOMAIN args
    BY <2>1
  <2> QED
    BY <2>1, <2>2 DEF Pregunta
<1>4. CASE \E t, args : /\ Enviar(c, "get_value", t, args)
                        /\ "k" \notin DOMAIN args /\ "target" \in DOMAIN args /\ args.target = t
  BY <1>4 DEF Pregunta
<1>5. CASE \E v \in Valores :
             Enviar(c, "get_value", hash_immutable(v), [target |-> hash_immutable(v)])
  <2>1. PICK t, args : args = [target |-> t] /\ Enviar(c, "get_value", t, args)
    BY <1>5
  <2>2. "k" \notin DOMAIN args /\ "target" \in DOMAIN args /\ args.target = t
    BY <2>1
  <2> QED
    BY <1>4, <2>1, <2>2
<1>6. CASE \E t, sal, seq, f, g :
             /\ f \in {<<>>, [salt |-> sal]} /\ g \in {<<>>, [seq |-> seq]}
             /\ Enviar(c, "get_value", t, Junto([target |-> t], Junto(f, g)))
  <2>1. PICK t, sal, seq, f, g :
             /\ f \in {<<>>, [salt |-> sal]} /\ g \in {<<>>, [seq |-> seq]}
             /\ Enviar(c, "get_value", t, Junto([target |-> t], Junto(f, g)))
    BY <1>6
  <2>2. PICK args : args = Junto([target |-> t], Junto(f, g))
    OBVIOUS
  <2>3. DOMAIN f \subseteq {"salt"} /\ DOMAIN g \subseteq {"seq"}
    BY <2>1
  <2>4. DOMAIN args = {"target"} \cup (DOMAIN f \cup DOMAIN g) /\ args.target = t
    BY <2>2 DEF Junto
  <2>5. "k" \notin DOMAIN args /\ "target" \in DOMAIN args /\ args.target = t
    BY <2>3, <2>4
  <2> QED
    BY <1>4, <2>1, <2>2, <2>5
<1>7. CASE \E sal \in Sales \cap servidos[c], conSeq \in BOOLEAN :
          LET t == target_from_key(sal)
              leido == cli[c].leido
          IN /\ conSeq => leido # Nada /\ leido.target = t
             /\ Enviar(c, "get_value", t,
                  Junto([target |-> t],
                        Junto(IF sal = Nada THEN <<>> ELSE [salt |-> sal],
                              IF conSeq THEN [seq |-> leido.seq] ELSE <<>>)))
  <2>1. PICK sal, conSeq, t :
          Enviar(c, "get_value", t,
                  Junto([target |-> t],
                        Junto(IF sal = Nada THEN <<>> ELSE [salt |-> sal],
                              IF conSeq THEN [seq |-> cli[c].leido.seq] ELSE <<>>)))
    BY <1>7
  <2>2. PICK seq : seq = cli[c].leido.seq
    OBVIOUS
  <2>3. PICK f : f = IF sal = Nada THEN <<>> ELSE [salt |-> sal]
    OBVIOUS
  <2>4. PICK g : g = IF conSeq THEN [seq |-> seq] ELSE <<>>
    OBVIOUS
  <2>5. Enviar(c, "get_value", t, Junto([target |-> t], Junto(f, g)))
    BY <2>1, <2>2, <2>3, <2>4
  <2>6. f \in {<<>>, [salt |-> sal]} /\ g \in {<<>>, [seq |-> seq]}
    BY <2>3, <2>4
  <2> QED
    BY <1>6, <2>5, <2>6
<1> QED
  BY <1>1, <1>2, <1>3, <1>5, <1>7 DEF EnviarLectura

LEMMA AnuncioPregunta ==
  ASSUME NEW c \in Clientes, EnviarAnuncio(c)
  PROVE  Pregunta(c)
<1>6. PICK h, implied :
        Enviar(c, "announce_peer", h,
          Junto([info_hash |-> h, token |-> cli[c].token],
                IF implied THEN [port |-> "cero", implied_port |-> TRUE] ELSE [port |-> "propio"]))
  BY DEF EnviarAnuncio
<1>7. PICK token : token = cli[c].token
  OBVIOUS
<1>8. PICK f : f = IF implied THEN [port |-> "cero", implied_port |-> TRUE] ELSE [port |-> "propio"]
  OBVIOUS
<1>1. Enviar(c, "announce_peer", h, Junto([info_hash |-> h, token |-> token], f))
  BY <1>6, <1>7, <1>8
<1>2. PICK args : args = Junto([info_hash |-> h, token |-> token], f)
  OBVIOUS
<1>3. DOMAIN f \subseteq {"port", "implied_port"}
  BY <1>8
<1>4. DOMAIN args = {"info_hash", "token"} \cup DOMAIN f
  BY <1>2 DEF Junto
<1>5. "k" \notin DOMAIN args
  BY <1>3, <1>4
<1> QED
  BY <1>1, <1>2, <1>5 DEF Pregunta

LEMMA InmutablePregunta ==
  ASSUME NEW c \in Clientes, EnviarInmutable(c)
  PROVE  Pregunta(c)
<1>1. PICK v, token, args :
        /\ args = [target |-> hash_immutable(v), v |-> v, token |-> token]
        /\ Enviar(c, "put_immutable", hash_immutable(v), args)
  BY DEF EnviarInmutable
<1>2. "k" \notin DOMAIN args
  BY <1>1
<1> QED
  BY <1>1, <1>2 DEF Pregunta

LEMMA PreguntaSana ==
  ASSUME InvCas, NEW c \in Clientes, UNCHANGED cli, Pregunta(c)
  PROVE  InvCas' /\ Quieto
BY EnviarSano DEF Pregunta

(* A write adds to what was read with the seq it names. *)
LEMMA MutableBien ==
  ASSUME InvCas, NEW c \in Clientes, EnviarMutable(c)
  PROVE  InvCas' /\ Quieto
<1>1. PICK leido : leido = cli[c].leido
  OBVIOUS
<1>16. PICK sal \in Sales \cap servidos[c] :
         LET t == target_from_key(sal)
             lee == cli[c].leido
             hay == lee # Nada /\ lee.target = t
             seq == IF hay THEN lee.seq + 1 ELSE 1
             v == (IF hay THEN lee.v ELSE {}) \cup {<<c, seq>>}
         IN /\ cli' = [cli EXCEPT ![c].leido = Nada]
            /\ Enviar(c, "put_mutable", t,
                 Junto([target |-> t, v |-> v, k |-> "clave", seq |-> seq,
                        token |-> cli[c].token, sig |-> <<"clave", seq, v, sal>>],
                       Junto(IF sal = Nada THEN <<>> ELSE [salt |-> sal],
                             IF hay THEN [cas |-> lee.seq] ELSE <<>>)))
  BY DEF EnviarMutable
<1>17. PICK t : t = target_from_key(sal)
  OBVIOUS
<1>18. PICK hay \in BOOLEAN : hay = (leido # Nada /\ leido.target = t)
  OBVIOUS
<1>19. PICK seq : seq = IF hay THEN leido.seq + 1 ELSE 1
  OBVIOUS
<1>20. PICK v : v = (IF hay THEN leido.v ELSE {}) \cup {<<c, seq>>}
  OBVIOUS
<1>21. PICK token : token = cli[c].token
  OBVIOUS
<1>2.   /\ cli' = [cli EXCEPT ![c].leido = Nada]
        /\ Enviar(c, "put_mutable", t,
            Junto([target |-> t, v |-> v, k |-> "clave", seq |-> seq, token |-> token,
                   sig |-> <<"clave", seq, v, sal>>],
                  Junto(IF sal = Nada THEN <<>> ELSE [salt |-> sal],
                        IF hay THEN [cas |-> leido.seq] ELSE <<>>)))
  BY <1>1, <1>16, <1>17, <1>18, <1>19, <1>20, <1>21
<1>3. PICK base : base = [target |-> t, v |-> v, k |-> "clave", seq |-> seq, token |-> token,
                          sig |-> <<"clave", seq, v, sal>>]
  OBVIOUS
<1>4. PICK f : f = IF sal = Nada THEN <<>> ELSE [salt |-> sal]
  OBVIOUS
<1>5. PICK g : g = IF hay THEN [cas |-> leido.seq] ELSE <<>>
  OBVIOUS
<1>6. PICK args : args = Junto(base, Junto(f, g))
  OBVIOUS
<1>7. Enviar(c, "put_mutable", t, args)
  BY <1>2, <1>3, <1>4, <1>5, <1>6
<1>8. PICK a : a = Junto([id |-> c], args)
  OBVIOUS
<1>9. /\ DOMAIN base = {"target", "v", "k", "seq", "token", "sig"}
      /\ base.target = t /\ base.v = v /\ base.seq = seq
  BY <1>3
<1>10. DOMAIN f \subseteq {"salt"}
  BY <1>4
<1>11. IF hay THEN DOMAIN g = {"cas"} /\ g.cas = leido.seq ELSE DOMAIN g = {}
  BY <1>5
<1>12. /\ DOMAIN args = DOMAIN base \cup (DOMAIN f \cup DOMAIN g)
       /\ args.target = t /\ args.v = v /\ args.seq = seq
  BY <1>6, <1>9 DEF Junto
<1>13. hay => args.cas = leido.seq
  <2>1. "cas" \notin DOMAIN f /\ "cas" \notin DOMAIN base
    BY <1>9, <1>10
  <2>2. hay => Junto(f, g).cas = g.cas /\ "cas" \in DOMAIN Junto(f, g)
    BY <1>11, <2>1 DEF Junto
  <2> QED
    BY <1>6, <1>11, <2>1, <2>2 DEF Junto
<1>14. /\ a.target = t /\ a.v = v /\ a.seq = seq
       /\ "cas" \in DOMAIN a <=> hay
       /\ hay => a.cas = leido.seq
  <2>1. DOMAIN a = {"id"} \cup DOMAIN args /\ \A x \in DOMAIN args \ {"id"} : a[x] = args[x]
    BY <1>8 DEF Junto
  <2>2. "cas" \in DOMAIN args <=> hay
    BY <1>9, <1>10, <1>11, <1>12
  <2>3. {"target", "v", "seq"} \subseteq DOMAIN args
    BY <1>9, <1>12
  <2> QED
    BY <1>12, <1>13, <2>1, <2>2, <2>3
<1>15. EscrituraSana(c, a)
  <2>1. CASE hay
    <3>1. LeeBien(t, leido.seq, leido.v)
      BY <1>1, <1>18, <2>1 DEF InvCas, LeidoSano
    <3>2. leido.seq \in Nat \ {0} /\ LeeBien(t, leido.seq, v)
      BY <1>20, <2>1, <3>1 DEF LeeBien, Lleva
    <3>3. seq = leido.seq + 1 /\ <<c, seq>> \in v
      BY <1>19, <1>20, <2>1
    <3> QED
      BY <1>14, <2>1, <3>2, <3>3 DEF EscrituraSana
  <2>2. CASE ~hay
    BY <1>19, <1>20, <1>14, <2>2 DEF EscrituraSana
  <2> QED
    BY <2>1, <2>2
<1> QED
  BY <1>2, <1>7, <1>8, <1>15, EnviarSano

-----------------------------------------------------------------------------

(* What a client reads was well read when it was answered, and still is. *)
LEMMA RecibirSano ==
  ASSUME InvCas, NEW p \in red, RecibeRespuesta(p)
  PROVE  InvCas' /\ Quieto
<1>1. PICK m : m = from_serde_message(p.cable)
  OBVIOUS
<1>2. /\ p.cable.y # "q" /\ red' = red \ {p}
      /\ UNCHANGED <<mutable_values, historia>>
  BY DEF RecibeRespuesta, almacenes
<1>3. \E token, visto :
        cli' = [cli EXCEPT ![p.cliente] =
          [token |-> token, visto |-> visto,
           leido |-> IF m.clase = "get_mutable"
                     THEN [target |-> m.transaction_id, seq |-> m.args.seq, v |-> m.args.v]
                     ELSE @.leido]]
  BY <1>1 DEF RecibeRespuesta
<1>4. Quieto /\ AlmacenSano
  BY <1>2, IgualQuieto DEF InvCas
<1>5. AlmacenSano' /\ Sigue
  BY <1>4, QuietoGuarda
<1>6. RedSana'
  BY <1>2, <1>5 DEF InvCas, RedSana, Sana, Sigue, EscrituraSana
<1>7. CliTipo'
  BY <1>3 DEF InvCas, CliTipo
<1>8. m.clase = "get_mutable" => LeeBien(m.transaction_id, m.args.seq, m.args.v)
  BY <1>1, <1>2 DEF InvCas, RedSana, Sana
<1>9. ASSUME NEW c \in Clientes, cli'[c].leido # Nada
      PROVE  LeeBien(cli'[c].leido.target, cli'[c].leido.seq, cli'[c].leido.v)
  <2>1. CASE c = p.cliente /\ m.clase = "get_mutable"
    <3>1. cli'[c].leido = [target |-> m.transaction_id, seq |-> m.args.seq, v |-> m.args.v]
      BY <1>3, <2>1 DEF InvCas, CliTipo
    <3> QED
      BY <1>8, <2>1, <3>1
  <2>2. CASE ~(c = p.cliente /\ m.clase = "get_mutable")
    <3>1. cli'[c].leido = cli[c].leido
      BY <1>3, <2>2 DEF InvCas, CliTipo
    <3> QED
      BY <1>9, <3>1 DEF InvCas, LeidoSano
  <2> QED
    BY <2>1, <2>2
<1>10. LeidoSano'
  BY <1>5, <1>9 DEF LeidoSano, Sigue
<1> QED
  BY <1>4, <1>5, <1>6, <1>7, <1>10 DEF InvCas

(* The network loses some datagrams, or all of them in time. *)
LEMMA PierdeSano ==
  ASSUME InvCas, red' \subseteq red, UNCHANGED <<cli, mutable_values, historia>>
  PROVE  InvCas' /\ Quieto
<1>1. Quieto /\ AlmacenSano
  BY IgualQuieto DEF InvCas
<1>2. AlmacenSano' /\ Sigue
  BY <1>1, QuietoGuarda
<1>3. RedSana'
  BY <1>2 DEF InvCas, RedSana, Sana, Sigue, EscrituraSana
<1>4. CliTipo' /\ LeidoSano'
  BY <1>2 DEF InvCas, CliTipo, LeidoSano, Sigue
<1> QED
  BY <1>1, <1>2, <1>3, <1>4 DEF InvCas

LEMMA PasoCas ==
  ASSUME InvCas, [Next]_servVars
  PROVE  InvCas' /\ NoRetrocede
<1>1. SUFFICES \/ InvCas' /\ Quieto
               \/ InvCas' /\ NoRetrocede
  BY QuietoNoRetrocede DEF InvCas
<1>2. ASSUME NEW p \in red, handle_request(p)
      PROVE  (InvCas' /\ Quieto) \/ (InvCas' /\ NoRetrocede)
  BY <1>2, LecturasSanas, EscriturasSanas, PutMutableSano DEF handle_request
<1>3. ASSUME NEW p \in red, RecibeRespuesta(p)
      PROVE  InvCas' /\ Quieto
  BY <1>3, RecibirSano
<1>4. ASSUME NEW p \in red, Perder(p)
      PROVE  InvCas' /\ Quieto
  BY <1>4, PierdeSano DEF Perder, almacenes
<1>5. ASSUME NEW c \in Clientes,
             EnviarLectura(c) \/ EnviarAnuncio(c) \/ EnviarInmutable(c) \/ EnviarMutable(c)
      PROVE  InvCas' /\ Quieto
  <2>1. CASE EnviarMutable(c)
    BY <2>1, MutableBien
  <2>2. CASE ~EnviarMutable(c)
    <3>1. UNCHANGED cli
      BY <1>5, <2>2 DEF EnviarLectura, EnviarAnuncio, EnviarInmutable
    <3> QED
      BY <1>5, <2>2, <3>1, LecturaPregunta, AnuncioPregunta, InmutablePregunta, PreguntaSana
  <2> QED
    BY <2>1, <2>2
<1>6. CASE Pasa
  BY <1>6, PierdeSano DEF Pasa, almacenes
<1>7. CASE UNCHANGED servVars
  BY <1>7, PierdeSano DEF servVars, historia
<1> QED
  BY <1>2, <1>3, <1>4, <1>5, <1>6, <1>7 DEF Next

(* A compare-and-swap write that was accepted is in its item from then on, *)
(* unless the item had to go: for any clients, salts, stores and clock,    *)
(* whatever is lost, repeated or delayed (rpc/server.rs, put_mutable).     *)
THEOREM CasPerdura == Spec => []ConfirmadoPerdura
<1>1. Init => InvCas
  BY CasInicial
<1>2. InvCas /\ [Next]_servVars => InvCas'
  BY PasoCas
<1>3. InvCas => ConfirmadoPerdura
  BY CasBasta
<1> QED
  BY <1>1, <1>2, <1>3, PTL DEF Spec

(* The seq of a mutable item never goes back while the item is kept, with  *)
(* writes in any order and repeated (rpc/server.rs, put_mutable).          *)
THEOREM SeqCrece == Spec => SeqNoRetrocede
<1>1. Init => InvCas
  BY CasInicial
<1>2. InvCas /\ [Next]_servVars => InvCas'
  BY PasoCas
<1>3. InvCas /\ [Next]_servVars =>
        [\A t \in Claves(mutable_values) \cap Claves(mutable_values') :
           Valor(mutable_values, t).seq <= Valor(mutable_values', t).seq]_servVars
  BY PasoCas DEF NoRetrocede
<1> QED
  BY <1>1, <1>2, <1>3, PTL DEF Spec, SeqNoRetrocede


-----------------------------------------------------------------------------
(* What travels.  The messages this system makes: the fields of a request  *)
(* that its decoder looks at, and the fields of each kind of answer.       *)

CamposDePeticion(clase, args) ==
  /\ "nodes" \notin DOMAIN args
  /\ \/ clase \in {"ping", "find_node", "get_peers", "get_value"}
     \/ clase = "announce_peer" /\ ("implied_port" \in DOMAIN args => args.implied_port = TRUE)
     \/ clase = "put_immutable" /\ DOMAIN args = {"id", "token", "target", "v"}
     \/ clase = "put_mutable" /\ "k" \in DOMAIN args

CamposDeRespuesta ==
  { <<"ping", {"id"}>>,
    <<"find_node", {"id", "nodes"}>>,
    <<"no_values", {"id", "token", "nodes"}>>,
    <<"get_peers", {"id", "token", "nodes", "values"}>>,
    <<"get_immutable", {"id", "token", "nodes", "v"}>>,
    <<"no_more_recent_value", {"id", "token", "nodes", "seq"}>>,
    <<"get_mutable", {"id", "token", "nodes", "v", "k", "seq", "sig"}>> }

Formada(m) ==
  /\ m = [transaction_id |-> m.transaction_id, requester_ip |-> m.requester_ip,
          read_only |-> m.read_only, tipo |-> m.tipo, clase |-> m.clase, args |-> m.args]
  /\ m.read_only \in BOOLEAN
  /\ m.args = [f \in DOMAIN m.args |-> m.args[f]]
  /\ \/ m.tipo = "q" /\ CamposDePeticion(m.clase, m.args)
     \/ m.tipo = "r" /\ <<m.clase, DOMAIN m.args>> \in CamposDeRespuesta
     \/ m.tipo = "e" /\ m.clase = "error" /\ DOMAIN m.args = {"code"}

(* The decoder's choice is the first variant whose fields are all there. *)
LEMMA ElegirEs ==
  ASSUME NEW campos, NEW i \in 1 .. 7, Variantes[i][2] \subseteq campos,
         \A j \in 1 .. 7 : j < i => ~(Variantes[j][2] \subseteq campos)
  PROVE  Elegir(campos) = Variantes[i]
<1> DEFINE Q(k) == /\ Variantes[k][2] \subseteq campos
                   /\ \A j \in 1 .. 7 : Variantes[j][2] \subseteq campos => k <= j
<1>1. DOMAIN Variantes = 1 .. 7
  BY DEF Variantes
<1>2. Q(i)
  <2>1. \A j \in 1 .. 7 : Variantes[j][2] \subseteq campos => ~(j < i)
    OBVIOUS
  <2> QED
    BY <2>1
<1>3. \A k \in 1 .. 7 : Q(k) => k = i
  <2>1. ASSUME NEW k \in 1 .. 7, Q(k)
        PROVE  k = i
    <3>1. k <= i /\ i <= k
      BY <1>2, <2>1
    <3> QED
      BY <3>1
  <2> QED
    BY <2>1
<1>4. Elegir(campos) = Variantes[CHOOSE k \in 1 .. 7 : Q(k)]
  BY <1>1 DEF Elegir
<1> HIDE DEF Q
<1>5. (CHOOSE k \in 1 .. 7 : Q(k)) = i
  BY <1>2, <1>3
<1> QED
  BY <1>4, <1>5

(* Each kind of answer has the fields of its own variant, and lacks some   *)
(* field of every variant that is tried before.                            *)
LEMMA VarianteDe ==
  ASSUME NEW clase, NEW campos, <<clase, campos>> \in CamposDeRespuesta
  PROVE  Elegir(campos)[1] = clase /\ campos \subseteq Elegir(campos)[2] \cup {"nodes"}
<1>1. /\ Variantes[1] = <<"get_mutable", {"id", "token", "v", "k", "seq", "sig"}>>
      /\ Variantes[2] = <<"no_more_recent_value", {"id", "token", "seq"}>>
      /\ Variantes[3] = <<"get_immutable", {"id", "token", "v"}>>
      /\ Variantes[4] = <<"get_peers", {"id", "token", "values"}>>
      /\ Variantes[5] = <<"no_values", {"id", "token"}>>
      /\ Variantes[6] = <<"find_node", {"id", "nodes"}>>
      /\ Variantes[7] = <<"ping", {"id"}>>
  BY DEF Variantes
<1>2. /\ Variantes[1][2] = {"id", "token", "v", "k", "seq", "sig"}
      /\ Variantes[2][2] = {"id", "token", "seq"}
      /\ Variantes[3][2] = {"id", "token", "v"}
      /\ Variantes[4][2] = {"id", "token", "values"}
      /\ Variantes[5][2] = {"id", "token"}
      /\ Variantes[6][2] = {"id", "nodes"}
      /\ Variantes[7][2] = {"id"}
  BY <1>1
<1>3. ASSUME NEW i \in 1 .. 7, clase = Variantes[i][1],
             campos = Variantes[i][2] \/ campos = Variantes[i][2] \cup {"nodes"},
             \A j \in 1 .. 7 : j < i => ~(Variantes[j][2] \subseteq campos)
      PROVE  Elegir(campos)[1] = clase /\ campos \subseteq Elegir(campos)[2] \cup {"nodes"}
  <2>1. Variantes[i][2] \subseteq campos
    BY <1>3
  <2>2. Elegir(campos) = Variantes[i]
    BY <1>3, <2>1, ElegirEs
  <2> QED
    BY <1>3, <2>2
<1>4. CASE clase = "get_mutable" /\ campos = {"id", "token", "nodes", "v", "k", "seq", "sig"}
  <2>1. campos = Variantes[1][2] \cup {"nodes"} /\ clase = Variantes[1][1]
    BY <1>1, <1>2, <1>4
  <2> QED
    BY <1>3, <2>1
<1>5. CASE clase = "no_more_recent_value" /\ campos = {"id", "token", "nodes", "seq"}
  <2>1. campos = Variantes[2][2] \cup {"nodes"} /\ clase = Variantes[2][1]
    BY <1>1, <1>2, <1>5
  <2>2. ~(Variantes[1][2] \subseteq campos)
    BY <1>2, <1>5
  <2>3. \A j \in 1 .. 7 : j < 2 => j = 1
    OBVIOUS
  <2>4. \A j \in 1 .. 7 : j < 2 => ~(Variantes[j][2] \subseteq campos)
    BY <2>2, <2>3
  <2>5. 2 \in 1 .. 7
    OBVIOUS
  <2> QED
    BY <1>3, <2>1, <2>4, <2>5
<1>6. CASE clase = "get_immutable" /\ campos = {"id", "token", "nodes", "v"}
  <2>1. campos = Variantes[3][2] \cup {"nodes"} /\ clase = Variantes[3][1]
    BY <1>1, <1>2, <1>6
  <2>2. ~(Variantes[1][2] \subseteq campos) /\ ~(Variantes[2][2] \subseteq campos)
    BY <1>2, <1>6
  <2>3. \A j \in 1 .. 7 : j < 3 => j \in {1, 2}
    OBVIOUS
  <2>4. \A j \in 1 .. 7 : j < 3 => ~(Variantes[j][2] \subseteq campos)
    BY <2>2, <2>3
  <2>5. 3 \in 1 .. 7
    OBVIOUS
  <2> QED
    BY <1>3, <2>1, <2>4, <2>5
<1>7. CASE clase = "get_peers" /\ campos = {"id", "token", "nodes", "values"}
  <2>1. campos = Variantes[4][2] \cup {"nodes"} /\ clase = Variantes[4][1]
    BY <1>1, <1>2, <1>7
  <2>2. \A j \in {1, 2, 3} : ~(Variantes[j][2] \subseteq campos)
    BY <1>2, <1>7
  <2>3. \A j \in 1 .. 7 : j < 4 => j \in {1, 2, 3}
    OBVIOUS
  <2>4. \A j \in 1 .. 7 : j < 4 => ~(Variantes[j][2] \subseteq campos)
    BY <2>2, <2>3
  <2>5. 4 \in 1 .. 7
    OBVIOUS
  <2> QED
    BY <1>3, <2>1, <2>4, <2>5
<1>8. CASE clase = "no_values" /\ campos = {"id", "token", "nodes"}
  <2>1. campos = Variantes[5][2] \cup {"nodes"} /\ clase = Variantes[5][1]
    BY <1>1, <1>2, <1>8
  <2>2. \A j \in {1, 2, 3, 4} : ~(Variantes[j][2] \subseteq campos)
    BY <1>2, <1>8
  <2>3. \A j \in 1 .. 7 : j < 5 => j \in {1, 2, 3, 4}
    OBVIOUS
  <2>4. \A j \in 1 .. 7 : j < 5 => ~(Variantes[j][2] \subseteq campos)
    BY <2>2, <2>3
  <2>5. 5 \in 1 .. 7
    OBVIOUS
  <2> QED
    BY <1>3, <2>1, <2>4, <2>5
<1>9. CASE clase = "find_node" /\ campos = {"id", "nodes"}
  <2>1. campos = Variantes[6][2] /\ clase = Variantes[6][1]
    BY <1>1, <1>2, <1>9
  <2>2. \A j \in {1, 2, 3, 4, 5} : ~(Variantes[j][2] \subseteq campos)
    BY <1>2, <1>9
  <2>3. \A j \in 1 .. 7 : j < 6 => j \in {1, 2, 3, 4, 5}
    OBVIOUS
  <2>4. \A j \in 1 .. 7 : j < 6 => ~(Variantes[j][2] \subseteq campos)
    BY <2>2, <2>3
  <2>5. 6 \in 1 .. 7
    OBVIOUS
  <2> QED
    BY <1>3, <2>1, <2>4, <2>5
<1>10. CASE clase = "ping" /\ campos = {"id"}
  <2>1. campos = Variantes[7][2] /\ clase = Variantes[7][1]
    BY <1>1, <1>2, <1>10
  <2>2. \A j \in {1, 2, 3, 4, 5, 6} : ~(Variantes[j][2] \subseteq campos)
    BY <1>2, <1>10
  <2>3. \A j \in 1 .. 7 : j < 7 => j \in {1, 2, 3, 4, 5, 6}
    OBVIOUS
  <2>4. \A j \in 1 .. 7 : j < 7 => ~(Variantes[j][2] \subseteq campos)
    BY <2>2, <2>3
  <2>5. 7 \in 1 .. 7
    OBVIOUS
  <2> QED
    BY <1>3, <2>1, <2>4, <2>5
<1> QED
  BY <1>4, <1>5, <1>6, <1>7, <1>8, <1>9, <1>10 DEF CamposDeRespuesta

(* The nodes of an answer: only id and address travel. *)
LEMMA ConNodosEs ==
  ASSUME NEW args, args = [f \in DOMAIN args |-> args[f]]
  PROVE  /\ DOMAIN ConNodos(args) = DOMAIN args
         /\ ConNodos(args) = [f \in DOMAIN args |-> ConNodos(args)[f]]
         /\ "nodes" \notin DOMAIN args => ConNodos(args) = args
  BY DEF ConNodos

LEMMA ViajaRespuesta ==
  ASSUME NEW m, Formada(m), m.tipo = "r"
  PROVE  from_serde_message(into_serde_message(m)).args = Sentido(m).args
         /\ from_serde_message(into_serde_message(m)).clase = m.clase
<1> DEFINE w == into_serde_message(m)
<1>1. PICK campos : campos = DOMAIN m.args
  OBVIOUS
<1>2. <<m.clase, campos>> \in CamposDeRespuesta
  BY <1>1 DEF Formada
<1>3. PICK x : x = ConNodos(m.args)
  OBVIOUS
<1>4. DOMAIN x = campos /\ x = [f \in campos |-> x[f]]
  BY <1>1, <1>3, ConNodosEs DEF Formada
<1>5. w.y = "r" /\ w.cuerpo = x
  BY <1>3 DEF into_serde_message, CodificarRespuesta
<1>6. PICK v : v = Elegir(campos)
  OBVIOUS
<1>7. v[1] = m.clase /\ campos \subseteq v[2] \cup {"nodes"}
  BY <1>2, <1>6, VarianteDe
<1>8. SoloCampos(x, v[2] \cup {"nodes"}) = x
  <2>1. campos \cap (v[2] \cup {"nodes"}) = campos
    BY <1>7
  <2> QED
    BY <1>4, <2>1 DEF SoloCampos
<1> HIDE DEF w
<1>9. from_serde_message(w).args = x /\ from_serde_message(w).clase = m.clase
  BY <1>4, <1>5, <1>6, <1>7, <1>8 DEF from_serde_message
<1>10. m.clase \notin {"get_value", "announce_peer"}
  BY <1>2 DEF CamposDeRespuesta
<1>11. "args" \in DOMAIN m
  BY DEF Formada
<1>12. Sentido(m).args = x
  BY <1>3, <1>10, <1>11 DEF Sentido
<1> QED
  BY <1>9, <1>12 DEF w

LEMMA ViajaError ==
  ASSUME NEW m, Formada(m), m.tipo = "e"
  PROVE  from_serde_message(into_serde_message(m)).args = Sentido(m).args
         /\ from_serde_message(into_serde_message(m)).clase = m.clase
<1> DEFINE w == into_serde_message(m)
<1>1. m.clase = "error" /\ DOMAIN m.args = {"code"} /\ m.args = [f \in DOMAIN m.args |-> m.args[f]]
  BY DEF Formada
<1>2. w.y = "e" /\ w.cuerpo = m.args
  BY DEF into_serde_message
<1> HIDE DEF w
<1>3. from_serde_message(w).args = m.args /\ from_serde_message(w).clase = "error"
  BY <1>2 DEF from_serde_message
<1>4. "args" \in DOMAIN m
  BY DEF Formada
<1>5. Sentido(m).args = ConNodos(m.args)
  BY <1>1, <1>4 DEF Sentido
<1> QED
  BY <1>1, <1>3, <1>5, ConNodosEs DEF w

LEMMA CambiaCampo ==
  ASSUME NEW n, NEW c, NEW resto, "implied_port" \notin DOMAIN resto
  PROVE  [Junto([implied_port |-> n], resto) EXCEPT !.implied_port = c] =
           Junto([implied_port |-> c], resto)
<1>1. PICK j : j = Junto([implied_port |-> n], resto)
  OBVIOUS
<1>2. PICK k : k = Junto([implied_port |-> c], resto)
  OBVIOUS
<1>3. j = [x \in {"implied_port"} \cup DOMAIN resto |-> IF x = "implied_port" THEN n ELSE resto[x]]
  BY <1>1 DEF Junto
<1>4. k = [x \in {"implied_port"} \cup DOMAIN resto |-> IF x = "implied_port" THEN c ELSE resto[x]]
  BY <1>2 DEF Junto
<1>5. [j EXCEPT !.implied_port = c] = k
  BY <1>3, <1>4
<1> QED
  BY <1>1, <1>2, <1>5

LEMMA DecodificadoEs ==
  ASSUME NEW w
  PROVE  from_serde_message(w) =
           [transaction_id |-> w.t, requester_ip |-> w.ip,
            read_only |-> from_serde_message(w).read_only, tipo |-> w.y,
            clase |-> from_serde_message(w).clase, args |-> from_serde_message(w).args]
<1>1. PICK ro : ro = (w.ro > 0)
  OBVIOUS
<1>2. PICK v : v = Elegir(DOMAIN w.cuerpo)
  OBVIOUS
<1>3. PICK c : c = CASE w.y = "q" -> ClaseDePeticion(w)
                     [] w.y = "r" -> v[1]
                     [] w.y = "e" -> "error"
  OBVIOUS
<1>4. PICK a : a = CASE w.y = "q" -> DecodificarPeticion(w)
                     [] w.y = "r" -> SoloCampos(w.cuerpo, v[2] \cup {"nodes"})
                     [] w.y = "e" -> w.cuerpo
  OBVIOUS
<1>5. from_serde_message(w) = [transaction_id |-> w.t, requester_ip |-> w.ip, read_only |-> ro,
                               tipo |-> w.y, clase |-> c, args |-> a]
  BY <1>1, <1>2, <1>3, <1>4, Zenon DEF from_serde_message
<1> QED
  BY <1>5

(* A request: the field implied_port of an announce goes as a number, the  *)
(* salt of a get stays, and a put without a key is one of an immutable.    *)
LEMMA ViajaPeticion ==
  ASSUME NEW m, Formada(m), m.tipo = "q"
  PROVE  from_serde_message(into_serde_message(m)).args = Sentido(m).args
         /\ from_serde_message(into_serde_message(m)).clase = m.clase
<1> DEFINE w == into_serde_message(m)
<1>1. PICK args : args = m.args
  OBVIOUS
<1>2. args = [f \in DOMAIN args |-> args[f]] /\ CamposDePeticion(m.clase, args)
  BY <1>1 DEF Formada
<1>3. w.y = "q" /\ w.q = Verbo(m.clase) /\ w.cuerpo = CodificarPeticion(m)
  BY DEF into_serde_message
<1> HIDE DEF w
<1>4. from_serde_message(w).args = DecodificarPeticion(w) /\ from_serde_message(w).clase = ClaseDePeticion(w)
  BY <1>3 DEF from_serde_message
<1>5. "args" \in DOMAIN m
  BY DEF Formada
<1>6. CASE m.clase \in {"ping", "find_node", "get_peers"}
  <2>1. w.q = m.clase /\ w.cuerpo = args
    BY <1>1, <1>3, <1>6 DEF Verbo, CodificarPeticion
  <2>2. DecodificarPeticion(w) = args /\ ClaseDePeticion(w) = m.clase
    BY <1>6, <2>1 DEF DecodificarPeticion, ClaseDePeticion
  <2>3. Sentido(m).args = ConNodos(args)
    BY <1>1, <1>5, <1>6 DEF Sentido
  <2> QED
    BY <1>2, <1>4, <2>2, <2>3, ConNodosEs DEF w, CamposDePeticion
<1>7. CASE m.clase = "get_value"
  <2>1. w.q = "get" /\ w.cuerpo = SinCampos(args, {"salt"})
    BY <1>1, <1>3, <1>7 DEF Verbo, CodificarPeticion
  <2>2. DecodificarPeticion(w) = w.cuerpo /\ ClaseDePeticion(w) = m.clase
    BY <1>7, <2>1 DEF DecodificarPeticion, ClaseDePeticion
  <2>3. Sentido(m).args = SinCampos(args, {"salt"})
    BY <1>1, <1>5, <1>7 DEF Sentido
  <2> QED
    BY <1>4, <2>1, <2>2, <2>3 DEF w
<1>8. CASE m.clase = "put_mutable"
  <2>1. w.q = "put" /\ w.cuerpo = args /\ "k" \in DOMAIN args
    BY <1>1, <1>2, <1>3, <1>8 DEF Verbo, CodificarPeticion, CamposDePeticion
  <2>2. DecodificarPeticion(w) = args /\ ClaseDePeticion(w) = m.clase
    BY <1>8, <2>1 DEF DecodificarPeticion, ClaseDePeticion
  <2>3. Sentido(m).args = ConNodos(args)
    BY <1>1, <1>5, <1>8 DEF Sentido
  <2> QED
    BY <1>2, <1>4, <2>2, <2>3, ConNodosEs DEF w, CamposDePeticion
<1>9. CASE m.clase = "put_immutable"
  <2>1. w.q = "put" /\ w.cuerpo = args /\ DOMAIN args = {"id", "token", "target", "v"}
    BY <1>1, <1>2, <1>3, <1>9 DEF Verbo, CodificarPeticion, CamposDePeticion
  <2>2. ClaseDePeticion(w) = m.clase
    BY <1>9, <2>1 DEF ClaseDePeticion
  <2>3. DecodificarPeticion(w) = SoloCampos(args, {"id", "token", "target", "v"})
    BY <2>1 DEF DecodificarPeticion
  <2>4. SoloCampos(args, {"id", "token", "target", "v"}) = args
    <3>1. DOMAIN args \cap {"id", "token", "target", "v"} = DOMAIN args
      BY <2>1
    <3> QED
      BY <1>2, <3>1 DEF SoloCampos
  <2>5. Sentido(m).args = ConNodos(args)
    BY <1>1, <1>5, <1>9 DEF Sentido
  <2> QED
    BY <1>2, <1>4, <2>2, <2>3, <2>4, <2>5, ConNodosEs DEF w, CamposDePeticion
<1>10. CASE m.clase = "announce_peer"
  <2>1. PICK resto : resto = SinCampos(args, {"implied_port"})
    OBVIOUS
  <2>2. PICK n : n = IF "implied_port" \in DOMAIN args THEN 1 ELSE 0
    OBVIOUS
  <2>3. w.q = "announce_peer" /\ w.cuerpo = Junto([implied_port |-> n], resto)
    BY <1>1, <1>3, <1>10, <2>1, <2>2 DEF Verbo, CodificarPeticion
  <2>4. ClaseDePeticion(w) = m.clase
    BY <1>10, <2>3 DEF ClaseDePeticion
  <2>5. DecodificarPeticion(w) = [w.cuerpo EXCEPT !.implied_port = @ # 0]
    BY <2>3 DEF DecodificarPeticion
  <2>6. PICK b : b = ("implied_port" \in DOMAIN args /\ args.implied_port)
    OBVIOUS
  <2>7. b = (n # 0)
    BY <1>2, <1>10, <2>2, <2>6 DEF CamposDePeticion
  <2>8. Sentido(m).args = Junto([implied_port |-> b], resto)
    BY <1>1, <1>5, <1>10, <2>1, <2>6 DEF Sentido
  <2>9. "implied_port" \notin DOMAIN resto
    BY <2>1 DEF SinCampos
  <2>10. PICK j : j = Junto([implied_port |-> n], resto)
    OBVIOUS
  <2>11. j.implied_port = n
    BY <2>10 DEF Junto
  <2>12. PICK c : c = (j.implied_port # 0)
    OBVIOUS
  <2>13. c = b
    BY <2>7, <2>11, <2>12
  <2>14. DecodificarPeticion(w) = [j EXCEPT !.implied_port = c]
    BY <2>3, <2>5, <2>10, <2>12
  <2>15. [j EXCEPT !.implied_port = c] = Junto([implied_port |-> c], resto)
    BY <2>9, <2>10, CambiaCampo
  <2> QED
    BY <1>4, <2>4, <2>8, <2>13, <2>14, <2>15 DEF w
<1> QED
  BY <1>2, <1>6, <1>7, <1>8, <1>9, <1>10 DEF CamposDePeticion

(* Every message of the system is understood as it was meant. *)
LEMMA Viaja ==
  ASSUME NEW m, Formada(m)
  PROVE  from_serde_message(into_serde_message(m)) = Sentido(m)
<1> DEFINE d == from_serde_message(into_serde_message(m))
<1>1. d.args = Sentido(m).args /\ d.clase = m.clase
  BY ViajaRespuesta, ViajaError, ViajaPeticion DEF Formada
<1>2. d = [transaction_id |-> m.transaction_id, requester_ip |-> m.requester_ip,
           read_only |-> d.read_only, tipo |-> m.tipo, clase |-> d.clase, args |-> d.args]
  <2>1. PICK w : w = into_serde_message(m)
    OBVIOUS
  <2>2. w.t = m.transaction_id /\ w.ip = m.requester_ip /\ w.y = m.tipo
    BY <2>1 DEF into_serde_message
  <2> QED
    BY <2>1, <2>2, DecodificadoEs
<1>3. d.read_only = m.read_only
  BY DEF from_serde_message, into_serde_message, Formada
<1>4. PICK x : x = Sentido(m).args
  OBVIOUS
<1>5. Sentido(m) = [m EXCEPT !.args = x]
  BY <1>4 DEF Sentido, Formada
<1>6. [m EXCEPT !.args = x] =
        [transaction_id |-> m.transaction_id, requester_ip |-> m.requester_ip,
         read_only |-> m.read_only, tipo |-> m.tipo, clase |-> m.clase, args |-> x]
  BY DEF Formada
<1> HIDE DEF d
<1> QED
  BY <1>1, <1>2, <1>3, <1>4, <1>5, <1>6 DEF d

-----------------------------------------------------------------------------
(* Everything in flight was made by this system and travels as it is. *)

(* What the server will store of a request is what it may store. *)
Tipada(m) ==
  m.tipo = "q" =>
    /\ m.clase = "announce_peer" =>
         /\ {"id", "info_hash"} \subseteq DOMAIN m.args
         /\ m.args.id \in Clientes /\ m.args.info_hash \in Hashes
    /\ m.clase = "put_immutable" => m.args.v \in Valores
    /\ m.clase = "put_mutable" =>
         Sal(m.args) \in Sales /\ m.args.target = target_from_key(Sal(m.args))

RedFormada ==
  \A p \in red :
    /\ p.cliente \in Clientes
    /\ p.cable = into_serde_message(p.era)
    /\ Formada(p.era) /\ Tipada(p.era)

LEMMA JuntoDominio ==
  ASSUME NEW f, NEW g
  PROVE  DOMAIN Junto(f, g) = DOMAIN f \cup DOMAIN g
  BY DEF Junto

LEMMA JuntoForma ==
  ASSUME NEW f, NEW g, NEW j, j = Junto(f, g)
  PROVE  j = [x \in DOMAIN j |-> j[x]]
  BY DEF Junto

LEMMA RespuestaFormada ==
  ASSUME NEW tid, NEW ip, NEW ro \in BOOLEAN, NEW clase, NEW args,
         args = [f \in DOMAIN args |-> args[f]], <<clase, DOMAIN args>> \in CamposDeRespuesta
  PROVE  Formada(Respuesta(tid, ip, ro, clase, args)) /\ Tipada(Respuesta(tid, ip, ro, clase, args))
  BY DEF Respuesta, Formada, Tipada

LEMMA ErrorFormado ==
  ASSUME NEW tid, NEW ip, NEW ro \in BOOLEAN, NEW code
  PROVE  Formada(Error(tid, ip, ro, code)) /\ Tipada(Error(tid, ip, ro, code))
<1>1. PICK args : args = [code |-> code]
  OBVIOUS
<1>2. DOMAIN args = {"code"} /\ args = [f \in DOMAIN args |-> args[f]]
  BY <1>1
<1>3. Error(tid, ip, ro, code) =
        [transaction_id |-> tid, requester_ip |-> <<ip>>, read_only |-> ro,
         tipo |-> "e", clase |-> "error", args |-> args]
  BY <1>1 DEF Error
<1> QED
  BY <1>2, <1>3 DEF Formada, Tipada

LEMMA PeticionFormada ==
  ASSUME NEW tid, NEW ro \in BOOLEAN, NEW clase, NEW args,
         args = [f \in DOMAIN args |-> args[f]], CamposDePeticion(clase, args)
  PROVE  Formada(Peticion(tid, ro, clase, args))
  BY DEF Peticion, Formada

LEMMA LlegaAlguien ==
  ASSUME RedFormada, NEW c \in Clientes, NEW m, Formada(m), Tipada(m),
         red' \subseteq red \cup {Paquete(c, m)}
  PROVE  RedFormada'
<1>1. PICK q : q = Paquete(c, m)
  OBVIOUS
<1>2. q.cliente = c /\ q.cable = into_serde_message(m) /\ q.era = m
  BY <1>1 DEF Paquete
<1>3. \A p \in red' : p \in red \/ p = q
  BY <1>1
<1> QED
  BY <1>2, <1>3 DEF RedFormada

LEMMA ContestarForma ==
  ASSUME RedFormada, NEW p \in red, NEW m, Formada(m), Tipada(m), Contestar(p, m)
  PROVE  RedFormada'
<1>1. red' \subseteq red \cup {Paquete(p.cliente, m)}
  BY DEF Contestar
<1>2. p.cliente \in Clientes
  BY DEF RedFormada
<1> QED
  BY <1>1, <1>2, LlegaAlguien

LEMMA ContestaForma ==
  ASSUME RedFormada, NEW p \in red, NEW clase, NEW args,
         <<clase, {"id"} \cup DOMAIN args>> \in CamposDeRespuesta, Contesta(p, clase, args)
  PROVE  RedFormada'
<1>1. PICK a : a = Junto([id |-> "servidor"], args)
  OBVIOUS
<1>2. DOMAIN a = {"id"} \cup DOMAIN args /\ a = [f \in DOMAIN a |-> a[f]]
  <2>1. PICK f : f = [id |-> "servidor"]
    OBVIOUS
  <2>2. DOMAIN f = {"id"} /\ a = Junto(f, args)
    BY <1>1, <2>1
  <2>3. DOMAIN a = {"id"} \cup DOMAIN args
    BY <2>2, JuntoDominio
  <2>4. a = [x \in DOMAIN a |-> a[x]]
    BY <2>2, JuntoForma
  <2> QED
    BY <2>3, <2>4
<1>3. PICK ro \in BOOLEAN : ro = FALSE
  OBVIOUS
<1>4. PICK m : m = Respuesta(p.era.transaction_id, p.cliente, ro, clase, a)
  OBVIOUS
<1>5. Formada(m) /\ Tipada(m)
  BY <1>2, <1>4, RespuestaFormada
<1>6. Contestar(p, m)
  BY <1>1, <1>3, <1>4 DEF Contesta
<1> QED
  BY <1>5, <1>6, ContestarForma

LEMMA RechazaForma ==
  ASSUME RedFormada, NEW p \in red, NEW code, Rechaza(p, code)
  PROVE  RedFormada'
<1>1. PICK ro \in BOOLEAN : ro = FALSE
  OBVIOUS
<1>2. PICK m : m = Error(p.era.transaction_id, p.cliente, ro, code)
  OBVIOUS
<1>3. Formada(m) /\ Tipada(m)
  BY <1>2, ErrorFormado
<1>4. Contestar(p, m)
  BY <1>1, <1>2 DEF Rechaza
<1> QED
  BY <1>3, <1>4, ContestarForma

(* An answer with a token and the closest nodes. *)
LEMMA ConTokenForma ==
  ASSUME RedFormada, NEW p \in red, NEW clase, NEW args,
         <<clase, {"id", "token", "nodes"} \cup DOMAIN args>> \in CamposDeRespuesta,
         Contesta(p, clase, ConToken(p, args))
  PROVE  RedFormada'
<1>1. PICK a : a = ConToken(p, args)
  OBVIOUS
<1>2. DOMAIN a = {"token", "nodes"} \cup DOMAIN args
  <2>1. PICK g : g = [token |-> generate_token(p.cliente), nodes |-> Cercanos]
    OBVIOUS
  <2>2. DOMAIN g = {"token", "nodes"}
    BY <2>1
  <2>3. a = Junto(g, args)
    BY <1>1, <2>1 DEF ConToken
  <2> QED
    BY <2>2, <2>3, JuntoDominio
<1>3. {"id"} \cup DOMAIN a = {"id", "token", "nodes"} \cup DOMAIN args
  BY <1>2
<1> QED
  BY <1>1, <1>3, ContestaForma

LEMMA LecturasForman ==
  ASSUME RedFormada, NEW p \in red, Ping(p) \/ FindNode(p) \/ GetPeers(p) \/ GetValue(p)
  PROVE  RedFormada'
<1>1. CASE Ping(p)
  <2>1. Contesta(p, "ping", <<>>) /\ {"id"} \cup DOMAIN <<>> = {"id"}
    BY <1>1 DEF Ping
  <2>2. <<"ping", {"id"} \cup DOMAIN <<>>>> \in CamposDeRespuesta
    BY <2>1 DEF CamposDeRespuesta
  <2> QED
    BY <2>1, <2>2, ContestaForma
<1>2. CASE FindNode(p)
  <2>1. PICK a : a = [nodes |-> Cercanos]
    OBVIOUS
  <2>2. Contesta(p, "find_node", a) /\ {"id"} \cup DOMAIN a = {"id", "nodes"}
    BY <1>2, <2>1 DEF FindNode
  <2>3. <<"find_node", {"id"} \cup DOMAIN a>> \in CamposDeRespuesta
    BY <2>2 DEF CamposDeRespuesta
  <2> QED
    BY <2>2, <2>3, ContestaForma
<1>3. ASSUME Contesta(p, "no_values", ConToken(p, <<>>))
      PROVE  RedFormada'
  <2>1. {"id", "token", "nodes"} \cup DOMAIN <<>> = {"id", "token", "nodes"}
    OBVIOUS
  <2>2. <<"no_values", {"id", "token", "nodes"} \cup DOMAIN <<>>>> \in CamposDeRespuesta
    BY <2>1 DEF CamposDeRespuesta
  <2> QED
    BY <1>3, <2>2, ConTokenForma
<1>4. CASE GetPeers(p)
  <2>1. CASE Contesta(p, "no_values", ConToken(p, <<>>))
    BY <1>3, <2>1
  <2>2. ASSUME NEW pares, Contesta(p, "get_peers", ConToken(p, [values |-> pares]))
        PROVE  RedFormada'
    <3>1. PICK a : a = [values |-> pares]
      OBVIOUS
    <3>2. {"id", "token", "nodes"} \cup DOMAIN a = {"id", "token", "nodes", "values"}
      BY <3>1
    <3>3. <<"get_peers", {"id", "token", "nodes"} \cup DOMAIN a>> \in CamposDeRespuesta
      BY <3>2 DEF CamposDeRespuesta
    <3> QED
      BY <2>2, <3>1, <3>3, ConTokenForma
  <2> QED
    BY <1>4, <2>1, <2>2 DEF GetPeers
<1>5. CASE GetValue(p)
  <2>1. ASSUME NEW v, Contesta(p, "get_immutable", ConToken(p, [v |-> v]))
        PROVE  RedFormada'
    <3>1. PICK a : a = [v |-> v]
      OBVIOUS
    <3>2. {"id", "token", "nodes"} \cup DOMAIN a = {"id", "token", "nodes", "v"}
      BY <3>1
    <3>3. <<"get_immutable", {"id", "token", "nodes"} \cup DOMAIN a>> \in CamposDeRespuesta
      BY <3>2 DEF CamposDeRespuesta
    <3> QED
      BY <2>1, <3>1, <3>3, ConTokenForma
  <2>2. ASSUME NEW s, Contesta(p, "no_more_recent_value", ConToken(p, [seq |-> s]))
        PROVE  RedFormada'
    <3>1. PICK a : a = [seq |-> s]
      OBVIOUS
    <3>2. {"id", "token", "nodes"} \cup DOMAIN a = {"id", "token", "nodes", "seq"}
      BY <3>1
    <3>3. <<"no_more_recent_value", {"id", "token", "nodes"} \cup DOMAIN a>> \in CamposDeRespuesta
      BY <3>2 DEF CamposDeRespuesta
    <3> QED
      BY <2>2, <3>1, <3>3, ConTokenForma
  <2>3. ASSUME NEW v, NEW k, NEW s, NEW sig,
               Contesta(p, "get_mutable", ConToken(p, [v |-> v, k |-> k, seq |-> s, sig |-> sig]))
        PROVE  RedFormada'
    <3>1. PICK a : a = [v |-> v, k |-> k, seq |-> s, sig |-> sig]
      OBVIOUS
    <3>2. {"id", "token", "nodes"} \cup DOMAIN a = {"id", "token", "nodes", "v", "k", "seq", "sig"}
      BY <3>1
    <3>3. <<"get_mutable", {"id", "token", "nodes"} \cup DOMAIN a>> \in CamposDeRespuesta
      BY <3>2 DEF CamposDeRespuesta
    <3> QED
      BY <2>3, <3>1, <3>3, ConTokenForma
  <2>4. ASSUME handle_get_mutable(p)
        PROVE  RedFormada'
    BY <1>3, <2>2, <2>3, <2>4 DEF handle_get_mutable
  <2> QED
    BY <1>5, <2>1, <2>4 DEF GetValue
<1> QED
  BY <1>1, <1>2, <1>4, <1>5

LEMMA EscriturasForman ==
  ASSUME RedFormada, NEW p \in red, AnnouncePeer(p) \/ PutImmutable(p) \/ PutMutable(p)
  PROVE  RedFormada'
<1>1. ASSUME Contesta(p, "ping", <<>>)
      PROVE  RedFormada'
  <2>1. {"id"} \cup DOMAIN <<>> = {"id"}
    OBVIOUS
  <2>2. <<"ping", {"id"} \cup DOMAIN <<>>>> \in CamposDeRespuesta
    BY <2>1 DEF CamposDeRespuesta
  <2> QED
    BY <1>1, <2>2, ContestaForma
<1>2. (\E code : Rechaza(p, code)) \/ Contesta(p, "ping", <<>>)
  <2>1. CASE AnnouncePeer(p)
    BY <2>1 DEF AnnouncePeer
  <2>2. CASE PutImmutable(p)
    BY <2>2 DEF PutImmutable
  <2>3. CASE PutMutable(p)
    BY <2>3 DEF PutMutable
  <2> QED
    BY <2>1, <2>2, <2>3
<1> QED
  BY <1>1, <1>2, RechazaForma

LEMMA EnviarForma ==
  ASSUME RedFormada, NEW c \in Clientes, NEW clase, NEW tid, NEW args,
         CamposDePeticion(clase, Junto([id |-> c], args)),
         Tipada(Peticion(tid, TRUE, clase, Junto([id |-> c], args))), Enviar(c, clase, tid, args)
  PROVE  RedFormada'
<1>1. PICK f : f = [id |-> c]
  OBVIOUS
<1>2. PICK a : a = Junto(f, args)
  OBVIOUS
<1>3. a = [x \in DOMAIN a |-> a[x]]
  BY <1>2, JuntoForma
<1>4. PICK ro \in BOOLEAN : ro = TRUE
  OBVIOUS
<1>5. PICK m : m = Peticion(tid, ro, clase, a)
  OBVIOUS
<1>6. Formada(m)
  BY <1>1, <1>2, <1>3, <1>5, PeticionFormada
<1>7. Tipada(m)
  BY <1>1, <1>2, <1>4, <1>5
<1>8. red' = red \cup {Paquete(c, m)}
  BY <1>1, <1>2, <1>4, <1>5 DEF Enviar
<1> QED
  BY <1>6, <1>7, <1>8, LlegaAlguien

(* Fields of a request besides the sender's id. *)
LEMMA PeticionSimple ==
  ASSUME RedFormada, NEW c \in Clientes, NEW clase, NEW tid, NEW args,
         clase \in {"ping", "find_node", "get_peers", "get_value"},
         "nodes" \notin DOMAIN args, Enviar(c, clase, tid, args)
  PROVE  RedFormada'
<1>1. PICK f : f = [id |-> c]
  OBVIOUS
<1>2. PICK a : a = Junto(f, args)
  OBVIOUS
<1>3. DOMAIN a = {"id"} \cup DOMAIN args
  <2>1. DOMAIN f = {"id"}
    BY <1>1
  <2> QED
    BY <1>2, <2>1, JuntoDominio
<1>4. CamposDePeticion(clase, a)
  BY <1>3 DEF CamposDePeticion
<1>5. PICK m : m = Peticion(tid, TRUE, clase, a)
  OBVIOUS
<1>6. m.clase = clase
  BY <1>5 DEF Peticion
<1>7. Tipada(m)
  BY <1>6 DEF Tipada
<1> QED
  BY <1>1, <1>2, <1>4, <1>5, <1>7, EnviarForma

LEMMA LecturaForma ==
  ASSUME RedFormada, NEW c \in Clientes, EnviarLectura(c)
  PROVE  RedFormada'
<1>1. CASE Enviar(c, "ping", Nada, <<>>)
  <2>1. "nodes" \notin DOMAIN <<>>
    OBVIOUS
  <2> QED
    BY <1>1, <2>1, PeticionSimple
<1>2. CASE Enviar(c, "find_node", Nada, [target |-> c])
  <2>1. PICK a : a = [target |-> c]
    OBVIOUS
  <2>2. "nodes" \notin DOMAIN a
    BY <2>1
  <2> QED
    BY <1>2, <2>1, <2>2, PeticionSimple
<1>3. ASSUME NEW h, Enviar(c, "get_peers", h, [info_hash |-> h])
      PROVE  RedFormada'
  <2>1. PICK a : a = [info_hash |-> h]
    OBVIOUS
  <2>2. "nodes" \notin DOMAIN a
    BY <2>1
  <2> QED
    BY <1>3, <2>1, <2>2, PeticionSimple
<1>4. ASSUME NEW t, Enviar(c, "get_value", t, [target |-> t])
      PROVE  RedFormada'
  <2>1. PICK a : a = [target |-> t]
    OBVIOUS
  <2>2. "nodes" \notin DOMAIN a
    BY <2>1
  <2> QED
    BY <1>4, <2>1, <2>2, PeticionSimple
<1>5. ASSUME NEW sal, NEW conSeq, NEW t, NEW s,
             Enviar(c, "get_value", t,
                    Junto([target |-> t],
                          Junto(IF sal = Nada THEN <<>> ELSE [salt |-> sal],
                                IF conSeq THEN [seq |-> s] ELSE <<>>)))
      PROVE  RedFormada'
  <2>1. PICK f : f = [target |-> t]
    OBVIOUS
  <2>2. PICK g : g = IF sal = Nada THEN <<>> ELSE [salt |-> sal]
    OBVIOUS
  <2>3. PICK h : h = IF conSeq THEN [seq |-> s] ELSE <<>>
    OBVIOUS
  <2>4. PICK r : r = Junto(g, h)
    OBVIOUS
  <2>5. PICK a : a = Junto(f, r)
    OBVIOUS
  <2>6. "nodes" \notin DOMAIN f /\ "nodes" \notin DOMAIN g /\ "nodes" \notin DOMAIN h
    BY <2>1, <2>2, <2>3
  <2>7. DOMAIN r = DOMAIN g \cup DOMAIN h /\ DOMAIN a = DOMAIN f \cup DOMAIN r
    BY <2>4, <2>5, JuntoDominio
  <2>8. "nodes" \notin DOMAIN a
    BY <2>6, <2>7
  <2>9. Enviar(c, "get_value", t, a)
    BY <1>5, <2>1, <2>2, <2>3, <2>4, <2>5
  <2> QED
    BY <2>8, <2>9, PeticionSimple
<1> QED
  BY <1>1, <1>2, <1>3, <1>4, <1>5 DEF EnviarLectura

LEMMA AnuncioForma ==
  ASSUME RedFormada, NEW c \in Clientes, EnviarAnuncio(c)
  PROVE  RedFormada'
<1>1. PICK h \in Hashes, implied \in BOOLEAN :
        Enviar(c, "announce_peer", h,
               Junto([info_hash |-> h, token |-> cli[c].token],
                     IF implied THEN [port |-> "cero", implied_port |-> TRUE] ELSE [port |-> "propio"]))
  BY DEF EnviarAnuncio
<1>2. PICK f : f = [info_hash |-> h, token |-> cli[c].token]
  OBVIOUS
<1>3. PICK g : g = IF implied THEN [port |-> "cero", implied_port |-> TRUE] ELSE [port |-> "propio"]
  OBVIOUS
<1>4. PICK r : r = Junto(f, g)
  OBVIOUS
<1>5. PICK i : i = [id |-> c]
  OBVIOUS
<1>6. PICK a : a = Junto(i, r)
  OBVIOUS
<1>7. DOMAIN f = {"info_hash", "token"} /\ f.info_hash = h /\ DOMAIN i = {"id"} /\ i.id = c
  BY <1>2, <1>5
<1>8. /\ DOMAIN g \subseteq {"port", "implied_port"}
      /\ "implied_port" \in DOMAIN g => g.implied_port = TRUE
  BY <1>3
<1>9. DOMAIN a = {"id", "info_hash", "token"} \cup DOMAIN g
  <2>1. DOMAIN r = DOMAIN f \cup DOMAIN g
    BY <1>4, JuntoDominio
  <2>2. DOMAIN a = DOMAIN i \cup DOMAIN r
    BY <1>6, JuntoDominio
  <2> QED
    BY <1>7, <2>1, <2>2
<1>10. a.id = c /\ a.info_hash = h /\ ("implied_port" \in DOMAIN g => a.implied_port = g.implied_port)
  BY <1>4, <1>6, <1>7 DEF Junto
<1>11. CamposDePeticion("announce_peer", a)
  BY <1>8, <1>9, <1>10 DEF CamposDePeticion
<1>12. PICK m : m = Peticion(h, TRUE, "announce_peer", a)
  OBVIOUS
<1>13. m.args = a /\ m.clase = "announce_peer"
  BY <1>12 DEF Peticion
<1>14. Tipada(m)
  BY <1>9, <1>10, <1>13 DEF Tipada
<1>15. Enviar(c, "announce_peer", h, r)
  BY <1>1, <1>2, <1>3, <1>4
<1> QED
  BY <1>5, <1>6, <1>11, <1>12, <1>14, <1>15, EnviarForma

LEMMA InmutableForma ==
  ASSUME RedFormada, NEW c \in Clientes, EnviarInmutable(c)
  PROVE  RedFormada'
<1>1. PICK v \in Valores :
        Enviar(c, "put_immutable", hash_immutable(v),
               [target |-> hash_immutable(v), v |-> v, token |-> cli[c].token])
  BY DEF EnviarInmutable
<1>2. PICK r : r = [target |-> hash_immutable(v), v |-> v, token |-> cli[c].token]
  OBVIOUS
<1>3. PICK i : i = [id |-> c]
  OBVIOUS
<1>4. PICK a : a = Junto(i, r)
  OBVIOUS
<1>5. DOMAIN r = {"target", "v", "token"} /\ r.v = v /\ DOMAIN i = {"id"}
  BY <1>2, <1>3
<1>6. DOMAIN a = {"id", "token", "target", "v"}
  <2>1. DOMAIN a = DOMAIN i \cup DOMAIN r
    BY <1>4, JuntoDominio
  <2> QED
    BY <1>5, <2>1
<1>7. a.v = v
  BY <1>4, <1>5 DEF Junto
<1>8. CamposDePeticion("put_immutable", a)
  BY <1>6 DEF CamposDePeticion
<1>9. PICK m : m = Peticion(hash_immutable(v), TRUE, "put_immutable", a)
  OBVIOUS
<1>10. m.args = a /\ m.clase = "put_immutable"
  BY <1>9 DEF Peticion
<1>11. Tipada(m)
  BY <1>7, <1>10 DEF Tipada
<1> QED
  BY <1>1, <1>2, <1>3, <1>4, <1>8, <1>9, <1>11, EnviarForma

(* The request of a write. *)
Escrita(c, sal, v, seq, s, hay) ==
  Junto([target |-> target_from_key(sal), v |-> v, k |-> "clave", seq |-> seq,
         token |-> cli[c].token, sig |-> <<"clave", seq, v, sal>>],
        Junto(IF sal = Nada THEN <<>> ELSE [salt |-> sal],
              IF hay THEN [cas |-> s] ELSE <<>>))

LEMMA MutableForma ==
  ASSUME RedFormada, NEW c \in Clientes, EnviarMutable(c)
  PROVE  RedFormada'
<1>1. PICK sal \in Sales \cap servidos[c] : \E v, seq, s, hay :
        Enviar(c, "put_mutable", target_from_key(sal), Escrita(c, sal, v, seq, s, hay))
  <2>1. PICK sal \in Sales \cap servidos[c] :
          LET t == target_from_key(sal)
              leido == cli[c].leido
              hay == leido # Nada /\ leido.target = t
              seq == IF hay THEN leido.seq + 1 ELSE 1
              v == (IF hay THEN leido.v ELSE {}) \cup {<<c, seq>>}
          IN Enviar(c, "put_mutable", t,
               Junto([target |-> t, v |-> v, k |-> "clave", seq |-> seq, token |-> cli[c].token,
                      sig |-> <<"clave", seq, v, sal>>],
                     Junto(IF sal = Nada THEN <<>> ELSE [salt |-> sal],
                           IF hay THEN [cas |-> leido.seq] ELSE <<>>)))
    BY DEF EnviarMutable
  <2>2. PICK hay : hay = (cli[c].leido # Nada /\ cli[c].leido.target = target_from_key(sal))
    OBVIOUS
  <2>3. PICK seq, s : seq = (IF hay THEN cli[c].leido.seq + 1 ELSE 1) /\ s = cli[c].leido.seq
    OBVIOUS
  <2>4. PICK v : v = (IF hay THEN cli[c].leido.v ELSE {}) \cup {<<c, seq>>}
    OBVIOUS
  <2>5. Enviar(c, "put_mutable", target_from_key(sal), Escrita(c, sal, v, seq, s, hay))
    BY <2>1, <2>2, <2>3, <2>4, Zenon DEF Escrita
  <2> QED
    BY <2>5
<1>0. PICK v, seq, s, hay :
        Enviar(c, "put_mutable", target_from_key(sal), Escrita(c, sal, v, seq, s, hay))
  BY <1>1
<1>2. PICK f : f = [target |-> target_from_key(sal), v |-> v, k |-> "clave", seq |-> seq,
                    token |-> cli[c].token, sig |-> <<"clave", seq, v, sal>>]
  OBVIOUS
<1>3. PICK g : g = IF sal = Nada THEN <<>> ELSE [salt |-> sal]
  OBVIOUS
<1>4. PICK h : h = IF hay THEN [cas |-> s] ELSE <<>>
  OBVIOUS
<1>5. PICK e : e = Junto(g, h)
  OBVIOUS
<1>6. PICK r : r = Junto(f, e)
  OBVIOUS
<1>7. PICK i : i = [id |-> c]
  OBVIOUS
<1>8. PICK a : a = Junto(i, r)
  OBVIOUS
<1>9. /\ DOMAIN i = {"id"}
      /\ DOMAIN f = {"target", "v", "k", "seq", "token", "sig"} /\ f.target = target_from_key(sal)
      /\ DOMAIN g = IF sal = Nada THEN {} ELSE {"salt"}
      /\ sal # Nada => g.salt = sal
      /\ DOMAIN h \subseteq {"cas"}
  BY <1>2, <1>3, <1>4, <1>7
<1>10. DOMAIN a = {"id", "target", "v", "k", "seq", "token", "sig"} \cup DOMAIN g \cup DOMAIN h
  <2>1. DOMAIN e = DOMAIN g \cup DOMAIN h
    BY <1>5, JuntoDominio
  <2>2. DOMAIN r = DOMAIN f \cup DOMAIN e
    BY <1>6, JuntoDominio
  <2>3. DOMAIN a = DOMAIN i \cup DOMAIN r
    BY <1>8, JuntoDominio
  <2> QED
    BY <1>9, <2>1, <2>2, <2>3
<1>11. a.target = target_from_key(sal)
  <2>1. "target" \notin DOMAIN i /\ "target" \in DOMAIN r /\ r.target = f.target
    BY <1>6, <1>9 DEF Junto
  <2>2. a.target = r.target
    BY <1>8, <2>1 DEF Junto
  <2> QED
    BY <1>9, <2>1, <2>2
<1>12. Sal(a) = sal
  <2>1. CASE sal = Nada
    <3>1. "salt" \notin DOMAIN a
      BY <1>9, <1>10, <2>1
    <3> QED
      BY <2>1, <3>1 DEF Sal
  <2>2. CASE sal # Nada
    <3>1. "salt" \in DOMAIN g /\ g.salt = sal
      BY <1>9, <2>2
    <3>2. "salt" \in DOMAIN e /\ e.salt = sal
      BY <1>5, <3>1 DEF Junto
    <3>3. "salt" \in DOMAIN r /\ r.salt = sal
      BY <1>6, <1>9, <3>2 DEF Junto
    <3>4. "salt" \in DOMAIN a /\ a.salt = sal
      BY <1>8, <1>9, <3>3 DEF Junto
    <3> QED
      BY <3>4 DEF Sal
  <2> QED
    BY <2>1, <2>2
<1>13. CamposDePeticion("put_mutable", a)
  BY <1>9, <1>10 DEF CamposDePeticion
<1>14. PICK m : m = Peticion(target_from_key(sal), TRUE, "put_mutable", a)
  OBVIOUS
<1>15. m.args = a /\ m.clase = "put_mutable"
  BY <1>14 DEF Peticion
<1>16. Tipada(m)
  BY <1>11, <1>12, <1>15 DEF Tipada
<1>17. Enviar(c, "put_mutable", target_from_key(sal), r)
  <2>1. r = Escrita(c, sal, v, seq, s, hay)
    BY <1>2, <1>3, <1>4, <1>5, <1>6 DEF Escrita
  <2> QED
    BY <1>0, <2>1
<1> QED
  BY <1>7, <1>8, <1>13, <1>14, <1>16, <1>17, EnviarForma

LEMMA PasoForma ==
  ASSUME RedFormada, [Next]_servVars
  PROVE  RedFormada'
<1>1. ASSUME NEW p \in red, handle_request(p)
      PROVE  RedFormada'
  BY <1>1, LecturasForman, EscriturasForman DEF handle_request
<1>2. ASSUME NEW p \in red, RecibeRespuesta(p) \/ Perder(p)
      PROVE  RedFormada'
  <2>1. red' \subseteq red
    BY <1>2 DEF RecibeRespuesta, Perder
  <2> QED
    BY <2>1 DEF RedFormada
<1>3. ASSUME NEW c \in Clientes,
             EnviarLectura(c) \/ EnviarAnuncio(c) \/ EnviarInmutable(c) \/ EnviarMutable(c)
      PROVE  RedFormada'
  BY <1>3, LecturaForma, AnuncioForma, InmutableForma, MutableForma
<1>4. CASE Pasa
  BY <1>4 DEF Pasa, RedFormada
<1>5. CASE UNCHANGED servVars
  BY <1>5 DEF servVars, RedFormada
<1> QED
  BY <1>1, <1>2, <1>3, <1>4, <1>5 DEF Next

LEMMA FormaInv == Spec => []RedFormada
<1>1. Init => RedFormada
  BY DEF Init, RedFormada
<1>2. RedFormada /\ [Next]_servVars => RedFormada'
  BY PasoForma
<1> QED
  BY <1>1, <1>2, PTL DEF Spec

(* Every message in flight, request or answer, is decoded to what it meant *)
(* (messages.rs): the order of the untagged variants of internal.rs never  *)
(* takes one kind of answer for another.                                   *)
THEOREM LoEnviadoSeEntiende == Spec => []IdaYVuelta
<1>1. RedFormada => IdaYVuelta
  BY Viaja DEF RedFormada, IdaYVuelta
<1> QED
  BY <1>1, FormaInv, PTL

-----------------------------------------------------------------------------
(* Types and bounds of the stores. *)

Acotado(pares) == EsLru(pares) /\ Claves(pares) \subseteq Clientes /\ Len(pares) <= MAX_PEERS

(* The key and the value of an immutable entry go together. *)
Inmutable(t, v) == v \in Valores \ ValoresGrandes /\ t = hash_immutable(v)

AlmacenesAcotados ==
  /\ EsLru(info_hashes) /\ Len(info_hashes) <= MAX_INFO_HASHES
  /\ \A h \in Claves(info_hashes) : h \in Hashes /\ Acotado(Valor(info_hashes, h))
  /\ EsLru(immutable_values) /\ Len(immutable_values) <= MAX_VALUES
  /\ \A t \in Claves(immutable_values) : Inmutable(t, Valor(immutable_values, t))
  /\ EsLru(mutable_values) /\ Len(mutable_values) <= MAX_VALUES
  /\ Claves(mutable_values) \subseteq {target_from_key(s) : s \in Sales \ SalesGrandes}

InvTipos == InvTokens /\ RedFormada /\ ahora <= TopeTiempo /\ AlmacenesAcotados

LEMMA VacioEsLru == EsLru(<<>>) /\ Claves(<<>>) = {} /\ Len(<<>>) = 0
<1>1. DOMAIN <<>> = {} /\ <<>> \in Seq({})
  OBVIOUS
<1> QED
  BY <1>1 DEF EsLru, Claves

LEMMA TocarTalla ==
  ASSUME NEW lru, EsLru(lru), NEW k
  PROVE  /\ EsLru(Tocar(lru, k)) /\ Len(Tocar(lru, k)) = Len(lru)
         /\ Claves(Tocar(lru, k)) = Claves(lru)
         /\ \A x \in Claves(lru) : Valor(Tocar(lru, k), x) = Valor(lru, x)
BY TocarEs, UnaPorClave

LEMMA TiposInicial == Init => InvTipos
<1> SUFFICES ASSUME Init
             PROVE  InvTipos
  OBVIOUS
<1>1. ahora <= TopeTiempo
  BY SupuestoServidor DEF Init
<1>2. info_hashes = <<>> /\ immutable_values = <<>> /\ mutable_values = <<>>
  BY DEF Init
<1>3. AlmacenesAcotados
  BY <1>2, VacioEsLru, SupuestoServidor DEF AlmacenesAcotados
<1>4. RedFormada
  BY DEF Init, RedFormada
<1> QED
  BY <1>1, <1>3, <1>4, TokensInicial DEF InvTipos

LEMMA TiposBastan ==
  ASSUME InvTipos
  PROVE  TypeOK
<1>1. ahora \in 0 .. TopeTiempo /\ prev_secret < curr_secret /\ last_updated \in 0 .. ahora
  BY SupuestoServidor DEF InvTipos, InvTokens, RelojSano
<1>2. AlmacenesAcotados
  BY DEF InvTipos
<1>3. /\ Claves(info_hashes) \subseteq Hashes
      /\ Len(info_hashes) = Cardinality(Claves(info_hashes))
      /\ Len(info_hashes) <= MAX_INFO_HASHES
  BY <1>2, UnaPorClave DEF AlmacenesAcotados
<1>4. ASSUME NEW i \in DOMAIN info_hashes
      PROVE  /\ Claves(info_hashes[i][2]) \subseteq Clientes
             /\ Len(info_hashes[i][2]) = Cardinality(Claves(info_hashes[i][2]))
             /\ Len(info_hashes[i][2]) <= MAX_PEERS
  <2>1. Acotado(info_hashes[i][2])
    BY <1>2, ValorEs DEF AlmacenesAcotados
  <2> QED
    BY <2>1, UnaPorClave DEF Acotado
<1>5. ASSUME NEW i \in DOMAIN immutable_values
      PROVE  immutable_values[i] \in {<<hash_immutable(v), v>> : v \in Valores \ ValoresGrandes}
  <2>1. PICK v : v = immutable_values[i][2]
    OBVIOUS
  <2>2. Inmutable(immutable_values[i][1], v)
    BY <1>2, <2>1, ValorEs DEF AlmacenesAcotados
  <2>3. immutable_values[i] = <<immutable_values[i][1], v>>
    BY <1>2, <2>1 DEF AlmacenesAcotados, EsLru
  <2> QED
    BY <2>2, <2>3 DEF Inmutable
<1>6. Len(immutable_values) <= MAX_VALUES /\ Len(mutable_values) <= MAX_VALUES
  BY <1>2 DEF AlmacenesAcotados
<1>7. /\ Claves(mutable_values) \subseteq {target_from_key(s) : s \in Sales \ SalesGrandes}
      /\ Len(mutable_values) = Cardinality(Claves(mutable_values))
  BY <1>2, UnaPorClave DEF AlmacenesAcotados
<1> QED
  BY <1>1, <1>3, <1>4, <1>5, <1>6, <1>7 DEF TypeOK

(* The server reads a request as its client wrote it. *)
LEMMA PideEs ==
  ASSUME RedFormada, NEW p \in red, NEW clase, Llega(p, clase)
  PROVE  /\ p.cliente \in Clientes /\ Formada(p.era) /\ Tipada(p.era)
         /\ p.era.tipo = "q" /\ p.era.clase = clase /\ Pide(p) = Sentido(p.era).args
<1>1. p.cable = into_serde_message(p.era) /\ Formada(p.era)
  BY DEF RedFormada
<1>2. p.era.tipo = "q"
  <2>1. PICK w : w = into_serde_message(p.era)
    OBVIOUS
  <2>2. w.y = p.era.tipo
    BY <2>1 DEF into_serde_message
  <2> QED
    BY <1>1, <2>1, <2>2 DEF Llega
<1>3. from_serde_message(p.cable) = Sentido(p.era)
  BY <1>1, Viaja
<1>4. Sentido(p.era).clase = p.era.clase
  BY <1>1 DEF Sentido, Formada
<1> QED
  BY <1>1, <1>2, <1>3, <1>4 DEF RedFormada, Llega, Pide

LEMMA PideAnuncio ==
  ASSUME RedFormada, NEW p \in red, Llega(p, "announce_peer")
  PROVE  Pide(p).id \in Clientes /\ Pide(p).info_hash \in Hashes
<1>1. PICK m : m = p.era
  OBVIOUS
<1>2. Formada(m) /\ Tipada(m) /\ m.tipo = "q" /\ m.clase = "announce_peer" /\ Pide(p) = Sentido(m).args
  BY <1>1, PideEs
<1>3. PICK b : b = [implied_port |-> "implied_port" \in DOMAIN m.args /\ m.args.implied_port]
  OBVIOUS
<1>4. DOMAIN b = {"implied_port"}
  BY <1>3
<1>5. Sentido(m).args = Junto(b, SinCampos(m.args, {"implied_port"}))
  BY <1>2, <1>3, Zenon DEF Sentido, Formada
<1>6. /\ Sentido(m).args.id = m.args.id
      /\ Sentido(m).args.info_hash = m.args.info_hash
  BY <1>2, <1>4, <1>5 DEF Junto, SinCampos, Tipada
<1> QED
  BY <1>2, <1>6 DEF Tipada

LEMMA PidePut ==
  ASSUME RedFormada, NEW p \in red, NEW clase \in {"put_immutable", "put_mutable"}, Llega(p, clase)
  PROVE  Pide(p) = p.era.args
<1>1. PICK m : m = p.era
  OBVIOUS
<1>2. Formada(m) /\ m.tipo = "q" /\ m.clase = clase /\ Pide(p) = Sentido(m).args
  BY <1>1, PideEs
<1>3. Sentido(m).args = ConNodos(m.args)
  BY <1>2 DEF Sentido, Formada
<1>4. "nodes" \notin DOMAIN m.args
  BY <1>2 DEF Formada, CamposDePeticion
<1> QED
  BY <1>1, <1>2, <1>3, <1>4 DEF ConNodos

(* A request changes the stores within their bounds. *)
LEMMA LecturaAcota ==
  ASSUME AlmacenesAcotados, NEW p, Ping(p) \/ FindNode(p) \/ GetPeers(p) \/ GetValue(p)
  PROVE  AlmacenesAcotados'
<1>1. \E h : info_hashes' \in {info_hashes, Tocar(info_hashes, h)}
  BY DEF Ping, FindNode, GetPeers, GetValue, almacenes
<1>2. \E t : immutable_values' \in {immutable_values, Tocar(immutable_values, t)}
  BY DEF Ping, FindNode, GetPeers, GetValue, almacenes
<1>3. \E t : mutable_values' \in {mutable_values, Tocar(mutable_values, t)}
  BY DEF Ping, FindNode, GetPeers, GetValue, almacenes, handle_get_mutable
<1>4. /\ EsLru(info_hashes') /\ Len(info_hashes') = Len(info_hashes)
      /\ Claves(info_hashes') = Claves(info_hashes)
      /\ \A x \in Claves(info_hashes) : Valor(info_hashes', x) = Valor(info_hashes, x)
  BY <1>1, TocarTalla DEF AlmacenesAcotados
<1>5. /\ EsLru(immutable_values') /\ Len(immutable_values') = Len(immutable_values)
      /\ Claves(immutable_values') = Claves(immutable_values)
      /\ \A x \in Claves(immutable_values) :
           Valor(immutable_values', x) = Valor(immutable_values, x)
  BY <1>2, TocarTalla DEF AlmacenesAcotados
<1>6. /\ EsLru(mutable_values') /\ Len(mutable_values') = Len(mutable_values)
      /\ Claves(mutable_values') = Claves(mutable_values)
  BY <1>3, TocarTalla DEF AlmacenesAcotados
<1> QED
  BY <1>4, <1>5, <1>6 DEF AlmacenesAcotados

LEMMA AnuncioAcota ==
  ASSUME AlmacenesAcotados, RedFormada, NEW p \in red, AnnouncePeer(p)
  PROVE  AlmacenesAcotados'
<1>1. Llega(p, "announce_peer") /\ UNCHANGED <<immutable_values, mutable_values>>
  BY DEF AnnouncePeer
<1>2. PICK h, id : h = Pide(p).info_hash /\ id = Pide(p).id
  OBVIOUS
<1>3. h \in Hashes /\ id \in Clientes
  BY <1>1, <1>2, PideAnuncio
<1>4. PICK antes : antes = IF h \in Claves(info_hashes) THEN Valor(info_hashes, h) ELSE <<>>
  OBVIOUS
<1>5. \/ UNCHANGED info_hashes
      \/ \E par : info_hashes' =
                    Meter(info_hashes, h, Meter(antes, id, par, MAX_PEERS), MAX_INFO_HASHES)
  BY <1>2, <1>4 DEF AnnouncePeer
<1>6. CASE UNCHANGED info_hashes
  BY <1>1, <1>6 DEF AlmacenesAcotados
<1>7. ASSUME NEW par,
             info_hashes' = Meter(info_hashes, h, Meter(antes, id, par, MAX_PEERS), MAX_INFO_HASHES)
      PROVE  AlmacenesAcotados'
  <2>1. Acotado(antes)
    BY <1>4, VacioEsLru, SupuestoServidor DEF AlmacenesAcotados, Acotado
  <2>2. PICK pares : pares = Meter(antes, id, par, MAX_PEERS)
    OBVIOUS
  <2>3. /\ EsLru(pares) /\ Len(pares) <= MAX_PEERS
        /\ Claves(pares) \subseteq Claves(antes) \cup {id}
    BY <2>1, <2>2, MeterEs, SupuestoServidor DEF Acotado
  <2>4. Acotado(pares)
    BY <1>3, <2>1, <2>3 DEF Acotado
  <2>5. info_hashes' = Meter(info_hashes, h, pares, MAX_INFO_HASHES)
    BY <1>7, <2>2
  <2>6. /\ EsLru(info_hashes') /\ Len(info_hashes') <= MAX_INFO_HASHES
        /\ Valor(info_hashes', h) = pares
        /\ Claves(info_hashes') \subseteq Claves(info_hashes) \cup {h}
        /\ \A x \in Claves(info_hashes') \ {h} : Valor(info_hashes', x) = Valor(info_hashes, x)
    BY <2>5, MeterEs, SupuestoServidor DEF AlmacenesAcotados
  <2>7. ASSUME NEW x \in Claves(info_hashes')
        PROVE  x \in Hashes /\ Acotado(Valor(info_hashes', x))
    BY <1>3, <2>4, <2>6 DEF AlmacenesAcotados
  <2> QED
    BY <1>1, <2>6, <2>7 DEF AlmacenesAcotados, Acotado
<1> QED
  BY <1>5, <1>6, <1>7

LEMMA InmutableAcota ==
  ASSUME AlmacenesAcotados, RedFormada, NEW p \in red, PutImmutable(p)
  PROVE  AlmacenesAcotados'
<1>1. Llega(p, "put_immutable") /\ UNCHANGED <<info_hashes, mutable_values>>
  BY DEF PutImmutable
<1>2. PICK a : a = Pide(p)
  OBVIOUS
<1>3. a.v \in Valores
  BY <1>1, <1>2, PideEs, PidePut DEF Tipada
<1>4. \/ UNCHANGED immutable_values
      \/ /\ a.v \notin ValoresGrandes /\ hash_immutable(a.v) = a.target
         /\ immutable_values' = Meter(immutable_values, a.target, a.v, MAX_VALUES)
  BY <1>2 DEF PutImmutable
<1>5. CASE UNCHANGED immutable_values
  BY <1>1, <1>5 DEF AlmacenesAcotados
<1>6. CASE /\ a.v \notin ValoresGrandes /\ hash_immutable(a.v) = a.target
           /\ immutable_values' = Meter(immutable_values, a.target, a.v, MAX_VALUES)
  <2>1. PICK t, v : t = a.target /\ v = a.v
    OBVIOUS
  <2>2. Inmutable(t, v)
    BY <1>3, <1>6, <2>1 DEF Inmutable
  <2>3. immutable_values' = Meter(immutable_values, t, v, MAX_VALUES)
    BY <1>6, <2>1
  <2>4. /\ EsLru(immutable_values') /\ Len(immutable_values') <= MAX_VALUES
        /\ Valor(immutable_values', t) = v
        /\ Claves(immutable_values') \subseteq Claves(immutable_values) \cup {t}
        /\ \A x \in Claves(immutable_values') \ {t} :
             Valor(immutable_values', x) = Valor(immutable_values, x)
    BY <2>3, MeterEs, SupuestoServidor DEF AlmacenesAcotados
  <2> QED
    BY <1>1, <2>2, <2>4 DEF AlmacenesAcotados
<1> QED
  BY <1>4, <1>5, <1>6

LEMMA MutableAcota ==
  ASSUME AlmacenesAcotados, RedFormada, NEW p \in red, PutMutable(p)
  PROVE  AlmacenesAcotados'
<1>1. Llega(p, "put_mutable") /\ UNCHANGED <<info_hashes, immutable_values>>
  BY DEF PutMutable
<1>2. PICK a : a = Pide(p)
  OBVIOUS
<1>3. Sal(a) \in Sales /\ a.target = target_from_key(Sal(a))
  BY <1>1, <1>2, PideEs, PidePut DEF Tipada
<1>4. \/ mutable_values' \in {mutable_values, Tocar(mutable_values, a.target)}
      \/ /\ Sal(a) \notin SalesGrandes
         /\ mutable_values' = Meter(mutable_values, a.target, Item(a), MAX_VALUES)
  <2>1. PICK no : no = IF ~validate(p.cliente, a.token) THEN 203
                      ELSE IF \E w \in a.v : w[1] \in Gordos THEN 205
                      ELSE IF Sal(a) \in SalesGrandes THEN 207
                      ELSE IF Conflicto(a) # 0 THEN Conflicto(a)
                      ELSE IF ~Firmado(a) THEN 206
                      ELSE 0
    OBVIOUS
  <2>2. CASE no # 0
    BY <1>2, <2>1, <2>2 DEF PutMutable
  <2>3. CASE no = 0
    <3>1. Sal(a) \notin SalesGrandes
      BY <2>1, <2>3
    <3> QED
      BY <1>2, <2>1, <2>3, <3>1 DEF PutMutable
  <2> QED
    BY <2>2, <2>3
<1>5. CASE mutable_values' \in {mutable_values, Tocar(mutable_values, a.target)}
  <2>1. /\ EsLru(mutable_values') /\ Len(mutable_values') = Len(mutable_values)
        /\ Claves(mutable_values') = Claves(mutable_values)
    BY <1>5, TocarTalla DEF AlmacenesAcotados
  <2> QED
    BY <1>1, <2>1 DEF AlmacenesAcotados
<1>6. CASE /\ Sal(a) \notin SalesGrandes
           /\ mutable_values' = Meter(mutable_values, a.target, Item(a), MAX_VALUES)
  <2>1. /\ EsLru(mutable_values') /\ Len(mutable_values') <= MAX_VALUES
        /\ Claves(mutable_values') \subseteq Claves(mutable_values) \cup {a.target}
    BY <1>6, MeterEs, SupuestoServidor DEF AlmacenesAcotados
  <2>2. a.target \in {target_from_key(s) : s \in Sales \ SalesGrandes}
    BY <1>3, <1>6
  <2> QED
    BY <1>1, <2>1, <2>2 DEF AlmacenesAcotados
<1> QED
  BY <1>4, <1>5, <1>6

LEMMA PasoTipos ==
  ASSUME InvTipos, [Next]_servVars
  PROVE  InvTipos'
<1>1. InvTokens' /\ RedFormada'
  BY PasoTokens, PasoForma DEF InvTipos
<1>2. AlmacenesAcotados /\ RedFormada /\ ahora <= TopeTiempo
  BY DEF InvTipos
<1>3. ASSUME NEW p \in red, handle_request(p)
      PROVE  AlmacenesAcotados' /\ ahora' <= TopeTiempo
  <2>1. ahora' = ahora
    BY <1>3 DEF handle_request, Ping, FindNode, GetPeers, GetValue, AnnouncePeer, PutImmutable,
                PutMutable, Llega
  <2> QED
    BY <1>2, <1>3, <2>1, LecturaAcota, AnuncioAcota, InmutableAcota, MutableAcota
    DEF handle_request
<1>4. CASE UNCHANGED <<ahora, info_hashes, immutable_values, mutable_values>>
  BY <1>1, <1>2, <1>4 DEF AlmacenesAcotados, InvTipos
<1>5. CASE Pasa
  <2>1. ahora \in Nat
    BY DEF InvTipos, InvTokens, RelojSano
  <2>2. ahora' <= TopeTiempo
    BY <1>5, <2>1, SupuestoServidor DEF Pasa
  <2> QED
    BY <1>1, <1>2, <1>5, <2>2 DEF Pasa, almacenes, AlmacenesAcotados, InvTipos
<1>6. \/ UNCHANGED <<ahora, info_hashes, immutable_values, mutable_values>>
      \/ Pasa
      \/ \E p \in red : handle_request(p)
  <2> DEFINE Igual == UNCHANGED <<ahora, info_hashes, immutable_values, mutable_values>>
  <2>1. ASSUME NEW c, NEW clase, NEW tid, NEW args, Enviar(c, clase, tid, args)
        PROVE  Igual
    BY <2>1 DEF Enviar, almacenes
  <2>2. ASSUME NEW p, RecibeRespuesta(p) \/ Perder(p)
        PROVE  Igual
    BY <2>2 DEF RecibeRespuesta, Perder, almacenes
  <2>3. UNCHANGED servVars => Igual
    BY DEF servVars
  <2> HIDE DEF Igual
  <2>4. ASSUME NEW c \in Clientes,
               EnviarLectura(c) \/ EnviarAnuncio(c) \/ EnviarInmutable(c) \/ EnviarMutable(c)
        PROVE  Igual
    BY <2>1, <2>4, Zenon DEF EnviarLectura, EnviarAnuncio, EnviarInmutable, EnviarMutable
  <2>5. Igual \/ Pasa \/ \E p \in red : handle_request(p)
    BY <2>2, <2>3, <2>4, Zenon DEF Next
  <2> QED
    BY <2>5 DEF Igual
<1> QED
  BY <1>1, <1>3, <1>4, <1>5, <1>6 DEF InvTipos

(* The clocks and the three stores of the server: each within its bound,   *)
(* with one entry for each key, the immutable values under their own hash. *)
THEOREM AlmacenesEnSuTalla == Spec => []TypeOK
<1>1. Init => InvTipos
  BY TiposInicial
<1>2. InvTipos /\ [Next]_servVars => InvTipos'
  BY PasoTipos
<1>3. InvTipos => TypeOK
  BY TiposBastan
<1> QED
  BY <1>1, <1>2, <1>3, PTL DEF Spec
=============================================================================
