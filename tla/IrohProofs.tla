----------------------------- MODULE IrohProofs -----------------------------
(***************************************************************************)
(* Proofs about the chat: for any nodes, lines, buffer and faults, what a  *)
(* side of a channel reads is what the other side sent, in order.          *)
(*                                                                         *)
(* InvIroh is the invariant.  For each direction of a channel, Sentido     *)
(* says that the lines read are those a reader makes of a beginning s of   *)
(* the stream of the lines sent, and, while the channel is connected, that *)
(* s and what is on its way are the whole of it.                           *)
(***************************************************************************)
EXTENDS Iroh, SecuenciasProofs
-----------------------------------------------------------------------------
(* Bytes, lines and the stream they make.                                  *)

(* The provers do not know that a literal is in STRING: two are named.     *)
Salto == "\n"
Byte == STRING \cup {Salto, "?"}
Texto == Seq(Byte)

(* What a reader makes of a byte: half a character may become a mark. *)
Igual(a, b) == a = b \/ (a = "?" /\ b \in {"e1", "e2"})

GPegadas == [x \in Texto |-> x]
GSin == [b \in Byte |-> IF b = Salto THEN <<>> ELSE <<b>>]
GFlujo == [x \in Texto |-> Append(x, Salto)]

(* A stream without its line breaks, and where these were. *)
Sin(s) == AplanaCon(GSin, s)
Saltos(s) == Marcas(GSin, s, {Salto})

(* What a writer makes of its lines. *)
Flujo(m) == AplanaCon(GFlujo, m)

LEMMA Funciones ==
  /\ GPegadas \in [Texto -> Texto]
  /\ GSin \in [Byte -> Texto]
  /\ GFlujo \in [Texto -> Texto]
  /\ Salto \in Byte
<1>1. Salto \in Byte
  BY DEF Byte
<1>2. GPegadas \in [Texto -> Texto]
  BY DEF GPegadas
<1>3. GFlujo \in [Texto -> Texto]
  BY <1>1 DEF GFlujo, Texto
<1>4. GSin \in [Byte -> Texto]
  BY DEF GSin, Texto
<1> QED
  BY <1>1, <1>2, <1>3, <1>4

(* Three sequences, or two and an element, put together. *)
Asocian(a, b, c) == a \o (b \o c) = (a \o b) \o c
Anade(a, b, y) == a \o Append(b, y) = Append(a \o b, y)

LEMMA Asocia ==
  ASSUME NEW S, NEW a \in Seq(S), NEW b \in Seq(S), NEW c \in Seq(S)
  PROVE  Asocian(a, b, c)
  BY SMT DEF Asocian

LEMMA UneUno ==
  ASSUME NEW S, NEW a \in Seq(S), NEW b \in Seq(S), NEW y \in S
  PROVE  Anade(a, b, y)
  BY DEF Anade

LEMMA AsociaTexto ==
  ASSUME NEW a \in Texto, NEW b \in Texto, NEW c \in Texto
  PROVE  Asocian(a, b, c)
  BY Asocia DEF Texto

LEMMA UneUnByte ==
  ASSUME NEW a \in Texto, NEW b \in Texto, NEW y \in Byte
  PROVE  Anade(a, b, y)
  BY UneUno DEF Texto

LEMMA UneTexto ==
  ASSUME NEW a \in Texto, NEW b \in Texto
  PROVE  a \o b \in Texto
  BY DEF Texto

(* What lines put together do as they grow. *)
LineasBien(L) ==
  /\ Pegadas(L) \in Texto /\ Len(Pegadas(L)) \in Nat
  /\ Pegadas(<<>>) = <<>> /\ Cortes(<<>>) = {}
  /\ \A x \in Texto : /\ Pegadas(Append(L, x)) = Pegadas(L) \o x
                      /\ Cortes(Append(L, x)) = Cortes(L) \cup {Len(Pegadas(L)) + Len(x)}
  /\ \A M \in Seq(Texto) :
       /\ Pegadas(L \o M) = Pegadas(L) \o Pegadas(M)
       /\ Cortes(L) \subseteq Cortes(L \o M)
       /\ \A k \in Cortes(L \o M) : k <= Len(Pegadas(L)) => k \in Cortes(L) \cup {Len(Pegadas(L))}
  /\ Cortes(L) \subseteq 0 .. Len(Pegadas(L))
  /\ Len(Pegadas(L)) \in {0} \cup Cortes(L)

LEMMA PegadasEs ==
  ASSUME NEW L \in Seq(Texto)
  PROVE  LineasBien(L)
<1>1. ASSUME NEW M \in Seq(Texto)
      PROVE  Pegadas(M) = AplanaCon(GPegadas, M)
  <2>1. [i \in DOMAIN M |-> GPegadas[M[i]]] = [i \in DOMAIN M |-> M[i]]
    <3>1. \A i \in DOMAIN M : GPegadas[M[i]] = M[i]
      BY DEF GPegadas
    <3> QED
      BY <3>1
  <2>2. M = [i \in DOMAIN M |-> M[i]]
    OBVIOUS
  <2> QED
    BY <2>1, <2>2 DEF Pegadas, AplanaCon
<1>2. ASSUME NEW M \in Seq(Texto)
      PROVE  Cortes(M) = Marcas(GPegadas, M, Texto)
  <2>1. \A i \in DOMAIN M : SubSeq(M, 1, i) \in Seq(Texto) /\ M[i] \in Texto
    BY SubSeqProperties
  <2>2. \A i \in DOMAIN M : Pegadas(SubSeq(M, 1, i)) = AplanaCon(GPegadas, SubSeq(M, 1, i))
    BY <1>1, <2>1
  <2>3. {j \in DOMAIN M : M[j] \in Texto} = DOMAIN M
    BY <2>1
  <2> QED
    BY <2>2, <2>3 DEF Cortes, Marcas
<1>3. JuntaBien(GPegadas, Texto, Byte, L)
  <2>1. GPegadas \in [Texto -> Seq(Byte)]
    BY Funciones DEF Texto
  <2> QED
    BY <2>1, AplanaConEs
<1>4. MarcasBien(GPegadas, Texto, Texto, L)
  <2>1. GPegadas \in [Texto -> Seq(Byte)]
    BY Funciones DEF Texto
  <2> QED
    BY <2>1, MarcasEs
<1>5. Pegadas(L) \in Texto /\ Len(Pegadas(L)) \in Nat
  <2>1. Pegadas(L) \in Seq(Byte)
    BY <1>1, <1>3 DEF JuntaBien
  <2> QED
    BY <2>1 DEF Texto
<1>6. <<>> \in Seq(Texto) /\ Pegadas(<<>>) = <<>> /\ Cortes(<<>>) = {}
  <2>1. <<>> \in Seq(Texto)
    OBVIOUS
  <2> QED
    BY <1>1, <1>2, <1>3, <1>4, <2>1 DEF JuntaBien, MarcasBien
<1>7. ASSUME NEW x \in Texto
      PROVE  /\ Pegadas(Append(L, x)) = Pegadas(L) \o x
             /\ Cortes(Append(L, x)) = Cortes(L) \cup {Len(Pegadas(L)) + Len(x)}
  <2>1. Append(L, x) \in Seq(Texto) /\ GPegadas[x] = x
    BY DEF GPegadas
  <2>2. Pegadas(Append(L, x)) = Pegadas(L) \o x
    BY <1>1, <1>3, <2>1 DEF JuntaBien
  <2>3. Marcas(GPegadas, Append(L, x), Texto) =
          Marcas(GPegadas, L, Texto) \cup {Len(AplanaCon(GPegadas, L)) + Len(x)}
    BY <1>4, <2>1 DEF MarcasBien
  <2> QED
    BY <1>1, <1>2, <2>1, <2>2, <2>3
<1>8. ASSUME NEW M \in Seq(Texto)
      PROVE  /\ Pegadas(L \o M) = Pegadas(L) \o Pegadas(M)
             /\ Cortes(L) \subseteq Cortes(L \o M)
             /\ \A k \in Cortes(L \o M) : k <= Len(Pegadas(L)) => k \in Cortes(L) \cup {Len(Pegadas(L))}
  <2>1. L \o M \in Seq(Texto)
    OBVIOUS
  <2>2. Pegadas(L \o M) = Pegadas(L) \o Pegadas(M)
    BY <1>1, <1>3, <2>1 DEF JuntaBien
  <2>3. /\ Marcas(GPegadas, L, Texto) \subseteq Marcas(GPegadas, L \o M, Texto)
        /\ \A k \in Marcas(GPegadas, L \o M, Texto) :
             k <= Len(AplanaCon(GPegadas, L)) => k \in Marcas(GPegadas, L, Texto) \cup {Len(AplanaCon(GPegadas, L))}
    BY <1>4 DEF MarcasBien
  <2> QED
    BY <1>1, <1>2, <2>1, <2>2, <2>3
<1>9. Cortes(L) \subseteq 0 .. Len(Pegadas(L))
  BY <1>1, <1>2, <1>4 DEF MarcasBien
<1>10. Len(Pegadas(L)) \in {0} \cup Cortes(L)
  <2>1. CASE L = <<>>
    <3>1. Len(Pegadas(L)) = 0
      BY <1>6, <2>1
    <3> QED
      BY <3>1
  <2>2. CASE L # <<>>
    <3>1. PICK n \in Nat : n = Len(L) /\ n \in DOMAIN L
      BY <2>2
    <3>2. SubSeq(L, 1, n) = L
      BY <3>1, PrefijoEs DEF SeParte
    <3>3. Len(Pegadas(SubSeq(L, 1, n))) \in Cortes(L)
      BY <3>1 DEF Cortes
    <3> QED
      BY <3>2, <3>3
  <2> QED
    BY <2>1, <2>2
<1> QED
  BY <1>5, <1>6, <1>7, <1>8, <1>9, <1>10, Zenon DEF LineasBien

(* The same of a stream. *)
BytesBien(s) ==
  /\ Sin(s) \in Texto /\ Len(Sin(s)) \in Nat
  /\ Sin(<<>>) = <<>> /\ Saltos(<<>>) = {}
  /\ Sin(Append(s, Salto)) = Sin(s) /\ Saltos(Append(s, Salto)) = Saltos(s) \cup {Len(Sin(s))}
  /\ \A b \in Byte : b # Salto => /\ Sin(Append(s, b)) = Append(Sin(s), b)
                                  /\ Saltos(Append(s, b)) = Saltos(s)
  /\ \A r \in Texto :
       /\ Sin(s \o r) = Sin(s) \o Sin(r)
       /\ Saltos(s) \subseteq Saltos(s \o r)
       /\ \A k \in Saltos(s \o r) : k <= Len(Sin(s)) => k \in Saltos(s) \cup {Len(Sin(s))}

LEMMA SinEs ==
  ASSUME NEW s \in Texto
  PROVE  BytesBien(s)
<1>1. GSin \in [Byte -> Seq(Byte)] /\ s \in Seq(Byte)
  BY Funciones DEF Texto
<1>2. JuntaBien(GSin, Byte, Byte, s)
  BY <1>1, AplanaConEs
<1>3. MarcasBien(GSin, Byte, {Salto}, s)
  BY <1>1, MarcasEs
<1>4. Sin(s) \in Texto /\ Len(Sin(s)) \in Nat
  <2>1. Sin(s) \in Seq(Byte)
    BY <1>2 DEF JuntaBien, Sin
  <2> QED
    BY <2>1 DEF Texto
<1>5. Sin(<<>>) = <<>> /\ Saltos(<<>>) = {}
  BY <1>2, <1>3 DEF JuntaBien, MarcasBien, Sin, Saltos
<1>6. Sin(Append(s, Salto)) = Sin(s) /\ Saltos(Append(s, Salto)) = Saltos(s) \cup {Len(Sin(s))}
  <2>1. GSin[Salto] = <<>> /\ Salto \in Byte
    BY Funciones DEF GSin
  <2>2. Sin(Append(s, Salto)) = Sin(s) \o <<>>
    BY <1>2, <2>1 DEF JuntaBien, Sin
  <2>3. Sin(s) \o <<>> = Sin(s)
    <3>1. \A x \in Seq(Byte) : x \o <<>> = x
      OBVIOUS
    <3> QED
      BY <1>4, <3>1 DEF Texto
  <2>4. Saltos(Append(s, Salto)) = Saltos(s) \cup {Len(Sin(s)) + Len(<<>>)}
    <3>1. Marcas(GSin, Append(s, Salto), {Salto}) =
            Marcas(GSin, s, {Salto}) \cup
              (IF Salto \in {Salto} THEN {Len(AplanaCon(GSin, s)) + Len(GSin[Salto])} ELSE {})
      BY <1>3, <2>1, Zenon DEF MarcasBien
    <3> QED
      BY <2>1, <3>1 DEF Saltos, Sin
  <2>5. Len(Sin(s)) + Len(<<>>) = Len(Sin(s))
    BY <1>4
  <2> QED
    BY <2>2, <2>3, <2>4, <2>5
<1>7. ASSUME NEW b \in Byte, b # Salto
      PROVE  Sin(Append(s, b)) = Append(Sin(s), b) /\ Saltos(Append(s, b)) = Saltos(s)
  <2>1. GSin[b] = <<b>>
    BY <1>7 DEF GSin
  <2>2. Sin(Append(s, b)) = Sin(s) \o <<b>>
    BY <1>2, <2>1 DEF JuntaBien, Sin
  <2>3. Sin(s) \o <<b>> = Append(Sin(s), b)
    BY <1>4 DEF Texto
  <2>4. Saltos(Append(s, b)) = Saltos(s)
    <3>1. Marcas(GSin, Append(s, b), {Salto}) =
            Marcas(GSin, s, {Salto}) \cup
              (IF b \in {Salto} THEN {Len(AplanaCon(GSin, s)) + Len(GSin[b])} ELSE {})
      BY <1>3, Zenon DEF MarcasBien
    <3>2. b \notin {Salto}
      BY <1>7
    <3> QED
      BY <3>1, <3>2 DEF Saltos
  <2> QED
    BY <2>2, <2>3, <2>4
<1>8. ASSUME NEW r \in Texto
      PROVE  /\ Sin(s \o r) = Sin(s) \o Sin(r)
             /\ Saltos(s) \subseteq Saltos(s \o r)
             /\ \A k \in Saltos(s \o r) : k <= Len(Sin(s)) => k \in Saltos(s) \cup {Len(Sin(s))}
  <2>1. r \in Seq(Byte)
    BY DEF Texto
  <2>2. Sin(s \o r) = Sin(s) \o Sin(r)
    BY <1>2, <2>1 DEF JuntaBien, Sin
  <2>3. /\ Saltos(s) \subseteq Saltos(s \o r)
        /\ \A k \in Saltos(s \o r) : k <= Len(Sin(s)) => k \in Saltos(s) \cup {Len(Sin(s))}
    BY <1>3, <2>1 DEF MarcasBien, Saltos, Sin
  <2> QED
    BY <2>2, <2>3
<1> QED
  BY <1>4, <1>5, <1>6, <1>7, <1>8 DEF BytesBien

FlujoBien(m) ==
  /\ Flujo(m) \in Texto
  /\ Flujo(<<>>) = <<>>
  /\ \A x \in Texto : Flujo(Append(m, x)) = Flujo(m) \o Append(x, Salto)
  /\ \A x \in Texto : Flujo(<<x>>) = Append(x, Salto)
  /\ \A r \in Seq(Texto) : Flujo(m \o r) = Flujo(m) \o Flujo(r)

LEMMA FlujoEs ==
  ASSUME NEW m \in Seq(Texto)
  PROVE  FlujoBien(m)
<1>1. GFlujo \in [Texto -> Seq(Byte)]
  BY Funciones DEF Texto
<1>2. JuntaBien(GFlujo, Texto, Byte, m)
  BY <1>1, AplanaConEs
<1>3. \A x \in Texto : GFlujo[x] = Append(x, Salto)
  BY DEF GFlujo
<1>4. Texto = Seq(Byte)
  BY DEF Texto
<1> QED
  BY <1>2, <1>3, <1>4 DEF JuntaBien, FlujoBien, Flujo

-----------------------------------------------------------------------------
(* What a reader has of a stream.                                          *)

(* w is v but for spoilt halves of characters. *)
Parecido(w, v) ==
  Len(w) = Len(v) /\ \A i \in 1 .. Len(w) : Igual(w[i], v[i])

(* The lines h and the unfinished one x are what s brings. *)
Fiel(h, x, s) ==
  /\ Parecido(Pegadas(h) \o x, Sin(s))
  /\ Saltos(s) \subseteq {0} \cup Cortes(h)

EsAgregado(y, w, n, a) ==
  Len(y) = n + 1 /\ \A i \in 1 .. n + 1 : y[i] = IF i = n + 1 THEN a ELSE w[i]

LEMMA AgregaEs ==
  ASSUME NEW S, NEW w \in Seq(S), NEW n \in Nat, n = Len(w), NEW a \in S
  PROVE  EsAgregado(Append(w, a), w, n, a)
  BY DEF EsAgregado

LEMMA ParecidoCrece ==
  ASSUME NEW w \in Texto, NEW v \in Texto, Parecido(w, v), NEW a \in Byte, NEW b \in Byte, Igual(a, b)
  PROVE  Parecido(Append(w, a), Append(v, b))
<1>1. PICK n \in Nat : n = Len(w) /\ n = Len(v)
  BY DEF Parecido, Texto
<1>2. PICK y, z : y = Append(w, a) /\ z = Append(v, b)
  OBVIOUS
<1>3. /\ Len(y) = n + 1 /\ \A i \in 1 .. n + 1 : y[i] = IF i = n + 1 THEN a ELSE w[i]
      /\ Len(z) = n + 1 /\ \A i \in 1 .. n + 1 : z[i] = IF i = n + 1 THEN b ELSE v[i]
  <2>1. w \in Seq(Byte) /\ v \in Seq(Byte)
    BY DEF Texto
  <2>2. EsAgregado(y, w, n, a)
    BY <1>1, <1>2, <2>1, AgregaEs
  <2>3. EsAgregado(z, v, n, b)
    BY <1>1, <1>2, <2>1, AgregaEs
  <2> QED
    BY <2>2, <2>3 DEF EsAgregado
<1>4. ASSUME NEW i \in 1 .. n + 1
      PROVE  Igual(y[i], z[i])
  <2>1. CASE i = n + 1
    <3>1. y[i] = a /\ z[i] = b
      BY <1>3, <2>1
    <3> QED
      BY <3>1
  <2>2. CASE i # n + 1
    <3>1. y[i] = w[i] /\ z[i] = v[i] /\ i \in 1 .. n
      BY <1>3, <2>2
    <3>2. Igual(w[i], v[i])
      BY <1>1, <3>1 DEF Parecido
    <3> QED
      BY <3>1, <3>2
  <2> QED
    BY <2>1, <2>2
<1>5. Parecido(y, z)
  BY <1>3, <1>4 DEF Parecido
<1> QED
  BY <1>2, <1>5

(* Nothing has been read. *)
LEMMA FielNada == Fiel(<<>>, <<>>, <<>>)
<1>1. <<>> \in Seq(Texto) /\ <<>> \in Texto
  BY DEF Texto
<1>2. LineasBien(<<>>) /\ BytesBien(<<>>)
  BY <1>1, PegadasEs, SinEs
<1>3. Pegadas(<<>>) = <<>> /\ Sin(<<>>) = <<>> /\ Saltos(<<>>) = {}
  BY <1>2 DEF LineasBien, BytesBien
<1>4. <<>> \o <<>> = <<>>
  OBVIOUS
<1>5. Parecido(<<>>, <<>>)
  BY DEF Parecido
<1> QED
  BY <1>3, <1>4, <1>5 DEF Fiel

(* The unfinished line ends. *)
LEMMA FielCierra ==
  ASSUME NEW h \in Seq(Texto), NEW x \in Texto, NEW s \in Texto, Fiel(h, x, s)
  PROVE  Fiel(Append(h, x), <<>>, s)
<1>1. LineasBien(h)
  BY PegadasEs
<1>2. Pegadas(Append(h, x)) = Pegadas(h) \o x /\ Cortes(h) \subseteq Cortes(Append(h, x))
  BY <1>1 DEF LineasBien
<1>3. Pegadas(h) \o x \in Texto /\ \A y \in Texto : y \o <<>> = y
  BY <1>1 DEF LineasBien, Texto
<1> QED
  BY <1>2, <1>3 DEF Fiel

(* A byte of the unfinished line. *)
LEMMA FielByte ==
  ASSUME NEW h \in Seq(Texto), NEW x \in Texto, NEW s \in Texto, Fiel(h, x, s),
         NEW a \in Byte, NEW b \in Byte, Igual(a, b), b # Salto
  PROVE  Fiel(h, Append(x, a), Append(s, b))
<1>1. LineasBien(h) /\ BytesBien(s)
  BY PegadasEs, SinEs
<1>2. Sin(Append(s, b)) = Append(Sin(s), b) /\ Saltos(Append(s, b)) = Saltos(s)
  BY <1>1 DEF BytesBien
<1>3. PICK w : w = Pegadas(h)
  OBVIOUS
<1>4. w \in Texto /\ w \o x \in Texto /\ w \o Append(x, a) = Append(w \o x, a)
  <2>1. w \in Seq(Byte) /\ x \in Seq(Byte)
    BY <1>1, <1>3 DEF LineasBien, Texto
  <2>2. \A u, y \in Seq(Byte) : u \o Append(y, a) = Append(u \o y, a) /\ u \o y \in Seq(Byte)
    OBVIOUS
  <2> QED
    BY <2>1, <2>2 DEF Texto
<1>5. Parecido(w \o x, Sin(s)) /\ Sin(s) \in Texto
  BY <1>1, <1>3 DEF Fiel, BytesBien
<1>6. Parecido(Append(w \o x, a), Append(Sin(s), b))
  BY <1>4, <1>5, ParecidoCrece
<1>7. Parecido(w \o Append(x, a), Sin(Append(s, b)))
  BY <1>2, <1>4, <1>6
<1> QED
  BY <1>2, <1>3, <1>7 DEF Fiel

(* A line break when no line is unfinished. *)
LEMMA FielSalto ==
  ASSUME NEW h \in Seq(Texto), NEW s \in Texto, Fiel(h, <<>>, s)
  PROVE  Fiel(h, <<>>, Append(s, Salto))
<1>1. LineasBien(h) /\ BytesBien(s)
  BY PegadasEs, SinEs
<1>2. Sin(Append(s, Salto)) = Sin(s) /\ Saltos(Append(s, Salto)) = Saltos(s) \cup {Len(Sin(s))}
  BY <1>1 DEF BytesBien
<1>3. Pegadas(h) \o <<>> = Pegadas(h)
  <2>1. \A y \in Seq(Byte) : y \o <<>> = y
    OBVIOUS
  <2> QED
    BY <1>1, <2>1 DEF LineasBien, Texto
<1>4. Len(Sin(s)) = Len(Pegadas(h))
  BY <1>3 DEF Fiel, Parecido
<1>5. Len(Sin(s)) \in {0} \cup Cortes(h)
  BY <1>1, <1>4 DEF LineasBien
<1> QED
  BY <1>2, <1>5 DEF Fiel

(* A chunk is cut into lines as its bytes were. *)
LEMMA Utf8Es ==
  ASSUME NEW t \in Texto
  PROVE  /\ from_utf8_lossy(t) \in Texto
         /\ Len(from_utf8_lossy(t)) = Len(t)
         /\ \A i \in 1 .. Len(t) : /\ Igual(from_utf8_lossy(t)[i], t[i])
                                   /\ from_utf8_lossy(t)[i] = Salto <=> t[i] = Salto
<1>1. PICK n \in Nat : n = Len(t) /\ DOMAIN t = 1 .. n
  BY DEF Texto
<1>2. PICK u : u = from_utf8_lossy(t)
  OBVIOUS
<1>3. DOMAIN u = 1 .. n
  BY <1>1, <1>2 DEF from_utf8_lossy
<1>4. ASSUME NEW i \in 1 .. n
      PROVE  u[i] \in Byte /\ Igual(u[i], t[i]) /\ (u[i] = Salto <=> t[i] = Salto)
  <2>1. u[i] = CASE t[i] = "e1" -> IF i < Len(t) /\ t[i + 1] = "e2" THEN "e1" ELSE "?"
                 [] t[i] = "e2" -> IF i > 1 /\ t[i - 1] = "e1" THEN "e2" ELSE "?"
                 [] OTHER -> t[i]
    BY <1>1, <1>2 DEF from_utf8_lossy
  <2>2. t[i] \in Byte
    BY <1>1 DEF Texto
  <2>3. "?" \in Byte /\ "?" # Salto /\ "e1" # Salto /\ "e2" # Salto /\ "e1" # "e2"
    BY DEF Byte, Salto
  <2>4. u[i] = t[i] \/ (t[i] \in {"e1", "e2"} /\ u[i] = "?")
    <3>1. CASE t[i] = "e1"
      BY <2>1, <3>1
    <3>2. CASE t[i] = "e2"
      BY <2>1, <2>3, <3>2
    <3>3. CASE t[i] # "e1" /\ t[i] # "e2"
      BY <2>1, <3>3
    <3> QED
      BY <3>1, <3>2, <3>3
  <2> QED
    BY <2>2, <2>3, <2>4 DEF Igual
<1>5. u \in Seq(Byte) /\ Len(u) = n
  <2>1. u = [i \in 1 .. n |-> u[i]]
    BY <1>1, <1>2 DEF from_utf8_lossy
  <2> QED
    BY <1>4, <2>1
<1> QED
  BY <1>1, <1>2, <1>4, <1>5 DEF Texto

(* The lines of a chunk, one byte at a time. *)
Cortado == [hechas : Seq(Texto), actual : Texto]
Paso(c, b) ==
  IF b = Salto THEN [hechas |-> Cerrada(c), actual |-> <<>>]
  ELSE [hechas |-> c.hechas, actual |-> Append(c.actual, b)]
Cortando(f, t) ==
  /\ f \in [0 .. Len(t) -> Cortado]
  /\ f[0] = [hechas |-> <<>>, actual |-> <<>>]
  /\ \A i \in 1 .. Len(t) : f[i] = Paso(f[i - 1], t[i])

LEMMA PasoEs ==
  ASSUME NEW c \in Cortado, NEW b \in Byte
  PROVE  Paso(c, b) \in Cortado /\ Cerrada(c) \in Seq(Texto)
<1>1. c.hechas \in Seq(Texto) /\ c.actual \in Texto /\ <<>> \in Texto
  BY DEF Cortado, Texto
<1>2. Cerrada(c) \in Seq(Texto)
  BY <1>1 DEF Cerrada
<1>3. Append(c.actual, b) \in Texto
  BY <1>1 DEF Texto
<1> QED
  BY <1>1, <1>2, <1>3 DEF Paso, Cortado

LEMMA LineasEs ==
  ASSUME NEW t \in Texto
  PROVE  \E f : Cortando(f, t) /\ Lineas(t) = Cerrada(f[Len(t)])
<1>1. PICK n \in Nat : n = Len(t) /\ \A i \in 1 .. n : t[i] \in Byte
  BY DEF Texto
<1>2. PICK z : z = [hechas |-> <<>>, actual |-> <<>>]
  OBVIOUS
<1>3. z \in Cortado
  BY <1>2 DEF Cortado, Texto
<1>4. PICK G : G = [x \in (1 .. n) \X Cortado |-> Paso(x[2], t[x[1]])]
  OBVIOUS
<1>5. G \in [(1 .. n) \X Cortado -> Cortado]
  <2>1. ASSUME NEW x \in (1 .. n) \X Cortado
        PROVE  Paso(x[2], t[x[1]]) \in Cortado
    <3>1. x[2] \in Cortado /\ t[x[1]] \in Byte
      BY <1>1
    <3> QED
      BY <3>1, PasoEs
  <2> QED
    BY <1>4, <2>1
<1>6. PICK f \in [0 .. n -> Cortado] : f[0] = z /\ \A i \in 1 .. n : f[i] = G[<<i, f[i - 1]>>]
  <2>1. SeDefine(Cortado, z, n, G)
    BY <1>3, <1>5, Recursion
  <2> QED
    BY <2>1 DEF SeDefine
<1>7. ASSUME NEW i \in 1 .. n
      PROVE  f[i] = Paso(f[i - 1], t[i])
  <2>1. i - 1 \in 0 .. n
    OBVIOUS
  <2>2. <<i, f[i - 1]>> \in (1 .. n) \X Cortado
    BY <1>6, <2>1
  <2> QED
    BY <1>4, <1>6, <2>2
<1>8. Cortando(f, t)
  BY <1>1, <1>2, <1>6, <1>7 DEF Cortando
<1> DEFINE Cuerpo(h, i) ==
             IF i = 0 THEN [hechas |-> <<>>, actual |-> <<>>]
             ELSE IF t[i] = "\n" THEN [hechas |-> Cerrada(h[i - 1]), actual |-> <<>>]
             ELSE [h[i - 1] EXCEPT !.actual = Append(@, t[i])]
           H == CHOOSE h : h = [i \in 0 .. Len(t) |-> Cuerpo(h, i)]
<1>9. f = [i \in 0 .. Len(t) |-> Cuerpo(f, i)]
  <2>1. ASSUME NEW i \in 0 .. n
        PROVE  f[i] = Cuerpo(f, i)
    <3>1. CASE i = 0
      BY <1>2, <1>6, <3>1
    <3>2. CASE i # 0
      <4>1. i \in 1 .. n /\ i - 1 \in 0 .. n
        BY <3>2
      <4>2. PICK c \in Cortado : c = f[i - 1]
        BY <1>6, <4>1
      <4>3. [c EXCEPT !.actual = Append(@, t[i])] = [hechas |-> c.hechas, actual |-> Append(c.actual, t[i])]
        <5>1. PICK a, b : c = [hechas |-> a, actual |-> b]
          BY DEF Cortado
        <5> QED
          BY <5>1
      <4>4. Cuerpo(f, i) = IF t[i] = "\n" THEN [hechas |-> Cerrada(c), actual |-> <<>>]
                           ELSE [c EXCEPT !.actual = Append(@, t[i])]
        BY <3>2, <4>2
      <4>5. Paso(c, t[i]) = IF t[i] = "\n" THEN [hechas |-> Cerrada(c), actual |-> <<>>]
                            ELSE [hechas |-> c.hechas, actual |-> Append(c.actual, t[i])]
        BY DEF Paso, Salto
      <4>6. f[i] = Paso(c, t[i])
        BY <1>7, <4>1, <4>2
      <4> HIDE DEF Cuerpo
      <4> QED
        BY <4>3, <4>4, <4>5, <4>6
    <3> QED
      BY <3>1, <3>2
  <2>2. f = [i \in 0 .. n |-> f[i]]
    BY <1>6
  <2> HIDE DEF Cuerpo
  <2> QED
    BY <1>1, <2>1, <2>2
<1>10. H = [i \in 0 .. Len(t) |-> Cuerpo(H, i)]
  <2> HIDE DEF Cuerpo
  <2> QED
    BY <1>9
<1>11. Lineas(t) = Cerrada(H[Len(t)])
  BY DEF Lineas
<1> HIDE DEF H
<1> DEFINE T == {i \in 0 .. n : H[i] = f[i]}
<1>12. 0 \in T
  <2>1. H[0] = f[0]
    BY <1>1, <1>2, <1>6, <1>10
  <2> QED
    BY <2>1
<1>13. ASSUME NEW i \in 1 .. n, i - 1 \in T
       PROVE  i \in T
  <2>1. i # 0 /\ i \in 0 .. n /\ H[i - 1] = f[i - 1]
    BY <1>13
  <2>2. H[i] = Cuerpo(H, i) /\ f[i] = Cuerpo(f, i)
    <3>1. PICK m : m = Len(t)
      OBVIOUS
    <3>2. i \in 0 .. m
      BY <1>1, <2>1, <3>1
    <3> HIDE DEF Cuerpo
    <3> QED
      BY <1>9, <1>10, <3>1, <3>2
  <2>3. Cuerpo(H, i) = Cuerpo(f, i)
    BY <2>1
  <2> HIDE DEF Cuerpo
  <2> QED
    BY <2>1, <2>2, <2>3
<1>14. H[n] = f[n]
  <2>1. 0 .. n \subseteq T
    <3> HIDE DEF T
    <3> QED
      BY <1>12, <1>13, HastaN
  <2>2. n \in T
    <3> HIDE DEF T
    <3> QED
      BY <2>1
  <2> QED
    BY <2>2
<1> QED
  BY <1>1, <1>8, <1>11, <1>14

(* A reader that takes the chunk t goes on being true to the stream. *)
LEMMA FielTrozo ==
  ASSUME NEW L \in Seq(Texto), NEW s \in Texto, NEW t \in Texto, Fiel(L, <<>>, s)
  PROVE  /\ Lineas(from_utf8_lossy(t)) \in Seq(Texto)
         /\ Fiel(L \o Lineas(from_utf8_lossy(t)), <<>>, s \o t)
<1>1. PICK u : u = from_utf8_lossy(t)
  OBVIOUS
<1>2. PICK n \in Nat : n = Len(t)
  BY DEF Texto
<1>3. /\ u \in Texto /\ Len(u) = n
      /\ \A i \in 1 .. n : Igual(u[i], t[i]) /\ (u[i] = Salto <=> t[i] = Salto)
      /\ \A i \in 1 .. n : u[i] \in Byte /\ t[i] \in Byte
  <2>1. /\ u \in Texto /\ Len(u) = Len(t)
        /\ \A i \in 1 .. Len(t) : Igual(u[i], t[i]) /\ (u[i] = Salto <=> t[i] = Salto)
    BY <1>1, Utf8Es
  <2>2. \A i \in 1 .. n : u[i] \in Byte /\ t[i] \in Byte
    BY <1>2, <2>1 DEF Texto
  <2> QED
    BY <1>2, <2>1, <2>2
<1>4. PICK f : Cortando(f, u) /\ Lineas(u) = Cerrada(f[Len(u)])
  BY <1>3, LineasEs
<1>5. /\ f \in [0 .. n -> Cortado] /\ f[0] = [hechas |-> <<>>, actual |-> <<>>]
      /\ \A i \in 1 .. n : f[i] = Paso(f[i - 1], u[i])
  BY <1>3, <1>4 DEF Cortando
<1> DEFINE h(i) == L \o f[i].hechas
           x(i) == f[i].actual
           p(i) == s \o SubSeq(t, 1, i)
           T == {i \in 0 .. n : Fiel(h(i), x(i), p(i))}
<1>6. ASSUME NEW i \in 0 .. n
      PROVE  f[i].hechas \in Seq(Texto) /\ h(i) \in Seq(Texto) /\ x(i) \in Texto /\ p(i) \in Texto
  <2>1. f[i] \in Cortado
    BY <1>5
  <2>2. f[i].hechas \in Seq(Texto) /\ x(i) \in Texto
    BY <2>1 DEF Cortado
  <2>3. SubSeq(t, 1, i) \in Seq(Byte) /\ s \in Seq(Byte)
    BY <1>2, SubSeqProperties DEF Texto
  <2>4. \A a, b \in Seq(Byte) : a \o b \in Seq(Byte)
    OBVIOUS
  <2>5. p(i) \in Texto
    BY <2>3, <2>4 DEF Texto
  <2> QED
    BY <2>2, <2>5
<1>8. 0 \in T
  <2>1. L \o <<>> = L /\ SubSeq(t, 1, 0) = <<>>
    BY DEF Texto
  <2>2. s \o <<>> = s
    BY DEF Texto
  <2>5. f[0].hechas = <<>> /\ f[0].actual = <<>>
    BY <1>5
  <2>3. h(0) = L /\ x(0) = <<>> /\ p(0) = s
    BY <2>1, <2>2, <2>5
  <2>4. Fiel(h(0), x(0), p(0))
    BY <2>3
  <2> HIDE DEF h, x, p
  <2> QED
    BY <2>4
<1>9. ASSUME NEW i \in 0 .. n, Fiel(h(i), x(i), p(i))
      PROVE  Fiel(L \o Cerrada(f[i]), <<>>, p(i))
  <2>1. CASE x(i) = <<>>
    BY <1>9, <2>1 DEF Cerrada
  <2>2. CASE x(i) # <<>>
    <3>1. Cerrada(f[i]) = Append(f[i].hechas, x(i))
      BY <2>2 DEF Cerrada
    <3>2. L \o Cerrada(f[i]) = Append(h(i), x(i))
      <4>1. PICK b, y : b = f[i].hechas /\ y = x(i) /\ b \in Seq(Texto) /\ y \in Texto
        BY <1>6
      <4>2. Anade(L, b, y)
        BY <4>1, UneUno
      <4>3. Cerrada(f[i]) = Append(b, y)
        BY <3>1, <4>1
      <4> QED
        BY <4>1, <4>2, <4>3 DEF Anade
    <3>3. Fiel(Append(h(i), x(i)), <<>>, p(i))
      <4>1. h(i) \in Seq(Texto) /\ x(i) \in Texto /\ p(i) \in Texto
        BY <1>6
      <4> HIDE DEF h, x, p
      <4> QED
        BY <1>9, <4>1, FielCierra
    <3> QED
      BY <3>2, <3>3
  <2> QED
    BY <2>1, <2>2
<1>10. ASSUME NEW i \in 1 .. n, i - 1 \in T
       PROVE  i \in T
  <2>1. PICK j \in 0 .. n : j = i - 1
    <3>1. i - 1 \in 0 .. n
      OBVIOUS
    <3> QED
      BY <3>1
  <2>2. Fiel(h(j), x(j), p(j)) /\ f[i] = Paso(f[j], u[i])
    <3>1. j \in T
      BY <1>10, <2>1
    <3>2. Fiel(h(j), x(j), p(j))
      <4> HIDE DEF h, x, p
      <4> QED
        BY <3>1
    <3> QED
      BY <1>5, <2>1, <3>2
  <2>3. p(i) = Append(p(j), t[i])
    <3>1. SubSeq(t, 1, i) = Append(SubSeq(t, 1, j), t[i])
      BY <1>2, <2>1 DEF Texto
    <3>2. PICK b : b = SubSeq(t, 1, j)
      OBVIOUS
    <3>3. b \in Texto
      BY <1>2, <3>2, SubSeqProperties DEF Texto
    <3>4. t[i] \in Byte
      BY <1>3
    <3>5. Anade(s, b, t[i])
      BY <3>3, <3>4, UneUnByte
    <3> QED
      BY <3>1, <3>2, <3>5 DEF Anade
  <2>4. CASE u[i] = Salto
    <3>1. f[i] = [hechas |-> Cerrada(f[j]), actual |-> <<>>] /\ t[i] = Salto
      BY <1>3, <2>2, <2>4 DEF Paso
    <3>2. h(i) = L \o Cerrada(f[j]) /\ x(i) = <<>>
      BY <3>1
    <3>3. Fiel(L \o Cerrada(f[j]), <<>>, p(j))
      BY <1>9, <2>2
    <3>4. h(i) \in Seq(Texto) /\ p(j) \in Texto
      BY <1>6
    <3> HIDE DEF h, x, p
    <3>5. Fiel(h(i), <<>>, Append(p(j), Salto))
      BY <3>2, <3>3, <3>4, FielSalto
    <3>6. Fiel(h(i), x(i), p(i))
      BY <2>3, <3>1, <3>2, <3>5
    <3> QED
      BY <3>6
  <2>5. CASE u[i] # Salto
    <3>1. f[i] = [hechas |-> f[j].hechas, actual |-> Append(f[j].actual, u[i])] /\ t[i] # Salto
      BY <1>3, <2>2, <2>5 DEF Paso
    <3>2. h(i) = h(j) /\ x(i) = Append(x(j), u[i])
      <4>1. PICK a, b, z : a = f[j].hechas /\ b = Append(f[j].actual, u[i]) /\ z = f[i]
        OBVIOUS
      <4>2. z = [hechas |-> a, actual |-> b]
        BY <3>1, <4>1
      <4>3. z.hechas = a /\ z.actual = b
        BY <4>2
      <4> QED
        BY <4>1, <4>3
    <3>3. h(j) \in Seq(Texto) /\ x(j) \in Texto /\ p(j) \in Texto
      BY <1>6
    <3>4. Igual(u[i], t[i]) /\ u[i] \in Byte /\ t[i] \in Byte
      BY <1>3
    <3> HIDE DEF h, x, p
    <3>5. Fiel(h(j), Append(x(j), u[i]), Append(p(j), t[i]))
      BY <2>2, <3>1, <3>3, <3>4, FielByte
    <3>6. Fiel(h(i), x(i), p(i))
      BY <2>3, <3>2, <3>5
    <3> QED
      BY <3>6
  <2> QED
    BY <2>4, <2>5
<1>11. Fiel(L \o Cerrada(f[n]), <<>>, p(n))
  <2>1. 0 .. n \subseteq T
    <3> HIDE DEF T
    <3> QED
      BY <1>8, <1>10, HastaN
  <2>2. n \in T
    <3> HIDE DEF T
    <3> QED
      BY <2>1
  <2>3. Fiel(h(n), x(n), p(n)) /\ n \in 0 .. n
    BY <2>2
  <2> HIDE DEF h, x, p
  <2> QED
    BY <1>9, <2>3
<1>12. p(n) = s \o t
  <2>1. SubSeq(t, 1, n) = t
    BY <1>2, PrefijoEs DEF Texto, SeParte
  <2> QED
    BY <2>1
<1>13. Cerrada(f[n]) \in Seq(Texto)
  <2>1. f[n] \in Cortado
    BY <1>5
  <2>2. f[n].hechas \in Seq(Texto) /\ f[n].actual \in Texto
    BY <2>1 DEF Cortado
  <2> QED
    BY <2>2 DEF Cerrada
<1> QED
  BY <1>1, <1>3, <1>4, <1>11, <1>12, <1>13

(* A line without breaks is its own text. *)
LEMMA SinLimpio ==
  ASSUME NEW x \in Texto, Salto \notin Range(x)
  PROVE  Sin(x) = x
<1>1. PICK n \in Nat : n = Len(x) /\ \A i \in 1 .. n : x[i] \in Byte /\ x[i] # Salto
  BY DEF Texto, Range
<1> DEFINE T == {i \in 0 .. n : Sin(SubSeq(x, 1, i)) = SubSeq(x, 1, i)}
<1>2. 0 \in T
  <2>1. SubSeq(x, 1, 0) = <<>> /\ <<>> \in Texto
    BY DEF Texto
  <2>2. Sin(<<>>) = <<>>
    BY <2>1, SinEs DEF BytesBien
  <2>3. Sin(SubSeq(x, 1, 0)) = SubSeq(x, 1, 0)
    BY <2>1, <2>2, Zenon
  <2>4. 0 \in 0 .. n
    OBVIOUS
  <2> QED
    BY <2>3, <2>4, Zenon
<1>3. ASSUME NEW i \in 1 .. n, i - 1 \in T
      PROVE  i \in T
  <2>1. PICK j \in 0 .. n : j = i - 1
    <3>1. i - 1 \in 0 .. n
      OBVIOUS
    <3> QED
      BY <3>1
  <2>2. PICK d : d = SubSeq(x, 1, j)
    OBVIOUS
  <2>3. d \in Texto /\ SubSeq(x, 1, i) = Append(d, x[i])
    BY <1>1, <2>1, <2>2, SubSeqProperties DEF Texto
  <2>4. Sin(d) = d
    BY <1>3, <2>1, <2>2
  <2>5. BytesBien(d)
    BY <2>3, SinEs
  <2>6. Sin(Append(d, x[i])) = Append(Sin(d), x[i])
    BY <1>1, <2>5 DEF BytesBien
  <2>7. Sin(SubSeq(x, 1, i)) = SubSeq(x, 1, i)
    BY <2>3, <2>4, <2>6, Zenon
  <2>8. i \in 0 .. n
    OBVIOUS
  <2> QED
    BY <2>7, <2>8, Zenon
<1>4. n \in T
  <2>1. 0 .. n \subseteq T
    <3> HIDE DEF T
    <3> QED
      BY <1>2, <1>3, HastaN
  <2> HIDE DEF T
  <2> QED
    BY <2>1
<1>5. SubSeq(x, 1, n) = x
  BY <1>1, PrefijoEs DEF Texto, SeParte
<1> QED
  BY <1>4, <1>5

-----------------------------------------------------------------------------
(* One direction of a channel: m was sent, L was read, and while the       *)
(* channel is connected (k) r is on its way.                               *)

(* What EnOrden says of the lines a side read and those the other sent. *)
Orden(L, m) ==
  /\ Len(Pegadas(L)) <= Len(Pegadas(m))
  /\ \A i \in DOMAIN Pegadas(L) :
       Pegadas(L)[i] = Pegadas(m)[i] \/ (Pegadas(L)[i] = "?" /\ Pegadas(m)[i] \in {"e1", "e2"})
  /\ Cortes(m) \cap (0 .. Len(Pegadas(L))) \subseteq {0} \cup Cortes(L)

(* The stream of the lines sent has their text and a break behind each. *)
MandadoSano(m) ==
  Sin(Flujo(m)) = Pegadas(m) /\ Cortes(m) \subseteq Saltos(Flujo(m))

Sentido(m, L, k, r) ==
  /\ m \in Seq(Texto) /\ L \in Seq(Texto)
  /\ MandadoSano(m)
  /\ Orden(L, m)
  /\ k => r \in Texto /\ \E s \in Texto : Fiel(L, <<>>, s) /\ s \o r = Flujo(m)

LEMMA SinNada ==
  ASSUME NEW a \in Texto
  PROVE  a \o <<>> = a /\ <<>> \o a = a
  BY DEF Texto

(* A direction that nobody used. *)
LEMMA SentidoNuevo == ASSUME NEW k \in BOOLEAN PROVE Sentido(<<>>, <<>>, k, <<>>)
<1>1. <<>> \in Seq(Texto) /\ <<>> \in Texto /\ <<>> \o <<>> = <<>>
  BY DEF Texto
<1>2. LineasBien(<<>>) /\ BytesBien(<<>>) /\ FlujoBien(<<>>)
  BY <1>1, PegadasEs, SinEs, FlujoEs
<1>3. /\ Pegadas(<<>>) = <<>> /\ Cortes(<<>>) = {} /\ Sin(<<>>) = <<>>
      /\ Saltos(<<>>) = {} /\ Flujo(<<>>) = <<>>
  BY <1>2 DEF LineasBien, BytesBien, FlujoBien
<1>4. MandadoSano(<<>>)
  BY <1>3 DEF MandadoSano
<1>5. Orden(<<>>, <<>>)
  BY <1>3 DEF Orden
<1> QED
  BY <1>1, <1>3, <1>4, <1>5, FielNada DEF Sentido

(* A true reader of a beginning of the stream has the lines in order. *)
LEMMA OrdenDeFiel ==
  ASSUME NEW m \in Seq(Texto), NEW L \in Seq(Texto), MandadoSano(m),
         NEW s \in Texto, NEW r \in Texto, Fiel(L, <<>>, s), s \o r = Flujo(m)
  PROVE  Orden(L, m)
<1>1. LineasBien(L) /\ LineasBien(m) /\ BytesBien(s) /\ BytesBien(r)
  BY PegadasEs, SinEs
<1>2. PICK w, v, y : w = Pegadas(L) /\ v = Sin(s) /\ y = Sin(r)
  OBVIOUS
<1>3. w \in Texto /\ v \in Texto /\ y \in Texto /\ Pegadas(m) = v \o y
  BY <1>1, <1>2 DEF LineasBien, BytesBien, MandadoSano
<1>4. Parecido(w, v)
  BY <1>2, <1>3, SinNada DEF Fiel
<1>5. PICK n \in Nat, o \in Nat : n = Len(v) /\ o = Len(y)
  BY <1>3 DEF Texto
<1>6. PICK z : z = Pegadas(m)
  OBVIOUS
<1>7. EsJunta(z, Byte, v, y)
  BY <1>3, <1>6, PrefijoEs DEF Texto
<1>8. Len(w) = n /\ Len(z) = n + o /\ \A i \in 1 .. n : z[i] = v[i] /\ Igual(w[i], v[i])
  BY <1>4, <1>5, <1>7 DEF Parecido, EsJunta
<1>9. Len(w) <= Len(z) /\ DOMAIN w = 1 .. n
  BY <1>3, <1>8 DEF Texto
<1>10. \A i \in DOMAIN w : w[i] = z[i] \/ (w[i] = "?" /\ z[i] \in {"e1", "e2"})
  BY <1>8, <1>9 DEF Igual
<1>11. ASSUME NEW q \in Cortes(m), q \in 0 .. n
       PROVE  q \in {0} \cup Cortes(L)
  <2>1. q \in Saltos(s \o r)
    BY DEF MandadoSano
  <2>2. q <= Len(Sin(s))
    BY <1>2, <1>5, <1>11
  <2>3. q \in Saltos(s) \cup {n}
    BY <1>1, <1>2, <1>5, <2>1, <2>2 DEF BytesBien
  <2>4. Saltos(s) \subseteq {0} \cup Cortes(L)
    BY DEF Fiel
  <2>5. n \in {0} \cup Cortes(L)
    BY <1>1, <1>2, <1>8 DEF LineasBien
  <2> QED
    BY <2>3, <2>4, <2>5
<1> QED
  BY <1>2, <1>6, <1>8, <1>9, <1>10, <1>11 DEF Orden

(* Another line is sent. *)
LEMMA SentidoManda ==
  ASSUME NEW m, NEW L, NEW k \in BOOLEAN, NEW r \in Texto, Sentido(m, L, k, r),
         NEW x \in Texto, Salto \notin Range(x)
  PROVE  Sentido(Append(m, x), L, k, r \o Append(x, Salto))
<1>1. m \in Seq(Texto) /\ L \in Seq(Texto) /\ MandadoSano(m) /\ Orden(L, m)
  BY DEF Sentido
<1>2. LineasBien(L) /\ LineasBien(m) /\ FlujoBien(m)
  BY <1>1, PegadasEs, FlujoEs
<1>3. PICK f, g, y, a : f = Flujo(m) /\ g = Pegadas(m) /\ y = Append(x, Salto) /\ a = Append(m, x)
  OBVIOUS
<1>4. f \in Texto /\ g \in Texto /\ y \in Texto /\ a \in Seq(Texto)
  BY <1>1, <1>2, <1>3, Funciones DEF FlujoBien, LineasBien, Texto
<1>5. Flujo(a) = f \o y /\ Pegadas(a) = g \o x /\ Cortes(a) = Cortes(m) \cup {Len(g) + Len(x)}
  BY <1>2, <1>3 DEF FlujoBien, LineasBien
<1>6. f \o x \in Texto /\ f \o y = Append(f \o x, Salto)
  <2>1. Salto \in Byte
    BY Funciones
  <2>2. Anade(f, x, Salto)
    BY <1>4, <2>1, UneUnByte
  <2>3. f \o x \in Texto
    BY <1>4, UneTexto
  <2> QED
    BY <1>3, <2>2, <2>3 DEF Anade
<1>7. Sin(x) = x
  BY SinLimpio
<1>8. BytesBien(f) /\ BytesBien(f \o x)
  BY <1>4, <1>6, SinEs
<1>9. Sin(f) = g /\ Sin(f \o x) = g \o x
  <2>1. Sin(f) = g
    BY <1>1, <1>3 DEF MandadoSano
  <2>2. Sin(f \o x) = Sin(f) \o Sin(x)
    BY <1>1, <1>8 DEF BytesBien
  <2> QED
    BY <1>7, <2>1, <2>2
<1>10. MandadoSano(a)
  <2>1. Sin(Flujo(a)) = g \o x /\ Saltos(Flujo(a)) = Saltos(f \o x) \cup {Len(g \o x)}
    BY <1>5, <1>6, <1>8, <1>9 DEF BytesBien
  <2>2. Len(g \o x) = Len(g) + Len(x)
    BY <1>4 DEF Texto
  <2>3. Cortes(m) \subseteq Saltos(f \o x)
    BY <1>1, <1>3, <1>8 DEF BytesBien, MandadoSano
  <2> QED
    BY <1>5, <2>1, <2>2, <2>3 DEF MandadoSano
<1>11. Orden(L, a)
  <2>1. PICK w, z : w = Pegadas(L) /\ z = Pegadas(a)
    OBVIOUS
  <2>2. w \in Texto /\ z = g \o x
    BY <1>2, <1>5, <2>1 DEF LineasBien
  <2>3. PICK n \in Nat, o \in Nat, l \in Nat : n = Len(g) /\ o = Len(x) /\ l = Len(w)
    BY <1>4, <2>2 DEF Texto
  <2>4. EsJunta(z, Byte, g, x)
    BY <1>4, <2>2, PrefijoEs DEF Texto
  <2>5. Len(z) = n + o /\ \A i \in 1 .. n : z[i] = g[i]
    BY <2>3, <2>4 DEF EsJunta
  <2>6. l <= n /\ DOMAIN w = 1 .. l
    BY <1>1, <1>3, <2>1, <2>2, <2>3 DEF Orden, Texto
  <2>7. \A i \in DOMAIN w : w[i] = g[i] \/ (w[i] = "?" /\ g[i] \in {"e1", "e2"})
    BY <1>1, <1>3, <2>1 DEF Orden
  <2>8. Len(w) <= Len(z) /\ \A i \in DOMAIN w : w[i] = z[i] \/ (w[i] = "?" /\ z[i] \in {"e1", "e2"})
    BY <2>3, <2>5, <2>6, <2>7
  <2>9. ASSUME NEW q \in Cortes(a), q \in 0 .. l
        PROVE  q \in {0} \cup Cortes(L)
    <3>1. CASE q \in Cortes(m)
      BY <1>1, <2>1, <2>3, <2>9, <3>1 DEF Orden
    <3>2. CASE q \notin Cortes(m)
      <4>1. q = n + o
        BY <1>5, <2>3, <2>9, <3>2
      <4>2. q = l
        BY <2>6, <2>9, <4>1
      <4>3. l \in {0} \cup Cortes(L)
        BY <1>2, <2>1, <2>3 DEF LineasBien
      <4> QED
        BY <4>2, <4>3
    <3> QED
      BY <3>1, <3>2
  <2> QED
    BY <2>1, <2>3, <2>8, <2>9 DEF Orden
<1>12. ASSUME k
       PROVE  r \o y \in Texto /\ \E s \in Texto : Fiel(L, <<>>, s) /\ s \o (r \o y) = Flujo(a)
  <2>1. PICK s \in Texto : Fiel(L, <<>>, s) /\ s \o r = f
    BY <1>3, <1>12 DEF Sentido
  <2>2. r \in Texto
    BY DEF Sentido
  <2>3. Asocian(s, r, y)
    BY <1>4, <2>2, AsociaTexto
  <2>4. s \o (r \o y) = (s \o r) \o y
    BY <2>3 DEF Asocian
  <2>5. r \o y \in Texto
    BY <1>4, <2>2, UneTexto
  <2> QED
    BY <1>5, <2>1, <2>4, <2>5
<1> QED
  BY <1>1, <1>3, <1>4, <1>10, <1>11, <1>12 DEF Sentido

(* The last lines are lost, and with them the channel. *)
LEMMA SentidoPierde ==
  ASSUME NEW m, NEW L \in Seq(Texto), NEW M \in Seq(Texto), NEW k, NEW r, NEW r1, Sentido(m, L \o M, k, r)
  PROVE  Sentido(m, L, FALSE, r1)
<1>1. m \in Seq(Texto) /\ MandadoSano(m) /\ Orden(L \o M, m)
  BY DEF Sentido
<1>2. LineasBien(L) /\ LineasBien(M)
  BY PegadasEs
<1>3. PICK w, v, z, g : w = Pegadas(L) /\ v = Pegadas(M) /\ z = Pegadas(L \o M) /\ g = Pegadas(m)
  OBVIOUS
<1>4. w \in Texto /\ v \in Texto /\ z = w \o v /\ LineasBien(m) /\ g \in Texto
  BY <1>1, <1>2, <1>3, PegadasEs DEF LineasBien
<1>5. PICK n \in Nat, o \in Nat, l \in Nat : n = Len(w) /\ o = Len(v) /\ l = Len(g)
  BY <1>4 DEF Texto
<1>6. EsJunta(z, Byte, w, v)
  BY <1>4, PrefijoEs DEF Texto
<1>7. Len(z) = n + o /\ DOMAIN z = 1 .. n + o /\ DOMAIN w = 1 .. n /\ \A i \in 1 .. n : z[i] = w[i]
  <2>1. z \in Seq(Byte) /\ w \in Seq(Byte) /\ Len(z) = n + o /\ \A i \in 1 .. n : z[i] = w[i]
    BY <1>4, <1>5, <1>6 DEF EsJunta, Texto
  <2> QED
    BY <1>5, <2>1
<1>8. n + o <= l /\ \A i \in 1 .. n + o : z[i] = g[i] \/ (z[i] = "?" /\ g[i] \in {"e1", "e2"})
  <2>1. Len(z) <= l /\ \A i \in DOMAIN z : z[i] = g[i] \/ (z[i] = "?" /\ g[i] \in {"e1", "e2"})
    BY <1>1, <1>3, <1>5 DEF Orden
  <2> QED
    BY <1>7, <2>1
<1>9. n <= l /\ \A i \in 1 .. n : w[i] = g[i] \/ (w[i] = "?" /\ g[i] \in {"e1", "e2"})
  <2>1. \A i \in 1 .. n : i \in 1 .. n + o
    OBVIOUS
  <2> QED
    BY <1>7, <1>8, <2>1
<1>10. ASSUME NEW q \in Cortes(m), q \in 0 .. n
       PROVE  q \in {0} \cup Cortes(L)
  <2>1. q \in 0 .. n + o
    BY <1>10
  <2>2. q \in {0} \cup Cortes(L \o M)
    BY <1>1, <1>3, <1>7, <2>1 DEF Orden
  <2>3. q \in Cortes(L \o M) => q \in Cortes(L) \cup {n}
    BY <1>2, <1>3, <1>5, <1>10 DEF LineasBien
  <2>4. n \in {0} \cup Cortes(L)
    BY <1>2, <1>3, <1>5 DEF LineasBien
  <2> QED
    BY <2>2, <2>3, <2>4
<1>11. Orden(L, m)
  BY <1>3, <1>5, <1>7, <1>9, <1>10 DEF Orden
<1> QED
  BY <1>1, <1>11 DEF Sentido

(* A chunk is read. *)
LEMMA SentidoLee ==
  ASSUME NEW m, NEW L, NEW t \in Texto, NEW r \in Texto, Sentido(m, L, TRUE, t \o r)
  PROVE  Sentido(m, L \o Lineas(from_utf8_lossy(t)), TRUE, r)
<1>1. m \in Seq(Texto) /\ L \in Seq(Texto) /\ MandadoSano(m)
  BY DEF Sentido
<1>2. PICK s \in Texto : Fiel(L, <<>>, s) /\ s \o (t \o r) = Flujo(m)
  BY DEF Sentido
<1>3. PICK M : M = Lineas(from_utf8_lossy(t))
  OBVIOUS
<1>4. M \in Seq(Texto) /\ Fiel(L \o M, <<>>, s \o t)
  BY <1>1, <1>2, <1>3, FielTrozo
<1>5. s \o t \in Texto /\ (s \o t) \o r = Flujo(m)
  <2>1. Asocian(s, t, r)
    BY <1>2, AsociaTexto
  <2>2. s \o t \in Texto
    BY <1>2, UneTexto
  <2> QED
    BY <1>2, <2>1, <2>2 DEF Asocian
<1>6. L \o M \in Seq(Texto)
  BY <1>1, <1>4
<1>7. Orden(L \o M, m)
  BY <1>1, <1>4, <1>5, <1>6, OrdenDeFiel
<1> QED
  BY <1>1, <1>3, <1>4, <1>5, <1>6, <1>7 DEF Sentido

-----------------------------------------------------------------------------
(* The texts that a list of lines holds for one side.                      *)

Entrantes == Seq(Puntas \X Texto)
GDe(p) == [t \in Puntas \X Texto |-> IF t[1] = p THEN <<t[2]>> ELSE <<>>]

DeBien(p, e) ==
  /\ De(p, e) \in Seq(Texto)
  /\ De(p, <<>>) = <<>>
  /\ \A b \in Entrantes : De(p, e \o b) = De(p, e) \o De(p, b)

LEMMA DeEs ==
  ASSUME NEW p \in Puntas, NEW e \in Entrantes
  PROVE  DeBien(p, e)
<1>1. GDe(p) \in [Puntas \X Texto -> Seq(Texto)]
  BY DEF GDe
<1>2. e \in Seq(Puntas \X Texto) /\ <<>> \in Seq(Puntas \X Texto)
  BY DEF Entrantes
<1>3. ASSUME NEW b \in Seq(Puntas \X Texto)
      PROVE  De(p, b) = AplanaCon(GDe(p), b)
  <2>1. \A i \in DOMAIN b : GDe(p)[b[i]] = IF b[i][1] = p THEN <<b[i][2]>> ELSE <<>>
    BY DEF GDe
  <2>2. [i \in DOMAIN b |-> GDe(p)[b[i]]] = [i \in DOMAIN b |-> IF b[i][1] = p THEN <<b[i][2]>> ELSE <<>>]
    BY <2>1
  <2> QED
    BY <2>2 DEF De, AplanaCon
<1>4. JuntaBien(GDe(p), Puntas \X Texto, Texto, e)
  BY <1>1, <1>2, AplanaConEs
<1>5. De(p, e) \in Seq(Texto) /\ De(p, <<>>) = <<>>
  BY <1>2, <1>3, <1>4 DEF JuntaBien
<1>6. ASSUME NEW b \in Entrantes
      PROVE  De(p, e \o b) = De(p, e) \o De(p, b)
  <2>1. b \in Seq(Puntas \X Texto) /\ e \o b \in Seq(Puntas \X Texto)
    BY <1>2 DEF Entrantes
  <2> QED
    BY <1>2, <1>3, <1>4, <2>1 DEF JuntaBien
<1> QED
  BY <1>5, <1>6 DEF DeBien

(* A list without lines of p. *)
LEMMA DeNada ==
  ASSUME NEW p \in Puntas, NEW e \in Entrantes, \A i \in DOMAIN e : e[i][1] # p
  PROVE  De(p, e) = <<>>
<1>1. PICK n \in Nat : n = Len(e) /\ DOMAIN e = 1 .. n
  BY DEF Entrantes
<1>2. PICK t : t = [i \in 1 .. n |-> <<>>]
  OBVIOUS
<1>3. t \in [1 .. n -> Seq(Texto)] /\ \A i \in 1 .. n : t[i] = <<>>
  BY <1>2
<1>4. [i \in DOMAIN e |-> IF e[i][1] = p THEN <<e[i][2]>> ELSE <<>>] = t
  <2>1. \A i \in 1 .. n : (IF e[i][1] = p THEN <<e[i][2]>> ELSE <<>>) = <<>>
    BY <1>1
  <2> QED
    BY <1>1, <1>2, <2>1
<1>5. PICK f : Aplana(f, Texto, n, t) /\ FlattenSeq(t) = f[n]
  BY <1>3, AplanaPasos
<1>6. f \in [0 .. n -> Seq(Texto)] /\ f[0] = <<>> /\ \A i \in 1 .. n : f[i] = f[i - 1] \o t[i]
  BY <1>5 DEF Aplana
<1> DEFINE T == {i \in 0 .. n : f[i] = <<>>}
<1>7. ASSUME NEW i \in 1 .. n, i - 1 \in T
      PROVE  i \in T
  <2>1. f[i] = f[i - 1] \o t[i] /\ f[i - 1] = <<>> /\ t[i] = <<>>
    BY <1>3, <1>6, <1>7
  <2>2. <<>> \o <<>> = <<>>
    OBVIOUS
  <2>3. f[i] = <<>>
    BY <2>1, <2>2, Zenon
  <2> QED
    BY <2>3
<1>8. n \in T
  <2>1. 0 \in T
    BY <1>6
  <2>2. 0 .. n \subseteq T
    <3> HIDE DEF T
    <3> QED
      BY <1>7, <2>1, HastaN
  <2> HIDE DEF T
  <2> QED
    BY <2>2
<1> QED
  BY <1>4, <1>5, <1>8 DEF De

(* A list of lines of p only. *)
SoloDe(p, ls, b) ==
  /\ b \in Entrantes /\ De(p, b) = ls
  /\ \A q \in Puntas : q # p => De(q, b) = <<>>

LEMMA DeTodas ==
  ASSUME NEW p \in Puntas, NEW ls \in Seq(Texto), NEW b, b = [i \in DOMAIN ls |-> <<p, ls[i]>>]
  PROVE  SoloDe(p, ls, b)
<1>1. PICK n \in Nat : n = Len(ls) /\ DOMAIN ls = 1 .. n /\ \A i \in 1 .. n : ls[i] \in Texto
  OBVIOUS
<1>2. DOMAIN b = 1 .. n /\ \A i \in 1 .. n : b[i] = <<p, ls[i]>> /\ b[i] \in Puntas \X Texto
  BY <1>1
<1>3. b \in Entrantes
  <2>1. b = [i \in 1 .. n |-> b[i]]
    BY <1>1, <1>2
  <2>2. b \in Seq(Puntas \X Texto)
    BY <1>2, <2>1
  <2> QED
    BY <2>2 DEF Entrantes
<1>4. ASSUME NEW q \in Puntas, q # p
      PROVE  De(q, b) = <<>>
  <2>1. \A i \in DOMAIN b : b[i][1] # q
    BY <1>2, <1>4
  <2> QED
    BY <1>3, <2>1, DeNada
<1>5. PICK t : t = [i \in 1 .. n |-> <<ls[i]>>]
  OBVIOUS
<1>6. t \in [1 .. n -> Seq(Texto)] /\ \A i \in 1 .. n : t[i] = <<ls[i]>>
  BY <1>1, <1>5
<1>7. [i \in DOMAIN b |-> IF b[i][1] = p THEN <<b[i][2]>> ELSE <<>>] = t
  <2>1. \A i \in 1 .. n : (IF b[i][1] = p THEN <<b[i][2]>> ELSE <<>>) = <<ls[i]>>
    BY <1>2
  <2> QED
    BY <1>2, <1>5, <2>1
<1>8. PICK f : Aplana(f, Texto, n, t) /\ FlattenSeq(t) = f[n]
  BY <1>6, AplanaPasos
<1>9. f \in [0 .. n -> Seq(Texto)] /\ f[0] = <<>> /\ \A i \in 1 .. n : f[i] = f[i - 1] \o t[i]
  BY <1>8 DEF Aplana
<1> DEFINE T == {i \in 0 .. n : f[i] = SubSeq(ls, 1, i)}
<1>10. ASSUME NEW i \in 1 .. n, i - 1 \in T
       PROVE  i \in T
  <2>1. PICK j \in 0 .. n : j = i - 1 /\ f[j] = SubSeq(ls, 1, j)
    <3>1. i - 1 \in 0 .. n /\ f[i - 1] = SubSeq(ls, 1, i - 1)
      BY <1>10
    <3> QED
      BY <3>1
  <2>2. f[i] = f[j] \o <<ls[i]>>
    BY <1>6, <1>9, <2>1
  <2>3. SubSeq(ls, 1, i) = SubSeq(ls, 1, j) \o <<ls[i]>>
    <3>1. SubSeq(ls, 1, i) = Append(SubSeq(ls, 1, j), ls[i])
      BY <1>1, <2>1
    <3>2. SubSeq(ls, 1, j) \in Seq(Texto) /\ ls[i] \in Texto
      BY <1>1, SubSeqProperties
    <3>3. \A a \in Seq(Texto) : \A x \in Texto : Append(a, x) = a \o <<x>>
      OBVIOUS
    <3> QED
      BY <3>1, <3>2, <3>3
  <2>4. f[i] = SubSeq(ls, 1, i)
    BY <2>1, <2>2, <2>3
  <2> QED
    BY <2>4
<1>11. n \in T
  <2>1. 0 \in T
    <3>1. SubSeq(ls, 1, 0) = <<>>
      OBVIOUS
    <3> QED
      BY <1>9, <3>1
  <2>2. 0 .. n \subseteq T
    <3> HIDE DEF T
    <3> QED
      BY <1>10, <2>1, HastaN
  <2> HIDE DEF T
  <2> QED
    BY <2>2
<1>12. SubSeq(ls, 1, n) = ls
  BY <1>1, PrefijoEs DEF SeParte
<1>13. De(p, b) = ls
  BY <1>7, <1>8, <1>11, <1>12 DEF De
<1> QED
  BY <1>3, <1>4, <1>13 DEF SoloDe

-----------------------------------------------------------------------------
(* The invariant.                                                          *)

EsPar(r) ==
  r = [vivo |-> r.vivo, chat_salidas |-> r.chat_salidas, chat_entrantes |-> r.chat_entrantes,
       llamada |-> r.llamada, bajados |-> r.bajados]

(* What a node holds names its own endpoint and channels that exist. *)
ParBien(n, r) ==
  /\ EsPar(r)
  /\ r.chat_salidas \in Seq(Puntas) /\ r.chat_entrantes \in Entrantes
  /\ r.vivo # Nada => r.vivo \in DOMAIN dueno
  /\ (r.llamada # <<>> /\ r.llamada[1] = "conectar") => r.vivo # Nada
  /\ \A i \in DOMAIN r.chat_salidas : r.chat_salidas[i][1] \in DOMAIN canales
  /\ \A i \in DOMAIN r.chat_entrantes :
       r.chat_entrantes[i][1][1] \in DOMAIN canales /\ NodoDe(r.chat_entrantes[i][1]) = n

Nodal == nodo = [n \in Nodos |-> nodo[n]] /\ \A n \in Nodos : ParBien(n, nodo[n])

Estados == {"vive", "no", "fin"}
Canal == [ends : [Lados -> Nat], conecta : BOOLEAN, aceptado : BOOLEAN,
          cola : [Lados -> Seq(Texto)], cable : [Lados -> Texto],
          escritor : [Lados -> Estados], lector : [Lados -> Estados]]

(* The ends of a channel are bound, and who reads it is connected. *)
CanalBien(c) ==
  /\ c \in Canal
  /\ \A l \in Lados : c.ends[l] \in DOMAIN dueno /\ (c.lector[l] = "vive" => c.conecta)

Casa ==
  /\ tope \in Topes
  /\ dueno \in Seq(Nodos)
  /\ abiertos \subseteq DOMAIN dueno
  /\ canales \in Seq(Canal) /\ Len(canales) <= TopeCanales
  /\ \A c \in DOMAIN canales : CanalBien(canales[c])
  /\ Nodal

(* What has come to a side, whether chat_leer gave it or not. *)
Total(p) == leido[p] \o De(p, nodo[NodoDe(p)].chat_entrantes)

(* What is on its way from a side. *)
Resto(canal, l) == canal.cable[l] \o Flujo(canal.cola[l])

Charla ==
  /\ mandado \in [Puntas -> Seq(Texto)]
  /\ leido \in [Puntas -> Seq(Texto)]
  /\ \A p \in Puntas : p[1] \notin DOMAIN canales => mandado[p] = <<>> /\ leido[p] = <<>>
  /\ \A c \in DOMAIN canales, l \in Lados :
       Sentido(mandado[<<c, l>>], Total(<<c, Otro(l)>>), canales[c].conecta, Resto(canales[c], l))

InvIroh == Casa /\ Charla

LEMMA LadosSon == \A l \in Lados : Otro(l) \in Lados /\ Otro(l) # l /\ Otro(Otro(l)) = l
  BY DEF Lados, Otro

LEMMA PuntasSon ==
  ASSUME SupuestoIroh, canales \in Seq(Canal), Len(canales) <= TopeCanales, NEW c \in DOMAIN canales, NEW l \in Lados
  PROVE  <<c, l>> \in Puntas /\ canales[c] \in Canal
  BY DEF Puntas, SupuestoIroh

-----------------------------------------------------------------------------
(* Endpoints and channels only come, and those that are keep their owner   *)
(* and their ends.                                                         *)
Crece ==
  /\ \A e \in DOMAIN dueno : e \in DOMAIN dueno' /\ dueno'[e] = dueno[e]
  /\ \A c \in DOMAIN canales : c \in DOMAIN canales' /\ canales'[c].ends = canales[c].ends

LEMMA NodoDeSigue ==
  ASSUME Casa, Crece, NEW p \in Puntas, p[1] \in DOMAIN canales
  PROVE  NodoDe(p)' = NodoDe(p) /\ NodoDe(p) \in Nodos
<1>1. CanalBien(canales[p[1]]) /\ p[2] \in Lados
  BY DEF Casa, Puntas
<1>2. canales[p[1]].ends[p[2]] \in DOMAIN dueno
  BY <1>1 DEF CanalBien
<1>3. NodoDe(p)' = dueno'[canales'[p[1]].ends[p[2]]]
  BY DEF NodoDe
<1>4. canales'[p[1]].ends = canales[p[1]].ends
  BY DEF Crece
<1> QED
  BY <1>2, <1>3, <1>4 DEF NodoDe, Casa, Crece

LEMMA ParSigue ==
  ASSUME Casa, Crece, NEW n \in Nodos, NEW r, ParBien(n, r)
  PROVE  ParBien(n, r)'
<1>1. /\ EsPar(r)
      /\ r.chat_salidas \in Seq(Puntas) /\ r.chat_entrantes \in Entrantes
      /\ (r.llamada # <<>> /\ r.llamada[1] = "conectar") => r.vivo # Nada
  BY DEF ParBien
<1>2. r.vivo # Nada => r.vivo \in DOMAIN dueno'
  BY DEF ParBien, Crece
<1>3. \A i \in DOMAIN r.chat_salidas : r.chat_salidas[i][1] \in DOMAIN canales'
  BY DEF ParBien, Crece
<1>4. ASSUME NEW i \in DOMAIN r.chat_entrantes
      PROVE  r.chat_entrantes[i][1][1] \in DOMAIN canales' /\ NodoDe(r.chat_entrantes[i][1])' = n
  <2>1. PICK p : p = r.chat_entrantes[i][1]
    OBVIOUS
  <2>2. p[1] \in DOMAIN canales /\ NodoDe(p) = n
    BY <2>1 DEF ParBien
  <2>3. p \in Puntas
    BY <1>1, <2>1 DEF Entrantes
  <2>4. NodoDe(p)' = n
    BY <2>2, <2>3, NodoDeSigue
  <2> QED
    BY <2>1, <2>2, <2>4 DEF Crece
<1> QED
  BY <1>1, <1>2, <1>3, <1>4 DEF ParBien

(* At most one node changes. *)
LEMMA UnNodo ==
  ASSUME Casa, Crece, NEW n \in Nodos, NEW r, nodo' = [nodo EXCEPT ![n] = r], ParBien(n, r)'
  PROVE  Nodal'
<1>1. nodo = [m \in Nodos |-> nodo[m]] /\ \A m \in Nodos : ParBien(m, nodo[m])
  BY DEF Casa, Nodal
<1>2. nodo' = [m \in Nodos |-> nodo'[m]] /\ nodo'[n] = r /\ \A m \in Nodos : m # n => nodo'[m] = nodo[m]
  BY <1>1
<1>3. ASSUME NEW m \in Nodos
      PROVE  ParBien(m, nodo[m])' \/ m = n
  <2>1. SUFFICES ASSUME m # n PROVE ParBien(m, nodo[m])'
    OBVIOUS
  <2>2. PICK q : q = nodo[m]
    OBVIOUS
  <2>3. ParBien(m, q)'
    BY <1>1, <2>2, ParSigue
  <2>4. nodo'[m] = q
    BY <1>2, <2>1, <2>2
  <2> QED
    BY <2>3, <2>4
<1>4. ParBien(n, nodo[n])'
  BY <1>2
<1> QED
  BY <1>2, <1>3, <1>4 DEF Nodal

LEMMA NodosIguales ==
  ASSUME Casa, Crece, nodo' = nodo
  PROVE  Nodal'
<1>1. nodo = [m \in Nodos |-> nodo[m]] /\ \A m \in Nodos : ParBien(m, nodo[m])
  BY DEF Casa, Nodal
<1>2. ASSUME NEW m \in Nodos
      PROVE  ParBien(m, nodo[m])'
  <2>1. PICK q : q = nodo[m]
    OBVIOUS
  <2>2. ParBien(m, q)'
    BY <1>1, <2>1, ParSigue
  <2> QED
    BY <2>1, <2>2
<1> QED
  BY <1>1, <1>2 DEF Nodal

(* Channels change but nothing comes and nothing is sent: a direction goes *)
(* on, or it is broken and its unread lines may be lost.                   *)
ApagaOSigue(c, l) ==
  LET p == <<c, Otro(l)>>
      antes == nodo[NodoDe(p)].chat_entrantes
      luego == nodo'[NodoDe(p)].chat_entrantes
  IN \/ /\ canales'[c].conecta = canales[c].conecta
        /\ Resto(canales'[c], l) = Resto(canales[c], l)
        /\ luego = antes
     \/ canales'[c].conecta = FALSE /\ luego \in {antes, <<>>}

LEMMA CharlaSigue ==
  ASSUME SupuestoIroh, Casa, Charla, Crece, DOMAIN canales' = DOMAIN canales,
         mandado' = mandado, leido' = leido,
         \A c \in DOMAIN canales, l \in Lados : ApagaOSigue(c, l)
  PROVE  Charla'
<1>1. ASSUME NEW c \in DOMAIN canales, NEW l \in Lados
      PROVE  Sentido(mandado[<<c, l>>], Total(<<c, Otro(l)>>), canales[c].conecta, Resto(canales[c], l))'
  <2>1. PICK p : p = <<c, Otro(l)>>
    OBVIOUS
  <2>2. PICK m, k, r, k1, r1 :
          /\ m = mandado[<<c, l>>] /\ k = canales[c].conecta /\ r = Resto(canales[c], l)
          /\ k1 = canales'[c].conecta /\ r1 = Resto(canales'[c], l)
    OBVIOUS
  <2>3. p \in Puntas /\ p[1] = c
    BY <2>1, LadosSon, PuntasSon DEF Casa
  <2>4. NodoDe(p)' = NodoDe(p) /\ NodoDe(p) \in Nodos
    BY <2>3, NodoDeSigue
  <2>5. PICK e, e1, L : /\ e = nodo[NodoDe(p)].chat_entrantes /\ e1 = nodo'[NodoDe(p)].chat_entrantes
                        /\ L = leido[p]
    OBVIOUS
  <2>6. L \in Seq(Texto) /\ e \in Entrantes
    BY <2>3, <2>4, <2>5 DEF Charla, Casa, Nodal, ParBien
  <2>7. DeBien(p, e)
    BY <2>3, <2>6, DeEs
  <2>8. De(p, e) \in Seq(Texto) /\ De(p, <<>>) = <<>>
    BY <2>7 DEF DeBien
  <2>9. Sentido(m, L \o De(p, e), k, r)
    BY <2>1, <2>2, <2>5 DEF Charla, Total
  <2>10. Total(p)' = L \o De(p, e1)
    BY <2>4, <2>5 DEF Total
  <2>11. \/ k1 = k /\ r1 = r /\ e1 = e
         \/ k1 = FALSE /\ e1 \in {e, <<>>}
    BY <2>1, <2>2, <2>5 DEF ApagaOSigue
  <2>12. Sentido(m, L \o De(p, e1), k1, r1)
    <3>1. CASE k1 = k /\ r1 = r /\ e1 = e
      BY <2>9, <3>1
    <3>2. CASE k1 = FALSE /\ e1 = e
      <4>1. PICK M : M = L \o De(p, e)
        OBVIOUS
      <4>2. M \in Seq(Texto) /\ M \o <<>> = M /\ <<>> \in Seq(Texto)
        BY <2>6, <2>8, <4>1
      <4>3. Sentido(m, M \o <<>>, k, r)
        BY <2>9, <4>1, <4>2
      <4>4. Sentido(m, M, FALSE, r1)
        BY <4>2, <4>3, SentidoPierde
      <4> QED
        BY <3>2, <4>1, <4>4
    <3>3. CASE k1 = FALSE /\ e1 = <<>>
      <4>1. Sentido(m, L, FALSE, r1)
        BY <2>6, <2>8, <2>9, SentidoPierde
      <4>2. L \o De(p, e1) = L
        BY <2>6, <2>8, <3>3
      <4> QED
        BY <3>3, <4>1, <4>2
    <3> QED
      BY <2>11, <3>1, <3>2, <3>3
  <2> QED
    BY <2>1, <2>2, <2>10, <2>12
<1>2. \A p \in Puntas : p[1] \notin DOMAIN canales' => mandado'[p] = <<>> /\ leido'[p] = <<>>
  BY DEF Charla
<1>3. mandado' \in [Puntas -> Seq(Texto)] /\ leido' \in [Puntas -> Seq(Texto)]
  BY DEF Charla
<1> QED
  BY <1>1, <1>2, <1>3 DEF Charla

-----------------------------------------------------------------------------
(* Steps that change one node and leave the channels alone.                *)

(* The new node keeps the lines it holds, and its senders or none. *)
Cambia(n, r) ==
  /\ EsPar(r)
  /\ r.chat_entrantes = nodo[n].chat_entrantes
  /\ r.chat_salidas \in {nodo[n].chat_salidas, <<>>}
  /\ r.vivo # Nada => r.vivo \in DOMAIN dueno'
  /\ (r.llamada # <<>> /\ r.llamada[1] = "conectar") => r.vivo # Nada

LEMMA CambiaBien ==
  ASSUME Casa, Crece, NEW n \in Nodos, NEW r, Cambia(n, r)
  PROVE  ParBien(n, r)'
<1>1. PICK q : q = nodo[n]
  OBVIOUS
<1>2. ParBien(n, q)'
  BY <1>1, ParSigue DEF Casa, Nodal
<1>3. r.chat_entrantes = q.chat_entrantes /\ r.chat_salidas \in {q.chat_salidas, <<>>}
  BY <1>1 DEF Cambia
<1>4. q.chat_salidas \in Seq(Puntas) /\ q.chat_entrantes \in Entrantes
  BY <1>2 DEF ParBien
<1>5. \A i \in DOMAIN q.chat_salidas : q.chat_salidas[i][1] \in DOMAIN canales'
  BY <1>2 DEF ParBien
<1>6. \A i \in DOMAIN q.chat_entrantes :
        q.chat_entrantes[i][1][1] \in DOMAIN canales' /\ NodoDe(q.chat_entrantes[i][1])' = n
  BY <1>2 DEF ParBien
<1>7. <<>> \in Seq(Puntas) /\ DOMAIN <<>> = {}
  OBVIOUS
<1>8. r.chat_salidas \in Seq(Puntas) /\ \A i \in DOMAIN r.chat_salidas : r.chat_salidas[i][1] \in DOMAIN canales'
  <2>1. CASE r.chat_salidas = q.chat_salidas
    BY <1>4, <1>5, <2>1
  <2>2. CASE r.chat_salidas = <<>>
    BY <1>7, <2>2
  <2> QED
    BY <1>3, <2>1, <2>2
<1> QED
  BY <1>3, <1>4, <1>6, <1>8 DEF Cambia, ParBien

LEMMA CanalSigue ==
  ASSUME Crece, NEW c, CanalBien(c)
  PROVE  CanalBien(c)'
  BY DEF Crece, CanalBien

LEMMA SoloNodo ==
  ASSUME SupuestoIroh, InvIroh, Crece, tope' = tope, canales' = canales, mandado' = mandado, leido' = leido,
         dueno' \in Seq(Nodos), abiertos' \subseteq DOMAIN dueno',
         NEW n \in Nodos, NEW r, nodo' = [nodo EXCEPT ![n] = r], Cambia(n, r)
  PROVE  InvIroh'
<1>1. Casa /\ Charla
  BY DEF InvIroh
<1>2. ParBien(n, r)'
  BY <1>1, CambiaBien
<1>3. Nodal'
  BY <1>1, <1>2, UnNodo
<1>4. (\A c \in DOMAIN canales : CanalBien(canales[c]))'
  <2>1. ASSUME NEW c \in DOMAIN canales
        PROVE  CanalBien(canales[c])'
    <3>1. PICK q : q = canales[c] /\ CanalBien(q)
      BY <1>1 DEF Casa
    <3>2. CanalBien(q)'
      BY <3>1, CanalSigue
    <3> QED
      BY <3>1, <3>2
  <2> QED
    BY <2>1
<1>5. Casa'
  BY <1>1, <1>3, <1>4 DEF Casa
<1>6. \A m : nodo'[m].chat_entrantes = nodo[m].chat_entrantes \/ m \notin Nodos
  BY <1>1 DEF Cambia, Casa, Nodal
<1>7. ASSUME NEW c \in DOMAIN canales, NEW l \in Lados
      PROVE  ApagaOSigue(c, l)
  <2>1. PICK p : p = <<c, Otro(l)>>
    OBVIOUS
  <2>2. p \in Puntas /\ p[1] = c
    BY <1>1, <2>1, LadosSon, PuntasSon DEF Casa
  <2>3. NodoDe(p) \in Nodos
    BY <1>1, <2>2, NodoDeSigue
  <2> QED
    BY <1>6, <2>1, <2>3 DEF ApagaOSigue
<1>8. Charla'
  BY <1>1, <1>7, CharlaSigue
<1> QED
  BY <1>5, <1>8 DEF InvIroh

LEMMA NadaCrece ==
  ASSUME dueno' = dueno, canales' = canales
  PROVE  Crece
  BY DEF Crece

(* A node with another call, another endpoint or other files. *)
Par(v, s, e, l, b) ==
  [vivo |-> v, chat_salidas |-> s, chat_entrantes |-> e, llamada |-> l, bajados |-> b]

LEMMA ParParado ==
  ASSUME NEW q, EsPar(q), NEW w
  PROVE  [q EXCEPT !.llamada = w, !.vivo = Nada] = Par(Nada, q.chat_salidas, q.chat_entrantes, w, q.bajados)
<1>1. PICK a, b, c, d, e : q = [vivo |-> a, chat_salidas |-> b, chat_entrantes |-> c, llamada |-> d, bajados |-> e]
  BY DEF EsPar
<1>2. PICK x : x = [q EXCEPT !.llamada = w]
  OBVIOUS
<1>3. x = [vivo |-> a, chat_salidas |-> b, chat_entrantes |-> c, llamada |-> w, bajados |-> e]
  BY <1>1, <1>2
<1>4. [x EXCEPT !.vivo = Nada] = [vivo |-> Nada, chat_salidas |-> b, chat_entrantes |-> c, llamada |-> w, bajados |-> e]
  BY <1>3
<1>5. [q EXCEPT !.llamada = w, !.vivo = Nada] = [x EXCEPT !.vivo = Nada]
  BY <1>2, Zenon
<1> QED
  BY <1>1, <1>4, <1>5 DEF Par

LEMMA ParCon ==
  ASSUME NEW q, EsPar(q), NEW w
  PROVE  /\ [q EXCEPT !.chat_salidas = w] = Par(q.vivo, w, q.chat_entrantes, q.llamada, q.bajados)
         /\ [q EXCEPT !.llamada = w] = Par(q.vivo, q.chat_salidas, q.chat_entrantes, w, q.bajados)
<1>1. PICK a, b, c, d, e : q = [vivo |-> a, chat_salidas |-> b, chat_entrantes |-> c, llamada |-> d, bajados |-> e]
  BY DEF EsPar
<1>2. [q EXCEPT !.chat_salidas = w] = [vivo |-> a, chat_salidas |-> w, chat_entrantes |-> c, llamada |-> d, bajados |-> e]
  BY <1>1
<1>3. [q EXCEPT !.llamada = w] = [vivo |-> a, chat_salidas |-> b, chat_entrantes |-> c, llamada |-> w, bajados |-> e]
  BY <1>1
<1>4. q.vivo = a /\ q.chat_salidas = b /\ q.chat_entrantes = c /\ q.llamada = d /\ q.bajados = e
  BY <1>1
<1> QED
  BY <1>2, <1>3, <1>4 DEF Par

LEMMA ParBaja ==
  ASSUME NEW v, NEW s, NEW e, NEW l, NEW b, NEW w
  PROVE  [Par(v, s, e, l, b) EXCEPT !.bajados = w] = Par(v, s, e, l, w)
  BY DEF Par

(* What every node of an invariant state is. *)
LEMMA ParDe ==
  ASSUME Casa, NEW n \in Nodos
  PROVE  /\ nodo = [m \in Nodos |-> nodo[m]]
         /\ EsPar(nodo[n]) /\ ParBien(n, nodo[n])
  BY DEF Casa, Nodal, ParBien

-----------------------------------------------------------------------------
(* Steps that change the channels there are.                               *)

Enlace(e, k, a, q, w, s, r) ==
  [ends |-> e, conecta |-> k, aceptado |-> a, cola |-> q, cable |-> w, escritor |-> s, lector |-> r]

LEMMA EnlaceDe ==
  ASSUME NEW x \in Canal
  PROVE  x = Enlace(x.ends, x.conecta, x.aceptado, x.cola, x.cable, x.escritor, x.lector)
  BY DEF Canal, Enlace

LEMMA RotoEs ==
  ASSUME NEW x \in Canal
  PROVE  Roto(x) = Enlace(x.ends, FALSE, x.aceptado, x.cola, <<<<>>, <<>>>>, x.escritor, <<"fin", "fin">>)
<1>1. PICK e, k, a, q, w, s, r : x = Enlace(e, k, a, q, w, s, r)
  BY EnlaceDe
<1>2. PICK v, g : v = <<<<>>, <<>>>> /\ g = <<"fin", "fin">>
  OBVIOUS
<1>3. PICK y : y = [x EXCEPT !.conecta = FALSE]
  OBVIOUS
<1>4. y = Enlace(e, FALSE, a, q, w, s, r)
  BY <1>1, <1>3 DEF Enlace
<1>5. PICK z : z = [y EXCEPT !.cable = v]
  OBVIOUS
<1>6. z = Enlace(e, FALSE, a, q, v, s, r)
  BY <1>4, <1>5 DEF Enlace
<1>7. [z EXCEPT !.lector = g] = Enlace(e, FALSE, a, q, v, s, g)
  <2>1. z = [ends |-> e, conecta |-> FALSE, aceptado |-> a, cola |-> q, cable |-> v, escritor |-> s, lector |-> r]
    BY <1>6 DEF Enlace
  <2>2. PICK u : u = [z EXCEPT !.lector = g]
    OBVIOUS
  <2>3. u = [ends |-> e, conecta |-> FALSE, aceptado |-> a, cola |-> q, cable |-> v, escritor |-> s, lector |-> g]
    BY ONLY <2>1, <2>2
  <2> QED
    BY <2>2, <2>3 DEF Enlace
<1>8. [x EXCEPT !.conecta = FALSE, !.cable = v, !.lector = g] = [z EXCEPT !.lector = g]
  BY <1>3, <1>5, Zenon
<1>9. Roto(x) = Enlace(e, FALSE, a, q, v, s, g)
  BY <1>2, <1>7, <1>8 DEF Roto
<1>10. x.ends = e /\ x.aceptado = a /\ x.cola = q /\ x.escritor = s
  BY <1>1 DEF Enlace
<1> QED
  BY <1>2, <1>9, <1>10

(* A broken channel is one, with the same ends. *)
EsRoto(y, x) == CanalBien(y) /\ y.ends = x.ends /\ y.conecta = FALSE

LEMMA RotoBien ==
  ASSUME NEW x, CanalBien(x), NEW s \in [Lados -> Estados]
  PROVE  EsRoto(Roto(x), x) /\ EsRoto([Roto(x) EXCEPT !.escritor = s], x)
<1>1. x \in Canal /\ \A l \in Lados : x.ends[l] \in DOMAIN dueno
  BY DEF CanalBien
<1>2. PICK v, g : v = <<<<>>, <<>>>> /\ g = <<"fin", "fin">>
  OBVIOUS
<1>3. v \in [Lados -> Texto] /\ g \in [Lados -> Estados] /\ \A l \in Lados : g[l] # "vive"
  <2>1. PICK o \in STRING \cup Estados : o = "fin" /\ o \in Estados /\ o # "vive"
    BY DEF Estados
  <2>2. g = <<o, o>>
    BY <1>2, <2>1
  <2>3. ASSUME NEW l \in 1 .. 2
        PROVE  g[l] = o
    <3>1. l = 1 \/ l = 2
      OBVIOUS
    <3>2. g[1] = o /\ g[2] = o
      BY ONLY <2>2
    <3> QED
      BY <3>1, <3>2
  <2>4. g \in [1 .. 2 -> Estados]
    BY <2>1, <2>2, <2>3
  <2>5. v \in [1 .. 2 -> Texto]
    <3>1. <<>> \in Texto
      BY DEF Texto
    <3>2. PICK t \in Texto : t = <<>>
      BY <3>1
    <3> QED
      BY <1>2, <3>2
  <2> QED
    BY <2>1, <2>3, <2>4, <2>5 DEF Lados
<1>4. PICK y : y = Roto(x)
  OBVIOUS
<1>5. y = Enlace(x.ends, FALSE, x.aceptado, x.cola, v, x.escritor, g)
  BY <1>1, <1>2, <1>4, RotoEs
<1>6. y \in Canal /\ y.ends = x.ends /\ y.conecta = FALSE /\ y.lector = g
  BY <1>1, <1>3, <1>5 DEF Enlace, Canal
<1>7. EsRoto(y, x)
  BY <1>1, <1>3, <1>6 DEF EsRoto, CanalBien
<1>8. PICK z : z = [y EXCEPT !.escritor = s]
  OBVIOUS
<1>9. z = Enlace(x.ends, FALSE, x.aceptado, x.cola, v, s, g)
  BY <1>5, <1>8 DEF Enlace
<1>10. z \in Canal /\ z.ends = x.ends /\ z.conecta = FALSE /\ z.lector = g
  BY <1>1, <1>3, <1>9 DEF Enlace, Canal
<1>11. EsRoto(z, x)
  BY <1>1, <1>3, <1>10 DEF EsRoto, CanalBien
<1> QED
  BY <1>4, <1>7, <1>8, <1>11

(* What the new channels must be. *)
CanalesBien ==
  /\ canales' \in Seq(Canal) /\ DOMAIN canales' = DOMAIN canales
  /\ \A c \in DOMAIN canales : CanalBien(canales'[c]) /\ canales'[c].ends = canales[c].ends

LEMMA CanalesCrecen ==
  ASSUME dueno' = dueno, CanalesBien
  PROVE  Crece
  BY DEF Crece, CanalesBien

LEMMA CasaSigue ==
  ASSUME Casa, tope' = tope, dueno' = dueno, abiertos' \subseteq abiertos, CanalesBien, Nodal'
  PROVE  Casa'
<1>1. (\A c \in DOMAIN canales : CanalBien(canales[c]))'
  <2>1. ASSUME NEW c \in DOMAIN canales
        PROVE  CanalBien(canales[c])'
    <3>1. PICK q : q = canales'[c] /\ CanalBien(q)
      BY DEF CanalesBien
    <3>2. CanalBien(q)'
      BY <3>1, CanalSigue, CanalesCrecen
    <3> QED
      BY <3>1, <3>2
  <2> QED
    BY <2>1 DEF CanalesBien
<1>2. Len(canales') <= TopeCanales
  <2>1. Len(canales') = Len(canales)
    BY DEF CanalesBien, Casa
  <2> QED
    BY <2>1 DEF Casa
<1> QED
  BY <1>1, <1>2 DEF Casa, CanalesBien

LEMMA SoloCanales ==
  ASSUME SupuestoIroh, InvIroh, tope' = tope, dueno' = dueno, abiertos' \subseteq abiertos,
         mandado' = mandado, leido' = leido, CanalesBien, Nodal',
         \A c \in DOMAIN canales, l \in Lados : ApagaOSigue(c, l)
  PROVE  InvIroh'
<1>1. Casa /\ Charla
  BY DEF InvIroh
<1>2. Crece
  BY CanalesCrecen
<1>3. Casa'
  BY <1>1, CasaSigue
<1>4. DOMAIN canales' = DOMAIN canales
  BY DEF CanalesBien
<1>5. Charla'
  BY <1>1, <1>2, <1>4, CharlaSigue
<1> QED
  BY <1>3, <1>5 DEF InvIroh

LEMMA InvFinStop ==
  ASSUME SupuestoIroh, InvIroh, NEW n \in Nodos, FinStop(n)
  PROVE  InvIroh'
<1>1. Casa
  BY DEF InvIroh
<1>2. PICK e : Cierra(e) /\ nodo' = Vuelve(n)
  BY DEF FinStop
<1>3. PICK q : q = nodo[n] /\ EsPar(q) /\ ParBien(n, q) /\ nodo = [m \in Nodos |-> nodo[m]]
  BY <1>1, ParDe
<1>4. ASSUME NEW c \in DOMAIN canales
      PROVE  /\ CanalBien(canales'[c]) /\ canales'[c].ends = canales[c].ends
             /\ canales'[c] = canales[c] \/ canales'[c].conecta = FALSE
  <2>1. CanalBien(canales[c])
    BY <1>1 DEF Casa
  <2>2. canales[c].escritor \in [Lados -> Estados]
    BY <2>1 DEF CanalBien, Canal
  <2>3. EsRoto(Roto(canales[c]), canales[c])
    BY <2>1, <2>2, RotoBien
  <2>4. canales'[c] = canales[c] \/ canales'[c] = Roto(canales[c])
    BY <1>2 DEF Cierra
  <2> QED
    BY <2>1, <2>3, <2>4 DEF EsRoto
<1>5. CanalesBien
  <2>1. PICK k \in Nat : DOMAIN canales = 1 .. k
    BY <1>1 DEF Casa
  <2>2. DOMAIN canales' = 1 .. k /\ canales' = [c \in 1 .. k |-> canales'[c]]
    BY <1>2, <2>1 DEF Cierra
  <2>3. \A c \in 1 .. k : canales'[c] \in Canal
    BY <1>4, <2>1 DEF CanalBien
  <2>4. canales' \in Seq(Canal)
    BY <2>2, <2>3
  <2> QED
    BY <1>4, <2>1, <2>2, <2>4 DEF CanalesBien
<1>6. dueno' = dueno /\ tope' = tope /\ mandado' = mandado /\ leido' = leido
  BY DEF FinStop
<1>7. Crece
  BY <1>5, <1>6, CanalesCrecen
<1>8. PICK r : r = Par(q.vivo, q.chat_salidas, q.chat_entrantes, <<>>, q.bajados)
  OBVIOUS
<1>9. EsPar(r) /\ r.vivo = q.vivo /\ r.chat_salidas = q.chat_salidas /\ r.llamada = <<>>
      /\ r.chat_entrantes = q.chat_entrantes
  BY <1>8 DEF Par, EsPar
<1>10. nodo' = [nodo EXCEPT ![n] = r]
  <2>1. r = [q EXCEPT !.llamada = <<>>]
    BY <1>3, <1>8 DEF EsPar, Par
  <2> QED
    BY <1>2, <1>3, <2>1 DEF Vuelve
<1>11. Cambia(n, r)
  BY <1>3, <1>6, <1>9 DEF Cambia, ParBien
<1>12. ParBien(n, r)'
  BY <1>1, <1>7, <1>11, CambiaBien
<1>13. Nodal'
  BY <1>1, <1>7, <1>10, <1>12, UnNodo
<1>14. \A m \in Nodos : nodo'[m].chat_entrantes = nodo[m].chat_entrantes
  BY <1>3, <1>9, <1>10
<1>15. ASSUME NEW c \in DOMAIN canales, NEW l \in Lados
       PROVE  ApagaOSigue(c, l)
  <2>1. PICK p : p = <<c, Otro(l)>>
    OBVIOUS
  <2>2. p \in Puntas /\ p[1] = c
    BY <1>1, <2>1, LadosSon, PuntasSon DEF Casa
  <2>3. NodoDe(p) \in Nodos
    BY <1>1, <1>7, <2>2, NodoDeSigue
  <2> QED
    BY <1>4, <1>14, <2>1, <2>3 DEF ApagaOSigue
<1>16. abiertos' \subseteq abiertos
  BY <1>2 DEF Cierra
<1> QED
  BY <1>5, <1>6, <1>13, <1>15, <1>16, SoloCanales

LEMMA InvSuelta ==
  ASSUME SupuestoIroh, InvIroh, NEW n \in Nodos, Suelta(n)
  PROVE  InvIroh'
<1>1. Casa
  BY DEF InvIroh
<1> DEFINE mio(c, l) == dueno[canales[c].ends[l]] = n
           s(c) == [l \in Lados |-> IF mio(c, l) THEN "fin" ELSE Roto(canales[c]).escritor[l]]
<1>2. /\ canales' = [c \in DOMAIN canales |->
             IF ~mio(c, 1) /\ ~mio(c, 2) THEN canales[c]
             ELSE [Roto(canales[c]) EXCEPT !.escritor = s(c)]]
      /\ nodo' = [nodo EXCEPT ![n] = NodoNuevo] /\ abiertos' \subseteq abiertos
  BY DEF Suelta
<1>3. nodo = [m \in Nodos |-> nodo[m]]
  BY <1>1, ParDe
<1>4. ASSUME NEW c \in DOMAIN canales
      PROVE  /\ CanalBien(canales'[c]) /\ canales'[c].ends = canales[c].ends
             /\ (canales'[c] = canales[c] /\ \A l \in Lados : ~mio(c, l)) \/ canales'[c].conecta = FALSE
  <2>1. PICK x : x = canales[c] /\ CanalBien(x)
    BY <1>1 DEF Casa
  <2>2. x.escritor \in [Lados -> Estados]
    BY <2>1 DEF CanalBien, Canal
  <2>3. EsRoto(Roto(x), x)
    BY <2>1, <2>2, RotoBien
  <2>4. Roto(x).escritor \in [Lados -> Estados]
    BY <2>3 DEF EsRoto, CanalBien, Canal
  <2>5. PICK t : t = s(c)
    OBVIOUS
  <2>6. t \in [Lados -> Estados]
    BY <2>1, <2>4, <2>5 DEF Estados
  <2>7. EsRoto([Roto(x) EXCEPT !.escritor = t], x)
    BY <2>1, <2>6, RotoBien
  <2>8. \/ canales'[c] = x /\ ~mio(c, 1) /\ ~mio(c, 2)
        \/ canales'[c] = [Roto(x) EXCEPT !.escritor = t]
    BY <1>2, <2>1, <2>5
  <2>9. (~mio(c, 1) /\ ~mio(c, 2)) => \A l \in Lados : ~mio(c, l)
    BY DEF Lados
  <2> QED
    BY <2>1, <2>7, <2>8, <2>9 DEF EsRoto
<1>5. CanalesBien
  <2>1. PICK k \in Nat : DOMAIN canales = 1 .. k
    BY <1>1 DEF Casa
  <2>2. DOMAIN canales' = 1 .. k /\ canales' = [c \in 1 .. k |-> canales'[c]]
    <3> HIDE DEF mio, s
    <3> QED
      BY <1>2, <2>1
  <2>3. \A c \in 1 .. k : canales'[c] \in Canal
    BY <1>4, <2>1 DEF CanalBien
  <2>4. canales' \in Seq(Canal)
    BY <2>2, <2>3
  <2> QED
    BY <1>4, <2>1, <2>2, <2>4 DEF CanalesBien
<1>6. dueno' = dueno /\ tope' = tope /\ mandado' = mandado /\ leido' = leido
  BY DEF Suelta
<1>7. Crece
  BY <1>5, <1>6, CanalesCrecen
<1>8. PICK r : r = NodoNuevo
  OBVIOUS
<1>9. ParBien(n, r)'
  <2>1. r = [vivo |-> Nada, chat_salidas |-> <<>>, chat_entrantes |-> <<>>, llamada |-> <<>>, bajados |-> {}]
    BY <1>8 DEF NodoNuevo
  <2>2. EsPar(r) /\ r.vivo = Nada /\ r.chat_salidas = <<>> /\ r.chat_entrantes = <<>> /\ r.llamada = <<>>
    BY <2>1 DEF EsPar
  <2>3. <<>> \in Seq(Puntas) /\ <<>> \in Entrantes /\ DOMAIN <<>> = {}
    BY DEF Entrantes
  <2> QED
    BY <2>2, <2>3 DEF ParBien
<1>10. Nodal'
  BY <1>1, <1>2, <1>7, <1>8, <1>9, UnNodo
<1>11. \A m \in Nodos : nodo'[m].chat_entrantes = nodo[m].chat_entrantes \/ (m = n /\ nodo'[m].chat_entrantes = <<>>)
  BY <1>2, <1>3 DEF NodoNuevo
<1>12. ASSUME NEW c \in DOMAIN canales, NEW l \in Lados
       PROVE  ApagaOSigue(c, l)
  <2>1. PICK p : p = <<c, Otro(l)>>
    OBVIOUS
  <2>2. p \in Puntas /\ p[1] = c /\ p[2] = Otro(l) /\ Otro(l) \in Lados
    BY <1>1, <2>1, LadosSon, PuntasSon DEF Casa
  <2>3. NodoDe(p) \in Nodos
    BY <1>1, <1>7, <2>2, NodoDeSigue
  <2>4. NodoDe(p) = n <=> mio(c, Otro(l))
    BY <2>2 DEF NodoDe
  <2>5. CASE canales'[c].conecta = FALSE
    BY <1>11, <2>1, <2>3, <2>5 DEF ApagaOSigue
  <2>6. CASE canales'[c] = canales[c] /\ NodoDe(p) # n
    BY <1>11, <2>1, <2>3, <2>6 DEF ApagaOSigue
  <2> QED
    BY <1>4, <2>2, <2>4, <2>5, <2>6
<1> QED
  BY <1>2, <1>5, <1>6, <1>10, <1>12, SoloCanales

-----------------------------------------------------------------------------
(* One channel of the sequence with another value.                         *)

Con(z, D, c, x) == [d \in D |-> IF d = c THEN x ELSE z[d]]
Cambiada(q, l, v) == [q EXCEPT ![l] = v]
PonCola(y, c, l, v) == [y EXCEPT ![c].cola[l] = v]
PonCable(y, c, l, v) == [y EXCEPT ![c].cable[l] = v]
PonEscritor(y, c, l, v) == [y EXCEPT ![c].escritor[l] = v]
PonLector(y, c, l, v) == [y EXCEPT ![c].lector[l] = v]
PonAceptado(y, c, v) == [y EXCEPT ![c].aceptado = v]

LEMMA ConCola ==
  ASSUME NEW D, NEW c \in D, NEW z, NEW e, NEW k, NEW a, NEW q, NEW w, NEW s, NEW r, NEW l, NEW v, NEW u,
         NEW y, y = Con(z, D, c, Enlace(e, k, a, q, w, s, r)), u = Cambiada(q, l, v)
  PROVE  PonCola(y, c, l, v) = Con(z, D, c, Enlace(e, k, a, u, w, s, r))
<1>1. PICK x : x = y[c]
  OBVIOUS
<1>2. x = Enlace(e, k, a, q, w, s, r)
  BY <1>1 DEF Con
<1>4. PICK t : t = [x EXCEPT !.cola = u]
  OBVIOUS
<1>5. t = Enlace(e, k, a, u, w, s, r) /\ x.cola = q
  BY <1>2, <1>4 DEF Enlace
<1>6. [y EXCEPT ![c].cola[l] = v] = [y EXCEPT ![c] = t]
  BY <1>1, <1>4, <1>5 DEF Cambiada
<1>7. [y EXCEPT ![c] = t] = Con(z, D, c, t)
  BY <1>2 DEF Con
<1> QED
  BY <1>5, <1>6, <1>7 DEF PonCola, Cambiada

LEMMA ConCable ==
  ASSUME NEW D, NEW c \in D, NEW z, NEW e, NEW k, NEW a, NEW q, NEW w, NEW s, NEW r, NEW l, NEW v, NEW u,
         NEW y, y = Con(z, D, c, Enlace(e, k, a, q, w, s, r)), u = Cambiada(w, l, v)
  PROVE  PonCable(y, c, l, v) = Con(z, D, c, Enlace(e, k, a, q, u, s, r))
<1>1. PICK x : x = y[c]
  OBVIOUS
<1>2. x = Enlace(e, k, a, q, w, s, r)
  BY <1>1 DEF Con
<1>4. PICK t : t = [x EXCEPT !.cable = u]
  OBVIOUS
<1>5. t = Enlace(e, k, a, q, u, s, r) /\ x.cable = w
  BY <1>2, <1>4 DEF Enlace
<1>6. [y EXCEPT ![c].cable[l] = v] = [y EXCEPT ![c] = t]
  BY <1>1, <1>4, <1>5 DEF Cambiada
<1>7. [y EXCEPT ![c] = t] = Con(z, D, c, t)
  BY <1>2 DEF Con
<1> QED
  BY <1>5, <1>6, <1>7 DEF PonCable, Cambiada

LEMMA ConEscritor ==
  ASSUME NEW D, NEW c \in D, NEW z, NEW e, NEW k, NEW a, NEW q, NEW w, NEW s, NEW r, NEW l, NEW v, NEW u,
         NEW y, y = Con(z, D, c, Enlace(e, k, a, q, w, s, r)), u = Cambiada(s, l, v)
  PROVE  PonEscritor(y, c, l, v) = Con(z, D, c, Enlace(e, k, a, q, w, u, r))
<1>1. PICK x : x = y[c]
  OBVIOUS
<1>2. x = Enlace(e, k, a, q, w, s, r)
  BY <1>1 DEF Con
<1>4. PICK t : t = [x EXCEPT !.escritor = u]
  OBVIOUS
<1>5. t = Enlace(e, k, a, q, w, u, r) /\ x.escritor = s
  BY <1>2, <1>4 DEF Enlace
<1>6. [y EXCEPT ![c].escritor[l] = v] = [y EXCEPT ![c] = t]
  BY <1>1, <1>4, <1>5 DEF Cambiada
<1>7. [y EXCEPT ![c] = t] = Con(z, D, c, t)
  BY <1>2 DEF Con
<1> QED
  BY <1>5, <1>6, <1>7 DEF PonEscritor, Cambiada

LEMMA ConLector ==
  ASSUME NEW D, NEW c \in D, NEW z, NEW e, NEW k, NEW a, NEW q, NEW w, NEW s, NEW r, NEW l, NEW v, NEW u,
         NEW y, y = Con(z, D, c, Enlace(e, k, a, q, w, s, r)), u = Cambiada(r, l, v)
  PROVE  PonLector(y, c, l, v) = Con(z, D, c, Enlace(e, k, a, q, w, s, u))
<1>1. PICK x : x = y[c]
  OBVIOUS
<1>2. x = Enlace(e, k, a, q, w, s, r)
  BY <1>1 DEF Con
<1>4. PICK t : t = [x EXCEPT !.lector = u]
  OBVIOUS
<1>5. t = Enlace(e, k, a, q, w, s, u) /\ x.lector = r
  BY <1>2, <1>4 DEF Enlace
<1>6. [y EXCEPT ![c].lector[l] = v] = [y EXCEPT ![c] = t]
  BY <1>1, <1>4, <1>5 DEF Cambiada
<1>7. [y EXCEPT ![c] = t] = Con(z, D, c, t)
  BY <1>2 DEF Con
<1> QED
  BY <1>5, <1>6, <1>7 DEF PonLector, Cambiada

LEMMA ConAceptado ==
  ASSUME NEW D, NEW c \in D, NEW z, NEW e, NEW k, NEW a, NEW q, NEW w, NEW s, NEW r, NEW v,
         NEW y, y = Con(z, D, c, Enlace(e, k, a, q, w, s, r))
  PROVE  PonAceptado(y, c, v) = Con(z, D, c, Enlace(e, k, v, q, w, s, r))
<1>1. PICK x : x = y[c]
  OBVIOUS
<1>2. x = Enlace(e, k, a, q, w, s, r)
  BY <1>1 DEF Con
<1>3. PICK t : t = [x EXCEPT !.aceptado = v]
  OBVIOUS
<1>4. t = Enlace(e, k, v, q, w, s, r)
  BY <1>2, <1>3 DEF Enlace
<1>5. [y EXCEPT ![c].aceptado = v] = [y EXCEPT ![c] = t]
  BY <1>1, <1>3
<1>6. [y EXCEPT ![c] = t] = Con(z, D, c, t)
  BY <1>2 DEF Con
<1> QED
  BY <1>4, <1>5, <1>6 DEF PonAceptado

(* One channel changes, and its ends do not. *)
UnCanal(c, x) ==
  /\ CanalesBien
  /\ canales'[c] = x
  /\ \A d \in DOMAIN canales : d # c => canales'[d] = canales[d]

LEMMA UnCanalBien ==
  ASSUME Casa, NEW c \in DOMAIN canales, NEW x, CanalBien(x), x.ends = canales[c].ends,
         canales' = Con(canales, DOMAIN canales, c, x)
  PROVE  UnCanal(c, x)
<1>1. PICK k \in Nat : DOMAIN canales = 1 .. k
  BY DEF Casa
<1>2. DOMAIN canales' = 1 .. k /\ canales' = [d \in 1 .. k |-> canales'[d]]
  BY <1>1 DEF Con
<1>3. canales'[c] = x /\ \A d \in DOMAIN canales : d # c => canales'[d] = canales[d]
  BY DEF Con
<1>4. \A d \in DOMAIN canales : CanalBien(canales'[d]) /\ canales'[d].ends = canales[d].ends
  BY <1>3 DEF Casa
<1>5. \A d \in 1 .. k : canales'[d] \in Canal
  BY <1>1, <1>4 DEF CanalBien
<1>6. canales' \in Seq(Canal)
  BY <1>2, <1>5
<1> QED
  BY <1>1, <1>2, <1>3, <1>4, <1>6 DEF UnCanal, CanalesBien

(* A channel as its fields. *)
LEMMA ConMismo ==
  ASSUME Casa, NEW c \in DOMAIN canales, NEW x, x = canales[c]
  PROVE  /\ canales = Con(canales, DOMAIN canales, c, x)
         /\ x \in Canal /\ CanalBien(x)
         /\ x = Enlace(x.ends, x.conecta, x.aceptado, x.cola, x.cable, x.escritor, x.lector)
<1>1. canales = [d \in DOMAIN canales |-> canales[d]] /\ CanalBien(x)
  BY DEF Casa
<1>2. x \in Canal
  BY <1>1 DEF CanalBien
<1>3. canales = Con(canales, DOMAIN canales, c, x)
  BY <1>1 DEF Con
<1> QED
  BY <1>1, <1>2, <1>3, EnlaceDe

(* Nodes stay as they are: what comes to a side does too. *)
LEMMA SoloUnCanal ==
  ASSUME SupuestoIroh, InvIroh, tope' = tope, dueno' = dueno, abiertos' = abiertos, nodo' = nodo,
         mandado' = mandado, leido' = leido, NEW c \in DOMAIN canales, NEW x, UnCanal(c, x),
         x.conecta = FALSE \/ (x.conecta = canales[c].conecta /\ \A l \in Lados : Resto(x, l) = Resto(canales[c], l))
  PROVE  InvIroh'
<1>1. Casa
  BY DEF InvIroh
<1>2. CanalesBien
  BY DEF UnCanal
<1>3. Crece
  BY <1>2, CanalesCrecen
<1>4. Nodal'
  BY <1>1, <1>3, NodosIguales
<1>5. ASSUME NEW d \in DOMAIN canales, NEW l \in Lados
      PROVE  ApagaOSigue(d, l)
  <2>1. CASE d = c
    BY <2>1 DEF ApagaOSigue, UnCanal
  <2>2. CASE d # c
    BY <2>2 DEF ApagaOSigue, UnCanal
  <2> QED
    BY <2>1, <2>2
<1> QED
  BY <1>2, <1>4, <1>5, SoloCanales

LEMMA InvCorta ==
  ASSUME SupuestoIroh, InvIroh, NEW c \in DOMAIN canales, Corta(c)
  PROVE  InvIroh'
<1>1. Casa
  BY DEF InvIroh
<1>2. PICK x : x = canales[c] /\ CanalBien(x)
  BY <1>1 DEF Casa
<1>3. x.escritor \in [Lados -> Estados]
  BY <1>2 DEF CanalBien, Canal
<1>4. PICK y : y = Roto(x)
  OBVIOUS
<1>5. EsRoto(y, x)
  BY <1>2, <1>3, <1>4, RotoBien
<1>6. canales' = [canales EXCEPT ![c] = y]
  BY <1>2, <1>4 DEF Corta
<1>7. canales' = Con(canales, DOMAIN canales, c, y)
  <2>1. canales = [d \in DOMAIN canales |-> canales[d]]
    BY <1>1 DEF Casa
  <2> QED
    BY <1>6, <2>1 DEF Con
<1>8. UnCanal(c, y)
  BY <1>1, <1>2, <1>5, <1>7, UnCanalBien DEF EsRoto
<1>9. y.conecta = FALSE
  BY <1>5 DEF EsRoto
<1>10. UNCHANGED <<tope, nodo, dueno, abiertos, mandado, leido>>
  BY DEF Corta
<1> QED
  BY <1>8, <1>9, <1>10, SoloUnCanal

LEMMA InvEscritor ==
  ASSUME SupuestoIroh, InvIroh, NEW c \in DOMAIN canales, NEW l \in Lados, NEW p, p = <<c, l>>, escritor(p)
  PROVE  InvIroh'
<1>1. Casa
  BY DEF InvIroh
<1>2. PICK x : x = canales[c]
  OBVIOUS
<1>3. /\ canales = Con(canales, DOMAIN canales, c, x)
      /\ x \in Canal /\ CanalBien(x)
      /\ x = Enlace(x.ends, x.conecta, x.aceptado, x.cola, x.cable, x.escritor, x.lector)
  BY <1>1, <1>2, ConMismo
<1>31. PICK D, e, k, a, cc, bb, s, r :
         /\ D = DOMAIN canales /\ e = x.ends /\ k = x.conecta /\ a = x.aceptado
         /\ cc = x.cola /\ bb = x.cable /\ s = x.escritor /\ r = x.lector
  OBVIOUS
<1>32. c \in D /\ canales = Con(canales, D, c, Enlace(e, k, a, cc, bb, s, r))
  BY <1>3, <1>31
<1>4. UNCHANGED <<tope, nodo, dueno, abiertos, mandado, leido>>
  BY DEF escritor
<1>5. PICK q, w : q = x.cola[l] /\ w = x.cable[l]
  OBVIOUS
<1>6. q \in Seq(Texto) /\ w \in Texto
  BY <1>3, <1>5 DEF Canal
<1>7. CASE q # <<>> /\ x.conecta
  <2>1. PICK h, t : h = Head(q) /\ t = Tail(q)
    OBVIOUS
  <2>2. h \in Texto /\ t \in Seq(Texto) /\ q = <<h>> \o t /\ <<h>> \in Seq(Texto)
    BY <1>6, <1>7, <2>1
  <2>3. PICK b : b = Append(h, Salto)
    OBVIOUS
  <2>4. b \in Texto
    BY <2>2, <2>3, Funciones DEF Texto
  <2>5. canales' = [canales EXCEPT ![c].cola[l] = t, ![c].cable[l] = @ \o b]
    BY <1>2, <1>5, <1>7, <2>1, <2>3 DEF escritor, Salto
  <2>6. PICK y : y = [canales EXCEPT ![c].cola[l] = t]
    OBVIOUS
  <2>7. PICK q1, w1 : q1 = Cambiada(cc, l, t) /\ w1 = Cambiada(bb, l, w \o b)
    OBVIOUS
  <2>8. y = Con(canales, D, c, Enlace(e, k, a, q1, bb, s, r))
    <3>1. PonCola(canales, c, l, t) = Con(canales, D, c, Enlace(e, k, a, q1, bb, s, r))
      BY <1>32, <2>7, ConCola
    <3> QED
      BY <2>6, <3>1 DEF PonCola
  <2>9. y[c].cable[l] = w
    BY <1>5, <1>31, <1>32, <2>8 DEF Con, Enlace
  <2>10. canales' = [y EXCEPT ![c].cable[l] = y[c].cable[l] \o b]
    BY <2>5, <2>6
  <2>11. PICK x1 : x1 = Enlace(e, k, a, q1, w1, s, r)
    OBVIOUS
  <2>12. canales' = Con(canales, DOMAIN canales, c, x1)
    <3>1. PICK v : v = w \o b
      OBVIOUS
    <3>2. w1 = Cambiada(bb, l, v)
      BY <2>7, <3>1
    <3>3. PonCable(y, c, l, v) = Con(canales, D, c, Enlace(e, k, a, q1, w1, s, r))
      BY <1>32, <2>8, <3>2, ConCable
    <3>4. canales' = PonCable(y, c, l, v)
      BY <2>9, <2>10, <3>1 DEF PonCable
    <3> QED
      BY <1>31, <2>11, <3>3, <3>4, Zenon
  <2>13. q1 \in [Lados -> Seq(Texto)] /\ q1[l] = t /\ \A m \in Lados : m # l => q1[m] = x.cola[m]
    BY <1>3, <1>31, <2>2, <2>7 DEF Canal, Cambiada
  <2>14. w \o b \in Texto
    BY <1>6, <2>4 DEF Texto
  <2>15. w1 \in [Lados -> Texto] /\ w1[l] = w \o b /\ \A m \in Lados : m # l => w1[m] = x.cable[m]
    BY <1>3, <1>31, <2>7, <2>14 DEF Canal, Cambiada
  <2>16. x1.ends = x.ends /\ x1.conecta = x.conecta /\ x1.cola = q1 /\ x1.cable = w1 /\ x1.lector = x.lector
    BY <1>31, <2>11 DEF Enlace
  <2>17. x1 \in Canal
    BY <1>3, <1>31, <2>11, <2>13, <2>15 DEF Canal, Enlace
  <2>18. CanalBien(x1)
    BY <1>3, <1>31, <2>16, <2>17 DEF CanalBien
  <2>19. UnCanal(c, x1)
    BY <1>1, <1>2, <2>12, <2>16, <2>18, UnCanalBien
  <2>20. Resto(x1, l) = Resto(x, l)
    <3>1. FlujoBien(<<h>>)
      BY <2>2, FlujoEs
    <3>2. FlujoBien(t)
      BY <2>2, FlujoEs
    <3>3. Flujo(q) = b \o Flujo(t) /\ Flujo(t) \in Texto
      BY <2>2, <2>3, <3>1, <3>2 DEF FlujoBien
    <3>4. Asocian(w, b, Flujo(t))
      BY <1>6, <2>4, <3>3, AsociaTexto
    <3>5. x1.cable[l] = w \o b /\ x1.cola[l] = t
      BY <2>13, <2>15, <2>16
    <3>6. x.cable[l] = w /\ x.cola[l] = q
      BY <1>5
    <3>7. Resto(x1, l) = (w \o b) \o Flujo(t)
      BY <3>5 DEF Resto
    <3>8. Resto(x, l) = w \o Flujo(q)
      BY <3>6 DEF Resto
    <3> QED
      BY <3>3, <3>4, <3>7, <3>8 DEF Asocian
  <2>21. ASSUME NEW m \in Lados
         PROVE  Resto(x1, m) = Resto(x, m)
    <3>1. CASE m = l
      BY <2>20, <3>1
    <3>2. CASE m # l
      <4>1. x1.cable[m] = x.cable[m] /\ x1.cola[m] = x.cola[m]
        BY <2>13, <2>15, <2>16, <3>2
      <4> QED
        BY <4>1 DEF Resto
    <3> QED
      BY <3>1, <3>2
  <2> QED
    BY <1>2, <1>4, <2>16, <2>19, <2>21, SoloUnCanal
<1>8. CASE ~(q # <<>> /\ x.conecta)
  <2>1. PICK f : f = "fin" /\ f \in Estados
    BY DEF Estados
  <2>2. canales' = [canales EXCEPT ![c].cola[l] = <<>>, ![c].escritor[l] = f]
    BY <1>2, <1>5, <1>8, <2>1 DEF escritor
  <2>3. PICK y : y = [canales EXCEPT ![c].cola[l] = <<>>]
    OBVIOUS
  <2>4. PICK q1, s1 : q1 = Cambiada(cc, l, <<>>) /\ s1 = Cambiada(s, l, f)
    OBVIOUS
  <2>5. y = Con(canales, D, c, Enlace(e, k, a, q1, bb, s, r))
    <3>1. PonCola(canales, c, l, <<>>) = Con(canales, D, c, Enlace(e, k, a, q1, bb, s, r))
      BY <1>32, <2>4, ConCola
    <3> QED
      BY <2>3, <3>1 DEF PonCola
  <2>6. canales' = [y EXCEPT ![c].escritor[l] = f]
    BY <2>2, <2>3
  <2>7. PICK x1 : x1 = Enlace(e, k, a, q1, bb, s1, r)
    OBVIOUS
  <2>8. canales' = Con(canales, DOMAIN canales, c, x1)
    <3>1. PonEscritor(y, c, l, f) = Con(canales, D, c, Enlace(e, k, a, q1, bb, s1, r))
      BY <1>32, <2>4, <2>5, ConEscritor
    <3>2. canales' = PonEscritor(y, c, l, f)
      BY <2>6 DEF PonEscritor
    <3> QED
      BY <1>31, <2>7, <3>1, <3>2, Zenon
  <2>9. <<>> \in Seq(Texto)
    OBVIOUS
  <2>10. q1 \in [Lados -> Seq(Texto)] /\ q1[l] = <<>> /\ \A m \in Lados : m # l => q1[m] = x.cola[m]
    BY <1>3, <1>31, <2>4, <2>9 DEF Canal, Cambiada
  <2>11. s1 \in [Lados -> Estados]
    BY <1>3, <1>31, <2>1, <2>4 DEF Canal, Cambiada
  <2>12. x1.ends = x.ends /\ x1.conecta = x.conecta /\ x1.cola = q1 /\ x1.cable = x.cable /\ x1.lector = x.lector
    BY <1>31, <2>7 DEF Enlace
  <2>13. x1 \in Canal
    BY <1>3, <1>31, <2>7, <2>10, <2>11 DEF Canal, Enlace
  <2>14. CanalBien(x1)
    BY <1>3, <1>31, <2>12, <2>13 DEF CanalBien
  <2>15. UnCanal(c, x1)
    BY <1>1, <1>2, <2>8, <2>12, <2>14, UnCanalBien
  <2>16. x1.conecta = FALSE \/ \A m \in Lados : Resto(x1, m) = Resto(x, m)
    <3>1. CASE q = <<>>
      <4>1. \A m \in Lados : q1[m] = x.cola[m]
        BY <1>5, <2>10, <3>1
      <4> QED
        BY <2>12, <4>1 DEF Resto
    <3>2. CASE ~x.conecta
      BY <1>3, <1>31, <2>12, <3>2 DEF Canal
    <3> QED
      BY <1>8, <3>1, <3>2
  <2> QED
    BY <1>2, <1>4, <2>12, <2>15, <2>16, SoloUnCanal
<1> QED
  BY <1>7, <1>8

-----------------------------------------------------------------------------
(* A node takes the sender of one more channel.                            *)

LEMMA AlargaBien ==
  ASSUME Casa, Crece, NEW n \in Nodos, NEW q, q = nodo[n], NEW p \in Puntas, p[1] \in DOMAIN canales',
         NEW t \in {q.llamada, <<>>},
         NEW r, r = Par(q.vivo, Append(q.chat_salidas, p), q.chat_entrantes, t, q.bajados)
  PROVE  ParBien(n, r)'
<1>1. ParBien(n, q)'
  BY ParSigue DEF Casa, Nodal
<1>2. PICK s : s = Append(q.chat_salidas, p)
  OBVIOUS
<1>3. EsPar(r) /\ r.vivo = q.vivo /\ r.chat_salidas = s /\ r.chat_entrantes = q.chat_entrantes /\ r.llamada = t
  BY <1>2 DEF Par, EsPar
<1>4. q.chat_salidas \in Seq(Puntas)
  BY <1>1 DEF ParBien
<1>5. \A i \in DOMAIN q.chat_salidas : q.chat_salidas[i][1] \in DOMAIN canales'
  BY <1>1 DEF ParBien
<1>6. s \in Seq(Puntas) /\ \A i \in DOMAIN s : (i \in DOMAIN q.chat_salidas /\ s[i] = q.chat_salidas[i]) \/ s[i] = p
  BY <1>2, <1>4
<1>7. \A i \in DOMAIN s : s[i][1] \in DOMAIN canales'
  BY <1>5, <1>6
<1>8. /\ r.chat_entrantes \in Entrantes
      /\ r.vivo # Nada => r.vivo \in DOMAIN dueno'
      /\ (r.llamada # <<>> /\ r.llamada[1] = "conectar") => r.vivo # Nada
      /\ \A i \in DOMAIN r.chat_entrantes :
           r.chat_entrantes[i][1][1] \in DOMAIN canales' /\ NodoDe(r.chat_entrantes[i][1])' = n
  BY <1>1, <1>3 DEF ParBien
<1> QED
  BY <1>3, <1>6, <1>7, <1>8 DEF ParBien

LEMMA InvAccept ==
  ASSUME SupuestoIroh, InvIroh, NEW c \in DOMAIN canales, accept(c)
  PROVE  InvIroh'
<1>1. Casa
  BY DEF InvIroh
<1>2. PICK x : x = canales[c]
  OBVIOUS
<1>3. /\ canales = Con(canales, DOMAIN canales, c, x)
      /\ x \in Canal /\ CanalBien(x)
      /\ x = Enlace(x.ends, x.conecta, x.aceptado, x.cola, x.cable, x.escritor, x.lector)
  BY <1>1, <1>2, ConMismo
<1>4. PICK D, e, k, a, cc, bb, s, r :
         /\ D = DOMAIN canales /\ e = x.ends /\ k = x.conecta /\ a = x.aceptado
         /\ cc = x.cola /\ bb = x.cable /\ s = x.escritor /\ r = x.lector
  OBVIOUS
<1>5. c \in D /\ canales = Con(canales, D, c, Enlace(e, k, a, cc, bb, s, r))
  BY <1>3, <1>4
<1>6. PICK l, p, n : l = 2 /\ p = <<c, l>> /\ n = NodoDe(p)
  OBVIOUS
<1>7. l \in Lados /\ p \in Puntas /\ p[1] = c
  <2>1. l \in Lados
    BY <1>6 DEF Lados
  <2> QED
    BY <1>1, <1>6, <2>1, PuntasSon DEF Casa
<1>8. PICK f : f = "vive" /\ f \in Estados
  BY DEF Estados
<1>81. PICK v \in BOOLEAN : v = TRUE
  OBVIOUS
<1>9. /\ x.conecta /\ UNCHANGED <<tope, dueno, abiertos, mandado, leido>>
      /\ nodo' = [nodo EXCEPT ![n].chat_salidas = Append(@, p)]
      /\ canales' = [canales EXCEPT ![c].aceptado = v, ![c].escritor[l] = f, ![c].lector[l] = f]
  BY <1>2, <1>6, <1>8, <1>81 DEF accept
<1>10. PICK y, z, s1, r1, x1 :
         /\ y = [canales EXCEPT ![c].aceptado = v] /\ z = PonEscritor(y, c, l, f)
         /\ s1 = Cambiada(s, l, f) /\ r1 = Cambiada(r, l, f)
         /\ x1 = Enlace(e, k, v, cc, bb, s1, r1)
  OBVIOUS
<1>11. canales' = Con(canales, DOMAIN canales, c, x1)
  <2>1. PonAceptado(canales, c, v) = Con(canales, D, c, Enlace(e, k, v, cc, bb, s, r))
    BY <1>5, ConAceptado
  <2>2. y = Con(canales, D, c, Enlace(e, k, v, cc, bb, s, r))
    BY <1>10, <2>1 DEF PonAceptado
  <2>30. s1 = Cambiada(s, l, f) /\ r1 = Cambiada(r, l, f) /\ z = PonEscritor(y, c, l, f)
    BY <1>10
  <2>3. z = Con(canales, D, c, Enlace(e, k, v, cc, bb, s1, r))
    BY <1>5, <2>2, <2>30, ConEscritor
  <2>31. r1 = Cambiada(r, l, f)
    BY <2>30
  <2>4. PonLector(z, c, l, f) = Con(canales, D, c, Enlace(e, k, v, cc, bb, s1, r1))
    BY <1>5, <2>3, <2>31, ConLector
  <2>5. z = [y EXCEPT ![c].escritor[l] = f]
    BY <1>10 DEF PonEscritor
  <2>6. canales' = [z EXCEPT ![c].lector[l] = f]
    BY <1>9, <1>10, <2>5, Zenon
  <2> QED
    BY <1>4, <1>10, <2>4, <2>6 DEF PonLector
<1>12. s1 \in [Lados -> Estados] /\ r1 \in [Lados -> Estados]
  BY <1>3, <1>4, <1>8, <1>10 DEF Canal, Cambiada
<1>13. x1.ends = x.ends /\ x1.conecta = x.conecta /\ x1.cola = x.cola /\ x1.cable = x.cable
  BY <1>4, <1>10 DEF Enlace
<1>14. x1 \in Canal
  BY <1>3, <1>4, <1>10, <1>12 DEF Canal, Enlace
<1>15. CanalBien(x1)
  BY <1>3, <1>9, <1>13, <1>14 DEF CanalBien
<1>16. UnCanal(c, x1)
  BY <1>1, <1>2, <1>11, <1>13, <1>15, UnCanalBien
<1>17. CanalesBien
  BY <1>16 DEF UnCanal
<1>18. Crece
  BY <1>9, <1>17, CanalesCrecen
<1>19. n \in Nodos
  BY <1>1, <1>6, <1>7, <1>18, NodoDeSigue
<1>20. PICK q : q = nodo[n] /\ EsPar(q) /\ ParBien(n, q) /\ nodo = [m \in Nodos |-> nodo[m]]
  BY <1>1, <1>19, ParDe
<1>21. PICK t : t = Par(q.vivo, Append(q.chat_salidas, p), q.chat_entrantes, q.llamada, q.bajados)
  OBVIOUS
<1>22. nodo' = [nodo EXCEPT ![n] = t]
  <2>1. PICK g : g = Append(q.chat_salidas, p)
    OBVIOUS
  <2>2. t = [q EXCEPT !.chat_salidas = g]
    <3>1. PICK v1, v2, v3, v4, v5 :
            q = [vivo |-> v1, chat_salidas |-> v2, chat_entrantes |-> v3, llamada |-> v4, bajados |-> v5]
      BY <1>20 DEF EsPar
    <3>2. t = [vivo |-> v1, chat_salidas |-> g, chat_entrantes |-> v3, llamada |-> v4, bajados |-> v5]
      BY <1>21, <2>1, <3>1 DEF Par
    <3> QED
      BY <3>1, <3>2
  <2>3. nodo' = [nodo EXCEPT ![n].chat_salidas = g]
    BY <1>9, <1>20, <2>1
  <2> QED
    BY <1>20, <2>2, <2>3
<1>23. p[1] \in DOMAIN canales'
  BY <1>7, <1>17 DEF CanalesBien
<1>24. ParBien(n, t)'
  BY <1>1, <1>7, <1>18, <1>19, <1>20, <1>21, <1>23, AlargaBien
<1>25. Nodal'
  BY <1>1, <1>18, <1>19, <1>22, <1>24, UnNodo
<1>26. \A m \in Nodos : nodo'[m].chat_entrantes = nodo[m].chat_entrantes
  BY <1>20, <1>21, <1>22 DEF Par
<1>27. ASSUME NEW d \in DOMAIN canales, NEW j \in Lados
       PROVE  ApagaOSigue(d, j)
  <2>1. PICK o : o = <<d, Otro(j)>>
    OBVIOUS
  <2>2. o \in Puntas /\ o[1] = d
    BY <1>1, <2>1, LadosSon, PuntasSon DEF Casa
  <2>3. NodoDe(o) \in Nodos
    BY <1>1, <1>18, <2>2, NodoDeSigue
  <2>4. canales'[d].conecta = canales[d].conecta /\ Resto(canales'[d], j) = Resto(canales[d], j)
    BY <1>2, <1>13, <1>16 DEF UnCanal, Resto
  <2> QED
    BY <1>26, <2>1, <2>3, <2>4 DEF ApagaOSigue
<1> QED
  BY <1>9, <1>17, <1>25, <1>27, SoloCanales

-----------------------------------------------------------------------------
(* Steps that send or read: one direction goes on and the others stay.     *)

SentidoDe(c, l) ==
  Sentido(mandado[<<c, l>>], Total(<<c, Otro(l)>>), canales[c].conecta, Resto(canales[c], l))

SinCambio(c, l) ==
  /\ mandado'[<<c, l>>] = mandado[<<c, l>>]
  /\ Total(<<c, Otro(l)>>)' = Total(<<c, Otro(l)>>)
  /\ canales'[c].conecta = canales[c].conecta
  /\ Resto(canales'[c], l) = Resto(canales[c], l)

LEMMA CharlaVa ==
  ASSUME Charla, mandado' \in [Puntas -> Seq(Texto)], leido' \in [Puntas -> Seq(Texto)],
         DOMAIN canales' = DOMAIN canales,
         \A p \in Puntas : p[1] \notin DOMAIN canales => mandado'[p] = mandado[p] /\ leido'[p] = leido[p],
         \A c \in DOMAIN canales, l \in Lados : SinCambio(c, l) \/ SentidoDe(c, l)'
  PROVE  Charla'
<1>1. ASSUME NEW c \in DOMAIN canales, NEW l \in Lados
      PROVE  SentidoDe(c, l)'
  <2>1. SentidoDe(c, l)
    BY DEF Charla, SentidoDe
  <2>2. CASE SinCambio(c, l)
    BY <2>1, <2>2 DEF SinCambio, SentidoDe
  <2> QED
    BY <2>2
<1>2. \A p \in Puntas : p[1] \notin DOMAIN canales' => mandado'[p] = <<>> /\ leido'[p] = <<>>
  BY DEF Charla
<1> QED
  BY <1>1, <1>2 DEF Charla, SentidoDe

LEMMA InvLeer ==
  ASSUME SupuestoIroh, InvIroh, NEW n \in Nodos, chat_leer(n)
  PROVE  InvIroh'
<1>1. Casa /\ Charla
  BY DEF InvIroh
<1>2. UNCHANGED <<tope, dueno, abiertos, canales, mandado>>
  BY DEF chat_leer
<1>3. PICK q : q = nodo[n] /\ EsPar(q) /\ ParBien(n, q) /\ nodo = [m \in Nodos |-> nodo[m]]
  BY <1>1, ParDe
<1>4. PICK e : e = q.chat_entrantes /\ e \in Entrantes
  BY <1>3 DEF ParBien
<1>5. leido' = [p \in Puntas |-> leido[p] \o De(p, e)] /\ nodo' = [nodo EXCEPT ![n].chat_entrantes = <<>>]
  BY <1>3, <1>4 DEF chat_leer
<1>6. Crece
  BY <1>2, NadaCrece
<1>7. PICK r : r = Par(q.vivo, q.chat_salidas, <<>>, q.llamada, q.bajados)
  OBVIOUS
<1>8. EsPar(r) /\ r.vivo = q.vivo /\ r.chat_salidas = q.chat_salidas /\ r.chat_entrantes = <<>> /\ r.llamada = q.llamada
  BY <1>7 DEF Par, EsPar
<1>9. nodo' = [nodo EXCEPT ![n] = r]
  <2>1. r = [q EXCEPT !.chat_entrantes = <<>>]
    BY <1>3, <1>7 DEF EsPar, Par
  <2> QED
    BY <1>3, <1>5, <2>1
<1>10. ParBien(n, r)'
  <2>1. ParBien(n, q)'
    BY <1>1, <1>3, <1>6, ParSigue
  <2>2. <<>> \in Entrantes /\ DOMAIN <<>> = {}
    BY DEF Entrantes
  <2> QED
    BY <1>8, <2>1, <2>2 DEF ParBien
<1>11. Nodal'
  BY <1>1, <1>6, <1>9, <1>10, UnNodo
<1>12. CanalesBien
  BY <1>1, <1>2 DEF Casa, CanalesBien, CanalBien
<1>13. Casa'
  BY <1>1, <1>2, <1>11, <1>12, CasaSigue
<1>14. ASSUME NEW p \in Puntas
       PROVE  /\ leido'[p] = leido[p] \o De(p, e) /\ leido[p] \in Seq(Texto) /\ De(p, e) \in Seq(Texto)
              /\ De(p, <<>>) = <<>>
              /\ (p[1] \notin DOMAIN canales \/ NodoDe(p) # n) => leido'[p] = leido[p]
  <2>1. DeBien(p, e)
    BY <1>4, DeEs
  <2>2. leido'[p] = leido[p] \o De(p, e) /\ leido[p] \in Seq(Texto) /\ De(p, e) \in Seq(Texto)
        /\ De(p, <<>>) = <<>>
    BY <1>1, <1>5, <2>1 DEF Charla, DeBien
  <2>3. ASSUME p[1] \notin DOMAIN canales \/ NodoDe(p) # n
        PROVE  leido'[p] = leido[p]
    <3>1. \A i \in DOMAIN e : e[i][1] # p
      BY <1>3, <1>4, <2>3 DEF ParBien
    <3>2. De(p, e) = <<>>
      BY <1>4, <3>1, DeNada
    <3> QED
      BY <2>2, <3>2
  <2> QED
    BY <2>2, <2>3
<1>15. leido' \in [Puntas -> Seq(Texto)] /\ mandado' \in [Puntas -> Seq(Texto)]
  <2>1. ASSUME NEW p \in Puntas
        PROVE  leido[p] \o De(p, e) \in Seq(Texto)
    BY <1>14
  <2> QED
    BY <1>1, <1>2, <1>5, <2>1 DEF Charla
<1>16. ASSUME NEW c \in DOMAIN canales, NEW l \in Lados
       PROVE  SinCambio(c, l)
  <2>1. PICK p : p = <<c, Otro(l)>>
    OBVIOUS
  <2>2. p \in Puntas /\ p[1] = c
    BY <1>1, <2>1, LadosSon, PuntasSon DEF Casa
  <2>3. PICK m : m = NodoDe(p) /\ NodoDe(p)' = m /\ m \in Nodos
    BY <1>1, <1>6, <2>2, NodoDeSigue
  <2>4. Total(p)' = Total(p)
    <3>1. CASE m = n
      <4>1. Total(p) = leido'[p]
        BY <1>3, <1>4, <1>14, <2>2, <2>3, <3>1 DEF Total
      <4>2. Total(p)' = leido'[p] \o De(p, <<>>)
        BY <1>3, <1>8, <1>9, <2>3, <3>1 DEF Total
      <4>3. leido'[p] \in Seq(Texto) /\ De(p, <<>>) = <<>>
        BY <1>14, <1>15, <2>2
      <4> QED
        BY <4>1, <4>2, <4>3
    <3>2. CASE m # n
      <4>1. leido'[p] = leido[p]
        BY <1>14, <2>2, <2>3, <3>2
      <4>2. nodo'[m] = nodo[m]
        BY <1>3, <1>9, <2>3, <3>2
      <4> QED
        BY <2>3, <4>1, <4>2 DEF Total
    <3> QED
      BY <3>1, <3>2
  <2> QED
    BY <1>2, <2>1, <2>4 DEF SinCambio
<1>17. \A p \in Puntas : p[1] \notin DOMAIN canales => mandado'[p] = mandado[p] /\ leido'[p] = leido[p]
  BY <1>2, <1>14
<1>18. Charla'
  BY <1>1, <1>2, <1>15, <1>16, <1>17, CharlaVa
<1> QED
  BY <1>13, <1>18 DEF InvIroh

LEMMA SeqMayor ==
  ASSUME NEW S, NEW V, S \subseteq V, NEW s \in Seq(S)
  PROVE  s \in Seq(V)
<1>1. PICK n \in Nat : n = Len(s) /\ DOMAIN s = 1 .. n /\ \A i \in 1 .. n : s[i] \in S
  OBVIOUS
<1>2. s = [i \in 1 .. n |-> s[i]] /\ \A i \in 1 .. n : s[i] \in V
  BY <1>1
<1> QED
  BY <1>2

(* A line of those to write is a text without a break. *)
LEMMA TextoEs ==
  ASSUME SupuestoIroh, NEW i \in DOMAIN Textos
  PROVE  Textos[i] \in Texto /\ Salto \notin Range(Textos[i])
<1>1. Textos[i] \in Seq(STRING)
  BY DEF SupuestoIroh
<1>2. STRING \subseteq Byte
  BY DEF Byte
<1>3. Textos[i] \in Seq(Byte)
  BY <1>1, <1>2, SeqMayor
<1>4. Salto \notin Range(Textos[i])
  BY DEF SupuestoIroh, Salto
<1> QED
  BY <1>3, <1>4 DEF Texto

LEMMA InvMandar ==
  ASSUME SupuestoIroh, InvIroh, NEW n \in Nodos, chat_mandar(n)
  PROVE  InvIroh'
<1>1. Casa /\ Charla
  BY DEF InvIroh
<1>2. UNCHANGED <<tope, nodo, dueno, abiertos, leido>>
  BY Zenon DEF chat_mandar
<1>3. PICK q : q = nodo[n] /\ q.chat_salidas \in Seq(Puntas) /\ q.chat_salidas # <<>>
               /\ \A i \in DOMAIN q.chat_salidas : q.chat_salidas[i][1] \in DOMAIN canales
  <2>1. nodo[n].chat_salidas # <<>>
    BY Zenon DEF chat_mandar
  <2> QED
    BY <1>1, <2>1, ParDe DEF ParBien
<1>4. PICK p \in Puntas : p = Head(q.chat_salidas) /\ p[1] \in DOMAIN canales
  <2>1. 1 \in DOMAIN q.chat_salidas /\ Head(q.chat_salidas) = q.chat_salidas[1]
    BY <1>3
  <2> QED
    BY <1>3, <2>1
<1>5. PICK c \in DOMAIN canales, l \in Lados : p = <<c, l>>
  BY <1>4 DEF Puntas
<1>6. PICK m, t, a : m = mandado[p] /\ t = Textos[Len(m) + 1] /\ a = Append(m, t)
  OBVIOUS
<1>7. /\ Len(m) < tope.lineas[l]
      /\ canales' = [canales EXCEPT ![c].cola[l] = Append(@, t)]
      /\ mandado' = [mandado EXCEPT ![p] = Append(@, t)]
  <2>1. p = Head(nodo[n].chat_salidas) /\ p[1] = c /\ p[2] = l
    BY <1>3, <1>4, <1>5
  <2>2. /\ Len(mandado[p]) < tope.lineas[p[2]]
        /\ canales' = [canales EXCEPT ![p[1]].cola[p[2]] = Append(@, Textos[Len(mandado[p]) + 1])]
        /\ mandado' = [mandado EXCEPT ![p] = Append(@, Textos[Len(mandado[p]) + 1])]
    BY <2>1, Zenon DEF chat_mandar
  <2> QED
    BY <1>6, <2>1, <2>2, Zenon
<1>8. m \in Seq(Texto) /\ mandado \in [Puntas -> Seq(Texto)] /\ leido \in [Puntas -> Seq(Texto)]
  BY <1>1, <1>6 DEF Charla
<1>9. Len(m) + 1 \in DOMAIN Textos
  <2>1. tope \in Topes
    BY <1>1 DEF Casa
  <2>2. tope.lineas[l] \in 0 .. Len(Textos)
    BY <2>1 DEF SupuestoIroh, Lados
  <2>3. Textos \in Seq(Seq(STRING))
    BY DEF SupuestoIroh
  <2> QED
    BY <1>7, <1>8, <2>2, <2>3
<1>10. t \in Texto /\ Salto \notin Range(t)
  BY <1>6, <1>9, TextoEs
<1>11. PICK x : x = canales[c]
  OBVIOUS
<1>12. /\ canales = Con(canales, DOMAIN canales, c, x)
       /\ x \in Canal /\ CanalBien(x)
       /\ x = Enlace(x.ends, x.conecta, x.aceptado, x.cola, x.cable, x.escritor, x.lector)
  BY <1>1, <1>11, ConMismo
<1>13. PICK D, e, k, b, cc, bb, s, r :
         /\ D = DOMAIN canales /\ e = x.ends /\ k = x.conecta /\ b = x.aceptado
         /\ cc = x.cola /\ bb = x.cable /\ s = x.escritor /\ r = x.lector
  OBVIOUS
<1>14. c \in D /\ canales = Con(canales, D, c, Enlace(e, k, b, cc, bb, s, r))
  BY <1>12, <1>13
<1>15. PICK o, w : o = x.cola[l] /\ w = x.cable[l]
  OBVIOUS
<1>16. o \in Seq(Texto) /\ w \in Texto
  BY <1>12, <1>15 DEF Canal
<1>17. PICK g : g = Append(o, t)
  OBVIOUS
<1>18. PICK cc1 : cc1 = Cambiada(cc, l, g)
  OBVIOUS
<1>19. PICK x1 : x1 = Enlace(e, k, b, cc1, bb, s, r)
  OBVIOUS
<1>20. canales' = Con(canales, DOMAIN canales, c, x1)
  <2>1. PonCola(canales, c, l, g) = Con(canales, D, c, Enlace(e, k, b, cc1, bb, s, r))
    BY <1>14, <1>18, ConCola
  <2>2. canales' = PonCola(canales, c, l, g)
    BY <1>7, <1>11, <1>15, <1>17 DEF PonCola
  <2> QED
    BY <1>13, <1>19, <2>1, <2>2
<1>21. g \in Seq(Texto)
  BY <1>10, <1>16, <1>17
<1>22. cc1 \in [Lados -> Seq(Texto)] /\ cc1[l] = g /\ \A j \in Lados : j # l => cc1[j] = x.cola[j]
  BY <1>12, <1>13, <1>18, <1>21 DEF Canal, Cambiada
<1>23. x1.ends = x.ends /\ x1.conecta = x.conecta /\ x1.cola = cc1 /\ x1.cable = x.cable /\ x1.lector = x.lector
  BY <1>13, <1>19 DEF Enlace
<1>24. x1 \in Canal
  BY <1>12, <1>13, <1>19, <1>22 DEF Canal, Enlace
<1>25. CanalBien(x1)
  BY <1>12, <1>23, <1>24 DEF CanalBien
<1>26. UnCanal(c, x1)
  BY <1>1, <1>11, <1>20, <1>23, <1>25, UnCanalBien
<1>27. CanalesBien
  BY <1>26 DEF UnCanal
<1>28. Crece
  BY <1>2, <1>27, CanalesCrecen
<1>29. Nodal'
  BY <1>1, <1>2, <1>28, NodosIguales
<1>30. Casa'
  BY <1>1, <1>2, <1>27, <1>29, CasaSigue
<1>31. mandado' \in [Puntas -> Seq(Texto)] /\ mandado'[p] = a
       /\ \A u \in Puntas : u # p => mandado'[u] = mandado[u]
  BY <1>6, <1>7, <1>8, <1>10
<1>32. PICK y : y = Append(t, Salto)
  OBVIOUS
<1>33. y \in Texto
  BY <1>10, <1>32, Funciones DEF Texto
<1>34. Resto(x1, l) = Resto(x, l) \o y /\ Resto(x, l) \in Texto
  <2>1. FlujoBien(o)
    BY <1>16, FlujoEs
  <2>2. Flujo(g) = Flujo(o) \o y /\ Flujo(o) \in Texto
    BY <1>10, <1>17, <1>32, <2>1 DEF FlujoBien
  <2>3. Asocian(w, Flujo(o), y)
    BY <1>16, <1>33, <2>2, AsociaTexto
  <2>4. w \o Flujo(o) \in Texto
    BY <1>16, <2>2, UneTexto
  <2>5. x1.cable[l] = w /\ x1.cola[l] = g
    BY <1>15, <1>22, <1>23
  <2>6. Resto(x1, l) = w \o Flujo(g)
    BY <2>5 DEF Resto
  <2>7. Resto(x, l) = w \o Flujo(o)
    BY <1>15 DEF Resto
  <2> QED
    BY <2>2, <2>3, <2>4, <2>6, <2>7 DEF Asocian
<1>35. ASSUME NEW d \in DOMAIN canales, NEW j \in Lados
       PROVE  /\ Total(<<d, Otro(j)>>)' = Total(<<d, Otro(j)>>)
              /\ canales'[d].conecta = canales[d].conecta
  <2>1. PICK u : u = <<d, Otro(j)>>
    OBVIOUS
  <2>2. u \in Puntas /\ u[1] = d
    BY <1>1, <2>1, LadosSon, PuntasSon DEF Casa
  <2>3. NodoDe(u)' = NodoDe(u)
    BY <1>1, <1>28, <2>2, NodoDeSigue
  <2>4. Total(u)' = Total(u)
    BY <1>2, <2>3 DEF Total
  <2>5. canales'[d].conecta = canales[d].conecta
    BY <1>11, <1>23, <1>26 DEF UnCanal
  <2> QED
    BY <2>1, <2>4, <2>5
<1>36. SentidoDe(c, l)'
  <2>1. PICK L, v : L = Total(<<c, Otro(l)>>) /\ v = Resto(x, l)
    OBVIOUS
  <2>2. Sentido(m, L, k, v)
    BY <1>1, <1>5, <1>6, <1>11, <1>13, <2>1 DEF Charla
  <2>3. k \in BOOLEAN
    BY <1>12, <1>13 DEF Canal
  <2>4. Sentido(a, L, k, v \o y)
    BY <1>6, <1>10, <1>32, <1>34, <2>1, <2>2, <2>3, SentidoManda
  <2>5. canales'[c] = x1
    BY <1>26 DEF UnCanal
  <2>6. Total(<<c, Otro(l)>>)' = L /\ mandado'[<<c, l>>] = a /\ canales'[c].conecta = k
        /\ Resto(canales'[c], l) = v \o y
    BY <1>5, <1>13, <1>23, <1>31, <1>34, <1>35, <2>1, <2>5
  <2> QED
    BY <2>4, <2>6 DEF SentidoDe
<1>37. ASSUME NEW d \in DOMAIN canales, NEW j \in Lados
       PROVE  SinCambio(d, j) \/ SentidoDe(d, j)'
  <2>1. CASE d = c /\ j = l
    BY <1>36, <2>1
  <2>2. CASE ~(d = c /\ j = l)
    <3>1. PICK u : u = <<d, j>>
      OBVIOUS
    <3>2. u \in Puntas
      BY <1>1, <3>1, PuntasSon DEF Casa
    <3>3. u # p
      BY <1>5, <2>2, <3>1
    <3>4. mandado'[<<d, j>>] = mandado[<<d, j>>]
      BY <1>31, <3>1, <3>2, <3>3
    <3>5. Resto(canales'[d], j) = Resto(canales[d], j)
      <4>1. canales'[d].cable[j] = canales[d].cable[j] /\ canales'[d].cola[j] = canales[d].cola[j]
        BY <1>11, <1>22, <1>23, <1>26, <2>2 DEF UnCanal
      <4> QED
        BY <4>1 DEF Resto
    <3> QED
      BY <1>35, <3>4, <3>5 DEF SinCambio
  <2> QED
    BY <2>1, <2>2
<1>38. \A u \in Puntas : u[1] \notin DOMAIN canales => mandado'[u] = mandado[u] /\ leido'[u] = leido[u]
  BY <1>2, <1>4, <1>31
<1>39. DOMAIN canales' = DOMAIN canales
  BY <1>27 DEF CanalesBien
<1>40. leido' \in [Puntas -> Seq(Texto)]
  BY <1>2, <1>8
<1>41. Charla'
  BY <1>1, <1>31, <1>37, <1>38, <1>39, <1>40, CharlaVa
<1> QED
  BY <1>30, <1>41 DEF InvIroh

(* The reader takes a chunk. *)
Trozo(c, l, p, h, k, ls) ==
  /\ p = <<c, l>> /\ h = canales[c].cable[Otro(l)] /\ k \in 1 .. Len(h)
  /\ canales[c].lector[l] = "vive"
  /\ canales' = [canales EXCEPT ![c].cable[Otro(l)] = SubSeq(@, k + 1, Len(@))]
  /\ ls = Lineas(from_utf8_lossy(SubSeq(h, 1, k)))
  /\ nodo' = [nodo EXCEPT ![NodoDe(p)].chat_entrantes = @ \o [i \in DOMAIN ls |-> <<p, ls[i]>>]]
  /\ UNCHANGED <<tope, dueno, abiertos, mandado, leido>>

LEMMA InvTrozo ==
  ASSUME SupuestoIroh, InvIroh, NEW c \in DOMAIN canales, NEW l \in Lados, NEW p, NEW h, NEW k, NEW ls,
         Trozo(c, l, p, h, k, ls)
  PROVE  InvIroh'
<1>0. /\ p = <<c, l>> /\ h = canales[c].cable[Otro(l)] /\ k \in 1 .. Len(h)
      /\ canales[c].lector[l] = "vive"
  BY DEF Trozo
<1>01. canales' = [canales EXCEPT ![c].cable[Otro(l)] = SubSeq(@, k + 1, Len(@))]
  BY DEF Trozo
<1>02. ls = Lineas(from_utf8_lossy(SubSeq(h, 1, k)))
  BY DEF Trozo
<1>03. nodo' = [nodo EXCEPT ![NodoDe(p)].chat_entrantes = @ \o [i \in DOMAIN ls |-> <<p, ls[i]>>]]
  BY DEF Trozo
<1>04. tope' = tope /\ dueno' = dueno /\ abiertos' = abiertos /\ mandado' = mandado /\ leido' = leido
  BY DEF Trozo
<1>1. Casa /\ Charla
  BY DEF InvIroh
<1>2. PICK o \in Lados : o = Otro(l) /\ Otro(o) = l /\ o # l
  BY LadosSon
<1>3. PICK x : x = canales[c]
  OBVIOUS
<1>4. /\ canales = Con(canales, DOMAIN canales, c, x)
      /\ x \in Canal /\ CanalBien(x)
      /\ x = Enlace(x.ends, x.conecta, x.aceptado, x.cola, x.cable, x.escritor, x.lector)
  BY <1>1, <1>3, ConMismo
<1>5. PICK D, e, v, b, cc, bb, s, r :
         /\ D = DOMAIN canales /\ e = x.ends /\ v = x.conecta /\ b = x.aceptado
         /\ cc = x.cola /\ bb = x.cable /\ s = x.escritor /\ r = x.lector
  OBVIOUS
<1>6. c \in D /\ canales = Con(canales, D, c, Enlace(e, v, b, cc, bb, s, r))
  BY <1>4, <1>5
<1>7. PICK t, g : t = SubSeq(h, 1, k) /\ g = SubSeq(h, k + 1, Len(h))
  OBVIOUS
<1>8. h \in Texto
  BY <1>0, <1>2, <1>3, <1>4 DEF Canal
<1>9. t \in Texto /\ g \in Texto /\ h = t \o g
  <2>1. h \in Seq(Byte) /\ Len(h) \in Nat /\ k \in Nat /\ k \in 1 .. Len(h)
    BY <1>0, <1>8 DEF Texto
  <2>2. h = t \o g
    BY <1>7, <2>1, PrefijoEs DEF SeParte
  <2>3. t \in Seq(Byte) /\ g \in Seq(Byte)
    BY <1>7, <2>1, SubSeqProperties
  <2> QED
    BY <2>2, <2>3 DEF Texto
<1>10. PICK bb1 : bb1 = Cambiada(bb, o, g)
  OBVIOUS
<1>11. PICK x1 : x1 = Enlace(e, v, b, cc, bb1, s, r)
  OBVIOUS
<1>12. canales' = Con(canales, DOMAIN canales, c, x1)
  <2>1. PonCable(canales, c, o, g) = Con(canales, D, c, Enlace(e, v, b, cc, bb1, s, r))
    BY <1>6, <1>10, ConCable
  <2>2. canales' = PonCable(canales, c, o, g)
    BY <1>0, <1>01, <1>2, <1>7 DEF PonCable
  <2> QED
    BY <1>5, <1>11, <2>1, <2>2
<1>13. bb1 \in [Lados -> Texto] /\ bb1[o] = g /\ \A j \in Lados : j # o => bb1[j] = x.cable[j]
  BY <1>4, <1>5, <1>9, <1>10 DEF Canal, Cambiada
<1>14. x1.ends = x.ends /\ x1.conecta = x.conecta /\ x1.cola = x.cola /\ x1.cable = bb1 /\ x1.lector = x.lector
  BY <1>5, <1>11 DEF Enlace
<1>15. x1 \in Canal
  BY <1>4, <1>5, <1>11, <1>13 DEF Canal, Enlace
<1>16. CanalBien(x1)
  BY <1>4, <1>14, <1>15 DEF CanalBien
<1>17. UnCanal(c, x1)
  BY <1>1, <1>3, <1>12, <1>14, <1>16, UnCanalBien
<1>18. CanalesBien
  BY <1>17 DEF UnCanal
<1>19. Crece
  BY <1>04, <1>18, CanalesCrecen
<1>20. p \in Puntas /\ p[1] = c /\ p[2] = l
  BY <1>0, <1>1, PuntasSon DEF Casa
<1>21. PICK n : n = NodoDe(p) /\ NodoDe(p)' = n /\ n \in Nodos
  BY <1>1, <1>19, <1>20, NodoDeSigue
<1>22. PICK q : q = nodo[n] /\ EsPar(q) /\ ParBien(n, q) /\ nodo = [m \in Nodos |-> nodo[m]]
  BY <1>1, <1>21, ParDe
<1>23. PICK L : L = Total(p)
  OBVIOUS
<1>24. x.conecta = TRUE
  BY <1>0, <1>3, <1>4 DEF CanalBien, Canal
<1>25. Sentido(mandado[<<c, o>>], L, TRUE, Resto(x, o))
  <2>1. Sentido(mandado[<<c, o>>], Total(<<c, Otro(o)>>), canales[c].conecta, Resto(canales[c], o))
    BY <1>1 DEF Charla
  <2> QED
    BY <1>0, <1>2, <1>3, <1>23, <1>24, <2>1
<1>26. PICK f : f = Flujo(x.cola[o]) /\ f \in Texto
  <2>1. x.cola[o] \in Seq(Texto)
    BY <1>4 DEF Canal
  <2>2. FlujoBien(x.cola[o])
    BY <2>1, FlujoEs
  <2> QED
    BY <2>2 DEF FlujoBien
<1>27. h \o f = t \o (g \o f) /\ g \o f \in Texto
  <2>1. Asocian(t, g, f)
    BY <1>9, <1>26, AsociaTexto
  <2>2. g \o f \in Texto
    BY <1>9, <1>26, UneTexto
  <2> QED
    BY <1>9, <2>1, <2>2 DEF Asocian
<1>28. g \o f \in Texto /\ Resto(x, o) = t \o (g \o f)
  <2>1. x.cable[o] = h
    BY <1>0, <1>2, <1>3
  <2>2. Resto(x, o) = h \o f
    BY <1>26, <2>1 DEF Resto
  <2> QED
    BY <1>27, <2>2
<1>29. Sentido(mandado[<<c, o>>], L \o ls, TRUE, g \o f)
  <2>1. PICK m, gf : m = mandado[<<c, o>>] /\ gf = g \o f
    OBVIOUS
  <2>2. Sentido(m, L, TRUE, t \o gf) /\ gf \in Texto
    BY <1>25, <1>28, <2>1
  <2>3. Sentido(m, L \o Lineas(from_utf8_lossy(t)), TRUE, gf)
    BY <1>9, <2>2, SentidoLee
  <2> QED
    BY <1>02, <1>7, <2>1, <2>3
<1>30. ls \in Seq(Texto)
  <2>1. PICK m, w : w \in Texto /\ Fiel(L, <<>>, w) /\ L \in Seq(Texto)
    BY <1>25 DEF Sentido
  <2> QED
    BY <1>02, <1>7, <1>9, <2>1, FielTrozo
<1>31. PICK ent, y : ent = q.chat_entrantes /\ y = [i \in DOMAIN ls |-> <<p, ls[i]>>]
  OBVIOUS
<1>32. SoloDe(p, ls, y)
  BY <1>20, <1>30, <1>31, DeTodas
<1>33. ent \in Entrantes /\ y \in Entrantes
  BY <1>22, <1>31, <1>32 DEF ParBien, SoloDe
<1>34. ent \o y \in Entrantes
  BY <1>33 DEF Entrantes
<1>35. PICK r1 : r1 = Par(q.vivo, q.chat_salidas, ent \o y, q.llamada, q.bajados)
  OBVIOUS
<1>36. EsPar(r1) /\ r1.vivo = q.vivo /\ r1.chat_salidas = q.chat_salidas /\ r1.chat_entrantes = ent \o y
       /\ r1.llamada = q.llamada
  BY <1>35 DEF Par, EsPar
<1>37. nodo' = [nodo EXCEPT ![n] = r1]
  <2>1. PICK z : z = ent \o y
    OBVIOUS
  <2>2. r1 = [q EXCEPT !.chat_entrantes = z]
    <3>1. PICK v1, v2, v3, v4, v5 :
            q = [vivo |-> v1, chat_salidas |-> v2, chat_entrantes |-> v3, llamada |-> v4, bajados |-> v5]
      BY <1>22 DEF EsPar
    <3>2. r1 = [vivo |-> v1, chat_salidas |-> v2, chat_entrantes |-> z, llamada |-> v4, bajados |-> v5]
      BY <1>35, <2>1, <3>1 DEF Par
    <3> QED
      BY <3>1, <3>2
  <2>3. nodo' = [nodo EXCEPT ![n].chat_entrantes = z]
    BY <1>03, <1>21, <1>22, <1>31, <2>1
  <2> QED
    BY <1>22, <2>2, <2>3
<1>38. ParBien(n, r1)'
  <2>1. ParBien(n, q)'
    BY <1>1, <1>19, <1>21, <1>22, ParSigue
  <2>2. ASSUME NEW i \in DOMAIN (ent \o y)
        PROVE  (ent \o y)[i][1][1] \in DOMAIN canales' /\ NodoDe((ent \o y)[i][1])' = n
    <3>1. (\E j \in DOMAIN ent : (ent \o y)[i] = ent[j]) \/ (\E j \in DOMAIN y : (ent \o y)[i] = y[j])
      <4>1. PICK z : z = ent \o y
        OBVIOUS
      <4>2. EsJunta(z, Puntas \X Texto, ent, y)
        BY <1>33, <4>1, PrefijoEs DEF Entrantes
      <4>3. PICK n1 \in Nat, n2 \in Nat :
              n1 = Len(ent) /\ n2 = Len(y) /\ DOMAIN ent = 1 .. n1 /\ DOMAIN y = 1 .. n2
        BY <1>33 DEF Entrantes
      <4>4. /\ z \in Seq(Puntas \X Texto) /\ Len(z) = n1 + n2
            /\ \A m \in 1 .. n1 : z[m] = ent[m]
            /\ \A m \in 1 .. n2 : z[n1 + m] = y[m]
        BY <4>2, <4>3 DEF EsJunta
      <4>5. i \in 1 .. n1 + n2
        BY <2>2, <4>1, <4>4
      <4>6. CASE i \in 1 .. n1
        BY <4>1, <4>3, <4>4, <4>6
      <4>7. CASE i \notin 1 .. n1
        <5>1. i - n1 \in 1 .. n2 /\ n1 + (i - n1) = i
          BY <4>5, <4>7
        <5>2. z[i] = y[i - n1]
          BY <4>4, <5>1
        <5> QED
          BY <4>1, <4>3, <5>1, <5>2
      <4> QED
        BY <4>6, <4>7
    <3>2. CASE \E j \in DOMAIN ent : (ent \o y)[i] = ent[j]
      BY <1>31, <2>1, <3>2 DEF ParBien
    <3>3. CASE \E j \in DOMAIN y : (ent \o y)[i] = y[j]
      <4>1. (ent \o y)[i][1] = p
        <5>1. PICK j \in DOMAIN y : (ent \o y)[i] = y[j]
          BY <3>3
        <5>2. PICK z : z = y[j]
          OBVIOUS
        <5>3. z = <<p, ls[j]>>
          BY <1>31, <5>2
        <5>4. z[1] = p
          BY <5>3
        <5> QED
          BY <5>1, <5>2, <5>4
      <4>2. p[1] \in DOMAIN canales'
        BY <1>18, <1>20 DEF CanalesBien
      <4> QED
        BY <1>21, <4>1, <4>2
    <3> QED
      BY <3>1, <3>2, <3>3
  <2> QED
    BY <1>34, <1>36, <2>1, <2>2 DEF ParBien
<1>39. Nodal'
  BY <1>1, <1>19, <1>21, <1>37, <1>38, UnNodo
<1>40. Casa'
  BY <1>04, <1>1, <1>18, <1>39, CasaSigue
<1>41. \A m \in Nodos : nodo'[m].chat_entrantes = IF m = n THEN ent \o y ELSE nodo[m].chat_entrantes
  BY <1>22, <1>36, <1>37
<1>42. ASSUME NEW u \in Puntas, u[1] \in DOMAIN canales
       PROVE  Total(u)' = IF u = p THEN L \o ls ELSE Total(u)
  <2>1. PICK m : m = NodoDe(u) /\ NodoDe(u)' = m /\ m \in Nodos
    BY <1>1, <1>19, <1>42, NodoDeSigue
  <2>2. DeBien(u, ent)
    BY <1>33, DeEs
  <2>3. De(u, ent) \in Seq(Texto) /\ De(u, ent \o y) = De(u, ent) \o De(u, y)
    BY <1>33, <2>2 DEF DeBien
  <2>4. leido[u] \in Seq(Texto) /\ leido' = leido
    BY <1>04, <1>1 DEF Charla
  <2>5. CASE u = p
    <3>1. L = leido[u] \o De(u, ent)
      BY <1>21, <1>22, <1>23, <1>31, <2>5 DEF Total
    <3>2. Total(u)' = leido[u] \o (De(u, ent) \o ls)
      BY <1>21, <1>32, <1>41, <2>1, <2>3, <2>4, <2>5 DEF Total, SoloDe
    <3>3. PICK a1 \in Seq(Texto), a2 \in Seq(Texto) : a1 = leido[u] /\ a2 = De(u, ent)
      BY <2>3, <2>4
    <3>4. a1 \o (a2 \o ls) = (a1 \o a2) \o ls
      <4>1. PICK a3 \in Seq(Texto) : a3 = ls
        BY <1>30
      <4>2. Asocian(a1, a2, a3)
        BY Asocia
      <4> QED
        BY <4>1, <4>2 DEF Asocian
    <3> QED
      BY <2>5, <3>1, <3>2, <3>3, <3>4
  <2>6. CASE u # p
    <3>1. De(u, y) = <<>>
      BY <1>32, <2>6 DEF SoloDe
    <3>2. De(u, ent \o y) = De(u, ent)
      BY <2>3, <3>1
    <3>3. De(u, nodo'[m].chat_entrantes) = De(u, nodo[m].chat_entrantes)
      BY <1>22, <1>31, <1>41, <2>1, <3>2
    <3> QED
      BY <2>1, <2>4, <2>6, <3>3 DEF Total
  <2> QED
    BY <2>5, <2>6
<1>43. canales'[c] = x1 /\ \A d \in DOMAIN canales : d # c => canales'[d] = canales[d]
  BY <1>17 DEF UnCanal
<1>44. SentidoDe(c, o)'
  <2>1. Total(p)' = L \o ls
    BY <1>20, <1>42
  <2>2. Resto(canales'[c], o) = g \o f /\ canales'[c].conecta = TRUE
    BY <1>13, <1>14, <1>24, <1>26, <1>43 DEF Resto
  <2>3. mandado' = mandado /\ <<c, Otro(o)>> = p
    BY <1>0, <1>04, <1>2
  <2> QED
    BY <1>29, <2>1, <2>2, <2>3 DEF SentidoDe
<1>45. ASSUME NEW d \in DOMAIN canales, NEW j \in Lados
       PROVE  SinCambio(d, j) \/ SentidoDe(d, j)'
  <2>1. CASE d = c /\ j = o
    BY <1>44, <2>1
  <2>2. CASE ~(d = c /\ j = o)
    <3>1. PICK u : u = <<d, Otro(j)>>
      OBVIOUS
    <3>2. u \in Puntas /\ u[1] = d /\ u[2] = Otro(j)
      BY <1>1, <3>1, LadosSon, PuntasSon DEF Casa
    <3>3. u # p
      <4>1. Otro(Otro(j)) = j
        BY LadosSon
      <4> QED
        BY <1>0, <1>2, <1>20, <2>2, <3>2, <4>1
    <3>4. Total(u)' = Total(u)
      BY <1>42, <3>2, <3>3
    <3>5. Resto(canales'[d], j) = Resto(canales[d], j) /\ canales'[d].conecta = canales[d].conecta
      <4>1. canales'[d].cable[j] = canales[d].cable[j] /\ canales'[d].cola[j] = canales[d].cola[j]
        BY <1>3, <1>13, <1>14, <1>43, <2>2
      <4>2. canales'[d].conecta = canales[d].conecta
        BY <1>3, <1>14, <1>43
      <4> QED
        BY <4>1, <4>2 DEF Resto
    <3> QED
      BY <1>04, <3>1, <3>4, <3>5 DEF SinCambio
  <2> QED
    BY <2>1, <2>2
<1>46. DOMAIN canales' = DOMAIN canales
  BY <1>18 DEF CanalesBien
<1>47. mandado' \in [Puntas -> Seq(Texto)] /\ leido' \in [Puntas -> Seq(Texto)]
  BY <1>04, <1>1 DEF Charla
<1>48. Charla'
  BY <1>04, <1>1, <1>45, <1>46, <1>47, CharlaVa
<1> QED
  BY <1>40, <1>48 DEF InvIroh

-----------------------------------------------------------------------------
(* The calls of a node, at their start and at their end.                   *)

LEMMA InvStart ==
  ASSUME SupuestoIroh, InvIroh, NEW n \in Nodos, start_servidor(n)
  PROVE  InvIroh'
<1>1. Casa
  BY DEF InvIroh
<1>2. dueno' = dueno /\ canales' = canales /\ tope' = tope /\ abiertos' = abiertos
      /\ mandado' = mandado /\ leido' = leido
  BY DEF start_servidor
<1>3. PICK q : q = nodo[n] /\ EsPar(q) /\ ParBien(n, q) /\ q.vivo = Nada
  BY <1>1, ParDe DEF start_servidor
<1>4. PICK r : r = Par(q.vivo, q.chat_salidas, q.chat_entrantes, <<"start">>, q.bajados)
  OBVIOUS
<1>5. EsPar(r) /\ r.vivo = q.vivo /\ r.chat_salidas = q.chat_salidas /\ r.llamada = <<"start">>
      /\ r.chat_entrantes = q.chat_entrantes
  BY <1>4 DEF Par, EsPar
<1>6. nodo' = [nodo EXCEPT ![n] = r]
  <2>1. r = [q EXCEPT !.llamada = <<"start">>]
    BY <1>3, <1>4 DEF EsPar, Par
  <2> QED
    BY <1>3, <2>1 DEF start_servidor, Empieza
<1>7. Cambia(n, r)
  <2>1. <<"start">>[1] # "conectar"
    OBVIOUS
  <2> QED
    BY <1>3, <1>5, <2>1 DEF Cambia
<1>8. Crece
  BY <1>2, NadaCrece
<1>9. dueno' \in Seq(Nodos) /\ abiertos' \subseteq DOMAIN dueno'
  BY <1>1, <1>2 DEF Casa
<1> QED
  BY <1>2, <1>6, <1>7, <1>8, <1>9, SoloNodo

LEMMA InvBajar ==
  ASSUME SupuestoIroh, InvIroh, NEW n \in Nodos, NEW e, NEW f, bajar(n, e, f)
  PROVE  InvIroh'
<1>1. Casa
  BY DEF InvIroh
<1>2. dueno' = dueno /\ canales' = canales /\ tope' = tope /\ abiertos' = abiertos
      /\ mandado' = mandado /\ leido' = leido
  BY DEF bajar
<1>3. PICK q : q = nodo[n] /\ EsPar(q) /\ ParBien(n, q)
  BY <1>1, ParDe DEF bajar
<1>4. PICK r : r = Par(q.vivo, q.chat_salidas, q.chat_entrantes, <<"bajar", e, f>>, q.bajados)
  OBVIOUS
<1>5. EsPar(r) /\ r.vivo = q.vivo /\ r.chat_salidas = q.chat_salidas /\ r.llamada = <<"bajar", e, f>>
      /\ r.chat_entrantes = q.chat_entrantes
  BY <1>4 DEF Par, EsPar
<1>6. nodo' = [nodo EXCEPT ![n] = r]
  <2>1. r = [q EXCEPT !.llamada = <<"bajar", e, f>>]
    BY <1>3, <1>4 DEF EsPar, Par
  <2> QED
    BY <1>3, <2>1 DEF bajar, Empieza
<1>7. Cambia(n, r)
  <2>1. <<"bajar", e, f>>[1] # "conectar"
    OBVIOUS
  <2>2. r.vivo # Nada => r.vivo \in DOMAIN dueno'
    BY <1>2, <1>3, <1>5 DEF ParBien
  <2> QED
    BY <1>3, <1>5, <2>1, <2>2 DEF Cambia
<1>8. Crece
  BY <1>2, NadaCrece
<1>9. dueno' \in Seq(Nodos) /\ abiertos' \subseteq DOMAIN dueno'
  BY <1>1, <1>2 DEF Casa
<1> QED
  BY <1>2, <1>6, <1>7, <1>8, <1>9, SoloNodo

LEMMA InvConectar ==
  ASSUME SupuestoIroh, InvIroh, NEW n \in Nodos, NEW s, chat_conectar(n, s)
  PROVE  InvIroh'
<1>0. PICK w : w = <<"conectar", limpiar_ticket(s)[1]>>
  OBVIOUS
<1>1. Casa
  BY DEF InvIroh
<1>2. dueno' = dueno /\ canales' = canales /\ tope' = tope /\ abiertos' = abiertos
      /\ mandado' = mandado /\ leido' = leido
  BY DEF chat_conectar
<1>3. PICK q : q = nodo[n] /\ EsPar(q) /\ ParBien(n, q) /\ q.vivo # Nada
  BY <1>1, ParDe DEF chat_conectar
<1>4. PICK r : r = Par(q.vivo, q.chat_salidas, q.chat_entrantes, w, q.bajados)
  OBVIOUS
<1>5. EsPar(r) /\ r.vivo = q.vivo /\ r.chat_salidas = q.chat_salidas /\ r.llamada = w
      /\ r.chat_entrantes = q.chat_entrantes
  BY <1>4 DEF Par, EsPar
<1>6. nodo' = [nodo EXCEPT ![n] = r]
  <2>1. r = [q EXCEPT !.llamada = w]
    BY <1>3, <1>4 DEF EsPar, Par
  <2> QED
    BY <1>0, <1>3, <2>1 DEF chat_conectar, Empieza
<1>7. Cambia(n, r)
  <2>1. r.vivo # Nada => r.vivo \in DOMAIN dueno'
    BY <1>2, <1>3, <1>5 DEF ParBien
  <2> QED
    BY <1>3, <1>5, <2>1 DEF Cambia
<1>8. Crece
  BY <1>2, NadaCrece
<1>9. dueno' \in Seq(Nodos) /\ abiertos' \subseteq DOMAIN dueno'
  BY <1>1, <1>2 DEF Casa
<1> QED
  BY <1>2, <1>6, <1>7, <1>8, <1>9, SoloNodo

LEMMA InvParar ==
  ASSUME SupuestoIroh, InvIroh, NEW n \in Nodos, stop(n)
  PROVE  InvIroh'
<1>0. PICK w : w = <<"stop", nodo[n].vivo>>
  OBVIOUS
<1>1. Casa
  BY DEF InvIroh
<1>2. dueno' = dueno /\ canales' = canales /\ tope' = tope /\ abiertos' = abiertos
      /\ mandado' = mandado /\ leido' = leido
  BY DEF stop
<1>3. PICK q : q = nodo[n] /\ EsPar(q) /\ ParBien(n, q)
  BY <1>1, ParDe DEF stop
<1>4. PICK r : r = Par(Nada, q.chat_salidas, q.chat_entrantes, w, q.bajados)
  OBVIOUS
<1>5. EsPar(r) /\ r.vivo = Nada /\ r.chat_salidas = q.chat_salidas /\ r.llamada = w
      /\ r.chat_entrantes = q.chat_entrantes
  BY <1>4 DEF Par, EsPar
<1>6. nodo' = [nodo EXCEPT ![n] = r]
  <2>1. r = [q EXCEPT !.llamada = w, !.vivo = Nada]
    BY <1>3, <1>4, ParParado
  <2> QED
    BY <1>0, <1>3, <2>1 DEF stop
<1>7. Cambia(n, r)
  <2>1. <<"stop", nodo[n].vivo>>[1] # "conectar"
    OBVIOUS
  <2> QED
    BY <1>0, <1>3, <1>5, <2>1 DEF Cambia
<1>8. Crece
  BY <1>2, NadaCrece
<1>9. dueno' \in Seq(Nodos) /\ abiertos' \subseteq DOMAIN dueno'
  BY <1>1, <1>2 DEF Casa
<1> QED
  BY <1>2, <1>6, <1>7, <1>8, <1>9, SoloNodo

LEMMA InvLimpia ==
  ASSUME SupuestoIroh, InvIroh, NEW n \in Nodos, Limpia(n)
  PROVE  InvIroh'
<1>1. Casa
  BY DEF InvIroh
<1>2. dueno' = dueno /\ canales' = canales /\ tope' = tope /\ abiertos' = abiertos
      /\ mandado' = mandado /\ leido' = leido
  BY DEF Limpia
<1>3. PICK q : q = nodo[n] /\ EsPar(q) /\ ParBien(n, q)
  BY <1>1, ParDe DEF Limpia
<1>4. PICK r : r = Par(q.vivo, <<>>, q.chat_entrantes, q.llamada, q.bajados)
  OBVIOUS
<1>5. EsPar(r) /\ r.vivo = q.vivo /\ r.chat_salidas = <<>> /\ r.llamada = q.llamada
      /\ r.chat_entrantes = q.chat_entrantes
  BY <1>4 DEF Par, EsPar
<1>6. nodo' = [nodo EXCEPT ![n] = r]
  <2>1. r = [q EXCEPT !.chat_salidas = <<>>]
    BY <1>3, <1>4, ParCon
  <2> QED
    BY <1>3, <2>1 DEF Limpia
<1>7. Cambia(n, r)
  <2>1. (r.vivo # Nada => r.vivo \in DOMAIN dueno') /\ ((r.llamada # <<>> /\ r.llamada[1] = "conectar") => r.vivo # Nada)
    BY <1>2, <1>3, <1>5 DEF ParBien
  <2> QED
    BY <1>3, <1>5, <2>1 DEF Cambia
<1>8. Crece
  BY <1>2, NadaCrece
<1>9. dueno' \in Seq(Nodos) /\ abiertos' \subseteq DOMAIN dueno'
  BY <1>1, <1>2 DEF Casa
<1> QED
  BY <1>2, <1>6, <1>7, <1>8, <1>9, SoloNodo

LEMMA InvFinStart ==
  ASSUME SupuestoIroh, InvIroh, NEW n \in Nodos, FinStart(n)
  PROVE  InvIroh'
<1>1. Casa
  BY DEF InvIroh
<1>2. canales' = canales /\ tope' = tope /\ mandado' = mandado /\ leido' = leido
  BY DEF FinStart
<1>3. PICK q : q = nodo[n] /\ EsPar(q) /\ ParBien(n, q) /\ nodo = [m \in Nodos |-> nodo[m]]
  BY <1>1, ParDe
<1>4. PICK d \in Nat : d = Len(dueno) /\ DOMAIN dueno = 1 .. d
  BY <1>1 DEF Casa
<1>5. PICK v \in {q.vivo, d + 1} : nodo' = [Vuelve(n) EXCEPT ![n].vivo = v] /\ (v = q.vivo \/ d + 1 \in DOMAIN dueno')
  <2>1. CASE nodo' = Vuelve(n)
    <3>1. Vuelve(n) = [Vuelve(n) EXCEPT ![n].vivo = q.vivo]
      BY <1>3 DEF Vuelve, EsPar
    <3> QED
      BY <2>1, <3>1
  <2>2. CASE dueno' = Append(dueno, n) /\ nodo' = [Vuelve(n) EXCEPT ![n].vivo = Len(dueno')]
    <3>1. Len(dueno') = d + 1 /\ d + 1 \in DOMAIN dueno'
      BY <1>1, <1>4, <2>2 DEF Casa
    <3> QED
      BY <2>2, <3>1
  <2> QED
    BY <2>1, <2>2 DEF FinStart
<1>6. /\ dueno' \in Seq(Nodos) /\ abiertos' \subseteq DOMAIN dueno'
      /\ \A e \in DOMAIN dueno : e \in DOMAIN dueno' /\ dueno'[e] = dueno[e]
  <2>1. CASE dueno' = dueno /\ abiertos' = abiertos
    BY <1>1, <2>1 DEF Casa
  <2>2. CASE dueno' = Append(dueno, n) /\ abiertos' = abiertos \cup {Len(dueno')}
    <3>1. dueno' \in Seq(Nodos) /\ Len(dueno') = d + 1 /\ DOMAIN dueno' = 1 .. d + 1
      BY <1>1, <1>4, <2>2 DEF Casa
    <3>2. \A e \in 1 .. d : dueno'[e] = dueno[e]
      BY <1>1, <1>4, <2>2 DEF Casa
    <3> QED
      BY <1>1, <1>4, <2>2, <3>1, <3>2 DEF Casa
  <2> QED
    BY <2>1, <2>2 DEF FinStart
<1>7. PICK r : r = Par(v, q.chat_salidas, q.chat_entrantes, <<>>, q.bajados)
  OBVIOUS
<1>8. EsPar(r) /\ r.vivo = v /\ r.chat_salidas = q.chat_salidas /\ r.llamada = <<>>
      /\ r.chat_entrantes = q.chat_entrantes
  BY <1>7 DEF Par, EsPar
<1>9. nodo' = [nodo EXCEPT ![n] = r]
  <2>1. PICK x : x = [q EXCEPT !.llamada = <<>>]
    OBVIOUS
  <2>2. x = Par(q.vivo, q.chat_salidas, q.chat_entrantes, <<>>, q.bajados)
    BY <1>3, <2>1, ParCon
  <2>3. [x EXCEPT !.vivo = v] = r
    BY <1>7, <2>2 DEF Par
  <2>4. Vuelve(n) = [nodo EXCEPT ![n] = x]
    BY <1>3, <2>1 DEF Vuelve
  <2>5. PICK y : y = Vuelve(n)
    OBVIOUS
  <2>6. y = [m \in Nodos |-> IF m = n THEN x ELSE nodo[m]]
    BY <1>3, <2>4, <2>5
  <2>7. [y EXCEPT ![n].vivo = v] = [m \in Nodos |-> IF m = n THEN r ELSE nodo[m]]
    BY <2>3, <2>6
  <2>8. [nodo EXCEPT ![n] = r] = [m \in Nodos |-> IF m = n THEN r ELSE nodo[m]]
    BY <1>3
  <2>9. nodo' = [y EXCEPT ![n].vivo = v]
    BY <1>5, <2>5
  <2> QED
    BY <2>7, <2>8, <2>9, Zenon
<1>10. Cambia(n, r)
  <2>1. r.vivo # Nada => r.vivo \in DOMAIN dueno'
    BY <1>3, <1>5, <1>6, <1>8 DEF ParBien
  <2> QED
    BY <1>3, <1>8, <2>1 DEF Cambia
<1>11. Crece
  BY <1>2, <1>6 DEF Crece
<1> QED
  BY <1>2, <1>6, <1>9, <1>10, <1>11, SoloNodo

(* A step that leaves nodes, channels and lines as they are. *)
LEMMA InvOfrecer ==
  ASSUME SupuestoIroh, InvIroh, NEW n \in Nodos, NEW f, ofrecer(n, f)
  PROVE  InvIroh'
<1>1. Casa
  BY DEF InvIroh
<1>2. dueno' = dueno /\ canales' = canales /\ tope' = tope /\ abiertos' = abiertos
      /\ mandado' = mandado /\ leido' = leido /\ nodo' = nodo
  BY DEF ofrecer
<1>3. PICK q : q = nodo[n] /\ EsPar(q) /\ ParBien(n, q) /\ nodo = [m \in Nodos |-> nodo[m]]
  BY <1>1, ParDe
<1>4. nodo' = [nodo EXCEPT ![n] = q]
  BY <1>2, <1>3
<1>5. Cambia(n, q)
  BY <1>2, <1>3 DEF Cambia, ParBien
<1>6. Crece
  BY <1>2, NadaCrece
<1>7. dueno' \in Seq(Nodos) /\ abiertos' \subseteq DOMAIN dueno'
  BY <1>1, <1>2 DEF Casa
<1> QED
  BY <1>2, <1>4, <1>5, <1>6, <1>7, SoloNodo

(* A call that ends without a channel. *)
LEMMA InvVuelve ==
  ASSUME SupuestoIroh, InvIroh, NEW n \in Nodos, NEW b,
         nodo' = [Vuelve(n) EXCEPT ![n].bajados = b],
         UNCHANGED <<tope, dueno, abiertos, canales, mandado, leido>>
  PROVE  InvIroh'
<1>1. Casa
  BY DEF InvIroh
<1>3. PICK q : q = nodo[n] /\ EsPar(q) /\ ParBien(n, q) /\ nodo = [m \in Nodos |-> nodo[m]]
  BY <1>1, ParDe
<1>7. PICK r : r = Par(q.vivo, q.chat_salidas, q.chat_entrantes, <<>>, b)
  OBVIOUS
<1>8. EsPar(r) /\ r.vivo = q.vivo /\ r.chat_salidas = q.chat_salidas /\ r.llamada = <<>>
      /\ r.chat_entrantes = q.chat_entrantes
  BY <1>7 DEF Par, EsPar
<1>9. nodo' = [nodo EXCEPT ![n] = r]
  <2>1. PICK x : x = [q EXCEPT !.llamada = <<>>]
    OBVIOUS
  <2>2. x = Par(q.vivo, q.chat_salidas, q.chat_entrantes, <<>>, q.bajados)
    BY <1>3, <2>1, ParCon
  <2>3. [x EXCEPT !.bajados = b] = r
    BY <1>7, <2>2, ParBaja
  <2>4. Vuelve(n) = [nodo EXCEPT ![n] = x]
    BY <1>3, <2>1 DEF Vuelve
  <2>5. PICK y : y = Vuelve(n)
    OBVIOUS
  <2>6. y = [m \in Nodos |-> IF m = n THEN x ELSE nodo[m]]
    BY <1>3, <2>4, <2>5
  <2>7. [y EXCEPT ![n].bajados = b] = [m \in Nodos |-> IF m = n THEN r ELSE nodo[m]]
    BY <2>3, <2>6
  <2>8. [nodo EXCEPT ![n] = r] = [m \in Nodos |-> IF m = n THEN r ELSE nodo[m]]
    BY <1>3
  <2>9. nodo' = [y EXCEPT ![n].bajados = b]
    BY <2>5
  <2> QED
    BY <2>7, <2>8, <2>9, Zenon
<1>10. Cambia(n, r)
  BY <1>3, <1>8 DEF Cambia, ParBien
<1>11. Crece
  BY NadaCrece
<1>12. dueno' \in Seq(Nodos) /\ abiertos' \subseteq DOMAIN dueno'
  BY <1>1 DEF Casa
<1> QED
  BY <1>9, <1>10, <1>11, <1>12, SoloNodo

LEMMA VuelveIgual ==
  ASSUME Casa, NEW n \in Nodos
  PROVE  \E b : Vuelve(n) = [Vuelve(n) EXCEPT ![n].bajados = b]
<1>1. PICK q : q = nodo[n] /\ EsPar(q) /\ nodo = [m \in Nodos |-> nodo[m]]
  BY ParDe
<1>2. Vuelve(n) = [Vuelve(n) EXCEPT ![n].bajados = q.bajados]
  BY <1>1 DEF Vuelve, EsPar
<1> QED
  BY <1>2

LEMMA InvFinBajar ==
  ASSUME SupuestoIroh, InvIroh, NEW n \in Nodos, FinBajar(n)
  PROVE  InvIroh'
<1>1. Casa
  BY DEF InvIroh
<1>2. PICK b : nodo' = [Vuelve(n) EXCEPT ![n].bajados = b]
  <2>1. PICK f : f = nodo[n].llamada[3]
    OBVIOUS
  <2>2. CASE nodo' = Vuelve(n)
    BY <1>1, <2>2, VuelveIgual
  <2>3. CASE nodo' = [Vuelve(n) EXCEPT ![n].bajados = @ \cup {f}]
    <3>1. PICK y : y = Vuelve(n)
      OBVIOUS
    <3>2. nodo' = [y EXCEPT ![n].bajados = y[n].bajados \cup {f}]
      BY <2>3, <3>1
    <3> QED
      BY <3>1, <3>2
  <2> QED
    BY <2>1, <2>2, <2>3 DEF FinBajar
<1>3. UNCHANGED <<tope, dueno, abiertos, canales, mandado, leido>>
  BY DEF FinBajar
<1> QED
  BY <1>2, <1>3, InvVuelve

(* The reader of an end takes k bytes off the wire. *)
Toma(p, k) ==
  /\ k <= Len(canales[p[1]].cable[Otro(p[2])])
  /\ canales' = [canales EXCEPT ![p[1]].cable[Otro(p[2])] = SubSeq(@, k + 1, Len(@))]
  /\ nodo' = [nodo EXCEPT ![NodoDe(p)].chat_entrantes =
                 @ \o [i \in DOMAIN Lineas(from_utf8_lossy(SubSeq(canales[p[1]].cable[Otro(p[2])], 1, k))) |->
                       <<p, Lineas(from_utf8_lossy(SubSeq(canales[p[1]].cable[Otro(p[2])], 1, k)))[i]>>]]

(* What a reader does: it takes a chunk, or the other side has finished    *)
(* and nothing is left.                                                    *)
LEMMA LectorHace ==
  ASSUME SupuestoIroh, Casa, NEW c \in DOMAIN canales, NEW l \in Lados, NEW p, p = <<c, l>>, lector(p)
  PROVE  \/ \E h, k, ls : Trozo(c, l, p, h, k, ls)
         \/ /\ canales[c].lector[l] = "vive"
            /\ canales[c].cable[Otro(l)] = <<>> /\ canales[c].escritor[Otro(l)] = "fin"
            /\ canales' = [canales EXCEPT ![c].lector[l] = "fin"] /\ nodo' = nodo
<1>1. p[1] = c /\ p[2] = l
  OBVIOUS
<1>2. UNCHANGED <<tope, dueno, abiertos, mandado, leido>> /\ canales[c].lector[l] = "vive"
  BY <1>1 DEF lector
<1>3. PICK h : h = canales[c].cable[Otro(l)] /\ h \in Texto
  <2>1. canales[c] \in Canal
    BY ConMismo
  <2> QED
    BY <2>1, LadosSon DEF Canal
<1>4. \/ \E k \in 1 .. Bloque : Toma(p, k)
      \/ /\ canales[p[1]].cable[Otro(p[2])] = <<>> /\ canales[p[1]].escritor[Otro(p[2])] = "fin"
         /\ canales' = [canales EXCEPT ![p[1]].lector[p[2]] = "fin"] /\ nodo' = nodo
  BY Zenon DEF lector, Toma
<1>5. CASE \E k \in 1 .. Bloque : Toma(p, k)
  <2>1. PICK k \in 1 .. Bloque : Toma(p, k)
    BY <1>5, Zenon
  <2>2. PICK h1, ls : h1 = canales[p[1]].cable[Otro(p[2])] /\ ls = Lineas(from_utf8_lossy(SubSeq(h1, 1, k)))
    OBVIOUS
  <2>3. h1 = h
    BY <1>1, <1>3, <2>2
  <2>4. nodo' = [nodo EXCEPT ![NodoDe(p)].chat_entrantes = @ \o [i \in DOMAIN ls |-> <<p, ls[i]>>]]
    BY <2>1, <2>2, Zenon DEF Toma
  <2>5. k <= Len(h) /\ ls = Lineas(from_utf8_lossy(SubSeq(h, 1, k)))
    BY <2>1, <2>2, <2>3, Zenon DEF Toma
  <2>6. canales' = [canales EXCEPT ![c].cable[Otro(l)] = SubSeq(@, k + 1, Len(@))]
    BY <1>1, <2>1, Zenon DEF Toma
  <2>7. k \in 1 .. Len(h)
    <3>1. Len(h) \in Nat /\ Bloque \in Nat
      BY <1>3 DEF Texto, SupuestoIroh
    <3> QED
      BY <2>5, <3>1
  <2>8. Trozo(c, l, p, h, k, ls)
    BY <1>2, <1>3, <2>4, <2>5, <2>6, <2>7, Zenon DEF Trozo
  <2> QED
    BY <2>8, Zenon
<1>6. CASE /\ canales[p[1]].cable[Otro(p[2])] = <<>> /\ canales[p[1]].escritor[Otro(p[2])] = "fin"
           /\ canales' = [canales EXCEPT ![p[1]].lector[p[2]] = "fin"] /\ nodo' = nodo
  BY <1>1, <1>2, <1>6, Zenon
<1> QED
  BY <1>4, <1>5, <1>6

LEMMA InvLector ==
  ASSUME SupuestoIroh, InvIroh, NEW c \in DOMAIN canales, NEW l \in Lados, NEW p, p = <<c, l>>, lector(p)
  PROVE  InvIroh'
<1>1. Casa
  BY DEF InvIroh
<1>3. UNCHANGED <<tope, dueno, abiertos, mandado, leido>> /\ canales[c].lector[l] = "vive"
  BY DEF lector
<1>4. PICK x : x = canales[c]
  OBVIOUS
<1>5. /\ canales = Con(canales, DOMAIN canales, c, x)
      /\ x \in Canal /\ CanalBien(x)
      /\ x = Enlace(x.ends, x.conecta, x.aceptado, x.cola, x.cable, x.escritor, x.lector)
  BY <1>1, <1>4, ConMismo
<1>8. CASE \E h, k, ls : Trozo(c, l, p, h, k, ls)
  BY <1>8, InvTrozo
<1>9. CASE canales' = [canales EXCEPT ![c].lector[l] = "fin"] /\ nodo' = nodo
  <2>1. PICK f : f = "fin" /\ f \in Estados /\ f # "vive"
    BY DEF Estados
  <2>2. PICK D, e, k, a, cc, bb, s, r :
         /\ D = DOMAIN canales /\ e = x.ends /\ k = x.conecta /\ a = x.aceptado
         /\ cc = x.cola /\ bb = x.cable /\ s = x.escritor /\ r = x.lector
    OBVIOUS
  <2>3. c \in D /\ canales = Con(canales, D, c, Enlace(e, k, a, cc, bb, s, r))
    BY <1>5, <2>2
  <2>4. PICK r1 : r1 = Cambiada(r, l, f)
    OBVIOUS
  <2>5. PICK x1 : x1 = Enlace(e, k, a, cc, bb, s, r1)
    OBVIOUS
  <2>6. canales' = Con(canales, DOMAIN canales, c, x1)
    <3>1. PonLector(canales, c, l, f) = Con(canales, D, c, Enlace(e, k, a, cc, bb, s, r1))
      BY <2>3, <2>4, ConLector
    <3>2. canales' = PonLector(canales, c, l, f)
      BY <1>9, <2>1 DEF PonLector
    <3> QED
      BY <2>2, <2>5, <3>1, <3>2
  <2>7. r1 \in [Lados -> Estados] /\ \A j \in Lados : r1[j] = "vive" => x.lector[j] = "vive"
    BY <1>5, <2>1, <2>2, <2>4 DEF Canal, Cambiada
  <2>8. x1.ends = x.ends /\ x1.conecta = x.conecta /\ x1.cola = x.cola /\ x1.cable = x.cable /\ x1.lector = r1
    BY <2>2, <2>5 DEF Enlace
  <2>9. x1 \in Canal
    BY <1>5, <2>2, <2>5, <2>7 DEF Canal, Enlace
  <2>10. CanalBien(x1)
    BY <1>5, <2>7, <2>8, <2>9 DEF CanalBien
  <2>11. UnCanal(c, x1)
    BY <1>1, <1>4, <2>6, <2>8, <2>10, UnCanalBien
  <2>12. x1.conecta = canales[c].conecta /\ \A j \in Lados : Resto(x1, j) = Resto(canales[c], j)
    BY <1>4, <2>8 DEF Resto
  <2> QED
    BY <1>3, <1>9, <2>11, <2>12, SoloUnCanal
<1> QED
  BY <1>1, <1>8, <1>9, LectorHace

-----------------------------------------------------------------------------
(* A channel is made.                                                      *)

LEMMA NuevoBien ==
  ASSUME NEW a \in DOMAIN dueno, NEW b \in DOMAIN dueno, dueno \in Seq(Nodos)
  PROVE  CanalBien(CanalNuevo(a, b)) /\ \A l \in Lados : Resto(CanalNuevo(a, b), l) = <<>>
<1>1. PICK e, v, o, s : e = <<a, b>> /\ v = <<<<>>, <<>>>> /\ o = <<<<>>, <<>>>> /\ s = <<"vive", "no">>
  OBVIOUS
<1>2. PICK x : x = [ends |-> e, conecta |-> TRUE, aceptado |-> FALSE, cola |-> o, cable |-> v,
                    escritor |-> s, lector |-> s]
  OBVIOUS
<1>3. x = CanalNuevo(a, b)
  BY <1>1, <1>2 DEF CanalNuevo
<1>4. x.ends = e /\ x.conecta = TRUE /\ x.cola = o /\ x.cable = v /\ x.lector = s
  BY <1>2
<1>5. a \in Nat /\ b \in Nat
  OBVIOUS
<1>6. e \in [Lados -> Nat] /\ \A l \in Lados : e[l] \in DOMAIN dueno
  BY <1>1, <1>5 DEF Lados
<1>7. <<>> \in Texto /\ <<>> \in Seq(Texto)
  BY DEF Texto
<1>8. v \in [Lados -> Texto] /\ \A l \in Lados : v[l] = <<>>
  BY <1>1, <1>7 DEF Lados
<1>9. o \in [Lados -> Seq(Texto)] /\ \A l \in Lados : o[l] = <<>>
  <2>1. PICK t \in Seq(Texto) : t = <<>>
    BY <1>7
  <2>2. o = <<t, t>>
    BY <1>1, <2>1
  <2>3. o \in [1 .. 2 -> Seq(Texto)]
    BY <2>2
  <2>4. o[1] = t /\ o[2] = t
    BY <2>2
  <2> QED
    BY <2>1, <2>3, <2>4 DEF Lados
<1>10. s \in [Lados -> Estados]
  <2>1. PICK s1 \in Estados, s2 \in Estados : s1 = "vive" /\ s2 = "no"
    BY DEF Estados
  <2>2. s = <<s1, s2>>
    BY <1>1, <2>1
  <2> QED
    BY <2>2 DEF Lados
<1>11. x \in Canal
  BY <1>2, <1>6, <1>8, <1>9, <1>10 DEF Canal
<1>12. CanalBien(x)
  BY <1>4, <1>6, <1>11 DEF CanalBien
<1>13. ASSUME NEW l \in Lados
       PROVE  Resto(x, l) = <<>>
  <2>1. Flujo(<<>>) = <<>>
    BY <1>7, FlujoEs DEF FlujoBien
  <2>2. <<>> \o <<>> = <<>>
    OBVIOUS
  <2> QED
    BY <1>4, <1>8, <1>9, <2>1, <2>2 DEF Resto
<1> QED
  BY <1>3, <1>12, <1>13

LEMMA InvFinConectar ==
  ASSUME SupuestoIroh, InvIroh, NEW n \in Nodos, FinConectar(n)
  PROVE  InvIroh'
<1>1. Casa /\ Charla
  BY DEF InvIroh
<1>2. tope' = tope /\ dueno' = dueno /\ abiertos' = abiertos /\ mandado' = mandado /\ leido' = leido
  BY DEF FinConectar
<1>3. CASE nodo' = Vuelve(n) /\ canales' = canales
  <2>1. PICK b : nodo' = [Vuelve(n) EXCEPT ![n].bajados = b]
    BY <1>1, <1>3, VuelveIgual
  <2> QED
    BY <1>2, <1>3, <2>1, InvVuelve
<1>4. ASSUME NEW e, Len(canales) < tope.canales, e \in abiertos,
             canales' = Append(canales, CanalNuevo(nodo[n].vivo, e)),
             nodo' = [Vuelve(n) EXCEPT ![n].chat_salidas = Append(@, <<Len(canales'), 1>>)]
      PROVE  InvIroh'
  <2>1. PICK q : q = nodo[n] /\ EsPar(q) /\ ParBien(n, q) /\ nodo = [m \in Nodos |-> nodo[m]] /\ q.vivo \in DOMAIN dueno
    <3>1. nodo[n].vivo # Nada
      BY <1>1, ParDe DEF FinConectar, ParBien
    <3> QED
      BY <1>1, <3>1, ParDe DEF ParBien
  <2>2. PICK k \in Nat : k = Len(canales) /\ DOMAIN canales = 1 .. k
    BY <1>1 DEF Casa
  <2>3. PICK x : x = CanalNuevo(q.vivo, e)
    OBVIOUS
  <2>4. CanalBien(x) /\ \A l \in Lados : Resto(x, l) = <<>>
    <3>1. e \in DOMAIN dueno /\ dueno \in Seq(Nodos)
      BY <1>1, <1>4 DEF Casa
    <3> QED
      BY <2>1, <2>3, <3>1, NuevoBien
  <2>5. PICK c, p, l : c = k + 1 /\ l = 1 /\ p = <<c, l>>
    OBVIOUS
  <2>6. x \in Canal /\ canales \in Seq(Canal)
    BY <1>1, <2>4 DEF CanalBien, Casa
  <2>7. canales' = Append(canales, x)
    BY <1>4, <2>1, <2>3
  <2>8. /\ canales' \in Seq(Canal) /\ Len(canales') = c /\ DOMAIN canales' = 1 .. c
        /\ canales'[c] = x /\ \A d \in 1 .. k : canales'[d] = canales[d]
    BY <2>2, <2>5, <2>6, <2>7
  <2>9. Crece
    BY <1>2, <2>2, <2>5, <2>8 DEF Crece
  <2>10. c <= TopeCanales /\ TopeCanales \in Nat
    <3>1. tope \in Topes
      BY <1>1 DEF Casa
    <3>2. tope.canales \in 0 .. TopeCanales /\ TopeCanales \in Nat
      BY <3>1 DEF SupuestoIroh
    <3> QED
      BY <1>4, <2>2, <2>5, <3>2
  <2>11. p \in Puntas /\ p[1] = c
    BY <2>2, <2>5, <2>10 DEF Puntas, Lados
  <2>12. PICK t : t = <<>>
    OBVIOUS
  <2>13. PICK r : r = Par(q.vivo, Append(q.chat_salidas, p), q.chat_entrantes, t, q.bajados)
    OBVIOUS
  <2>14. nodo' = [nodo EXCEPT ![n] = r]
    <3>1. PICK u : u = [q EXCEPT !.llamada = <<>>]
      OBVIOUS
    <3>2. u = Par(q.vivo, q.chat_salidas, q.chat_entrantes, t, q.bajados)
      BY <2>1, <2>12, <3>1 DEF EsPar, Par
    <3>3. PICK g : g = Append(q.chat_salidas, p)
      OBVIOUS
    <3>4. [u EXCEPT !.chat_salidas = g] = r /\ u.chat_salidas = q.chat_salidas
      <4>1. PICK v1, v2, v3, v4 : v1 = q.vivo /\ v2 = q.chat_salidas /\ v3 = q.chat_entrantes /\ v4 = q.bajados
        OBVIOUS
      <4>2. u = [vivo |-> v1, chat_salidas |-> v2, chat_entrantes |-> v3, llamada |-> t, bajados |-> v4]
        BY <3>2, <4>1 DEF Par
      <4>3. r = [vivo |-> v1, chat_salidas |-> g, chat_entrantes |-> v3, llamada |-> t, bajados |-> v4]
        BY <2>13, <3>3, <4>1 DEF Par
      <4> QED
        BY <4>1, <4>2, <4>3
    <3>5. PICK y : y = Vuelve(n)
      OBVIOUS
    <3>6. Vuelve(n) = [nodo EXCEPT ![n] = u]
      BY <2>1, <3>1 DEF Vuelve
    <3>7. y = [m \in Nodos |-> IF m = n THEN u ELSE nodo[m]]
      BY <2>1, <3>5, <3>6
    <3>8. nodo' = [y EXCEPT ![n].chat_salidas = Append(y[n].chat_salidas, p)]
      BY <1>4, <2>5, <2>8, <3>5
    <3>9. nodo' = [y EXCEPT ![n].chat_salidas = g]
      <4>1. y[n] = u
        BY <3>7
      <4>2. Append(y[n].chat_salidas, p) = g
        BY <3>3, <3>4, <4>1
      <4> QED
        BY <3>8, <4>2, Zenon
    <3>10. [y EXCEPT ![n].chat_salidas = g] = [m \in Nodos |-> IF m = n THEN r ELSE nodo[m]]
      BY <3>4, <3>7
    <3>11. [nodo EXCEPT ![n] = r] = [m \in Nodos |-> IF m = n THEN r ELSE nodo[m]]
      BY <2>1
    <3> QED
      BY <3>9, <3>10, <3>11, Zenon
  <2>15. p[1] \in DOMAIN canales'
    BY <2>2, <2>5, <2>8, <2>11
  <2>16. ParBien(n, r)'
    BY <1>1, <2>1, <2>9, <2>11, <2>12, <2>13, <2>15, AlargaBien
  <2>17. Nodal'
    BY <1>1, <2>9, <2>14, <2>16, UnNodo
  <2>18. (\A d \in DOMAIN canales : CanalBien(canales[d]))'
    <3>1. ASSUME NEW d \in DOMAIN canales'
          PROVE  CanalBien(canales[d])'
      <4>1. PICK z : z = canales'[d]
        OBVIOUS
      <4>2. CanalBien(z)
        <5>1. CASE d = c
          BY <2>4, <2>8, <4>1, <5>1
        <5>2. CASE d # c
          <6>1. d \in DOMAIN canales /\ z = canales[d]
            BY <2>2, <2>5, <2>8, <4>1, <5>2
          <6> QED
            BY <1>1, <6>1 DEF Casa
        <5> QED
          BY <5>1, <5>2
      <4>3. CanalBien(z)'
        BY <2>9, <4>2, CanalSigue
      <4> QED
        BY <4>1, <4>3
    <3> QED
      BY <3>1
  <2>19. Casa'
    BY <1>1, <1>2, <2>8, <2>10, <2>17, <2>18 DEF Casa
  <2>20. \A m \in Nodos : nodo'[m].chat_entrantes = nodo[m].chat_entrantes
    BY <2>1, <2>13, <2>14 DEF Par
  <2>21. ASSUME NEW d \in DOMAIN canales', NEW j \in Lados
         PROVE  SentidoDe(d, j)'
    <3>1. PICK u, w : u = <<d, Otro(j)>> /\ w = <<d, j>>
      OBVIOUS
    <3>2. CASE d \in DOMAIN canales
      <4>1. u \in Puntas /\ u[1] = d
        BY <1>1, <3>1, <3>2, LadosSon, PuntasSon DEF Casa
      <4>2. NodoDe(u)' = NodoDe(u) /\ NodoDe(u) \in Nodos
        BY <1>1, <2>9, <3>2, <4>1, NodoDeSigue
      <4>3. Total(u)' = Total(u)
        BY <1>2, <2>20, <4>2 DEF Total
      <4>4. canales'[d] = canales[d]
        BY <2>2, <2>8, <3>2
      <4>5. Sentido(mandado[w], Total(u), canales[d].conecta, Resto(canales[d], j))
        BY <1>1, <3>1, <3>2 DEF Charla
      <4> QED
        BY <1>2, <3>1, <4>3, <4>4, <4>5 DEF SentidoDe
    <3>3. CASE d \notin DOMAIN canales
      <4>1. d = c
        BY <2>2, <2>5, <2>8, <3>3
      <4>2. u \in Puntas /\ w \in Puntas /\ u[1] = c /\ w[1] = c /\ u[2] = Otro(j)
        BY <2>2, <2>5, <2>10, <3>1, <4>1, LadosSon DEF Puntas
      <4>3. mandado[w] = <<>> /\ leido[u] = <<>>
        BY <1>1, <3>3, <4>1, <4>2 DEF Charla
      <4>4. PICK m : m = NodoDe(u)' /\ m \in Nodos
        <5>1. x.ends[Otro(j)] \in DOMAIN dueno
          BY <2>4, LadosSon DEF CanalBien
        <5>2. NodoDe(u)' = dueno[x.ends[Otro(j)]]
          BY <1>2, <2>8, <4>2 DEF NodoDe
        <5> QED
          BY <1>1, <5>1, <5>2 DEF Casa
      <4>5. PICK z : z = nodo[m].chat_entrantes /\ z \in Entrantes /\ nodo'[m].chat_entrantes = z
                     /\ \A i \in DOMAIN z : z[i][1][1] \in DOMAIN canales
        BY <1>1, <2>20, <4>4, ParDe DEF ParBien
      <4>6. De(u, z) = <<>>
        <5>1. \A i \in DOMAIN z : z[i][1] # u
          BY <3>3, <4>1, <4>2, <4>5
        <5> QED
          BY <4>2, <4>5, <5>1, DeNada
      <4>7. Total(u)' = <<>>
        <5>1. <<>> \o <<>> = <<>>
          OBVIOUS
        <5>2. Total(u)' = leido[u] \o De(u, z)
          BY <1>2, <4>4, <4>5 DEF Total
        <5> QED
          BY <4>3, <4>6, <5>1, <5>2
      <4>8. Resto(canales'[d], j) = <<>> /\ canales'[d].conecta \in BOOLEAN
        BY <2>4, <2>6, <2>8, <4>1 DEF Canal
      <4>9. Sentido(<<>>, <<>>, canales'[d].conecta, <<>>)
        BY <4>8, SentidoNuevo
      <4> QED
        BY <1>2, <3>1, <4>3, <4>7, <4>8, <4>9 DEF SentidoDe
    <3> QED
      BY <3>2, <3>3
  <2>22. \A u \in Puntas : u[1] \notin DOMAIN canales' => mandado'[u] = <<>> /\ leido'[u] = <<>>
    BY <1>1, <1>2, <2>9 DEF Charla, Crece
  <2>23. Charla'
    BY <1>1, <1>2, <2>21, <2>22 DEF Charla, SentidoDe
  <2> QED
    BY <2>19, <2>23 DEF InvIroh
<1> QED
  BY <1>3, <1>4 DEF FinConectar

-----------------------------------------------------------------------------
(* The invariant holds, and gives the order.                               *)

LEMMA InvInicio ==
  ASSUME SupuestoIroh, Init
  PROVE  InvIroh
<1>1. /\ tope \in Topes /\ nodo = [n \in Nodos |-> NodoNuevo] /\ dueno = <<>> /\ abiertos = {}
      /\ canales = <<>> /\ mandado = [p \in Puntas |-> <<>>] /\ leido = [p \in Puntas |-> <<>>]
  BY DEF Init
<1>2. DOMAIN <<>> = {} /\ <<>> \in Seq(Nodos) /\ <<>> \in Seq(Canal) /\ Len(<<>>) = 0
      /\ <<>> \in Seq(Puntas) /\ <<>> \in Entrantes /\ <<>> \in Seq(Texto)
  BY DEF Entrantes
<1>3. PICK r : r = NodoNuevo
  OBVIOUS
<1>4. EsPar(r) /\ r.vivo = Nada /\ r.chat_salidas = <<>> /\ r.chat_entrantes = <<>> /\ r.llamada = <<>>
  <2>1. r = [vivo |-> Nada, chat_salidas |-> <<>>, chat_entrantes |-> <<>>, llamada |-> <<>>, bajados |-> {}]
    BY <1>3 DEF NodoNuevo
  <2> QED
    BY <2>1 DEF EsPar
<1>5. \A n \in Nodos : ParBien(n, r)
  BY <1>2, <1>4 DEF ParBien
<1>6. Nodal
  <2>1. nodo = [n \in Nodos |-> r]
    BY <1>1, <1>3
  <2> QED
    BY <1>5, <2>1 DEF Nodal
<1>7. Casa
  <2>1. TopeCanales \in Nat
    BY DEF SupuestoIroh
  <2> QED
    BY <1>1, <1>2, <1>6, <2>1 DEF Casa
<1>8. Charla
  BY <1>1, <1>2 DEF Charla
<1> QED
  BY <1>7, <1>8 DEF InvIroh

LEMMA InvPaso ==
  ASSUME SupuestoIroh, InvIroh, [Next]_vars
  PROVE  InvIroh'
<1>1. ASSUME NEW n \in Nodos, start_servidor(n) \/ stop(n) \/ Suelta(n) \/ FinLlamada(n)
      PROVE  InvIroh'
  BY <1>1, InvStart, InvParar, InvSuelta, InvFinStart, InvFinBajar, InvFinConectar, InvFinStop DEF FinLlamada
<1>2. ASSUME NEW n \in Nodos, chat_leer(n) \/ chat_mandar(n) \/ Limpia(n)
      PROVE  InvIroh'
  BY <1>2, InvLeer, InvMandar, InvLimpia
<1>3. ASSUME NEW n \in Nodos, NEW f, ofrecer(n, f) \/ \E e \in DOMAIN dueno : bajar(n, e, f)
      PROVE  InvIroh'
  BY <1>3, InvOfrecer, InvBajar
<1>4. ASSUME NEW n \in Nodos, NEW s, chat_conectar(n, s)
      PROVE  InvIroh'
  BY <1>4, InvConectar
<1>5. CASE Tareas
  <2>1. ASSUME NEW p \in Abiertas, escritor(p) \/ lector(p)
        PROVE  InvIroh'
    <3>1. PICK c \in DOMAIN canales, l \in Lados : p = <<c, l>>
      BY DEF Abiertas, Puntas
    <3> QED
      BY <2>1, <3>1, InvEscritor, InvLector
  <2> QED
    BY <1>5, <2>1, InvAccept DEF Tareas
<1>6. ASSUME NEW c \in DOMAIN canales, Corta(c)
      PROVE  InvIroh'
  BY <1>6, InvCorta
<1>7. CASE UNCHANGED vars
  <2>1. UNCHANGED <<tope, nodo, dueno, abiertos, canales, mandado, leido>>
    BY <1>7 DEF vars
  <2>2. Crece
    BY <2>1, NadaCrece
  <2>3. Casa /\ Charla
    BY DEF InvIroh
  <2>4. Nodal'
    BY <2>1, <2>2, <2>3, NodosIguales
  <2>5. CanalesBien
    BY <2>1, <2>3 DEF Casa, CanalesBien, CanalBien
  <2>6. \A c \in DOMAIN canales, l \in Lados : ApagaOSigue(c, l)
    BY <2>1 DEF ApagaOSigue
  <2> QED
    BY <2>1, <2>4, <2>5, <2>6, SoloCanales
<1>8. ASSUME Next
      PROVE  InvIroh'
  <2>1. \/ \E n \in Nodos :
             \/ start_servidor(n) \/ stop(n) \/ Suelta(n) \/ FinLlamada(n)
             \/ chat_leer(n) \/ chat_mandar(n) \/ Limpia(n)
             \/ \E f \in tope.archivos : ofrecer(n, f) \/ \E e \in DOMAIN dueno : bajar(n, e, f)
             \/ \E s \in Pegados : chat_conectar(n, s)
        \/ Tareas
        \/ \E c \in DOMAIN canales : Corta(c)
    BY <1>8, Zenon DEF Next
  <2>2. CASE \E n \in Nodos :
             \/ start_servidor(n) \/ stop(n) \/ Suelta(n) \/ FinLlamada(n)
             \/ chat_leer(n) \/ chat_mandar(n) \/ Limpia(n)
             \/ \E f \in tope.archivos : ofrecer(n, f) \/ \E e \in DOMAIN dueno : bajar(n, e, f)
             \/ \E s \in Pegados : chat_conectar(n, s)
    BY <1>1, <1>2, <1>3, <1>4, <2>2, Zenon
  <2> QED
    BY <1>5, <1>6, <2>1, <2>2, Zenon
<1> QED
  BY <1>7, <1>8

LEMMA InvDaOrden ==
  ASSUME SupuestoIroh, InvIroh
  PROVE  EnOrden
<1>1. Casa /\ Charla
  BY DEF InvIroh
<1>2. ASSUME NEW p \in Puntas
      PROVE  Orden(leido[p], mandado[<<p[1], Otro(p[2])>>])
  <2>1. PICK c, l : c = p[1] /\ l = Otro(p[2]) /\ l \in Lados /\ p = <<c, Otro(l)>>
    <3>1. p[2] \in Lados /\ p = <<p[1], p[2]>>
      BY DEF Puntas
    <3> QED
      BY <3>1, LadosSon
  <2>2. CASE c \in DOMAIN canales
    <3>1. PICK m, L, M, k, r : /\ m = mandado[<<c, l>>] /\ L = leido[p] /\ M = De(p, nodo[NodoDe(p)].chat_entrantes)
                               /\ k = canales[c].conecta /\ r = Resto(canales[c], l)
      OBVIOUS
    <3>2. NodoDe(p) \in Nodos
      <4>1. CanalBien(canales[c])
        BY <1>1, <2>2 DEF Casa
      <4> QED
        BY <1>1, <2>1, <4>1, LadosSon DEF CanalBien, NodoDe, Casa
    <3>3. L \in Seq(Texto)
      BY <1>1, <3>1 DEF Charla
    <3>4. nodo[NodoDe(p)].chat_entrantes \in Entrantes
      BY <1>1, <3>2, ParDe DEF ParBien
    <3>5. M \in Seq(Texto)
      BY <3>1, <3>4, DeEs DEF DeBien
    <3>6. Sentido(m, L \o M, k, r)
      BY <1>1, <2>1, <2>2, <3>1 DEF Charla, Total
    <3>7. Sentido(m, L, FALSE, r)
      BY <3>3, <3>5, <3>6, SentidoPierde
    <3> QED
      BY <2>1, <3>1, <3>7 DEF Sentido
  <2>3. CASE c \notin DOMAIN canales
    <3>1. PICK u : u = <<c, l>>
      OBVIOUS
    <3>2. u \in Puntas /\ u[1] = c
      BY <2>1, <3>1 DEF Puntas
    <3>3. mandado[u] = <<>> /\ leido[p] = <<>>
      BY <1>1, <2>1, <2>3, <3>2 DEF Charla
    <3>4. PICK k \in BOOLEAN : TRUE
      OBVIOUS
    <3>5. Orden(<<>>, <<>>)
      BY <3>4, SentidoNuevo DEF Sentido
    <3> QED
      BY <2>1, <3>1, <3>3, <3>5
  <2> QED
    BY <2>2, <2>3
<1> QED
  BY <1>2 DEF EnOrden, Orden

(* What a side of a channel reads is what the other side sent, in order,   *)
(* whatever the chunks of the reader, the losses and the other channels.   *)
THEOREM LeidoEnOrden == Spec => []EnOrden
<1>1. Init => InvIroh
  BY SupuestoIroh, InvInicio
<1>2. InvIroh /\ [Next]_vars => InvIroh'
  BY SupuestoIroh, InvPaso
<1>3. InvIroh => EnOrden
  BY SupuestoIroh, InvDaOrden
<1> QED
  BY <1>1, <1>2, <1>3, PTL DEF Spec
-----------------------------------------------------------------------------
(* Nothing is lost while the connection lasts, and who must go on can.     *)

(* While a channel is connected, the text that chat_mandar accepted from a *)
(* side is what came to the other and what is in the stream and the queue. *)
NadaSePierde ==
  \A c \in DOMAIN canales, l \in Lados :
    canales[c].conecta =>
      Len(Pegadas(mandado[<<c, l>>])) =
        Len(Pegadas(Total(<<c, Otro(l)>>))) + Len(Sin(Resto(canales[c], l)))

(* What a reader made of a beginning is as long as its text. *)
LEMMA LargoDe ==
  ASSUME NEW m, NEW L, NEW r, Sentido(m, L, TRUE, r)
  PROVE  /\ Len(Pegadas(m)) = Len(Pegadas(L)) + Len(Sin(r))
         /\ Len(Pegadas(L)) \in Nat /\ Len(Sin(r)) \in Nat
<1>1. m \in Seq(Texto) /\ L \in Seq(Texto) /\ MandadoSano(m) /\ r \in Texto
  BY DEF Sentido
<1>2. PICK s \in Texto : Fiel(L, <<>>, s) /\ s \o r = Flujo(m)
  BY DEF Sentido
<1>3. LineasBien(L) /\ BytesBien(s) /\ BytesBien(r)
  BY <1>1, <1>2, PegadasEs, SinEs
<1>4. PICK w, v, y : w = Pegadas(L) /\ v = Sin(s) /\ y = Sin(r)
  OBVIOUS
<1>5. w \in Texto /\ v \in Texto /\ y \in Texto /\ Len(w) \in Nat /\ Len(y) \in Nat
  BY <1>3, <1>4 DEF LineasBien, BytesBien
<1>6. Len(w) = Len(v)
  BY <1>2, <1>4, <1>5, SinNada DEF Fiel, Parecido
<1>7. Pegadas(m) = v \o y
  BY <1>1, <1>2, <1>3, <1>4 DEF BytesBien, MandadoSano
<1>8. Len(v \o y) = Len(v) + Len(y)
  BY <1>5 DEF Texto
<1> QED
  BY <1>4, <1>5, <1>6, <1>7, <1>8

LEMMA InvDaConserva ==
  ASSUME SupuestoIroh, InvIroh
  PROVE  NadaSePierde
<1>1. ASSUME NEW c \in DOMAIN canales, NEW l \in Lados, canales[c].conecta
      PROVE  Len(Pegadas(mandado[<<c, l>>])) =
               Len(Pegadas(Total(<<c, Otro(l)>>))) + Len(Sin(Resto(canales[c], l)))
  <2>1. Casa /\ Charla
    BY DEF InvIroh
  <2>2. canales[c].conecta = TRUE
    BY <1>1, <2>1 DEF Casa, CanalBien, Canal
  <2>3. PICK m, L, r : m = mandado[<<c, l>>] /\ L = Total(<<c, Otro(l)>>) /\ r = Resto(canales[c], l)
    OBVIOUS
  <2>4. Sentido(m, L, TRUE, r)
    BY <2>1, <2>2, <2>3 DEF Charla
  <2>5. Len(Pegadas(m)) = Len(Pegadas(L)) + Len(Sin(r))
    BY <2>4, LargoDe
  <2> QED
    BY <2>3, <2>5
<1> QED
  BY <1>1 DEF NadaSePierde

(* The tasks of a connected channel: both sides have a writer and a reader *)
(* once it is accepted, the side that dialled before; what is queued has a *)
(* writer, and a reader ends after the other side's writer, with all read. *)
Activo(k, a, q, w, s, r) ==
  k => \A l \in Lados :
         /\ s[l] = "no" <=> (l = 2 /\ ~a)
         /\ r[l] = "no" <=> (l = 2 /\ ~a)
         /\ q[l] # <<>> => s[l] = "vive"
         /\ r[l] = "fin" => w[Otro(l)] = <<>> /\ s[Otro(l)] = "fin"

Atendida(x) == Activo(x.conecta, x.aceptado, x.cola, x.cable, x.escritor, x.lector)
Atendidos == \A c \in DOMAIN canales : Atendida(canales[c])

(* A channel as its fields, and a step that gives one other fields. *)
Partes(c, e, k, a, q, w, s, r) ==
  /\ canales = Con(canales, DOMAIN canales, c, Enlace(e, k, a, q, w, s, r))
  /\ canales[c].conecta = k /\ canales[c].aceptado = a /\ canales[c].cola = q
  /\ canales[c].cable = w /\ canales[c].escritor = s /\ canales[c].lector = r
Campos(k, a, q, w, s, r) ==
  /\ k \in BOOLEAN /\ a \in BOOLEAN
  /\ q \in [Lados -> Seq(Texto)] /\ w \in [Lados -> Texto]
  /\ s \in [Lados -> Estados] /\ r \in [Lados -> Estados]
Queda(c, e, k, a, q, w, s, r) ==
  canales' = Con(canales, DOMAIN canales, c, Enlace(e, k, a, q, w, s, r))

LEMMA Partido ==
  ASSUME Casa, Atendidos, NEW c \in DOMAIN canales
  PROVE  \E e, k, a, q, w, s, r :
           Partes(c, e, k, a, q, w, s, r) /\ Campos(k, a, q, w, s, r) /\ Activo(k, a, q, w, s, r)
<1>1. PICK x : x = canales[c]
  OBVIOUS
<1>2. /\ canales = Con(canales, DOMAIN canales, c, x) /\ x \in Canal
      /\ x = Enlace(x.ends, x.conecta, x.aceptado, x.cola, x.cable, x.escritor, x.lector)
  BY <1>1, ConMismo
<1>3. PICK e, k, a, q, w, s, r :
         /\ e = x.ends /\ k = x.conecta /\ a = x.aceptado
         /\ q = x.cola /\ w = x.cable /\ s = x.escritor /\ r = x.lector
  OBVIOUS
<1>4. Partes(c, e, k, a, q, w, s, r)
  BY <1>1, <1>2, <1>3 DEF Partes
<1>5. Campos(k, a, q, w, s, r)
  BY <1>2, <1>3 DEF Canal, Campos
<1>6. Atendida(x)
  BY <1>1 DEF Atendidos
<1>7. Activo(k, a, q, w, s, r)
  BY <1>3, <1>6, Zenon DEF Atendida
<1> QED
  BY <1>4, <1>5, <1>7, Zenon

LEMMA AtendidosCon ==
  ASSUME Atendidos, NEW c \in DOMAIN canales, NEW e, NEW k, NEW a, NEW q, NEW w, NEW s, NEW r,
         Queda(c, e, k, a, q, w, s, r), Activo(k, a, q, w, s, r)
  PROVE  Atendidos'
<1>1. PICK x : x = Enlace(e, k, a, q, w, s, r)
  OBVIOUS
<1>2. x.conecta = k /\ x.aceptado = a /\ x.cola = q /\ x.cable = w /\ x.escritor = s /\ x.lector = r
  BY <1>1 DEF Enlace
<1>3. Atendida(x)
  BY <1>2, Zenon DEF Atendida
<1>4. canales' = [d \in DOMAIN canales |-> IF d = c THEN x ELSE canales[d]]
  BY <1>1 DEF Queda, Con
<1>5. ASSUME NEW d \in DOMAIN canales'
      PROVE  Atendida(canales'[d])
  <2>1. CASE d = c
    BY <1>3, <1>4, <2>1
  <2>2. CASE d # c
    BY <1>4, <2>2 DEF Atendidos
  <2> QED
    BY <2>1, <2>2
<1> QED
  BY <1>5 DEF Atendidos

(* A channel that is broken asks nothing of its tasks. *)
LEMMA AtiendeRoto ==
  ASSUME NEW x, x.conecta = FALSE
  PROVE  Atendida(x)
  BY DEF Atendida, Activo

LEMMA AtMandar ==
  ASSUME Casa, Atendidos, NEW n \in Nodos, chat_mandar(n)
  PROVE  Atendidos'
<1>1. PICK p, t : /\ p = Head(nodo[n].chat_salidas) /\ nodo[n].chat_salidas # <<>>
                  /\ canales[p[1]].escritor[p[2]] = "vive"
                  /\ canales' = [canales EXCEPT ![p[1]].cola[p[2]] = Append(@, t)]
  BY Zenon DEF chat_mandar
<1>2. PICK c \in DOMAIN canales, l \in Lados : c = p[1] /\ l = p[2]
  <2>1. PICK u, z : u = nodo[n] /\ z = u.chat_salidas
    OBVIOUS
  <2>2. ParBien(n, u)
    BY <2>1, ParDe
  <2>3. z \in Seq(Puntas) /\ \A i \in DOMAIN z : z[i][1] \in DOMAIN canales
    BY <2>1, <2>2 DEF ParBien
  <2>4. z # <<>> /\ p = Head(z)
    <3>1. p = Head(nodo[n].chat_salidas) /\ nodo[n].chat_salidas # <<>>
      BY <1>1, Zenon
    <3> QED
      BY <2>1, <3>1
  <2>5. 1 \in DOMAIN z /\ p = z[1] /\ p \in Puntas
    BY <2>3, <2>4
  <2>6. p[1] \in DOMAIN canales
    BY <2>3, <2>5
  <2>7. p[2] \in Lados
    BY <2>5 DEF Puntas
  <2> QED
    BY <2>6, <2>7
<1>3. PICK e, k, a, q, w, s, r :
        Partes(c, e, k, a, q, w, s, r) /\ Campos(k, a, q, w, s, r) /\ Activo(k, a, q, w, s, r)
  BY Partido
<1>4. PICK v, q1 : v = Append(q[l], t) /\ q1 = Cambiada(q, l, v)
  OBVIOUS
<1>5. s[l] = "vive" /\ canales' = PonCola(canales, c, l, v)
  <2>1. canales[c].cola[l] = q[l] /\ canales[c].escritor[l] = s[l]
    BY <1>3 DEF Partes
  <2>2. s[l] = "vive"
    <3>1. canales[p[1]].escritor[p[2]] = "vive"
      BY <1>1, Zenon
    <3> QED
      BY <1>2, <2>1, <3>1
  <2>3. canales' = [canales EXCEPT ![c].cola[l] = Append(canales[c].cola[l], t)]
    BY <1>1, <1>2, Zenon
  <2>4. canales' = [canales EXCEPT ![c].cola[l] = v]
    BY <1>4, <2>1, <2>3
  <2> QED
    BY <2>2, <2>4 DEF PonCola
<1>6. Queda(c, e, k, a, q1, w, s, r)
  <2>1. canales = Con(canales, DOMAIN canales, c, Enlace(e, k, a, q, w, s, r))
    BY <1>3 DEF Partes
  <2>2. q1 = Cambiada(q, l, v)
    BY <1>4
  <2>3. PonCola(canales, c, l, v) = Con(canales, DOMAIN canales, c, Enlace(e, k, a, q1, w, s, r))
    BY <2>1, <2>2, ConCola
  <2> QED
    BY <1>5, <2>3 DEF Queda
<1>7. \A j \in Lados : j # l => q1[j] = q[j]
  BY <1>3, <1>4 DEF Campos, Cambiada
<1>8. Activo(k, a, q1, w, s, r)
  BY <1>3, <1>5, <1>7 DEF Activo
<1> QED
  BY <1>6, <1>8, AtendidosCon

LEMMA AtEscritor ==
  ASSUME Casa, Atendidos, NEW c \in DOMAIN canales, NEW l \in Lados, NEW p, p = <<c, l>>, escritor(p)
  PROVE  Atendidos'
<1>1. PICK e, k, a, q, w, s, r :
        Partes(c, e, k, a, q, w, s, r) /\ Campos(k, a, q, w, s, r) /\ Activo(k, a, q, w, s, r)
  BY Partido
<1>2. PICK o : o = q[l] /\ s[l] = "vive" /\ p[1] = c /\ p[2] = l
  BY <1>1 DEF escritor, Partes
<1>3. canales = Con(canales, DOMAIN canales, c, Enlace(e, k, a, q, w, s, r))
  BY <1>1 DEF Partes
<1>4. CASE o # <<>> /\ k
  <2>1. PICK t, b : t = Tail(o) /\ b = w[l] \o Append(Head(o), "\n")
    OBVIOUS
  <2>2. PICK q1, w1 : q1 = Cambiada(q, l, t) /\ w1 = Cambiada(w, l, b)
    OBVIOUS
  <2>3. canales' = [canales EXCEPT ![c].cola[l] = Tail(@), ![c].cable[l] = @ \o Append(Head(o), "\n")]
    BY <1>1, <1>2, <1>4 DEF escritor, Partes
  <2>4. PICK y : y = PonCola(canales, c, l, t)
    OBVIOUS
  <2>5. y = Con(canales, DOMAIN canales, c, Enlace(e, k, a, q1, w, s, r))
    <3>1. q1 = Cambiada(q, l, t)
      BY <2>2
    <3> QED
      BY <1>3, <2>4, <3>1, ConCola
  <2>6. y = [canales EXCEPT ![c].cola[l] = Tail(@)]
    BY <1>1, <1>2, <2>1, <2>4 DEF Partes, PonCola
  <2>7. y[c].cable[l] = w[l]
    BY <2>5 DEF Con, Enlace
  <2>8. canales' = PonCable(y, c, l, b)
    <3>1. canales' = [y EXCEPT ![c].cable[l] = y[c].cable[l] \o Append(Head(o), "\n")]
      BY <2>3, <2>6
    <3> QED
      BY <2>1, <2>7, <3>1 DEF PonCable
  <2>9. Queda(c, e, k, a, q1, w1, s, r)
    <3>1. w1 = Cambiada(w, l, b)
      BY <2>2
    <3>2. PonCable(y, c, l, b) = Con(canales, DOMAIN canales, c, Enlace(e, k, a, q1, w1, s, r))
      BY <2>5, <3>1, ConCable
    <3> QED
      BY <2>8, <3>2 DEF Queda
  <2>10. /\ \A j \in Lados : j # l => q1[j] = q[j]
         /\ \A j \in Lados : j # l => w1[j] = w[j]
    BY <1>1, <2>2 DEF Campos, Cambiada
  <2>11. Activo(k, a, q1, w1, s, r)
    <3>1. ASSUME NEW j \in Lados, k, r[j] = "fin"
          PROVE  w1[Otro(j)] = <<>> /\ s[Otro(j)] = "fin"
      <4>1. w[Otro(j)] = <<>> /\ s[Otro(j)] = "fin"
        BY <1>1, <3>1 DEF Activo
      <4>2. Otro(j) \in Lados /\ Otro(j) # l
        BY <1>2, <4>1, LadosSon
      <4> QED
        BY <2>10, <4>1, <4>2
    <3> QED
      BY <1>1, <1>2, <2>10, <3>1 DEF Activo
  <2> QED
    BY <2>9, <2>11, AtendidosCon
<1>5. CASE ~(o # <<>> /\ k)
  <2>1. PICK q1, s1 : q1 = Cambiada(q, l, <<>>) /\ s1 = Cambiada(s, l, "fin")
    OBVIOUS
  <2>2. canales' = [canales EXCEPT ![c].cola[l] = <<>>, ![c].escritor[l] = "fin"]
    BY <1>1, <1>2, <1>5 DEF escritor, Partes
  <2>3. PICK y : y = PonCola(canales, c, l, <<>>)
    OBVIOUS
  <2>4. y = Con(canales, DOMAIN canales, c, Enlace(e, k, a, q1, w, s, r))
    <3>1. q1 = Cambiada(q, l, <<>>)
      BY <2>1
    <3> QED
      BY <1>3, <2>3, <3>1, ConCola
  <2>5. canales' = PonEscritor(y, c, l, "fin")
    BY <2>2, <2>3 DEF PonCola, PonEscritor
  <2>6. Queda(c, e, k, a, q1, w, s1, r)
    <3>1. s1 = Cambiada(s, l, "fin")
      BY <2>1
    <3>2. PonEscritor(y, c, l, "fin") = Con(canales, DOMAIN canales, c, Enlace(e, k, a, q1, w, s1, r))
      BY <2>4, <3>1, ConEscritor
    <3> QED
      BY <2>5, <3>2 DEF Queda
  <2>7. /\ q1[l] = <<>> /\ \A j \in Lados : j # l => q1[j] = q[j]
        /\ s1[l] = "fin" /\ \A j \in Lados : j # l => s1[j] = s[j]
    BY <1>1, <2>1 DEF Campos, Cambiada
  <2>8. ASSUME NEW j \in Lados, k
        PROVE  /\ s1[j] = "no" <=> (j = 2 /\ ~a)
               /\ r[j] = "no" <=> (j = 2 /\ ~a)
               /\ q1[j] # <<>> => s1[j] = "vive"
               /\ r[j] = "fin" => w[Otro(j)] = <<>> /\ s1[Otro(j)] = "fin"
    <3>1. /\ s[j] = "no" <=> (j = 2 /\ ~a)
          /\ r[j] = "no" <=> (j = 2 /\ ~a)
          /\ q[j] # <<>> => s[j] = "vive"
          /\ r[j] = "fin" => w[Otro(j)] = <<>> /\ s[Otro(j)] = "fin"
      BY <1>1, <2>8 DEF Activo
    <3>2. s[Otro(j)] = "fin" => s1[Otro(j)] = "fin"
      BY <2>7, LadosSon
    <3>3. (s1[j] = "no" <=> s[j] = "no") /\ (q1[j] # <<>> => s1[j] = "vive")
      BY <1>2, <2>7, <3>1
    <3> QED
      BY <3>1, <3>2, <3>3
  <2>9. Activo(k, a, q1, w, s1, r)
    BY <2>8 DEF Activo
  <2> QED
    BY <2>6, <2>9, AtendidosCon
<1> QED
  BY <1>4, <1>5

LEMMA AtTrozo ==
  ASSUME Casa, Atendidos, NEW c \in DOMAIN canales, NEW l \in Lados, NEW p, NEW h, NEW n, NEW ls,
         Trozo(c, l, p, h, n, ls)
  PROVE  Atendidos'
<1>1. PICK e, k, a, q, w, s, r :
        Partes(c, e, k, a, q, w, s, r) /\ Campos(k, a, q, w, s, r) /\ Activo(k, a, q, w, s, r)
  BY Partido
<1>2. PICK o \in Lados : o = Otro(l) /\ Otro(o) = l /\ o # l
  BY LadosSon
<1>3. PICK g, w1 : g = SubSeq(w[o], n + 1, Len(w[o])) /\ w1 = Cambiada(w, o, g)
  OBVIOUS
<1>4. r[l] = "vive" /\ canales' = PonCable(canales, c, o, g)
  BY <1>1, <1>2, <1>3 DEF Trozo, Partes, PonCable
<1>5. Queda(c, e, k, a, q, w1, s, r)
  <2>1. canales = Con(canales, DOMAIN canales, c, Enlace(e, k, a, q, w, s, r))
    BY <1>1 DEF Partes
  <2>2. w1 = Cambiada(w, o, g)
    BY <1>3
  <2>3. PonCable(canales, c, o, g) = Con(canales, DOMAIN canales, c, Enlace(e, k, a, q, w1, s, r))
    BY <2>1, <2>2, ConCable
  <2> QED
    BY <1>4, <2>3 DEF Queda
<1>6. \A j \in Lados : j # o => w1[j] = w[j]
  BY <1>1, <1>3 DEF Campos, Cambiada
<1>7. ASSUME NEW j \in Lados, k, r[j] = "fin"
      PROVE  w1[Otro(j)] = <<>> /\ s[Otro(j)] = "fin"
  <2>1. w[Otro(j)] = <<>> /\ s[Otro(j)] = "fin"
    BY <1>1, <1>7 DEF Activo
  <2>2. Otro(j) \in Lados /\ Otro(j) # o
    BY <1>2, <1>4, <1>7, LadosSon
  <2> QED
    BY <1>6, <2>1, <2>2
<1>8. Activo(k, a, q, w1, s, r)
  BY <1>1, <1>7 DEF Activo
<1> QED
  BY <1>5, <1>8, AtendidosCon

LEMMA AtLector ==
  ASSUME SupuestoIroh, Casa, Atendidos, NEW c \in DOMAIN canales, NEW l \in Lados, NEW p, p = <<c, l>>, lector(p)
  PROVE  Atendidos'
<1>1. CASE \E h, k, ls : Trozo(c, l, p, h, k, ls)
  BY <1>1, AtTrozo
<1>2. CASE /\ canales[c].lector[l] = "vive"
           /\ canales[c].cable[Otro(l)] = <<>> /\ canales[c].escritor[Otro(l)] = "fin"
           /\ canales' = [canales EXCEPT ![c].lector[l] = "fin"]
  <2>1. PICK e, k, a, q, w, s, r :
          Partes(c, e, k, a, q, w, s, r) /\ Campos(k, a, q, w, s, r) /\ Activo(k, a, q, w, s, r)
    BY Partido
  <2>2. r[l] = "vive" /\ w[Otro(l)] = <<>> /\ s[Otro(l)] = "fin"
    BY <1>2, <2>1 DEF Partes
  <2>3. PICK r1 : r1 = Cambiada(r, l, "fin")
    OBVIOUS
  <2>4. Queda(c, e, k, a, q, w, s, r1)
    <3>1. canales = Con(canales, DOMAIN canales, c, Enlace(e, k, a, q, w, s, r))
      BY <2>1 DEF Partes
    <3>2. PonLector(canales, c, l, "fin") = Con(canales, DOMAIN canales, c, Enlace(e, k, a, q, w, s, r1))
      BY <2>3, <3>1, ConLector
    <3>3. canales' = PonLector(canales, c, l, "fin")
      BY <1>2 DEF PonLector
    <3> QED
      BY <3>2, <3>3 DEF Queda
  <2>5. r1[l] = "fin" /\ \A j \in Lados : j # l => r1[j] = r[j]
    BY <2>1, <2>3 DEF Campos, Cambiada
  <2>6. ASSUME NEW j \in Lados, k
        PROVE  /\ r1[j] = "no" <=> (j = 2 /\ ~a)
               /\ r1[j] = "fin" => w[Otro(j)] = <<>> /\ s[Otro(j)] = "fin"
    <3>1. /\ r[j] = "no" <=> (j = 2 /\ ~a)
          /\ r[j] = "fin" => w[Otro(j)] = <<>> /\ s[Otro(j)] = "fin"
      BY <2>1, <2>6 DEF Activo
    <3>2. CASE j = l
      BY <2>2, <2>5, <3>1, <3>2
    <3>3. CASE j # l
      BY <2>5, <3>1, <3>3
    <3> QED
      BY <3>2, <3>3
  <2>7. Activo(k, a, q, w, s, r1)
    BY <2>1, <2>6 DEF Activo
  <2> QED
    BY <2>4, <2>7, AtendidosCon
<1> QED
  BY <1>1, <1>2, LectorHace, Zenon

LEMMA AtAccept ==
  ASSUME Casa, Atendidos, NEW c \in DOMAIN canales, accept(c)
  PROVE  Atendidos'
<1>0. PICK v \in BOOLEAN : v = TRUE
  OBVIOUS
<1>1. PICK e, k, a, q, w, s, r :
        Partes(c, e, k, a, q, w, s, r) /\ Campos(k, a, q, w, s, r) /\ Activo(k, a, q, w, s, r)
  BY Partido
<1>2. k /\ ~a
  BY <1>1 DEF accept, Partes
<1>3. PICK l \in Lados : l = 2
  BY DEF Lados
<1>4. PICK s1, r1, y, z : /\ s1 = Cambiada(s, l, "vive") /\ r1 = Cambiada(r, l, "vive")
                          /\ y = PonAceptado(canales, c, v) /\ z = PonEscritor(y, c, l, "vive")
  OBVIOUS
<1>5. Queda(c, e, k, v, q, w, s1, r1)
  <2>1. canales = Con(canales, DOMAIN canales, c, Enlace(e, k, a, q, w, s, r))
    BY <1>1 DEF Partes
  <2>2. y = Con(canales, DOMAIN canales, c, Enlace(e, k, v, q, w, s, r))
    BY <1>4, <2>1, ConAceptado
  <2>3. s1 = Cambiada(s, l, "vive") /\ z = PonEscritor(y, c, l, "vive")
    BY <1>4
  <2>4. z = Con(canales, DOMAIN canales, c, Enlace(e, k, v, q, w, s1, r))
    BY <2>2, <2>3, ConEscritor
  <2>5. r1 = Cambiada(r, l, "vive")
    BY <1>4
  <2>6. PonLector(z, c, l, "vive") = Con(canales, DOMAIN canales, c, Enlace(e, k, v, q, w, s1, r1))
    BY <2>4, <2>5, ConLector
  <2>7. canales' = [canales EXCEPT ![c].aceptado = v, ![c].escritor[l] = "vive", ![c].lector[l] = "vive"]
    BY <1>0, <1>3 DEF accept
  <2>8. canales' = PonLector(z, c, l, "vive")
    BY <1>4, <2>7, Zenon DEF PonAceptado, PonEscritor, PonLector
  <2> QED
    BY <2>6, <2>8 DEF Queda
<1>6. /\ s1[l] = "vive" /\ \A j \in Lados : j # l => s1[j] = s[j]
      /\ r1[l] = "vive" /\ \A j \in Lados : j # l => r1[j] = r[j]
  BY <1>1, <1>4 DEF Campos, Cambiada
<1>7. ASSUME NEW j \in Lados
      PROVE  /\ s1[j] # "no" /\ r1[j] # "no"
             /\ q[j] # <<>> => s1[j] = "vive"
             /\ r1[j] = "fin" => w[Otro(j)] = <<>> /\ s1[Otro(j)] = "fin"
  <2>1. /\ s[j] = "no" <=> (j = 2 /\ ~a)
        /\ r[j] = "no" <=> (j = 2 /\ ~a)
        /\ q[j] # <<>> => s[j] = "vive"
        /\ r[j] = "fin" => w[Otro(j)] = <<>> /\ s[Otro(j)] = "fin"
    BY <1>1, <1>2 DEF Activo
  <2>2. s[l] = "no"
    BY <1>1, <1>2, <1>3 DEF Activo
  <2>3. CASE j = l
    BY <1>6, <2>1, <2>2, <2>3
  <2>4. CASE j # l
    <3>1. s1[j] = s[j] /\ r1[j] = r[j] /\ s[j] # "no" /\ r[j] # "no"
      BY <1>3, <1>6, <2>1, <2>4
    <3>2. r[j] # "fin"
      <4>1. Otro(j) = l
        BY <1>3, <2>4 DEF Otro, Lados
      <4> QED
        BY <2>1, <2>2, <4>1
    <3> QED
      BY <2>1, <3>1, <3>2
  <2> QED
    BY <2>3, <2>4
<1>8. Activo(k, v, q, w, s1, r1)
  BY <1>0, <1>7 DEF Activo
<1> QED
  BY <1>5, <1>8, AtendidosCon

LEMMA AtRotos ==
  ASSUME Casa, Atendidos, DOMAIN canales' = DOMAIN canales,
         \A c \in DOMAIN canales : canales'[c] = canales[c] \/ canales'[c].conecta = FALSE
  PROVE  Atendidos'
<1>1. ASSUME NEW c \in DOMAIN canales
      PROVE  Atendida(canales'[c])
  <2>1. CASE canales'[c] = canales[c]
    BY <2>1 DEF Atendidos
  <2>2. CASE canales'[c].conecta = FALSE
    BY <2>2, AtiendeRoto
  <2> QED
    BY <2>1, <2>2
<1> QED
  BY <1>1 DEF Atendidos

(* The broken channel is not connected, whatever becomes of its writers. *)
LEMMA RotoCortado ==
  ASSUME NEW x \in Canal, NEW s
  PROVE  Roto(x).conecta = FALSE /\ [Roto(x) EXCEPT !.escritor = s].conecta = FALSE
<1>1. PICK v, g, y : v = <<<<>>, <<>>>> /\ g = <<"fin", "fin">> /\ y = Roto(x)
  OBVIOUS
<1>2. y = Enlace(x.ends, FALSE, x.aceptado, x.cola, v, x.escritor, g)
  BY <1>1, RotoEs
<1>3. y.conecta = FALSE
  BY <1>2 DEF Enlace
<1>4. [y EXCEPT !.escritor = s].conecta = FALSE
  <2>1. PICK e, k, a, q, t : y = Enlace(e, k, a, q, v, t, g) /\ k = FALSE
    BY <1>2
  <2>2. y = [ends |-> e, conecta |-> k, aceptado |-> a, cola |-> q, cable |-> v, escritor |-> t, lector |-> g]
    BY <2>1 DEF Enlace
  <2>3. PICK z : z = [y EXCEPT !.escritor = s]
    OBVIOUS
  <2>4. z.conecta = k
    BY ONLY <2>2, <2>3
  <2> QED
    BY <2>1, <2>3, <2>4
<1> QED
  BY <1>1, <1>3, <1>4

LEMMA AtFinStop ==
  ASSUME Casa, Atendidos, NEW n \in Nodos, FinStop(n)
  PROVE  Atendidos'
<1>1. PICK e : Cierra(e)
  BY DEF FinStop
<1>2. canales' = [c \in DOMAIN canales |->
                   IF e \in Range(canales[c].ends) THEN Roto(canales[c]) ELSE canales[c]]
  BY <1>1, Zenon DEF Cierra
<1>3. DOMAIN canales' = DOMAIN canales
  BY <1>2
<1>4. ASSUME NEW c \in DOMAIN canales
      PROVE  canales'[c] = canales[c] \/ canales'[c].conecta = FALSE
  <2>1. PICK x : x = canales[c] /\ x \in Canal
    BY ConMismo
  <2>2. canales'[c] = x \/ canales'[c] = Roto(x)
    BY <1>2, <2>1, Zenon
  <2>3. Roto(x).conecta = FALSE
    BY <2>1, RotoCortado
  <2> QED
    BY <2>1, <2>2, <2>3, Zenon
<1> QED
  BY <1>3, <1>4, AtRotos

LEMMA AtSuelta ==
  ASSUME Casa, Atendidos, NEW n \in Nodos, Suelta(n)
  PROVE  Atendidos'
<1> DEFINE mio(c, l) == dueno[canales[c].ends[l]] = n
           t(c) == [l \in Lados |-> IF mio(c, l) THEN "fin" ELSE Roto(canales[c]).escritor[l]]
<1>1. canales' = [c \in DOMAIN canales |->
                   IF ~mio(c, 1) /\ ~mio(c, 2) THEN canales[c]
                   ELSE [Roto(canales[c]) EXCEPT !.escritor = t(c)]]
  BY DEF Suelta
<1>2. ASSUME NEW c \in DOMAIN canales
      PROVE  \/ canales'[c] = canales[c]
             \/ \E s : canales'[c] = [Roto(canales[c]) EXCEPT !.escritor = s]
  BY <1>1
<1>3. DOMAIN canales' = DOMAIN canales
  <2> HIDE DEF mio, t
  <2> QED
    BY <1>1
<1>4. ASSUME NEW c \in DOMAIN canales
      PROVE  canales'[c] = canales[c] \/ canales'[c].conecta = FALSE
  <2>1. PICK x : x = canales[c] /\ x \in Canal
    BY ConMismo
  <2>2. CASE canales'[c] = x
    BY <2>1, <2>2
  <2>3. CASE \E s : canales'[c] = [Roto(x) EXCEPT !.escritor = s]
    <3>1. PICK s : canales'[c] = [Roto(x) EXCEPT !.escritor = s]
      BY <2>3
    <3>2. [Roto(x) EXCEPT !.escritor = s].conecta = FALSE
      BY <2>1, RotoCortado
    <3> QED
      BY <3>1, <3>2, Zenon
  <2> QED
    BY <1>2, <2>1, <2>2, <2>3, Zenon
<1> QED
  BY <1>3, <1>4, AtRotos

LEMMA AtCorta ==
  ASSUME Casa, Atendidos, NEW c \in DOMAIN canales, Corta(c)
  PROVE  Atendidos'
<1>1. PICK x, y : x = canales[c] /\ x \in Canal /\ y = Roto(x)
  BY ConMismo
<1>2. y.conecta = FALSE
  BY <1>1, RotoCortado
<1>3. canales' = [canales EXCEPT ![c] = y]
  BY <1>1 DEF Corta
<1>4. DOMAIN canales' = DOMAIN canales /\ \A d \in DOMAIN canales : canales'[d] = canales[d] \/ canales'[d] = y
  BY <1>3
<1> QED
  BY <1>2, <1>4, AtRotos

(* A new channel has the tasks of the side that dialled. *)
LEMMA AtFinConectar ==
  ASSUME Casa, Atendidos, NEW n \in Nodos, FinConectar(n)
  PROVE  Atendidos'
<1>1. CASE canales' = canales
  BY <1>1 DEF Atendidos
<1>2. ASSUME NEW a, NEW b, canales' = Append(canales, CanalNuevo(a, b))
      PROVE  Atendidos'
  <2>1. PICK e, v, o, s : e = <<a, b>> /\ v = <<<<>>, <<>>>> /\ o = <<<<>>, <<>>>> /\ s = <<"vive", "no">>
    OBVIOUS
  <2>2. PICK x : x = [ends |-> e, conecta |-> TRUE, aceptado |-> FALSE, cola |-> o, cable |-> v,
                      escritor |-> s, lector |-> s]
    OBVIOUS
  <2>3. x = CanalNuevo(a, b)
    BY <2>1, <2>2 DEF CanalNuevo
  <2>4. x.conecta = TRUE /\ x.aceptado = FALSE /\ x.cola = o /\ x.cable = v /\ x.escritor = s /\ x.lector = s
    BY <2>2
  <2>5. o[1] = <<>> /\ o[2] = <<>> /\ s[1] = "vive" /\ s[2] = "no"
    BY <2>1
  <2>6. Activo(TRUE, FALSE, o, v, s, s)
    BY <2>5 DEF Activo, Lados
  <2>7. Atendida(x)
    BY <2>4, <2>6, Zenon DEF Atendida
  <2>8. PICK k \in Nat : DOMAIN canales = 1 .. k /\ k = Len(canales) /\ canales \in Seq(Canal)
    BY DEF Casa
  <2>9. DOMAIN canales' = 1 .. k + 1 /\ canales'[k + 1] = x /\ \A d \in 1 .. k : canales'[d] = canales[d]
    BY <1>2, <2>3, <2>8
  <2>10. ASSUME NEW d \in DOMAIN canales'
         PROVE  Atendida(canales'[d])
    <3>1. CASE d = k + 1
      BY <2>7, <2>9, <3>1
    <3>2. CASE d # k + 1
      BY <2>8, <2>9, <3>2 DEF Atendidos
    <3> QED
      BY <3>1, <3>2
  <2> QED
    BY <2>10 DEF Atendidos
<1>3. ASSUME NEW e, canales' = Append(canales, CanalNuevo(nodo[n].vivo, e))
      PROVE  Atendidos'
  BY <1>2, <1>3
<1> QED
  BY <1>1, <1>3 DEF FinConectar

LEMMA AtPaso ==
  ASSUME SupuestoIroh, InvIroh, Atendidos, [Next]_vars
  PROVE  Atendidos'
<1>1. Casa
  BY DEF InvIroh
<1>2. CASE canales' = canales
  BY <1>2 DEF Atendidos
<1>3. ASSUME NEW n \in Nodos, start_servidor(n) \/ stop(n) \/ FinStart(n) \/ FinBajar(n) \/ chat_leer(n) \/ Limpia(n)
      PROVE  canales' = canales
  BY <1>3 DEF start_servidor, stop, FinStart, FinBajar, chat_leer, Limpia
<1>4. ASSUME NEW n \in Nodos, NEW f, NEW e, NEW s, ofrecer(n, f) \/ bajar(n, e, f) \/ chat_conectar(n, s)
      PROVE  canales' = canales
  BY <1>4 DEF ofrecer, bajar, chat_conectar
<1>5. ASSUME NEW n \in Nodos, Suelta(n) \/ FinConectar(n) \/ FinStop(n) \/ chat_mandar(n)
      PROVE  Atendidos'
  BY <1>1, <1>5, AtSuelta, AtFinConectar, AtFinStop, AtMandar
<1>6. CASE Tareas
  <2>1. ASSUME NEW p \in Abiertas, escritor(p) \/ lector(p)
        PROVE  Atendidos'
    <3>1. PICK c \in DOMAIN canales, l \in Lados : p = <<c, l>>
      BY DEF Abiertas, Puntas
    <3> QED
      BY <1>1, <2>1, <3>1, AtEscritor, AtLector
  <2> QED
    BY <1>1, <1>6, <2>1, AtAccept DEF Tareas
<1>7. ASSUME NEW c \in DOMAIN canales, Corta(c)
      PROVE  Atendidos'
  BY <1>1, <1>7, AtCorta
<1>8. ASSUME NEW n \in Nodos,
             \/ start_servidor(n) \/ stop(n) \/ Suelta(n) \/ FinLlamada(n)
             \/ chat_leer(n) \/ chat_mandar(n) \/ Limpia(n)
             \/ \E f \in tope.archivos : ofrecer(n, f) \/ \E e \in DOMAIN dueno : bajar(n, e, f)
             \/ \E s \in Pegados : chat_conectar(n, s)
      PROVE  Atendidos'
  BY <1>2, <1>3, <1>4, <1>5, <1>8, Zenon DEF FinLlamada
<1>9. CASE UNCHANGED vars
  BY <1>2, <1>9 DEF vars
<1>10. ASSUME Next
       PROVE  Atendidos'
  BY <1>6, <1>7, <1>8, <1>10, Zenon DEF Next
<1> QED
  BY <1>9, <1>10

LEMMA AtInicio ==
  ASSUME Init
  PROVE  Atendidos
<1>1. canales = <<>>
  BY DEF Init
<1> QED
  BY <1>1 DEF Atendidos

(* While a channel is connected and a side has not read all that the other *)
(* sent, some task or call can take it further: it waits for chat_leer, or *)
(* a living writer has lines, or a living reader has bytes, or accept_bi   *)
(* has bytes to return for.                                                *)
LoQueFaltaAvanza ==
  \A c \in DOMAIN canales, l \in Lados :
    canales[c].conecta /\ Len(Pegadas(leido[<<c, Otro(l)>>])) < Len(Pegadas(mandado[<<c, l>>])) =>
      \/ nodo[NodoDe(<<c, Otro(l)>>)].chat_entrantes # <<>>
      \/ canales[c].escritor[l] = "vive" /\ canales[c].cola[l] # <<>>
      \/ canales[c].lector[Otro(l)] = "vive" /\ canales[c].cable[l] # <<>>
      \/ l = 1 /\ ~canales[c].aceptado /\ canales[c].cable[1] # <<>>

LEMMA InvDaAvance ==
  ASSUME SupuestoIroh, InvIroh, Atendidos
  PROVE  LoQueFaltaAvanza
<1>1. ASSUME NEW c \in DOMAIN canales, NEW l \in Lados, canales[c].conecta,
             Len(Pegadas(leido[<<c, Otro(l)>>])) < Len(Pegadas(mandado[<<c, l>>]))
      PROVE  \/ nodo[NodoDe(<<c, Otro(l)>>)].chat_entrantes # <<>>
             \/ canales[c].escritor[l] = "vive" /\ canales[c].cola[l] # <<>>
             \/ canales[c].lector[Otro(l)] = "vive" /\ canales[c].cable[l] # <<>>
             \/ l = 1 /\ ~canales[c].aceptado /\ canales[c].cable[1] # <<>>
  <2>1. Casa /\ Charla
    BY DEF InvIroh
  <2>2. PICK o, p : o \in Lados /\ o = Otro(l) /\ o # l /\ Otro(o) = l /\ p = <<c, o>>
    BY LadosSon
  <2>3. SUFFICES ASSUME nodo[NodoDe(p)].chat_entrantes = <<>>
                 PROVE  \/ canales[c].escritor[l] = "vive" /\ canales[c].cola[l] # <<>>
                        \/ canales[c].lector[o] = "vive" /\ canales[c].cable[l] # <<>>
                        \/ l = 1 /\ ~canales[c].aceptado /\ canales[c].cable[1] # <<>>
    BY <2>2, Zenon
  <2>4. PICK L, m : L = leido[p] /\ m = mandado[<<c, l>>] /\ L \in Seq(Texto) /\ m \in Seq(Texto)
    <3>1. p \in Puntas /\ <<c, l>> \in Puntas
      BY <2>1, <2>2, PuntasSon DEF Casa
    <3> QED
      BY <2>1, <3>1 DEF Charla
  <2>5. Total(p) = L
    <3>1. De(p, <<>>) = <<>>
      <4>1. p \in Puntas /\ <<>> \in Entrantes
        BY <2>1, <2>2, PuntasSon DEF Casa, Entrantes
      <4> QED
        BY <4>1, DeEs DEF DeBien
    <3>2. L \o <<>> = L
      BY <2>4
    <3> QED
      BY <2>3, <2>4, <3>1, <3>2 DEF Total
  <2>6. PICK e, k, a, q, w, s, r :
          Partes(c, e, k, a, q, w, s, r) /\ Campos(k, a, q, w, s, r) /\ Activo(k, a, q, w, s, r)
    BY <2>1, Partido
  <2>7. k /\ q[l] \in Seq(Texto) /\ w[l] \in Texto
    BY <1>1, <2>6 DEF Partes, Campos
  <2>8. PICK f, u : f = Flujo(q[l]) /\ u = w[l] \o f
    OBVIOUS
  <2>9. u # <<>>
    <3>1. Sentido(m, L, TRUE, u)
      <4>1. Sentido(mandado[<<c, l>>], Total(<<c, Otro(l)>>), canales[c].conecta, Resto(canales[c], l))
        BY <2>1 DEF Charla
      <4>2. Resto(canales[c], l) = u /\ canales[c].conecta = TRUE
        BY <2>6, <2>7, <2>8 DEF Partes, Campos, Resto
      <4> QED
        BY <2>2, <2>4, <2>5, <4>1, <4>2
    <3>2. /\ Len(Pegadas(m)) = Len(Pegadas(L)) + Len(Sin(u))
          /\ Len(Pegadas(L)) \in Nat /\ Len(Sin(u)) \in Nat
      BY <3>1, LargoDe
    <3>3. Len(Pegadas(L)) < Len(Pegadas(m))
      BY <1>1, <2>2, <2>4
    <3>4. Len(Sin(u)) # 0
      BY <3>2, <3>3
    <3>5. Sin(<<>>) = <<>> /\ Len(<<>>) = 0
      <4>0. <<>> \in Texto
        BY DEF Texto
      <4>1. BytesBien(<<>>)
        BY <4>0, SinEs
      <4> QED
        BY <4>1 DEF BytesBien
    <3> QED
      BY <3>4, <3>5
  <2>10. q[l] # <<>> \/ w[l] # <<>>
    <3>1. Flujo(<<>>) = <<>>
      <4>0. <<>> \in Seq(Texto)
        OBVIOUS
      <4>1. FlujoBien(<<>>)
        BY <4>0, FlujoEs
      <4> QED
        BY <4>1 DEF FlujoBien
    <3>2. <<>> \o <<>> = <<>>
      OBVIOUS
    <3> QED
      BY <2>8, <2>9, <3>1, <3>2
  <2>11. CASE q[l] # <<>>
    BY <2>6, <2>7, <2>11 DEF Partes, Activo
  <2>12. CASE w[l] # <<>>
    <3>1. r[o] # "fin"
      BY <2>2, <2>6, <2>7, <2>12 DEF Activo
    <3>2. r[o] \in {"vive", "no", "fin"}
      BY <2>2, <2>6 DEF Campos, Estados
    <3>3. CASE r[o] = "vive"
      BY <2>6, <2>12, <3>3 DEF Partes
    <3>4. CASE r[o] = "no"
      <4>1. o = 2 /\ ~a
        BY <2>2, <2>6, <2>7, <3>4 DEF Activo
      <4>2. l = 1
        BY <2>2, <4>1 DEF Otro, Lados
      <4> QED
        BY <2>6, <2>12, <4>1, <4>2 DEF Partes
    <3> QED
      BY <3>1, <3>2, <3>3, <3>4
  <2> QED
    BY <2>10, <2>11, <2>12
<1> QED
  BY <1>1 DEF LoQueFaltaAvanza

(* Nothing that was accepted is lost between the queue, the stream and the *)
(* reader's list, while the connection lasts.                              *)
THEOREM NadaPerdido == Spec => []NadaSePierde
<1>1. Init => InvIroh
  BY SupuestoIroh, InvInicio
<1>2. InvIroh /\ [Next]_vars => InvIroh'
  BY SupuestoIroh, InvPaso
<1>3. InvIroh => NadaSePierde
  BY SupuestoIroh, InvDaConserva
<1> QED
  BY <1>1, <1>2, <1>3, PTL DEF Spec

(* The tasks of irohp2p.rs never leave an unread line where no task and no *)
(* call would take it, while the connection lasts: what LineaLlega needs   *)
(* beside the fairness.                                                    *)
THEOREM NadieSeAtasca == Spec => []LoQueFaltaAvanza
<1>1. Init => InvIroh /\ Atendidos
  BY SupuestoIroh, InvInicio, AtInicio
<1>2. InvIroh /\ Atendidos /\ [Next]_vars => InvIroh' /\ Atendidos'
  BY SupuestoIroh, InvPaso, AtPaso
<1>3. InvIroh /\ Atendidos => LoQueFaltaAvanza
  BY SupuestoIroh, InvDaAvance
<1> QED
  BY <1>1, <1>2, <1>3, PTL DEF Spec
=============================================================================
