-------------------------- MODULE SecuenciasProofs --------------------------
(***************************************************************************)
(* Lemmas about sequences of which some entries are kept or one is         *)
(* removed.  Induction is by the least counterexample: the strict order of *)
(* the finite subsets of Nat is well founded (FiniteSetTheorems).          *)
(***************************************************************************)
EXTENDS Secuencias, SequencesExt, SequenceTheorems, FiniteSetTheorems,
        WellFoundedInduction, TLAPS

(* Every non-empty set of naturals has a least element. *)
LEMMA MinimoNat ==
  ASSUME NEW T, T \subseteq Nat, T # {}
  PROVE  \E x \in T : \A y \in T : x <= y
<1> DEFINE U == {1 .. n : n \in T}
<1>1. U \subseteq FiniteSubsetsOf(Nat) /\ U # {}
  <2>1. \A n \in T : 1 .. n \in SUBSET Nat /\ IsFiniteSet(1 .. n)
    BY FS_Interval
  <2> QED
    BY <2>1 DEF FiniteSubsetsOf
<1>2. IsWellFoundedOn(StrictSubsetOrdering(Nat), FiniteSubsetsOf(Nat))
  BY FS_StrictSubsetOrderingWellFounded
<1>3. PICK c \in U : \A d \in U : ~ (<<d, c>> \in StrictSubsetOrdering(Nat))
  <2> HIDE DEF U
  <2> QED
    BY <1>1, <1>2, WFMin
<1>4. PICK x \in T : c = 1 .. x
  BY <1>3
<1>5. ASSUME NEW y \in T, y < x
      PROVE  FALSE
  <2>1. 1 .. y \in U
    OBVIOUS
  <2>2. x \in 1 .. x /\ x \notin 1 .. y /\ (1 .. y) \subseteq (1 .. x)
    BY <1>5
  <2>3. 1 .. y \in SUBSET Nat /\ 1 .. x \in SUBSET Nat /\ 1 .. y # 1 .. x
    BY <2>2
  <2>4. <<1 .. y, 1 .. x>> \in StrictSubsetOrdering(Nat)
    BY <2>2, <2>3 DEF StrictSubsetOrdering
  <2> QED
    BY <2>1, <2>4, <1>3, <1>4
<1> QED
  BY <1>5

(* A finite set of naturals can be put in order. *)
SeOrdena(K) ==
  \E f \in [1 .. Cardinality(K) -> K] :
    \A i, j \in 1 .. Cardinality(K) : i < j => f[i] < f[j]

LEMMA OrdenDeVacio == SeOrdena({})
<1>1. Cardinality({}) = 0
  BY FS_EmptySet
<1>2. [i \in 1 .. 0 |-> i] \in [1 .. 0 -> {}]
  OBVIOUS
<1>3. \A i, j \in 1 .. 0 : FALSE
  OBVIOUS
<1> QED
  BY <1>1, <1>2, <1>3 DEF SeOrdena

(* The least one goes before an order of the others. *)
LEMMA OrdenCrece ==
  ASSUME NEW K \in SUBSET Nat, IsFiniteSet(K), NEW m \in K,
         \A k \in K : m <= k, SeOrdena(K \ {m})
  PROVE  SeOrdena(K)
<1>1. PICK n : n = Cardinality(K \ {m})
  OBVIOUS
<1>2. n \in Nat /\ Cardinality(K) = n + 1
  <2>1. n = Cardinality(K) - 1
    BY <1>1, FS_RemoveElement
  <2>2. Cardinality(K) \in Nat /\ Cardinality(K) # 0
    <3>1. Cardinality(K) = 0 <=> K = {}
      BY FS_EmptySet
    <3> QED
      BY <3>1, FS_CardinalityType
  <2>3. PICK c : c = Cardinality(K)
    OBVIOUS
  <2>4. c \in Nat /\ c # 0 /\ n = c - 1
    BY <2>1, <2>2, <2>3
  <2> QED
    BY <2>3, <2>4
<1>3. PICK g \in [1 .. n -> K \ {m}] : \A i, j \in 1 .. n : i < j => g[i] < g[j]
  BY <1>1 DEF SeOrdena
<1> DEFINE f == [i \in 1 .. n + 1 |-> IF i = 1 THEN m ELSE g[i - 1]]
<1>4. \A i \in 1 .. n + 1 : i # 1 => i - 1 \in 1 .. n
  BY <1>2
<1>5. f \in [1 .. n + 1 -> K]
  <2>1. ASSUME NEW i \in 1 .. n + 1
        PROVE  (IF i = 1 THEN m ELSE g[i - 1]) \in K
    <3>1. CASE i = 1
      BY <3>1
    <3>2. CASE i # 1
      <4>1. g[i - 1] \in K \ {m}
        BY <1>3, <1>4, <3>2
      <4> QED
        BY <3>2, <4>1
    <3> QED
      BY <3>1, <3>2
  <2> QED
    BY <2>1
<1>6. ASSUME NEW i \in 1 .. n + 1, NEW j \in 1 .. n + 1, i < j
      PROVE  f[i] < f[j]
  <2>1. j # 1 /\ j - 1 \in 1 .. n /\ f[j] = g[j - 1]
    BY <1>2, <1>6
  <2>2. CASE i = 1
    <3>1. g[j - 1] \in K /\ g[j - 1] # m
      BY <1>3, <2>1
    <3>2. m <= g[j - 1] /\ m \in Nat /\ g[j - 1] \in Nat
      BY <3>1
    <3>3. f[i] = m
      BY <2>2
    <3>4. m < g[j - 1]
      BY <3>1, <3>2
    <3> QED
      BY <2>1, <3>3, <3>4
  <2>3. CASE i # 1
    <3>1. i - 1 \in 1 .. n /\ f[i] = g[i - 1] /\ i - 1 < j - 1
      BY <1>2, <1>6, <2>3
    <3> QED
      BY <1>3, <2>1, <3>1
  <2> QED
    BY <2>2, <2>3
<1> QED
  BY <1>2, <1>5, <1>6 DEF SeOrdena

LEMMA TodoSeOrdena ==
  ASSUME NEW K \in SUBSET Nat, IsFiniteSet(K)
  PROVE  SeOrdena(K)
<1> DEFINE Malos == {L \in FiniteSubsetsOf(Nat) : ~SeOrdena(L)}
<1>1. SUFFICES ASSUME Malos # {} PROVE FALSE
  BY DEF FiniteSubsetsOf
<1>2. IsWellFoundedOn(StrictSubsetOrdering(Nat), FiniteSubsetsOf(Nat))
  BY FS_StrictSubsetOrderingWellFounded
<1>3. PICK L \in Malos : \A M \in Malos : ~ (<<M, L>> \in StrictSubsetOrdering(Nat))
  <2>1. Malos \subseteq FiniteSubsetsOf(Nat)
    OBVIOUS
  <2> HIDE DEF Malos
  <2> QED
    BY <1>1, <1>2, <2>1, WFMin
<1>4. L \in SUBSET Nat /\ IsFiniteSet(L) /\ ~SeOrdena(L)
  BY DEF FiniteSubsetsOf
<1>5. L # {}
  BY <1>4, OrdenDeVacio
<1>6. PICK m \in L : \A k \in L : m <= k
  BY <1>4, <1>5, MinimoNat
<1>7. L \ {m} \in SUBSET Nat /\ IsFiniteSet(L \ {m}) /\ L \ {m} \subseteq L /\ L \ {m} # L
  BY <1>4, FS_RemoveElement
<1>8. <<L \ {m}, L>> \in StrictSubsetOrdering(Nat)
  BY <1>4, <1>7 DEF StrictSubsetOrdering
<1>9. SeOrdena(L \ {m})
  BY <1>3, <1>7, <1>8 DEF FiniteSubsetsOf
<1> QED
  BY <1>4, <1>6, <1>9, OrdenCrece

(* The order that Retiene follows: increasing, and it misses nobody. *)
LEMMA EnOrdenDeEs ==
  ASSUME NEW K \in SUBSET Nat, IsFiniteSet(K)
  PROVE  /\ Cardinality(K) \in Nat
         /\ EnOrdenDe(K) \in [1 .. Cardinality(K) -> K]
         /\ \A i, j \in 1 .. Cardinality(K) : i < j => EnOrdenDe(K)[i] < EnOrdenDe(K)[j]
         /\ \A k \in K : \E i \in 1 .. Cardinality(K) : EnOrdenDe(K)[i] = k
<1>1. PICK n : n = Cardinality(K)
  OBVIOUS
<1>2. n \in Nat
  BY <1>1, FS_CardinalityType
<1>3. \E g \in [1 .. n -> K] : \A i, j \in 1 .. n : i < j => g[i] < g[j]
  BY <1>1, TodoSeOrdena DEF SeOrdena
<1>4. PICK f : f = EnOrdenDe(K)
  OBVIOUS
<1>5. f \in [1 .. n -> K] /\ \A i, j \in 1 .. n : i < j => f[i] < f[j]
  BY <1>1, <1>3, <1>4 DEF EnOrdenDe
<1>6. f \in Injection(1 .. n, K)
  <2>1. \A i, j \in 1 .. n : f[i] = f[j] => i = j
    <3>1. \A i \in 1 .. n : f[i] \in Nat
      BY <1>5
    <3> QED
      BY <1>2, <1>5, <3>1
  <2> QED
    BY <1>5, <2>1 DEF Injection, IsInjective
<1>7. Cardinality(1 .. n) = n
  BY <1>2, FS_Interval
<1>8. f \in Surjection(1 .. n, K)
  BY <1>1, <1>6, <1>7, FS_Injection
<1>9. \A k \in K : \E i \in 1 .. n : f[i] = k
  BY <1>8 DEF Surjection
<1> QED
  BY <1>1, <1>2, <1>4, <1>5, <1>9

(* r has n elements of s, drawn from the positions of K in increasing      *)
(* order and from every one of them.                                       *)
Retenidas(r, n, S, s, K) ==
  /\ r \in Seq(S) /\ Len(r) = n /\ n \in 0 .. Len(s)
  /\ \E f \in [1 .. n -> K] :
       /\ \A i, j \in 1 .. n : i < j => f[i] < f[j]
       /\ \A k \in K : \E i \in 1 .. n : f[i] = k
       /\ \A i \in 1 .. n : r[i] = s[f[i]]

(* What is kept are those elements. *)
LEMMA RetieneEs ==
  ASSUME NEW S, NEW s \in Seq(S), NEW K \in SUBSET (1 .. Len(s))
  PROVE  Retenidas(Retiene(s, K), Cardinality(K), S, s, K)
<1>1. PICK l \in Nat : l = Len(s)
  OBVIOUS
<1>2. IsFiniteSet(1 .. l) /\ Cardinality(1 .. l) = l
  <2>1. IsFiniteSet(1 .. l) /\ Cardinality(1 .. l) = IF 1 > l THEN 0 ELSE l - 1 + 1
    <3>1. 1 \in Int /\ l \in Int
      OBVIOUS
    <3> QED
      BY <3>1, FS_Interval
  <2> QED
    BY <2>1
<1>3. IsFiniteSet(K) /\ Cardinality(K) <= l /\ K \in SUBSET Nat
  <2>1. K \in SUBSET (1 .. l)
    BY <1>1
  <2>2. IsFiniteSet(K) /\ Cardinality(K) <= Cardinality(1 .. l)
    BY <1>2, <2>1, FS_Subset
  <2> QED
    BY <1>1, <1>2, <2>1, <2>2
<1>4. PICK n : n = Cardinality(K)
  OBVIOUS
<1>5. PICK f : f = EnOrdenDe(K)
  OBVIOUS
<1>6. /\ n \in Nat
      /\ f \in [1 .. n -> K]
      /\ \A i, j \in 1 .. n : i < j => f[i] < f[j]
      /\ \A k \in K : \E i \in 1 .. n : f[i] = k
  BY <1>3, <1>4, <1>5, EnOrdenDeEs
<1>7. PICK r : r = [i \in 1 .. n |-> s[f[i]]]
  OBVIOUS
<1>8. Retiene(s, K) = r
  BY <1>4, <1>5, <1>7 DEF Retiene
<1>9. ASSUME NEW i \in 1 .. n
      PROVE  s[f[i]] \in S
  <2>1. f[i] \in 1 .. Len(s)
    BY <1>6
  <2> QED
    BY <2>1
<1>10. r \in Seq(S) /\ Len(r) = n /\ \A i \in 1 .. n : r[i] = s[f[i]]
  BY <1>6, <1>7, <1>9
<1>11. n \in 0 .. Len(s)
  BY <1>1, <1>3, <1>4, <1>6
<1>12. Retenidas(r, n, S, s, K)
  BY <1>6, <1>10, <1>11 DEF Retenidas
<1> QED
  BY <1>4, <1>8, <1>12

(* The elements kept are those at K. *)
LEMMA RetieneRango ==
  ASSUME NEW S, NEW s \in Seq(S), NEW K \in SUBSET (1 .. Len(s))
  PROVE  Range(Retiene(s, K)) = {s[k] : k \in K}
<1>1. PICK r : r = Retiene(s, K)
  OBVIOUS
<1>2. PICK n : n = Cardinality(K)
  OBVIOUS
<1>3. /\ r \in Seq(S) /\ Len(r) = n /\ n \in Nat
      /\ \E f \in [1 .. n -> K] :
           /\ \A k \in K : \E i \in 1 .. n : f[i] = k
           /\ \A i \in 1 .. n : r[i] = s[f[i]]
  <2>1. Retenidas(r, n, S, s, K)
    BY <1>1, <1>2, RetieneEs
  <2>2. r \in Seq(S) /\ Len(r) = n /\ n \in Nat
    BY <2>1 DEF Retenidas
  <2>3. \E f \in [1 .. n -> K] :
          /\ \A k \in K : \E i \in 1 .. n : f[i] = k
          /\ \A i \in 1 .. n : r[i] = s[f[i]]
    BY <2>1 DEF Retenidas
  <2> QED
    BY <2>2, <2>3
<1>4. DOMAIN r = 1 .. n
  BY <1>3
<1>5. PICK f \in [1 .. n -> K] :
        /\ \A k \in K : \E i \in 1 .. n : f[i] = k
        /\ \A i \in 1 .. n : r[i] = s[f[i]]
  BY <1>3
<1>6. Range(r) = {r[i] : i \in 1 .. n}
  BY <1>4 DEF Range
<1>7. {r[i] : i \in 1 .. n} = {s[k] : k \in K}
  <2>1. ASSUME NEW i \in 1 .. n
        PROVE  \E k \in K : r[i] = s[k]
    BY <1>5
  <2>2. ASSUME NEW k \in K
        PROVE  \E i \in 1 .. n : s[k] = r[i]
    BY <1>5
  <2>3. {r[i] : i \in 1 .. n} \subseteq {s[k] : k \in K}
    BY <2>1
  <2>4. {s[k] : k \in K} \subseteq {r[i] : i \in 1 .. n}
    BY <2>2
  <2> QED
    BY <2>3, <2>4
<1> QED
  BY <1>1, <1>6, <1>7

LEMMA RemoveAtEs ==
  ASSUME NEW S, NEW s \in Seq(S), NEW p \in 1 .. Len(s)
  PROVE  /\ RemoveAt(s, p) \in Seq(S)
         /\ Len(RemoveAt(s, p)) = Len(s) - 1
         /\ \A i \in 1 .. Len(s) - 1 : RemoveAt(s, p)[i] = IF i < p THEN s[i] ELSE s[i + 1]
<1> DEFINE a == SubSeq(s, 1, p - 1)
           b == SubSeq(s, p + 1, Len(s))
<1>0. Len(s) \in Nat
  OBVIOUS
<1>1. a \in Seq(S) /\ Len(a) = p - 1 /\ \A i \in 1 .. p - 1 : a[i] = s[i]
  BY <1>0, SubSeqProperties
<1>2. b \in Seq(S) /\ Len(b) = Len(s) - p /\ \A i \in 1 .. Len(s) - p : b[i] = s[p + i]
  BY <1>0, SubSeqProperties
<1>3. RemoveAt(s, p) = a \o b
  BY DEF RemoveAt
<1> HIDE DEF a, b
<1>4. /\ a \o b \in Seq(S) /\ Len(a \o b) = Len(s) - 1
      /\ \A i \in 1 .. Len(s) - 1 : (a \o b)[i] = IF i <= p - 1 THEN a[i] ELSE b[i - (p - 1)]
  <2>1. Len(a) + Len(b) = Len(s) - 1
    BY <1>0, <1>1, <1>2
  <2>2. /\ a \o b \in Seq(S) /\ Len(a \o b) = Len(a) + Len(b)
        /\ \A i \in 1 .. Len(a) + Len(b) : (a \o b)[i] = IF i <= Len(a) THEN a[i] ELSE b[i - Len(a)]
    BY <1>1, <1>2, ConcatProperties
  <2> QED
    BY <1>1, <2>1, <2>2
<1>5. ASSUME NEW i \in 1 .. Len(s) - 1
      PROVE  (a \o b)[i] = IF i < p THEN s[i] ELSE s[i + 1]
  BY <1>0, <1>1, <1>2, <1>4
<1> QED
  BY <1>3, <1>4, <1>5


-----------------------------------------------------------------------------
(* Recursion over 1 .. N. *)

(* A function defined step by step up to a bound: by G from b. *)
SeDefine(V, b, N, G) ==
  \E f \in [0 .. N -> V] : f[0] = b /\ \A i \in 1 .. N : f[i] = G[<<i, f[i - 1]>>]

LEMMA Recursion ==
  ASSUME NEW V, NEW b \in V, NEW N \in Nat, NEW G \in [(1 .. N) \X V -> V]
  PROVE  SeDefine(V, b, N, G)
<1> DEFINE Hasta(n) == \E f \in [0 .. n -> V] : f[0] = b /\ \A i \in 1 .. n : f[i] = G[<<i, f[i - 1]>>]
<1> DEFINE Malos == {n \in 0 .. N : ~Hasta(n)}
<1>1. SUFFICES ASSUME Malos # {} PROVE FALSE
  <2>1. N \notin Malos
    BY <1>1
  <2> QED
    BY <2>1 DEF SeDefine
<1>2. PICK n \in Malos : \A m \in Malos : n <= m
  <2>1. Malos \subseteq Nat
    OBVIOUS
  <2> HIDE DEF Malos
  <2> QED
    BY <1>1, <2>1, MinimoNat
<1>3. n \in 0 .. N /\ ~Hasta(n)
  OBVIOUS
<1>4. CASE n = 0
  <2>1. PICK f : f = [i \in 0 .. 0 |-> b]
    OBVIOUS
  <2>2. Hasta(0)
    <3>1. f \in [0 .. 0 -> V] /\ f[0] = b /\ \A i \in 1 .. 0 : FALSE
      BY <2>1
    <3> QED
      BY <3>1
  <2> QED
    BY <1>3, <1>4, <2>2
<1>5. CASE n # 0
  <2>1. PICK m \in Nat : n = m + 1 /\ m \in 0 .. N /\ m < n
    <3>1. n - 1 \in Nat /\ n = (n - 1) + 1 /\ n - 1 \in 0 .. N /\ n - 1 < n
      BY <1>3, <1>5
    <3> QED
      BY <3>1
  <2>2. Hasta(m)
    <3>1. m \notin Malos
      <4> HIDE DEF Malos
      <4> QED
        BY <1>2, <2>1
    <3> QED
      BY <2>1, <3>1
  <2>3. PICK f \in [0 .. m -> V] : f[0] = b /\ \A i \in 1 .. m : f[i] = G[<<i, f[i - 1]>>]
    BY <2>2
  <2>4. PICK v \in V : v = G[<<n, f[m]>>]
    <3>1. <<n, f[m]>> \in (1 .. N) \X V
      BY <1>3, <1>5, <2>1, <2>3
    <3> QED
      BY <3>1
  <2> DEFINE g == [i \in 0 .. n |-> IF i = n THEN v ELSE f[i]]
  <2>5. g \in [0 .. n -> V]
    <3>1. \A i \in 0 .. n : i # n => i \in 0 .. m
      BY <2>1
    <3> QED
      BY <3>1, <2>3, <2>4
  <2>6. g[0] = b
    BY <1>3, <1>5, <2>3
  <2>7. ASSUME NEW i \in 1 .. n
        PROVE  g[i] = G[<<i, g[i - 1]>>]
    <3>1. i - 1 \in 0 .. n /\ i - 1 # n
      BY <1>3
    <3>2. g[i - 1] = f[i - 1]
      BY <3>1
    <3>3. CASE i = n
      <4>1. g[i] = v /\ i - 1 = m
        BY <2>1, <3>3
      <4> QED
        BY <2>4, <3>2, <3>3, <4>1
    <3>4. CASE i # n
      <4>1. i \in 1 .. m /\ g[i] = f[i]
        BY <2>1, <3>4
      <4> QED
        BY <2>3, <3>2, <4>1
    <3> QED
      BY <3>3, <3>4
  <2>8. Hasta(n)
    <3> HIDE DEF g
    <3> QED
      BY <2>5, <2>6, <2>7
  <2> QED
    BY <1>3, <2>8
<1> QED
  BY <1>4, <1>5

(* Induction up to a bound, over the set of the numbers that have the      *)
(* property.                                                               *)
LEMMA HastaN ==
  ASSUME NEW N \in Nat, NEW T, 0 \in T,
         \A i \in 1 .. N : i - 1 \in T => i \in T
  PROVE  0 .. N \subseteq T
<1> DEFINE Malos == {n \in 0 .. N : n \notin T}
<1>1. SUFFICES ASSUME Malos # {} PROVE FALSE
  OBVIOUS
<1>2. PICK n \in Malos : \A m \in Malos : n <= m
  <2>1. Malos \subseteq Nat
    OBVIOUS
  <2> HIDE DEF Malos
  <2> QED
    BY <1>1, <2>1, MinimoNat
<1>3. n \in 1 .. N /\ n \notin T
  OBVIOUS
<1>4. n - 1 \in 0 .. N /\ ~(n <= n - 1)
  BY <1>3
<1>5. n - 1 \notin Malos
  <2> HIDE DEF Malos
  <2> QED
    BY <1>2, <1>4
<1> QED
  BY <1>3, <1>4, <1>5

(* FlattenSeq is built up from the front. *)
Aplana(f, S, n, t) ==
  /\ f \in [0 .. n -> Seq(S)]
  /\ f[0] = <<>>
  /\ \A i \in 1 .. n : f[i] = f[i - 1] \o t[i]

LEMMA AplanaPasos ==
  ASSUME NEW S, NEW n \in Nat, NEW t \in [1 .. n -> Seq(S)]
  PROVE  \E f : Aplana(f, S, n, t) /\ FlattenSeq(t) = f[n]
<1>1. Len(t) = n /\ DOMAIN t = 1 .. n
  OBVIOUS
<1>2. PICK G : G = [x \in (1 .. n) \X Seq(S) |-> x[2] \o t[x[1]]]
  OBVIOUS
<1>3. G \in [(1 .. n) \X Seq(S) -> Seq(S)]
  <2>1. ASSUME NEW x \in (1 .. n) \X Seq(S)
        PROVE  x[2] \o t[x[1]] \in Seq(S)
    <3>1. x[2] \in Seq(S) /\ t[x[1]] \in Seq(S)
      OBVIOUS
    <3> QED
      BY <3>1
  <2> QED
    BY <1>2, <2>1
<1>4. PICK f \in [0 .. n -> Seq(S)] : f[0] = <<>> /\ \A i \in 1 .. n : f[i] = G[<<i, f[i - 1]>>]
  <2>1. PICK V : V = Seq(S)
    OBVIOUS
  <2>2. PICK b \in V : b = <<>>
    <3>1. <<>> \in Seq(S)
      OBVIOUS
    <3> QED
      BY <2>1, <3>1, Zenon
  <2>3. SeDefine(V, b, n, G)
    <3>1. n \in Nat /\ G \in [(1 .. n) \X V -> V]
      BY <1>3, <2>1
    <3> QED
      BY <3>1, Recursion
  <2> QED
    BY <2>1, <2>2, <2>3 DEF SeDefine
<1>5. \A i \in 1 .. n : f[i] = f[i - 1] \o t[i]
  <2>1. ASSUME NEW i \in 1 .. n PROVE f[i] = f[i - 1] \o t[i]
    <3>1. i - 1 \in 0 .. n
      OBVIOUS
    <3>2. <<i, f[i - 1]>> \in (1 .. n) \X Seq(S)
      BY <1>4, <3>1
    <3> QED
      BY <1>2, <1>4, <3>2
  <2> QED
    BY <2>1
<1>6. Aplana(f, S, n, t)
  BY <1>4, <1>5 DEF Aplana
<1>7. CASE n = 0
  <2>1. t = <<>> /\ FlattenSeq(t) = t
    BY <1>1, <1>7 DEF FlattenSeq
  <2> QED
    BY <1>4, <1>6, <1>7, <2>1
<1>8. CASE n # 0
  <2> DEFINE F == CHOOSE h : h = [i \in 1 .. n |-> IF i = 1 THEN t[i] ELSE h[i - 1] \o t[i]]
  <2>1. FlattenSeq(t) = F[n]
    BY <1>1, <1>8 DEF FlattenSeq
  <2>2. f[1] = t[1]
    <3>1. PICK u \in 1 .. n : u = 1
      BY <1>8
    <3>1a. f[u] = f[u - 1] \o t[u] /\ t[u] \in Seq(S)
      BY <1>5
    <3>1b. u - 1 = 0
      BY <3>1
    <3>2. f[u] = f[u - 1] \o t[u] /\ u - 1 = 0 /\ t[u] \in Seq(S)
      BY <3>1a, <3>1b
    <3>4. f[u - 1] = <<>>
      BY <1>4, <3>2
    <3>5. \A x \in Seq(S) : <<>> \o x = x
      OBVIOUS
    <3>3. f[u] = t[u]
      BY <3>2, <3>4, <3>5, Zenon
    <3> QED
      BY <3>1, <3>3
  <2>3. PICK g : g = [i \in 1 .. n |-> f[i]]
    OBVIOUS
  <2>4. g = [i \in 1 .. n |-> IF i = 1 THEN t[i] ELSE g[i - 1] \o t[i]]
    <3>1. ASSUME NEW i \in 1 .. n
          PROVE  f[i] = IF i = 1 THEN t[i] ELSE g[i - 1] \o t[i]
      <4>1. CASE i = 1
        BY <2>2, <4>1
      <4>2. CASE i # 1
        <5>1. i - 1 \in 1 .. n
          BY <4>2
        <5>2. g[i - 1] = f[i - 1]
          BY <2>3, <5>1
        <5> QED
          BY <1>5, <4>2, <5>2
      <4> QED
        BY <4>1, <4>2
    <3> QED
      BY <2>3, <3>1
  <2>5. F = [i \in 1 .. n |-> IF i = 1 THEN t[i] ELSE F[i - 1] \o t[i]]
    BY <2>4, Zenon
  <2> HIDE DEF F
  <2> DEFINE T == {i \in 0 .. n : i = 0 \/ F[i] = f[i]}
  <2>6. ASSUME NEW i \in 1 .. n, i - 1 \in T
        PROVE  i \in T
    <3>1. CASE i = 1
      <4>1. F[i] = f[i]
        BY <2>2, <2>5, <3>1
      <4> QED
        BY <4>1
    <3>2. CASE i # 1
      <4>1. F[i] = F[i - 1] \o t[i]
        BY <2>5, <3>2
      <4>3. F[i - 1] = f[i - 1]
        BY <2>6, <3>2
      <4>2. F[i] = f[i]
        BY <1>5, <4>1, <4>3
      <4> QED
        BY <4>2
    <3> QED
      BY <3>1, <3>2
  <2>7. 0 .. n \subseteq T
    <3>1. 0 \in T
      OBVIOUS
    <3> HIDE DEF T
    <3> QED
      BY <2>6, <3>1, HastaN
  <2>8. n \in T
    <3> HIDE DEF T
    <3> QED
      BY <2>7
  <2>9. F[n] = f[n]
    BY <1>8, <2>8
  <2> QED
    BY <1>6, <2>1, <2>9
<1> QED
  BY <1>7, <1>8

(* FlattenSeq of sequences over a set: one over it, with the elements of all. *)
LEMMA AplanaRango ==
  ASSUME NEW S, NEW n \in Nat \ {0}, NEW t \in [1 .. n -> Seq(S)]
  PROVE  /\ FlattenSeq(t) \in Seq(S)
         /\ Range(FlattenSeq(t)) = UNION {Range(t[d]) : d \in 1 .. n}
<1>1. PICK f : Aplana(f, S, n, t) /\ FlattenSeq(t) = f[n]
  BY AplanaPasos
<1>2. f \in [0 .. n -> Seq(S)] /\ f[0] = <<>> /\ \A i \in 1 .. n : f[i] = f[i - 1] \o t[i]
  BY <1>1 DEF Aplana
<1> DEFINE T == {i \in 0 .. n : Range(f[i]) = UNION {Range(t[d]) : d \in 1 .. i}}
<1>3. 0 \in T
  <2>1. Range(f[0]) = {}
    BY <1>2 DEF Range
  <2> QED
    BY <2>1
<1>4. ASSUME NEW i \in 1 .. n, i - 1 \in T
      PROVE  i \in T
  <2>1. t[i] \in Seq(S) /\ i - 1 \in 0 .. n /\ f[i - 1] \in Seq(S) /\ f[i] = f[i - 1] \o t[i]
    <3>1. i - 1 \in 0 .. n
      OBVIOUS
    <3> QED
      BY <1>2, <3>1
  <2>2. Range(f[i]) = Range(f[i - 1]) \cup Range(t[i])
    BY <2>1, RangeConcatenation
  <2>3. 1 .. i = (1 .. i - 1) \cup {i}
    OBVIOUS
  <2>4. UNION {Range(t[d]) : d \in 1 .. i} = (UNION {Range(t[d]) : d \in 1 .. i - 1}) \cup Range(t[i])
    BY <2>3
  <2>5. Range(f[i - 1]) = UNION {Range(t[d]) : d \in 1 .. i - 1}
    BY <1>4
  <2>6. Range(f[i]) = UNION {Range(t[d]) : d \in 1 .. i}
    BY <2>2, <2>4, <2>5, Zenon
  <2> QED
    BY <2>6
<1>5. n \in T
  <2>1. 0 .. n \subseteq T
    <3> HIDE DEF T
    <3> QED
      BY <1>3, <1>4, HastaN
  <2> HIDE DEF T
  <2> QED
    BY <2>1
<1> QED
  BY <1>1, <1>2, <1>5

(* A set of positions that begins at the first one is 1 .. its size. *)
LEMMA Inicial ==
  ASSUME NEW n \in Nat, NEW D \in SUBSET (1 .. n),
         \A j \in D : \A i \in 1 .. j : i \in D
  PROVE  Cardinality(D) \in 0 .. n /\ D = 1 .. Cardinality(D)
<1> DEFINE T == {i \in 1 .. n + 1 : i \notin D}
<1>1. n + 1 \in T
  OBVIOUS
<1>2. PICK m \in T : \A i \in T : m <= i
  <2>1. T \subseteq Nat /\ T # {}
    BY <1>1
  <2> HIDE DEF T
  <2> QED
    BY <2>1, MinimoNat
<1>3. m \in 1 .. n + 1 /\ m \notin D /\ \A i \in 1 .. m - 1 : i \in D
  <2>1. m \in 1 .. n + 1 /\ m \notin D
    OBVIOUS
  <2>2. ASSUME NEW i \in 1 .. m - 1, i \notin D
        PROVE  FALSE
    <3>1. i \in T /\ ~(m <= i)
      BY <2>1, <2>2
    <3> QED
      BY <1>2, <3>1
  <2> QED
    BY <2>1, <2>2
<1>4. D = 1 .. m - 1
  <2>1. ASSUME NEW j \in D
        PROVE  j \in 1 .. m - 1
    <3>1. j \in 1 .. n /\ ~(m \in 1 .. j)
      BY <1>3
    <3> QED
      BY <1>3, <3>1
  <2> QED
    BY <1>3, <2>1
<1>5. Cardinality(D) = m - 1
  <2>1. m - 1 \in Nat
    BY <1>3
  <2>2. Cardinality(1 .. m - 1) = m - 1
    BY <1>3, FS_Interval
  <2> QED
    BY <1>4, <2>2
<1> QED
  BY <1>3, <1>4, <1>5

(* c is a, of n elements, followed by b, of k. *)
Unida(c, S, a, n, b, k) ==
  /\ n \in Nat /\ k \in Nat
  /\ c \in Seq(S) /\ Len(c) = n + k
  /\ \A i \in 1 .. n + k : c[i] = IF i <= n THEN a[i] ELSE b[i - n]

LEMMA UneEs ==
  ASSUME NEW S, NEW a \in Seq(S), NEW b \in Seq(S)
  PROVE  Unida(a \o b, S, a, Len(a), b, Len(b))
BY ConcatProperties DEF Unida

(* r is s, a sequence of S, with e put behind its first k elements. *)
EsInsercion(r, S, s, k, e) ==
  /\ r \in Seq(S)
  /\ Len(r) = Len(s) + 1
  /\ \A i \in 1 .. k : r[i] = s[i]
  /\ r[k + 1] = e
  /\ \A i \in k + 2 .. Len(s) + 1 : r[i] = s[i - 1]

(* What InsertAt leaves where. *)
LEMMA InsertAtEs ==
  ASSUME NEW S, NEW s \in Seq(S), NEW k \in 0 .. Len(s), NEW e \in S
  PROVE  EsInsercion(InsertAt(s, k + 1, e), S, s, k, e)
<1>1. PICK a, c : a = SubSeq(s, 1, k) /\ c = SubSeq(s, k + 1, Len(s))
  OBVIOUS
<1>2. PICK n \in Nat : n = Len(s) /\ k \in 0 .. n
  OBVIOUS
<1>3. /\ a \in Seq(S) /\ Len(a) = k /\ \A i \in 1 .. k : a[i] = s[i]
      /\ c \in Seq(S) /\ Len(c) = n - k /\ \A i \in 1 .. n - k : c[i] = s[k + i]
  BY <1>1, <1>2, SubSeqProperties
<1>4. PICK b : b = a \o <<e>>
  OBVIOUS
<1>5. b \in Seq(S) /\ Len(b) = k + 1 /\ (\A i \in 1 .. k : b[i] = s[i]) /\ b[k + 1] = e
  <2>1. PICK u : u = <<e>>
    OBVIOUS
  <2>2. u \in Seq(S) /\ Len(u) = 1 /\ u[1] = e
    BY <2>1
  <2>3. /\ b \in Seq(S) /\ Len(b) = Len(a) + Len(u)
        /\ \A i \in 1 .. Len(a) + Len(u) : b[i] = IF i <= Len(a) THEN a[i] ELSE u[i - Len(a)]
    BY <1>3, <1>4, <2>1, <2>2, ConcatProperties
  <2>4. Len(a) = k /\ k \in Nat /\ k + 1 \in 1 .. k + 1 /\ ~(k + 1 <= k) /\ k + 1 - k = 1
    BY <1>2, <1>3
  <2> QED
    BY <1>3, <2>2, <2>3, <2>4
<1>6. InsertAt(s, k + 1, e) = b \o c
  <2>1. (k + 1) - 1 = k
    BY <1>2
  <2> QED
    BY <1>1, <1>4, <2>1 DEF InsertAt
<1>7. /\ b \o c \in Seq(S) /\ Len(b \o c) = n + 1
      /\ \A i \in 1 .. k + 1 : (b \o c)[i] = b[i]
      /\ \A i \in k + 2 .. n + 1 : (b \o c)[i] = c[i - (k + 1)]
  <2>1. PICK d, m, l : d = b \o c /\ m = k + 1 /\ l = n - k
    OBVIOUS
  <2>2. Unida(d, S, b, m, c, l)
    <3>1. Unida(b \o c, S, b, Len(b), c, Len(c))
      BY <1>3, <1>5, UneEs
    <3> QED
      BY <1>3, <1>5, <2>1, <3>1
  <2>3. m + l = n + 1 /\ k \in 0 .. n
    BY <1>2, <2>1
  <2>4. d \in Seq(S) /\ Len(d) = n + 1 /\ \A i \in 1 .. n + 1 : d[i] = IF i <= m THEN b[i] ELSE c[i - m]
    BY <2>2, <2>3 DEF Unida
  <2>5. ASSUME NEW i \in 1 .. k + 1
        PROVE  d[i] = b[i]
    <3>1. i \in 1 .. n + 1 /\ i <= m
      BY <1>2, <2>1
    <3> QED
      BY <2>4, <3>1
  <2>6. ASSUME NEW i \in k + 2 .. n + 1
        PROVE  d[i] = c[i - m]
    <3>1. i \in 1 .. n + 1 /\ ~(i <= m)
      BY <1>2, <2>1
    <3> QED
      BY <2>4, <3>1
  <2> QED
    BY <2>1, <2>4, <2>5, <2>6
<1>8. ASSUME NEW i \in k + 2 .. n + 1
      PROVE  (b \o c)[i] = s[i - 1]
  <2>1. i - (k + 1) \in 1 .. n - k /\ k + (i - (k + 1)) = i - 1
    BY <1>2
  <2>2. (b \o c)[i] = c[i - (k + 1)]
    BY <1>7
  <2>3. c[i - (k + 1)] = s[k + (i - (k + 1))]
    BY <1>3, <2>1
  <2> QED
    BY <2>1, <2>2, <2>3
<1>9. \A i \in 1 .. k : i \in 1 .. k + 1
  BY <1>2
<1>10. k + 1 \in 1 .. k + 1
  BY <1>2
<1>11. PICK r : r = InsertAt(s, k + 1, e)
  OBVIOUS
<1>12. EsInsercion(r, S, s, k, e)
  BY <1>2, <1>5, <1>6, <1>7, <1>8, <1>9, <1>10, <1>11 DEF EsInsercion
<1> QED
  BY <1>11, <1>12

(* Every non-empty bounded set of naturals has a greatest element. *)
LEMMA MaximoNat ==
  ASSUME NEW n \in Nat, NEW T \in SUBSET (0 .. n), T # {}
  PROVE  \E x \in T : \A y \in T : x >= y
<1> DEFINE U == {n - x : x \in T}
<1>1. U \subseteq Nat /\ U # {}
  <2>1. \A x \in T : n - x \in Nat
    OBVIOUS
  <2> QED
    BY <2>1
<1>2. PICK u \in U : \A y \in U : u <= y
  <2> HIDE DEF U
  <2> QED
    BY <1>1, MinimoNat
<1>3. PICK x \in T : u = n - x
  OBVIOUS
<1>4. ASSUME NEW y \in T
      PROVE  x >= y
  <2>1. u <= n - y
    BY <1>2
  <2>2. x \in 0 .. n /\ y \in 0 .. n
    OBVIOUS
  <2> QED
    BY <1>3, <2>1, <2>2
<1> QED
  BY <1>4

(* The places of 1 .. n in a strict total order R: how many go before each, *)
(* and one.  Each place is somebody's.                                     *)
Puesto(R, n, i) == Cardinality({j \in 1 .. n : <<j, i>> \in R}) + 1
OrdenTotal(R, n) ==
  /\ \A i, j, k \in 1 .. n : <<i, j>> \in R /\ <<j, k>> \in R => <<i, k>> \in R
  /\ \A i, j \in 1 .. n : i # j => <<i, j>> \in R \/ <<j, i>> \in R
  /\ \A i \in 1 .. n : <<i, i>> \notin R

LEMMA PuestosEs ==
  ASSUME NEW n \in Nat, NEW R, OrdenTotal(R, n)
  PROVE  /\ \A i \in 1 .. n : Puesto(R, n, i) \in 1 .. n
         /\ \A i, j \in 1 .. n : <<i, j>> \in R => Puesto(R, n, i) < Puesto(R, n, j)
         /\ \A k \in 1 .. n : \E i \in 1 .. n : Puesto(R, n, i) = k
<1>1. IsFiniteSet(1 .. n) /\ Cardinality(1 .. n) = n
  <2>1. IsFiniteSet(1 .. n) /\ Cardinality(1 .. n) = IF 1 > n THEN 0 ELSE n - 1 + 1
    <3>1. 1 \in Int /\ n \in Int
      OBVIOUS
    <3> QED
      BY <3>1, FS_Interval
  <2> QED
    BY <2>1
<1> DEFINE A(i) == {j \in 1 .. n : <<j, i>> \in R}
<1>2. ASSUME NEW i \in 1 .. n
      PROVE  /\ IsFiniteSet(A(i)) /\ Cardinality(A(i)) \in Nat
             /\ Puesto(R, n, i) = Cardinality(A(i)) + 1
             /\ Puesto(R, n, i) \in 1 .. n
  <2>1. A(i) \in SUBSET (1 .. n) /\ A(i) # 1 .. n
    <3>1. i \notin A(i)
      BY DEF OrdenTotal
    <3> QED
      BY <3>1
  <2>2. IsFiniteSet(A(i)) /\ Cardinality(A(i)) <= n /\ Cardinality(A(i)) # n
    <3> HIDE DEF A
    <3> QED
      BY <1>1, <2>1, FS_Subset
  <2>3. Cardinality(A(i)) \in Nat
    <3> HIDE DEF A
    <3> QED
      BY <2>2, FS_CardinalityType
  <2>4. Puesto(R, n, i) = Cardinality(A(i)) + 1
    BY DEF Puesto
  <2> HIDE DEF A
  <2> QED
    BY <2>2, <2>3, <2>4
<1>3. ASSUME NEW i \in 1 .. n, NEW j \in 1 .. n, <<i, j>> \in R
      PROVE  Puesto(R, n, i) < Puesto(R, n, j)
  <2>1. A(i) \in SUBSET A(j) /\ i \in A(j) /\ i \notin A(i)
    BY <1>3 DEF OrdenTotal
  <2>2. A(i) # A(j)
    <3> HIDE DEF A
    <3> QED
      BY <2>1
  <2>3. IsFiniteSet(A(j)) /\ Cardinality(A(i)) \in Nat /\ Cardinality(A(j)) \in Nat
    BY <1>2
  <2> HIDE DEF A
  <2>4. Cardinality(A(i)) <= Cardinality(A(j)) /\ Cardinality(A(i)) # Cardinality(A(j))
    BY <2>1, <2>2, <2>3, FS_Subset
  <2> QED
    BY <1>2, <2>3, <2>4
<1> HIDE DEF A
<1>4. PICK f : f = [i \in 1 .. n |-> Puesto(R, n, i)]
  OBVIOUS
<1>5. f \in Injection(1 .. n, 1 .. n)
  <2>1. f \in [1 .. n -> 1 .. n]
    BY <1>2, <1>4
  <2>2. ASSUME NEW i \in 1 .. n, NEW j \in 1 .. n, f[i] = f[j], i # j
        PROVE  FALSE
    <3>1. <<i, j>> \in R \/ <<j, i>> \in R
      BY <2>2 DEF OrdenTotal
    <3>2. f[i] < f[j] \/ f[j] < f[i]
      BY <1>3, <1>4, <3>1
    <3>3. f[i] \in Int /\ f[j] \in Int
      BY <2>1
    <3> QED
      BY <2>2, <3>2, <3>3
  <2> QED
    BY <2>1, <2>2 DEF Injection, IsInjective
<1>6. f \in Surjection(1 .. n, 1 .. n)
  BY <1>1, <1>5, FS_Injection
<1>7. \A k \in 1 .. n : \E i \in 1 .. n : f[i] = k
  BY <1>6 DEF Surjection
<1> QED
  BY <1>2, <1>3, <1>4, <1>7

(* r is made of the elements of s at K, in their order. *)
EsParte(r, S, s, K) ==
  /\ r \in Seq(S)
  /\ \E f \in [1 .. Len(r) -> K] :
       /\ \A i, j \in 1 .. Len(r) : i < j => f[i] < f[j]
       /\ \A i \in 1 .. Len(r) : r[i] = s[f[i]]

LEMMA RetieneParte ==
  ASSUME NEW S, NEW s \in Seq(S), NEW K \in SUBSET (1 .. Len(s))
  PROVE  EsParte(Retiene(s, K), S, s, K)
<1>1. PICK r, n : r = Retiene(s, K) /\ n = Cardinality(K)
  OBVIOUS
<1>2. Retenidas(r, n, S, s, K)
  BY <1>1, RetieneEs
<1>3. r \in Seq(S) /\ Len(r) = n
  BY <1>2 DEF Retenidas
<1>4. \E f \in [1 .. n -> K] :
        /\ \A i, j \in 1 .. n : i < j => f[i] < f[j]
        /\ \A i \in 1 .. n : r[i] = s[f[i]]
  BY <1>2 DEF Retenidas
<1>5. EsParte(r, S, s, K)
  BY <1>3, <1>4 DEF EsParte
<1> QED
  BY <1>1, <1>5

LEMMA AplanaJunta ==
  ASSUME NEW S, NEW a \in Seq(Seq(S)), NEW b \in Seq(Seq(S))
  PROVE  /\ FlattenSeq(a) \in Seq(S)
         /\ FlattenSeq(a \o b) = FlattenSeq(a) \o FlattenSeq(b)
<1>1. PICK n \in Nat, k \in Nat : n = Len(a) /\ k = Len(b)
  OBVIOUS
<1>2. a \in [1 .. n -> Seq(S)] /\ b \in [1 .. k -> Seq(S)]
  BY <1>1
<1>3. PICK c : c = a \o b
  OBVIOUS
<1>4. /\ n + k \in Nat /\ c \in [1 .. n + k -> Seq(S)]
      /\ \A i \in 1 .. n : c[i] = a[i]
      /\ \A i \in 1 .. k : c[n + i] = b[i]
  <2>1. Unida(c, Seq(S), a, n, b, k)
    BY <1>1, <1>3, UneEs
  <2>2. c \in Seq(Seq(S)) /\ Len(c) = n + k /\ n + k \in Nat
    BY <2>1 DEF Unida
  <2>3. c \in [1 .. n + k -> Seq(S)]
    BY <2>2
  <2>4. \A i \in 1 .. n + k : c[i] = IF i <= n THEN a[i] ELSE b[i - n]
    BY <2>1 DEF Unida
  <2>5. ASSUME NEW i \in 1 .. n
        PROVE  c[i] = a[i]
    <3>1. i \in 1 .. n + k /\ i <= n
      OBVIOUS
    <3> QED
      BY <2>4, <3>1
  <2>6. ASSUME NEW i \in 1 .. k
        PROVE  c[n + i] = b[i]
    <3>1. n + i \in 1 .. n + k /\ ~(n + i <= n) /\ (n + i) - n = i
      OBVIOUS
    <3> QED
      BY <2>4, <3>1
  <2> QED
    BY <2>2, <2>3, <2>5, <2>6
<1>5. PICK f : Aplana(f, S, n, a) /\ FlattenSeq(a) = f[n]
  BY <1>2, AplanaPasos
<1>6. PICK g : Aplana(g, S, k, b) /\ FlattenSeq(b) = g[k]
  BY <1>2, AplanaPasos
<1>7. PICK h : Aplana(h, S, n + k, c) /\ FlattenSeq(c) = h[n + k]
  BY <1>4, AplanaPasos
<1>8. /\ f \in [0 .. n -> Seq(S)] /\ f[0] = <<>> /\ \A i \in 1 .. n : f[i] = f[i - 1] \o a[i]
      /\ g \in [0 .. k -> Seq(S)] /\ g[0] = <<>> /\ \A i \in 1 .. k : g[i] = g[i - 1] \o b[i]
      /\ h \in [0 .. n + k -> Seq(S)] /\ h[0] = <<>> /\ \A i \in 1 .. n + k : h[i] = h[i - 1] \o c[i]
  BY <1>5, <1>6, <1>7 DEF Aplana
<1> DEFINE T == {i \in 0 .. n : h[i] = f[i]}
           U == {i \in 0 .. k : h[n + i] = f[n] \o g[i]}
<1>9. n \in T
  <2>1. 0 \in T
    BY <1>8
  <2>2. ASSUME NEW i \in 1 .. n, i - 1 \in T
        PROVE  i \in T
    <3>1. i \in 1 .. n + k /\ h[i - 1] = f[i - 1]
      BY <2>2
    <3>2. h[i] = h[i - 1] \o c[i]
      BY <1>8, <3>1
    <3>3. f[i] = f[i - 1] \o a[i] /\ c[i] = a[i]
      BY <1>4, <1>8
    <3>4. h[i] = f[i]
      BY <3>1, <3>2, <3>3
    <3> QED
      BY <3>4
  <2>3. 0 .. n \subseteq T
    <3> HIDE DEF T
    <3> QED
      BY <2>1, <2>2, HastaN
  <2> HIDE DEF T
  <2> QED
    BY <2>3
<1>10. k \in U
  <2>1. 0 \in U
    <3>1. PICK z : z = 0
      OBVIOUS
    <3>2. n + z = n /\ f[n] \in Seq(S) /\ g[z] = <<>> /\ h[n] = f[n] /\ z \in 0 .. k
      BY <1>8, <1>9, <3>1
    <3>3. h[n + z] = f[n] \o g[z]
      BY <3>2
    <3>4. z \in U
      BY <3>2, <3>3
    <3> QED
      BY <3>1, <3>4
  <2>2. ASSUME NEW i \in 1 .. k, i - 1 \in U
        PROVE  i \in U
    <3>1. n + i \in 1 .. n + k /\ (n + i) - 1 = n + (i - 1)
      OBVIOUS
    <3>2. h[n + (i - 1)] = f[n] \o g[i - 1]
      BY <2>2
    <3>3. h[n + i] = (f[n] \o g[i - 1]) \o b[i]
      <4>1. h[n + i] = h[(n + i) - 1] \o c[n + i]
        BY <1>8, <3>1
      <4>2. c[n + i] = b[i]
        BY <1>4
      <4> QED
        BY <3>1, <3>2, <4>1, <4>2
    <3>4. g[i] = g[i - 1] \o b[i]
      BY <1>8
    <3>5. f[n] \in Seq(S) /\ g[i - 1] \in Seq(S) /\ b[i] \in Seq(S)
      <4>1. n \in 0 .. n /\ i - 1 \in 0 .. k
        OBVIOUS
      <4> QED
        BY <1>2, <1>8, <4>1
    <3>6. \A x, y, z \in Seq(S) : (x \o y) \o z = x \o (y \o z)
      OBVIOUS
    <3>7. (f[n] \o g[i - 1]) \o b[i] = f[n] \o (g[i - 1] \o b[i])
      BY <3>5, <3>6, Zenon
    <3>8. h[n + i] = f[n] \o g[i] /\ i \in 0 .. k
      BY <3>3, <3>4, <3>7
    <3> QED
      BY <3>8
  <2>3. 0 .. k \subseteq U
    <3> HIDE DEF U
    <3> QED
      BY <2>1, <2>2, HastaN
  <2> HIDE DEF U
  <2> QED
    BY <2>3
<1>11. f[n] \in Seq(S)
  BY <1>8
<1>12. h[n + k] = f[n] \o g[k]
  BY <1>10
<1> QED
  BY <1>3, <1>5, <1>6, <1>7, <1>11, <1>12

(* G[s[1]], G[s[2]], ... one after the other. *)
AplanaCon(G, s) == FlattenSeq([i \in DOMAIN s |-> G[s[i]]])

(* It is a sequence, and follows a as it grows. *)
JuntaBien(G, S, V, a) ==
  /\ AplanaCon(G, a) \in Seq(V)
  /\ AplanaCon(G, <<>>) = <<>>
  /\ \A x \in S : AplanaCon(G, <<x>>) = G[x]
  /\ \A b \in Seq(S) : AplanaCon(G, a \o b) = AplanaCon(G, a) \o AplanaCon(G, b)
  /\ \A x \in S : AplanaCon(G, Append(a, x)) = AplanaCon(G, a) \o G[x]

LEMMA AplanaConEs ==
  ASSUME NEW S, NEW V, NEW G \in [S -> Seq(V)], NEW a \in Seq(S)
  PROVE  JuntaBien(G, S, V, a)
<1> DEFINE M(s) == [i \in DOMAIN s |-> G[s[i]]]
<1>1. ASSUME NEW s \in Seq(S)
      PROVE  M(s) \in Seq(Seq(V)) /\ Len(M(s)) = Len(s) /\ \A i \in 1 .. Len(s) : M(s)[i] = G[s[i]]
  <2>1. PICK n \in Nat : n = Len(s)
    OBVIOUS
  <2>2. DOMAIN s = 1 .. n /\ \A i \in 1 .. n : s[i] \in S
    BY <2>1
  <2>3. PICK r : r = [i \in 1 .. n |-> G[s[i]]]
    OBVIOUS
  <2>4. M(s) = r
    BY <2>2, <2>3
  <2>5. \A i \in 1 .. n : G[s[i]] \in Seq(V)
    BY <2>2
  <2>6. r \in Seq(Seq(V)) /\ Len(r) = n /\ \A i \in 1 .. n : r[i] = G[s[i]]
    BY <2>3, <2>5
  <2> QED
    BY <2>1, <2>4, <2>6
<1>2. AplanaCon(G, a) \in Seq(V)
  BY <1>1, AplanaJunta DEF AplanaCon
<1>3. AplanaCon(G, <<>>) = <<>>
  <2>1. M(<<>>) = <<>>
    OBVIOUS
  <2>2. FlattenSeq(<<>>) = <<>>
    BY DEF FlattenSeq
  <2> QED
    BY <2>1, <2>2 DEF AplanaCon
<1>4. ASSUME NEW x \in S
      PROVE  AplanaCon(G, <<x>>) = G[x]
  <2>1. PICK t : t = M(<<x>>)
    OBVIOUS
  <2>2. t \in [1 .. 1 -> Seq(V)] /\ t[1] = G[x]
    BY <2>1
  <2>3. PICK f : Aplana(f, V, 1, t) /\ FlattenSeq(t) = f[1]
    BY <2>2, AplanaPasos
  <2>4. PICK u \in 1 .. 1 : u = 1
    OBVIOUS
  <2>6. f[u] = f[u - 1] \o t[u] /\ u - 1 = 0 /\ f[0] = <<>> /\ t[u] \in Seq(V)
    BY <2>2, <2>3, <2>4 DEF Aplana
  <2>8. f[u - 1] = <<>>
    BY <2>6
  <2>9. \A y \in Seq(V) : <<>> \o y = y
    OBVIOUS
  <2>7. f[u] = t[u]
    BY <2>6, <2>8, <2>9, Zenon
  <2>5. f[1] = G[x]
    BY <2>2, <2>4, <2>7
  <2> QED
    BY <2>1, <2>3, <2>5 DEF AplanaCon
<1>5. ASSUME NEW b \in Seq(S)
      PROVE  AplanaCon(G, a \o b) = AplanaCon(G, a) \o AplanaCon(G, b)
  <2>1. M(a \o b) = M(a) \o M(b)
    <3>1. PICK n \in Nat, k \in Nat : n = Len(a) /\ k = Len(b)
      OBVIOUS
    <3>2. PICK c : c = a \o b
      OBVIOUS
    <3>3. c \in Seq(S) /\ Len(c) = n + k /\ \A i \in 1 .. n + k : c[i] = IF i <= n THEN a[i] ELSE b[i - n]
      BY <3>1, <3>2, ConcatProperties
    <3>4. PICK u, v, w : u = M(a) /\ v = M(b) /\ w = M(c)
      OBVIOUS
    <3>5. /\ u \in Seq(Seq(V)) /\ Len(u) = n /\ \A i \in 1 .. n : u[i] = G[a[i]]
          /\ v \in Seq(Seq(V)) /\ Len(v) = k /\ \A i \in 1 .. k : v[i] = G[b[i]]
          /\ w \in Seq(Seq(V)) /\ Len(w) = n + k /\ \A i \in 1 .. n + k : w[i] = G[c[i]]
      <4> HIDE DEF M
      <4> QED
        BY <1>1, <3>1, <3>3, <3>4
    <3>6. PICK z : z = u \o v
      OBVIOUS
    <3>7. z \in Seq(Seq(V)) /\ Len(z) = n + k /\ \A i \in 1 .. n + k : z[i] = IF i <= n THEN u[i] ELSE v[i - n]
      <4>1. Unida(u \o v, Seq(V), u, Len(u), v, Len(v))
        BY <3>5, UneEs
      <4>2. Unida(z, Seq(V), u, n, v, k)
        BY <3>5, <3>6, <4>1
      <4> QED
        BY <4>2 DEF Unida
    <3>8. ASSUME NEW i \in 1 .. n + k
          PROVE  w[i] = z[i]
      <4>1. CASE i <= n
        <5>1. i \in 1 .. n
          BY <4>1
        <5>2. w[i] = G[c[i]]
          BY <3>5
        <5>3. c[i] = a[i]
          BY <3>3, <4>1
        <5>4. z[i] = u[i]
          BY <3>7, <4>1
        <5> QED
          BY <3>5, <5>1, <5>2, <5>3, <5>4
      <4>2. CASE ~(i <= n)
        <5>1. i - n \in 1 .. k
          BY <4>2
        <5>2. w[i] = G[c[i]] /\ c[i] = b[i - n] /\ z[i] = v[i - n]
          BY <3>3, <3>5, <3>7, <4>2
        <5> QED
          BY <3>5, <5>1, <5>2
      <4> QED
        BY <4>1, <4>2
    <3>9. w = z
      <4>1. PICK l : l = n + k
        OBVIOUS
      <4>2. w = [i \in 1 .. l |-> w[i]] /\ z = [i \in 1 .. l |-> z[i]]
        BY <3>5, <3>7, <4>1
      <4>3. [i \in 1 .. l |-> w[i]] = [i \in 1 .. l |-> z[i]]
        BY <3>8, <4>1
      <4> QED
        BY <4>2, <4>3, Zenon
    <3> QED
      BY <3>2, <3>4, <3>6, <3>9
  <2>2. M(a) \in Seq(Seq(V)) /\ M(b) \in Seq(Seq(V))
    BY <1>1
  <2> HIDE DEF M
  <2>3. FlattenSeq(M(a \o b)) = FlattenSeq(M(a)) \o FlattenSeq(M(b))
    BY <2>1, <2>2, AplanaJunta
  <2> QED
    BY <2>3 DEF AplanaCon, M
<1>6. ASSUME NEW x \in S
      PROVE  AplanaCon(G, Append(a, x)) = AplanaCon(G, a) \o G[x]
  <2>1. Append(a, x) = a \o <<x>> /\ <<x>> \in Seq(S)
    OBVIOUS
  <2> QED
    BY <1>4, <1>5, <2>1
<1> QED
  BY <1>2, <1>3, <1>4, <1>5, <1>6 DEF JuntaBien

-----------------------------------------------------------------------------
(* What is put together from the front, and where its pieces end.          *)

(* How much there is after each element of s that is in B. *)
Marcas(G, s, B) ==
  {Len(AplanaCon(G, SubSeq(s, 1, i))) : i \in {j \in DOMAIN s : s[j] \in B}}

(* The beginnings of c = a \o b are those of a and a followed by those of b. *)
EsJunta(c, S, a, b) ==
  /\ c \in Seq(S) /\ Len(c) = Len(a) + Len(b)
  /\ \A i \in 1 .. Len(a) : SubSeq(c, 1, i) = SubSeq(a, 1, i) /\ c[i] = a[i]
  /\ \A i \in 1 .. Len(b) : SubSeq(c, 1, Len(a) + i) = a \o SubSeq(b, 1, i) /\ c[Len(a) + i] = b[i]
SeParte(a) ==
  /\ \A i \in 1 .. Len(a) : a = SubSeq(a, 1, i) \o SubSeq(a, i + 1, Len(a))
  /\ SubSeq(a, 1, Len(a)) = a

LEMMA PrefijoEs ==
  ASSUME NEW S, NEW a \in Seq(S), NEW b \in Seq(S)
  PROVE  EsJunta(a \o b, S, a, b) /\ SeParte(a)
<1>1. PICK n \in Nat, k \in Nat : n = Len(a) /\ k = Len(b)
  OBVIOUS
<1>2. PICK c : c = a \o b
  OBVIOUS
<1>3. c \in Seq(S) /\ Len(c) = n + k /\ \A i \in 1 .. n + k : c[i] = IF i <= n THEN a[i] ELSE b[i - n]
  BY <1>1, <1>2, ConcatProperties
<1>4. ASSUME NEW i \in 1 .. n
      PROVE  SubSeq(c, 1, i) = SubSeq(a, 1, i) /\ c[i] = a[i]
  <2>1. SubSeq(c, 1, i) = [j \in 1 .. i |-> c[j]] /\ SubSeq(a, 1, i) = [j \in 1 .. i |-> a[j]]
    BY <1>1, <1>3
  <2>2. \A j \in 1 .. i : c[j] = a[j]
    <3>1. ASSUME NEW j \in 1 .. i PROVE c[j] = a[j]
      <4>1. j \in 1 .. n + k /\ j <= n
        OBVIOUS
      <4> QED
        BY <1>3, <4>1
    <3> QED
      BY <3>1
  <2>3. c[i] = a[i]
    BY <2>2
  <2> QED
    BY <2>1, <2>2, <2>3
<1>5. ASSUME NEW i \in 1 .. k
      PROVE  SubSeq(c, 1, n + i) = a \o SubSeq(b, 1, i) /\ c[n + i] = b[i]
  <2>1. PICK d : d = SubSeq(b, 1, i)
    OBVIOUS
  <2>2. d \in Seq(S) /\ Len(d) = i /\ \A j \in 1 .. i : d[j] = b[j]
    BY <1>1, <2>1, SubSeqProperties
  <2>3. PICK e : e = a \o d
    OBVIOUS
  <2>4. e \in Seq(S) /\ Len(e) = n + i /\ \A j \in 1 .. n + i : e[j] = IF j <= n THEN a[j] ELSE d[j - n]
    <3>1. Unida(a \o d, S, a, Len(a), d, Len(d))
      BY <2>2, UneEs
    <3>2. Unida(e, S, a, n, d, i)
      BY <1>1, <2>2, <2>3, <3>1
    <3> QED
      BY <3>2 DEF Unida
  <2>5. ASSUME NEW j \in 1 .. n + i
        PROVE  c[j] = e[j]
    <3>1. j \in 1 .. n + k
      OBVIOUS
    <3>2. CASE j <= n
      <4>1. c[j] = a[j]
        BY <1>3, <3>1, <3>2
      <4>2. e[j] = a[j]
        BY <2>4, <3>2
      <4> QED
        BY <4>1, <4>2
    <3>3. CASE ~(j <= n)
      <4>1. c[j] = b[j - n]
        BY <1>3, <3>1, <3>3
      <4>2. e[j] = d[j - n]
        BY <2>4, <3>3
      <4>3. j - n \in 1 .. i
        BY <3>3
      <4> QED
        BY <2>2, <4>1, <4>2, <4>3
    <3> QED
      BY <3>2, <3>3
  <2>6. PICK l : l = n + i
    OBVIOUS
  <2>7. SubSeq(c, 1, l) = [j \in 1 .. l |-> c[j]] /\ e = [j \in 1 .. l |-> e[j]]
    BY <1>1, <1>3, <2>4, <2>6
  <2>8. [j \in 1 .. l |-> c[j]] = [j \in 1 .. l |-> e[j]]
    BY <2>5, <2>6
  <2>9. c[n + i] = b[i]
    <3>1. n + i \in 1 .. n + k /\ ~(n + i <= n) /\ (n + i) - n = i
      OBVIOUS
    <3> QED
      BY <1>3, <3>1
  <2> QED
    BY <2>1, <2>3, <2>6, <2>7, <2>8, <2>9, Zenon
<1>6. ASSUME NEW i \in 1 .. n
      PROVE  a = SubSeq(a, 1, i) \o SubSeq(a, i + 1, Len(a))
  <2>1. PICK d, e : d = SubSeq(a, 1, i) /\ e = SubSeq(a, i + 1, Len(a))
    OBVIOUS
  <2>2. /\ d \in Seq(S) /\ Len(d) = i /\ \A j \in 1 .. i : d[j] = a[j]
        /\ e \in Seq(S) /\ Len(e) = n - i /\ \A j \in 1 .. n - i : e[j] = a[i + j]
    BY <1>1, <2>1, SubSeqProperties
  <2>3. PICK z : z = d \o e
    OBVIOUS
  <2>4. z \in Seq(S) /\ Len(z) = n /\ \A j \in 1 .. n : z[j] = IF j <= i THEN d[j] ELSE e[j - i]
    <3>1. PICK l : l = n - i
      OBVIOUS
    <3>2. Unida(d \o e, S, d, Len(d), e, Len(e))
      BY <2>2, UneEs
    <3>3. Unida(z, S, d, i, e, l)
      BY <2>2, <2>3, <3>1, <3>2
    <3>4. i + l = n
      BY <3>1
    <3> QED
      BY <3>3, <3>4 DEF Unida
  <2>5. ASSUME NEW j \in 1 .. n
        PROVE  a[j] = z[j]
    <3>1. CASE j <= i
      <4>1. z[j] = d[j] /\ j \in 1 .. i
        BY <2>4, <3>1
      <4> QED
        BY <2>2, <4>1
    <3>2. CASE ~(j <= i)
      <4>1. z[j] = e[j - i]
        BY <2>4, <3>2
      <4>2. j - i \in 1 .. n - i /\ i + (j - i) = j
        BY <3>2
      <4> QED
        BY <2>2, <4>1, <4>2
    <3> QED
      BY <3>1, <3>2
  <2>6. a = [j \in 1 .. n |-> a[j]] /\ z = [j \in 1 .. n |-> z[j]]
    BY <1>1, <2>4
  <2>7. [j \in 1 .. n |-> a[j]] = [j \in 1 .. n |-> z[j]]
    BY <2>5
  <2> QED
    BY <2>1, <2>3, <2>6, <2>7, Zenon
<1>7. SubSeq(a, 1, Len(a)) = a
  <2>1. a = [j \in 1 .. n |-> a[j]] /\ SubSeq(a, 1, n) = [j \in 1 .. n |-> a[j]]
    BY <1>1
  <2> QED
    BY <1>1, <2>1
<1>8. EsJunta(c, S, a, b)
  BY <1>1, <1>3, <1>4, <1>5 DEF EsJunta
<1>9. SeParte(a)
  BY <1>1, <1>6, <1>7 DEF SeParte
<1> QED
  BY <1>2, <1>8, <1>9

(* The marks of a stay as it grows, and the new ones are not before its end. *)
MarcasBien(G, S, B, a) ==
  /\ Marcas(G, a, B) \subseteq 0 .. Len(AplanaCon(G, a))
  /\ Marcas(G, <<>>, B) = {}
  /\ \A x \in S : Marcas(G, Append(a, x), B) =
       Marcas(G, a, B) \cup (IF x \in B THEN {Len(AplanaCon(G, a)) + Len(G[x])} ELSE {})
  /\ \A b \in Seq(S) :
       /\ Marcas(G, a, B) \subseteq Marcas(G, a \o b, B)
       /\ \A k \in Marcas(G, a \o b, B) :
            k <= Len(AplanaCon(G, a)) => k \in Marcas(G, a, B) \cup {Len(AplanaCon(G, a))}

LEMMA MarcasEs ==
  ASSUME NEW S, NEW V, NEW G \in [S -> Seq(V)], NEW B, NEW a \in Seq(S)
  PROVE  MarcasBien(G, S, B, a)
<1> DEFINE A(s) == AplanaCon(G, s)
<1>1. \A s \in Seq(S) : A(s) \in Seq(V) /\ Len(A(s)) \in Nat
  <2>1. ASSUME NEW s \in Seq(S)
        PROVE  A(s) \in Seq(V)
    BY AplanaConEs DEF JuntaBien
  <2> QED
    BY <2>1
<1>2. \A s, u \in Seq(S) : A(s \o u) = A(s) \o A(u) /\ Len(A(s \o u)) = Len(A(s)) + Len(A(u))
  <2>1. ASSUME NEW s \in Seq(S), NEW u \in Seq(S)
        PROVE  A(s \o u) = A(s) \o A(u)
    <3>1. JuntaBien(G, S, V, s)
      BY AplanaConEs
    <3> QED
      BY <3>1 DEF JuntaBien
  <2> HIDE DEF A
  <2>2. ASSUME NEW s \in Seq(S), NEW u \in Seq(S)
        PROVE  Len(A(s) \o A(u)) = Len(A(s)) + Len(A(u))
    BY <1>1
  <2> QED
    BY <2>1, <2>2
<1>3. \A x \in S : A(Append(a, x)) = A(a) \o G[x] /\ Len(A(Append(a, x))) = Len(A(a)) + Len(G[x])
  <2>1. ASSUME NEW x \in S
        PROVE  A(Append(a, x)) = A(a) \o G[x] /\ A(a) \in Seq(V) /\ G[x] \in Seq(V)
    <3>1. JuntaBien(G, S, V, a)
      BY AplanaConEs
    <3>2. A(Append(a, x)) = A(a) \o G[x] /\ A(a) \in Seq(V)
      BY <3>1 DEF JuntaBien
    <3> QED
      BY <3>2
  <2> HIDE DEF A
  <2>2. ASSUME NEW x \in S
        PROVE  Len(A(a) \o G[x]) = Len(A(a)) + Len(G[x])
    BY <2>1
  <2> QED
    BY <2>1, <2>2
<1>4. \A s \in Seq(S) : Marcas(G, s, B) = {Len(A(SubSeq(s, 1, i))) : i \in {j \in DOMAIN s : s[j] \in B}}
  BY DEF Marcas
<1> HIDE DEF A
<1>5. Marcas(G, a, B) \subseteq 0 .. Len(A(a))
  <2>1. ASSUME NEW i \in 1 .. Len(a)
        PROVE  Len(A(SubSeq(a, 1, i))) \in 0 .. Len(A(a))
    <3>1. PICK d, e : d = SubSeq(a, 1, i) /\ e = SubSeq(a, i + 1, Len(a))
      OBVIOUS
    <3>2. d \in Seq(S) /\ e \in Seq(S)
      BY <3>1, SubSeqProperties
    <3>3. a = d \o e
      BY <3>1, PrefijoEs DEF SeParte
    <3>4. Len(A(a)) = Len(A(d)) + Len(A(e)) /\ Len(A(d)) \in Nat /\ Len(A(e)) \in Nat
      BY <1>1, <1>2, <3>2, <3>3
    <3>5. PICK x, y, z : x = Len(A(d)) /\ y = Len(A(e)) /\ z = Len(A(a))
      OBVIOUS
    <3>6. x \in 0 .. z
      BY <3>4, <3>5
    <3> QED
      BY <3>1, <3>5, <3>6
  <2> QED
    BY <1>4, <2>1
<1>6. Marcas(G, <<>>, B) = {}
  BY DEF Marcas
<1>7. ASSUME NEW b \in Seq(S)
      PROVE  Marcas(G, a \o b, B) =
               Marcas(G, a, B) \cup {Len(A(a)) + Len(A(SubSeq(b, 1, i))) : i \in {j \in DOMAIN b : b[j] \in B}}
  <2>1. PICK n \in Nat, k \in Nat : n = Len(a) /\ k = Len(b)
    OBVIOUS
  <2>2. PICK c : c = a \o b
    OBVIOUS
  <2>3. /\ c \in Seq(S) /\ Len(c) = n + k
        /\ \A i \in 1 .. n : SubSeq(c, 1, i) = SubSeq(a, 1, i) /\ c[i] = a[i]
        /\ \A i \in 1 .. k : SubSeq(c, 1, n + i) = a \o SubSeq(b, 1, i) /\ c[n + i] = b[i]
    <3>1. /\ \A i \in 1 .. Len(a) : SubSeq(c, 1, i) = SubSeq(a, 1, i) /\ c[i] = a[i]
          /\ \A i \in 1 .. Len(b) : SubSeq(c, 1, Len(a) + i) = a \o SubSeq(b, 1, i) /\ c[Len(a) + i] = b[i]
          /\ Len(c) = Len(a) + Len(b) /\ c \in Seq(S)
      <4>1. EsJunta(a \o b, S, a, b)
        BY PrefijoEs
      <4>2. EsJunta(c, S, a, b)
        BY <2>2, <4>1
      <4> QED
        BY <4>2 DEF EsJunta
    <3> QED
      BY <2>1, <3>1
  <2>4. \A i \in 1 .. k : Len(A(SubSeq(c, 1, n + i))) = Len(A(a)) + Len(A(SubSeq(b, 1, i)))
    <3>1. ASSUME NEW i \in 1 .. k
          PROVE  SubSeq(b, 1, i) \in Seq(S)
      BY <2>1, SubSeqProperties
    <3> QED
      BY <1>2, <2>3, <3>1
  <2>5. ASSUME NEW i \in 1 .. n + k, c[i] \in B
        PROVE  \/ \E j \in 1 .. n : a[j] \in B /\ Len(A(SubSeq(c, 1, i))) = Len(A(SubSeq(a, 1, j)))
               \/ \E j \in 1 .. k : b[j] \in B /\ Len(A(SubSeq(c, 1, i))) = Len(A(a)) + Len(A(SubSeq(b, 1, j)))
    <3>1. CASE i <= n
      <4>1. i \in 1 .. n
        BY <3>1
      <4>2. SubSeq(c, 1, i) = SubSeq(a, 1, i) /\ c[i] = a[i]
        BY <2>3, <4>1
      <4> QED
        BY <2>5, <4>1, <4>2, Zenon
    <3>2. CASE ~(i <= n)
      <4>1. PICK j \in 1 .. k : i = n + j
        <5>1. i - n \in 1 .. k /\ i = n + (i - n)
          BY <3>2
        <5> QED
          BY <5>1
      <4> QED
        BY <2>3, <2>4, <2>5, <4>1
    <3> QED
      BY <3>1, <3>2
  <2>6. ASSUME NEW j \in 1 .. n, a[j] \in B
        PROVE  \E i \in 1 .. n + k : c[i] \in B /\ Len(A(SubSeq(c, 1, i))) = Len(A(SubSeq(a, 1, j)))
    <3>1. j \in 1 .. n + k
      OBVIOUS
    <3> QED
      BY <2>3, <2>6, <3>1
  <2>7. ASSUME NEW j \in 1 .. k, b[j] \in B
        PROVE  \E i \in 1 .. n + k : c[i] \in B /\ Len(A(SubSeq(c, 1, i))) = Len(A(a)) + Len(A(SubSeq(b, 1, j)))
    <3>1. n + j \in 1 .. n + k
      OBVIOUS
    <3> QED
      BY <2>3, <2>4, <2>7, <3>1
  <2>8. DOMAIN a = 1 .. n /\ DOMAIN b = 1 .. k /\ DOMAIN c = 1 .. n + k
    BY <2>1, <2>3
  <2>9. /\ Marcas(G, c, B) = {Len(A(SubSeq(c, 1, i))) : i \in {j \in 1 .. n + k : c[j] \in B}}
        /\ Marcas(G, a, B) = {Len(A(SubSeq(a, 1, i))) : i \in {j \in 1 .. n : a[j] \in B}}
    BY <1>4, <2>3, <2>8
  <2>10. {Len(A(a)) + Len(A(SubSeq(b, 1, i))) : i \in {j \in DOMAIN b : b[j] \in B}}
           = {Len(A(a)) + Len(A(SubSeq(b, 1, i))) : i \in {j \in 1 .. k : b[j] \in B}}
    BY <2>8
  <2>11. PICK f : \A i \in 1 .. n + k : f[i] = Len(A(SubSeq(c, 1, i)))
    <3>1. \A i \in 1 .. n + k : [j \in 1 .. n + k |-> Len(A(SubSeq(c, 1, j)))][i] = Len(A(SubSeq(c, 1, i)))
      OBVIOUS
    <3> QED
      BY <3>1, Zenon
  <2>12. PICK g : \A i \in 1 .. n : g[i] = Len(A(SubSeq(a, 1, i)))
    <3>1. \A i \in 1 .. n : [j \in 1 .. n |-> Len(A(SubSeq(a, 1, j)))][i] = Len(A(SubSeq(a, 1, i)))
      OBVIOUS
    <3> QED
      BY <3>1, Zenon
  <2>13. PICK h : \A i \in 1 .. k : h[i] = Len(A(a)) + Len(A(SubSeq(b, 1, i)))
    <3>1. \A i \in 1 .. k : [j \in 1 .. k |-> Len(A(a)) + Len(A(SubSeq(b, 1, j)))][i] = Len(A(a)) + Len(A(SubSeq(b, 1, i)))
      OBVIOUS
    <3> QED
      BY <3>1, Zenon
  <2>14. {f[i] : i \in {j \in 1 .. n + k : c[j] \in B}}
           = {g[i] : i \in {j \in 1 .. n : a[j] \in B}} \cup {h[i] : i \in {j \in 1 .. k : b[j] \in B}}
    <3>1. ASSUME NEW i \in 1 .. n + k, c[i] \in B
          PROVE  \/ \E j \in 1 .. n : a[j] \in B /\ f[i] = g[j]
                 \/ \E j \in 1 .. k : b[j] \in B /\ f[i] = h[j]
      <4>1. CASE \E j \in 1 .. n : a[j] \in B /\ Len(A(SubSeq(c, 1, i))) = Len(A(SubSeq(a, 1, j)))
        <5>1. PICK j \in 1 .. n : a[j] \in B /\ Len(A(SubSeq(c, 1, i))) = Len(A(SubSeq(a, 1, j)))
          BY <4>1
        <5>2. f[i] = Len(A(SubSeq(c, 1, i))) /\ g[j] = Len(A(SubSeq(a, 1, j)))
          BY <2>11, <2>12
        <5> QED
          BY <5>1, <5>2
      <4>2. CASE \E j \in 1 .. k : b[j] \in B /\ Len(A(SubSeq(c, 1, i))) = Len(A(a)) + Len(A(SubSeq(b, 1, j)))
        <5>1. PICK j \in 1 .. k : b[j] \in B /\ Len(A(SubSeq(c, 1, i))) = Len(A(a)) + Len(A(SubSeq(b, 1, j)))
          BY <4>2
        <5>2. f[i] = Len(A(SubSeq(c, 1, i))) /\ h[j] = Len(A(a)) + Len(A(SubSeq(b, 1, j)))
          BY <2>11, <2>13
        <5> QED
          BY <5>1, <5>2
      <4> QED
        BY <2>5, <3>1, <4>1, <4>2, Zenon
    <3>2. ASSUME NEW j \in 1 .. n, a[j] \in B
          PROVE  \E i \in 1 .. n + k : c[i] \in B /\ f[i] = g[j]
      <4>1. PICK i \in 1 .. n + k : c[i] \in B /\ Len(A(SubSeq(c, 1, i))) = Len(A(SubSeq(a, 1, j)))
        BY <2>6, <3>2
      <4>2. f[i] = Len(A(SubSeq(c, 1, i))) /\ g[j] = Len(A(SubSeq(a, 1, j)))
        BY <2>11, <2>12
      <4> QED
        BY <4>1, <4>2
    <3>3. ASSUME NEW j \in 1 .. k, b[j] \in B
          PROVE  \E i \in 1 .. n + k : c[i] \in B /\ f[i] = h[j]
      <4>1. PICK i \in 1 .. n + k : c[i] \in B /\ Len(A(SubSeq(c, 1, i))) = Len(A(a)) + Len(A(SubSeq(b, 1, j)))
        BY <2>7, <3>3
      <4>2. f[i] = Len(A(SubSeq(c, 1, i))) /\ h[j] = Len(A(a)) + Len(A(SubSeq(b, 1, j)))
        BY <2>11, <2>13
      <4> QED
        BY <4>1, <4>2
    <3>4. PICK X, Y, Z : /\ X = {f[i] : i \in {j \in 1 .. n + k : c[j] \in B}}
                         /\ Y = {g[i] : i \in {j \in 1 .. n : a[j] \in B}}
                         /\ Z = {h[i] : i \in {j \in 1 .. k : b[j] \in B}}
      OBVIOUS
    <3>5. ASSUME NEW x \in X
          PROVE  x \in Y \cup Z
      <4>1. PICK i \in 1 .. n + k : c[i] \in B /\ x = f[i]
        BY <3>4, <3>5
      <4> QED
        BY <3>1, <3>4, <4>1
    <3>6. ASSUME NEW y \in Y
          PROVE  y \in X
      <4>1. PICK j \in 1 .. n : a[j] \in B /\ y = g[j]
        BY <3>4, <3>6
      <4> QED
        BY <3>2, <3>4, <4>1
    <3>7. ASSUME NEW z \in Z
          PROVE  z \in X
      <4>1. PICK j \in 1 .. k : b[j] \in B /\ z = h[j]
        BY <3>4, <3>7
      <4> QED
        BY <3>3, <3>4, <4>1
    <3>8. X = Y \cup Z
      BY <3>5, <3>6, <3>7
    <3> QED
      BY <3>4, <3>8, Zenon
  <2>15. Marcas(G, c, B) = {f[i] : i \in {j \in 1 .. n + k : c[j] \in B}}
    BY <2>9, <2>11
  <2>16. Marcas(G, a, B) = {g[i] : i \in {j \in 1 .. n : a[j] \in B}}
    BY <2>9, <2>12
  <2>17. {Len(A(a)) + Len(A(SubSeq(b, 1, i))) : i \in {j \in 1 .. k : b[j] \in B}}
           = {h[i] : i \in {j \in 1 .. k : b[j] \in B}}
    BY <2>13
  <2> QED
    BY <2>2, <2>10, <2>14, <2>15, <2>16, <2>17, Zenon
<1>8. ASSUME NEW b \in Seq(S), NEW i \in DOMAIN b
      PROVE  Len(A(SubSeq(b, 1, i))) \in Nat
  BY <1>1, SubSeqProperties
<1>9. ASSUME NEW b \in Seq(S), NEW k \in Marcas(G, a \o b, B), k <= Len(A(a))
      PROVE  k \in Marcas(G, a, B) \cup {Len(A(a))}
  <2>1. CASE k \in Marcas(G, a, B)
    BY <2>1
  <2>2. CASE k \notin Marcas(G, a, B)
    <3>1. PICK i \in DOMAIN b : k = Len(A(a)) + Len(A(SubSeq(b, 1, i)))
      BY <1>7, <2>2
    <3>2. PICK x, y : x = Len(A(a)) /\ y = Len(A(SubSeq(b, 1, i)))
      OBVIOUS
    <3>3. x \in Nat /\ y \in Nat /\ k = x + y /\ k <= x
      BY <1>1, <1>8, <1>9, <3>1, <3>2
    <3>4. k = x
      BY <3>3
    <3> QED
      BY <3>2, <3>4
  <2> QED
    BY <2>1, <2>2
<1>10. ASSUME NEW x \in S
       PROVE  Marcas(G, Append(a, x), B) =
                Marcas(G, a, B) \cup (IF x \in B THEN {Len(A(a)) + Len(G[x])} ELSE {})
  <2>1. PICK b \in Seq(S) : b = <<x>>
    <3>1. <<x>> \in Seq(S)
      OBVIOUS
    <3> QED
      BY <3>1, Zenon
  <2>2. Append(a, x) = a \o b
    BY <2>1
  <2>3. DOMAIN b = {1} /\ b[1] = x /\ SubSeq(b, 1, 1) = b
    <3>1. Len(b) = 1 /\ DOMAIN b = {1} /\ b[1] = x
      BY <2>1
    <3>2. SubSeq(b, 1, Len(b)) = b
      BY PrefijoEs DEF SeParte
    <3> QED
      BY <3>1, <3>2
  <2>4. Len(A(b)) = Len(G[x])
    <3>1. AplanaCon(G, <<x>>) = G[x]
      BY AplanaConEs DEF JuntaBien
    <3> QED
      BY <2>1, <3>1 DEF A
  <2>5. {Len(A(a)) + Len(A(SubSeq(b, 1, i))) : i \in {j \in DOMAIN b : b[j] \in B}}
          = IF x \in B THEN {Len(A(a)) + Len(G[x])} ELSE {}
    <3>1. CASE x \in B
      <4>1. {j \in DOMAIN b : b[j] \in B} = {1}
        BY <2>3, <3>1
      <4> QED
        BY <2>3, <2>4, <3>1, <4>1
    <3>2. CASE x \notin B
      <4>1. {j \in DOMAIN b : b[j] \in B} = {}
        BY <2>3, <3>2
      <4> QED
        BY <3>2, <4>1
    <3> QED
      BY <3>1, <3>2
  <2> QED
    BY <1>7, <2>2, <2>5
<1>11. \A b \in Seq(S) : Marcas(G, a, B) \subseteq Marcas(G, a \o b, B)
  BY <1>7
<1> QED
  BY <1>5, <1>6, <1>9, <1>10, <1>11 DEF A, MarcasBien

(* Two sequences without repetitions that share nothing.                   *)
LEMMA ConcatInyecta ==
  ASSUME NEW S, NEW l \in Seq(S), NEW r \in Seq(S), IsInjective(l), IsInjective(r),
         Range(l) \cap Range(r) = {}
  PROVE  l \o r \in Seq(S) /\ IsInjective(l \o r) /\ Range(l \o r) = Range(l) \cup Range(r)
<1>1. PICK m \in Nat, n \in Nat : m = Len(l) /\ n = Len(r)
  OBVIOUS
<1>2. PICK c : c = l \o r
  OBVIOUS
<1>3. /\ c \in Seq(S) /\ Len(c) = m + n
      /\ \A i \in 1 .. m + n : c[i] = IF i <= m THEN l[i] ELSE r[i - m]
  BY <1>1, <1>2, ConcatProperties
<1>4. DOMAIN l = 1 .. m /\ DOMAIN r = 1 .. n /\ DOMAIN c = 1 .. m + n
  BY <1>1, <1>3
<1>5. \A i \in DOMAIN c : /\ i \in Nat
                          /\ \/ i <= m /\ i \in DOMAIN l /\ c[i] = l[i]
                             \/ ~(i <= m) /\ i - m \in DOMAIN r /\ c[i] = r[i - m]
  BY <1>3, <1>4
<1>6. IsInjective(c)
  <2>1. ASSUME NEW i \in DOMAIN c, NEW j \in DOMAIN c, c[i] = c[j]
        PROVE  i = j
    <3>1. i \in Nat /\ j \in Nat
      BY <1>5
    <3>2. CASE i <= m /\ j <= m
      <4>1. i \in DOMAIN l /\ j \in DOMAIN l /\ l[i] = l[j]
        BY <1>5, <2>1, <3>2
      <4> QED
        BY <4>1 DEF IsInjective
    <3>3. CASE ~(i <= m) /\ ~(j <= m)
      <4>1. i - m \in DOMAIN r /\ j - m \in DOMAIN r /\ r[i - m] = r[j - m]
        BY <1>5, <2>1, <3>3
      <4>2. i - m = j - m
        BY <4>1 DEF IsInjective
      <4> QED
        BY <3>1, <4>2
    <3>4. CASE (i <= m /\ ~(j <= m)) \/ (~(i <= m) /\ j <= m)
      <4>1. c[i] \in Range(l) /\ c[i] \in Range(r)
        BY <1>5, <2>1, <3>4 DEF Range
      <4> QED
        BY <4>1
    <3> QED
      BY <3>2, <3>3, <3>4
  <2> QED
    BY <2>1 DEF IsInjective
<1>7. Range(c) = Range(l) \cup Range(r)
  <2>1. Range(c) \subseteq Range(l) \cup Range(r)
    BY <1>5 DEF Range
  <2>2. Range(l) \subseteq Range(c)
    <3>1. \A i \in DOMAIN l : i \in DOMAIN c /\ c[i] = l[i]
      BY <1>3, <1>4
    <3> QED
      BY <3>1 DEF Range
  <2>3. Range(r) \subseteq Range(c)
    <3>1. \A i \in DOMAIN r : i + m \in DOMAIN c /\ c[i + m] = r[i]
      BY <1>3, <1>4
    <3> QED
      BY <3>1 DEF Range
  <2> QED
    BY <2>1, <2>2, <2>3
<1> QED
  BY <1>2, <1>3, <1>6, <1>7
=============================================================================
