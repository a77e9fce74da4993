----------------------------- MODULE Secuencias -----------------------------
(***************************************************************************)
(* Vec::retain and its like: the entries of a sequence at some of its      *)
(* positions, in their order.  SelectSeq says the same by recursion, which *)
(* leaves nothing to reason with.                                          *)
(***************************************************************************)
EXTENDS Integers, Sequences, FiniteSets

(* The elements of a finite set of numbers, in order. *)
EnOrdenDe(K) ==
  CHOOSE f \in [1 .. Cardinality(K) -> K] :
    \A i, j \in 1 .. Cardinality(K) : i < j => f[i] < f[j]

Retiene(s, K) ==
  LET f == EnOrdenDe(K) IN [i \in 1 .. Cardinality(K) |-> s[f[i]]]
=============================================================================
