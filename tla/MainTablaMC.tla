---------------------------- MODULE MainTablaMC ----------------------------
(* Model values for the checks of MainTabla: ids of 3 bits, of which BEP 42 *)
(* fixes 2 and the last one is the variant; buckets of 2.                   *)
EXTENDS MainTabla

CONSTANTS p1, p2, casa

TresIps == {p1, p2, casa}
UnaCasa == {casa}

(* The two valid prefixes of each address. *)
CrcChica == [c \in TresIps \X Bits(1) |->
  LET r == c[2][1]
  IN CASE c[1] = p1 -> IF r = 0 THEN <<0, 0>> ELSE <<1, 0>>
       [] c[1] = p2 -> IF r = 0 THEN <<1, 1>> ELSE <<0, 1>>
       [] OTHER     -> <<0, 0>>]

SubredChica == [ip \in TresIps |-> IF ip = p1 THEN 1 ELSE 2]

En(ip) == [ip |-> ip, puerto |-> 1]

(* A secure node of p1, farther from the first id than an insecure one of  *)
(* p1; an insecure one of p2, and a secure one with its id in the local    *)
(* network, where another has the same prefix.  Three share a bucket of 2. *)
CincoVecinos ==
  {[id |-> <<1, 0, 1>>, dir |-> En(p1)], [id |-> <<0, 1, 0>>, dir |-> En(p1)],
   [id |-> <<1, 1, 1>>, dir |-> En(p2)],
   [id |-> <<1, 1, 1>>, dir |-> En(casa)], [id |-> <<1, 1, 0>>, dir |-> En(casa)]}

Adaptativo == {FALSE}
UnIdInvalido == {<<0, 0, 1>>}
(* Two ports of one address, and another address. *)
TresVotos == {[ip |-> p1, puerto |-> 8], [ip |-> p1, puerto |-> 9], [ip |-> p2, puerto |-> 9]}

(* Bound: at most two lookups in flight are followed further. *)
PocasConsultas == Cardinality(consultas) <= 2
=============================================================================
