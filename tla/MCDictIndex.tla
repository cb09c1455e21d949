---------------------------- MODULE MCDictIndex ----------------------------
(* Instances of DictIndex: keys that collide and wrap round the table.      *)
EXTENDS DictIndex, TLC

CONSTANTS k1, k2, k3, k4

HashMC == [k \in Keys |-> CASE k \in {k1, k4} -> 3 [] k = k2 -> 7 [] OTHER -> 0]
RankMC == [k \in Keys |-> CASE k = k1 -> 2 [] k = k4 -> 0 [] OTHER -> 1]
=============================================================================
