----------------------------- MODULE MCEthPool -----------------------------
(* Instances of EthereumPool for TLC. *)
EXTENDS EthereumPool, TLC

CONSTANTS u1, u2, u3, c1, c2

Symmetry == Permutations(Users) \cup Permutations(Callers)
====
