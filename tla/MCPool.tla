------------------------------- MODULE MCPool -------------------------------
(* Instances of WalletPool for TLC. *)
EXTENDS WalletPool, TLC

CONSTANTS u1, u2, c1, c2

Symmetry == Permutations(Users) \cup Permutations(Callers)
====
