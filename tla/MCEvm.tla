------------------------------- MODULE MCEvm -------------------------------
(* Instances of EvmDetector for TLC. *)
EXTENDS EvmDetector, TLC

CONSTANTS n1, e1, i1, g1, a1, a2, Caller

\* A native, a token and an internal payment, and a top-up of the gas tank.
Kind == n1 :> "native" @@ e1 :> "erc20" @@ i1 :> "internal" @@ g1 :> "native"
Addr == n1 :> a1 @@ e1 :> a1 @@ i1 :> a2 @@ g1 :> a1

KindTable == [p \in Payments |-> Kind[p]]
AddrTable == [p \in Payments |-> Addr[p]]
====
