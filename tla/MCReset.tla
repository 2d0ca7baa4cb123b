------------------------------ MODULE MCReset -------------------------------
(* Instances of Reset for TLC. *)
EXTENDS Reset, TLC

CONSTANTS eth, base, state, wallets, other, key, opA, opB, d1

\* One chain with a state file, a wallet pool and an assignment.
OneChain == state :> eth @@ wallets :> eth @@ key :> eth

\* Two chains, reset together or on their own.
TwoChains == state :> eth @@ key :> eth @@ other :> base
====
