---------------------------- MODULE AddressBook ----------------------------
(***************************************************************************)
(* What the wallet pools promise of their assignments, whatever requests,  *)
(* locks and indices they use, and all that the detectors read of them:    *)
(* who holds an address.  An address that somebody holds is given to       *)
(* nobody else until an admin cancels everything.                          *)
(*                                                                         *)
(* Source: src/src/solana_pool.rs and src/src/ethereum_pool.rs, as         *)
(* WalletPool and EthereumPool model them.                                 *)
(***************************************************************************)
EXTENDS Naturals

CONSTANTS Addrs, Users, NoUser

VARIABLES
    owner,   \* the user of each address
    cancels  \* how often assignments were deleted

vars == <<owner, cancels>>

\* A claim is a SET NX.
Claim(a, u) ==
    /\ owner[a] = NoUser
    /\ owner' = [owner EXCEPT ![a] = u]
    /\ UNCHANGED cancels

\* The payload that a rotation has read is written back over what is there: it
\* is the holder's own, unless the assignments were deleted in between.
WriteBack(a, u) ==
    /\ cancels > 0
    /\ owner' = [owner EXCEPT ![a] = u]
    /\ UNCHANGED cancels

\* The keys found by an earlier SCAN are deleted: not all, if claims go on.
Delete ==
    /\ cancels' = cancels + 1
    /\ \E found \in SUBSET Addrs :
         owner' = [a \in Addrs |-> IF a \in found THEN NoUser ELSE owner[a]]

\* Redis outlives the processes.
Init == owner \in [Addrs -> Users \cup {NoUser}] /\ cancels = 0

Next == Delete \/ \E a \in Addrs, u \in Users : Claim(a, u) \/ WriteBack(a, u)

Spec == Init /\ [][Next]_vars

====
