------------------------------- MODULE MCSol -------------------------------
(* Small instances of SolanaDetector: payments to two wallets and a token *)
(* account, the poll loop with its scans, and requests.                   *)
EXTENDS SolanaDetector

CONSTANTS s1, s2, t1, d1, a1, a2, Token, u1, u2, W1, W2, Confirmer, Caller

AddrTable == [p \in Payments |-> IF p = s2 THEN a2 ELSE a1]
AssetTable == [p \in Payments |-> IF p = t1 THEN Token ELSE Native]
AmountTable == [p \in Payments |-> IF p = d1 THEN "dust" ELSE "full"]

=============================================================================
