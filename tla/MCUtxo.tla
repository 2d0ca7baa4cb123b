------------------------------- MODULE MCUtxo -------------------------------
(* Instances of UtxoDetector for TLC. *)
EXTENDS UtxoDetector, TLC

CONSTANTS d1, d2, t1, t2, r1

\* Both deposits are outputs of one transaction, or of two.
OneTx == d1 :> t1 @@ d2 :> t1
TwoTxs == d1 :> t1 @@ d2 :> t2
SingleTx == d1 :> t1

Symmetry == Permutations(Recoverers)
====
