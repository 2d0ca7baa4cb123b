------------------------------- MODULE MCGas -------------------------------
(* Small instance of GasTank: a payout larger than the target, and one in  *)
(* EUR that expires.                                                       *)
EXTENDS GasTank

CONSTANTS big, euro

AmountTable == [i \in Payouts |-> IF i = big THEN 3 ELSE 1]
CurrencyTable == [i \in Payouts |-> IF i = euro THEN "EUR" ELSE "SOL"]
ExpiryTable == [i \in Payouts |-> IF i = euro THEN 1 ELSE MaxTime + 1]

=============================================================================
