SPECIFICATION FairSpec
CONSTANTS
  big = big
  euro = euro
  NoPayout = NoPayout
  Payouts = {big, euro}
  Amount <- AmountTable
  Currency <- CurrencyTable
  Expiry <- ExpiryTable
  Chains = {"solana", "evm"}
  Target = 1
  Fee = 1
  Interval = 1
  MaxTime = 2
  MaxTank = 4
  MaxSpends = 1
  MaxFaults = 1
  MaxErrors = 1
INVARIANTS
  TypeOK
  PaidOncePerFault
PROPERTIES
  PayoutSettled
  ReserveKept
