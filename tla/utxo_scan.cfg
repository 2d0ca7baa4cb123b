SPECIFICATION FairSpec
CONSTANTS
  d1 = d1
  d2 = d2
  t1 = t1
  t2 = t2
  Scanner = Scanner
  r1 = r1
  NoTask = NoTask
  NoId = NoId
  Txs = {t1}
  Deposits = {d1}
  TxOf <- SingleTx
  Recoverers = {}
  MinConf = 2
  HashMargin = 1
  StartHeight <- NoHeight
  SkipInitialSync = FALSE
  SweepEnabled = TRUE
  InitCursor = 1
  LegacyPending = {}
  LegacyCredited = {}
  MaxHeight = 5
  MaxReorgs = 2
  MaxReorgDepth = 2
  MaxFaults = 1
  MaxRefusals = 1
INVARIANTS
  NoDepositSkipped
  SavedBeforeDelivery
PROPERTIES
  EventuallyCredited
