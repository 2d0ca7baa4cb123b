SPECIFICATION Spec
CONSTANTS
  d1 = d1
  d2 = d2
  t1 = t1
  t2 = t2
  Scanner = Scanner
  r1 = r1
  NoTask = NoTask
  NoId = NoId
  Txs = {t1, t2}
  Deposits = {d1, d2}
  TxOf <- TwoTxs
  Recoverers = {r1}
  MinConf = 2
  HashMargin = 1
  StartHeight <- NoHeight
  SkipInitialSync = FALSE
  SweepEnabled = TRUE
  InitCursor = 1
  LegacyPending = {d1}
  LegacyCredited = {}
  MaxHeight = 3
  MaxReorgs = 1
  MaxReorgDepth = 1
  MaxFaults = 1
  MaxRefusals = 1
INVARIANTS
  TypeOK
PROPERTIES
  OutboxSpec
