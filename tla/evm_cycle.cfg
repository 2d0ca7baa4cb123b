SPECIFICATION Spec
CONSTANTS
  n1 = n1
  e1 = e1
  i1 = i1
  g1 = g1
  a1 = a1
  a2 = a2
  Poller = Poller
  Caller = Caller
  NoTask = NoTask
  NoId = NoId
  Payments = {e1, i1, g1}
  KindOf <- KindTable
  AddrOf <- AddrTable
  TopUps = {g1}
  QueuedTopUps = {g1}
  Sources = {"native", "erc20", "internal"}
  Callers = {}
  MinConf = 2
  StartBlock <- NoBlock
  LastScanned <- NoBlock
  MaxBlocks = 2
  Erc20Chunk = 2
  MaxTip = 4
  MaxReorgs = 1
  MaxFaults = 1
  MaxErrors = 1
INVARIANTS
  TypeOK
  NoPaymentSkipped
  TopUpsNotCredited
