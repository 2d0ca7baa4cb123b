SPECIFICATION FairSpec
CONSTANTS
  eth = eth
  base = base
  state = state
  wallets = wallets
  other = other
  key = key
  opA = opA
  opB = opB
  d1 = d1
  NoOp = NoOp
  Chains = {eth, base}
  Files = {state, other}
  Keys = {key}
  ChainOf <- TwoChains
  Selections = {{base}, {eth, base}}
  Ops = {opA, opB}
  Daemons = {d1}
  MaxVersion = 3
  MaxExits = 2
INVARIANTS
  TypeOK
  NothingLost
  DaemonSeesWholeReset
PROPERTIES
  FinishedForGood
  ResumeFinishes
