SPECIFICATION FairSpec
CONSTANTS
  s1 = s1
  s2 = s2
  t1 = t1
  d1 = d1
  a1 = a1
  a2 = a2
  Token = Token
  Native = Native
  u1 = u1
  u2 = u2
  Poller = Poller
  W1 = W1
  W2 = W2
  Confirmer = Confirmer
  Caller = Caller
  NoTask = NoTask
  NoUser = NoUser
  NoPayment = NoPayment
  Payments = {t1}
  AddrOf <- AddrTable
  AssetOf <- AssetTable
  AmountOf <- AmountTable
  Users = {u1, u2}
  Workers = {W1}
  Confirmers = {Confirmer}
  Callers = {}
  Requests = {}
  MinConf = 1
  TankEmpties = FALSE
  MaxSlot = 1
  MaxCancels = 1
  MaxFaults = 1
  MaxErrors = 1
INVARIANTS
  SweptOrQueued
  NotToEarlierHolder
  OneBeneficiary
PROPERTIES
  OutboxSpec
  DepositCredited
