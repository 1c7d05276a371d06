SPECIFICATION FairSpec
CONSTANTS
  t1 = t1
  t2 = t2
  JobTxn = JobTxn
  NoTxn = NoTxn
  NoUser = NoUser
  User <- MCUsers
  Txn <- MCTxns
  Referrer <- CycleGraph
  BonusesEnabled = TRUE
  Amount <- MCAmounts
  Fee = 5
  MaxCredits = 2
  MaxDeductions = 1
  MaxFaults = 1
INVARIANTS HistoryChain NoDeadlock
PROPERTIES AtomicLedger CreditLiftsSuspension
