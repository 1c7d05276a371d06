SPECIFICATION FairSpec
CONSTANTS
  NoUser = NoUser
  NoTx = NoTx
  NoWallet = NoWallet
  u1 = u1
  u2 = u2
  w1 = w1
  t1 = t1
  t2 = t2
  User = {u1}
  Wallet = {w1}
  Tx = {t1, t2}
  Dust = {}
  Sender <- MCSender
  Block <- MCBlock
  Links0 <- LinkedAtStart
  Cron = {cron1}
  Admin = {admin}
  Claimer = {c1}
  Linker = {l1}
  MaxFaults = 1
INVARIANTS OneInserterPays NothingSkipped
PROPERTIES LinkedDepositsCredited
CHECK_DEADLOCK FALSE
