SPECIFICATION Spec
CONSTANTS
  NoUser = NoUser
  NoTx = NoTx
  NoWallet = NoWallet
  u1 = u1
  u2 = u2
  w1 = w1
  t1 = t1
  t2 = t2
  User = {u1, u2}
  Wallet = {w1}
  Tx = {t1}
  Dust = {}
  Sender <- OneSender
  Block <- OneBlock
  Links0 <- NoLinks
  Cron = {cron1}
  Admin = {}
  Claimer = {c1, c2}
  Linker = {l1}
  MaxFaults = 0
INVARIANT PaidOnce
CHECK_DEADLOCK FALSE
