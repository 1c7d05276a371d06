SPECIFICATION FairSpec
CONSTANTS
  Agent = {a1, a2}
  Tab = {t1}
  t1 = t1
  u1 = u1
  u2 = u2
  Account = {u1, u2}
  UserOf <- OneEach
  File = {f1}
  Folder = {d1}
  NoAccount = NoAccount
  NoEntry = NoEntry
  MaxRetries = 1
  MaxCalls = 4
INVARIANTS ToldIsSo ListedIsReadable
PROPERTIES NothingTaken CallsEnd
CHECK_DEADLOCK FALSE
