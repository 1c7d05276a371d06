SPECIFICATION Spec
SYMMETRY Renaming
CONSTANTS
  User = {u1, u2}
  Cid = {c1}
  NoUser = NoUser
  NoCid = NoCid
  Row <- MCRows
  Call <- MCCalls
  Settled <- MCSettled
  MaxGlobal = 2
  MaxPerUser = 1
  MaxFaults = 1
INVARIANTS HoldersKeepTheirPin NothingLeftPinned
CHECK_DEADLOCK FALSE
