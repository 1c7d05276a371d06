SPECIFICATION PlanSpec
CONSTANTS
  NoReq = NoReq
  NoKey = NoKey
  r1 = r1
  r2 = r2
  r3 = r3
  p1 = p1
  p2 = p2
  k1 = k1
  d1 = d1
  Req = {r1, r2, r3}
  Payment = {p1, p2}
  Key = {k1}
  PaymentOf <- Payments
  KeyOf <- Keys
  Cleaner = {cron, admin}
  Cron = cron
  Deleter = {d1}
  MaxAttempts = 2
  LostReplies = TRUE
  MaxFaults = 3
INVARIANTS PaymentSpentOnce TakenForUpload
PROPERTY ExpiredIsDeleted
CHECK_DEADLOCK FALSE
