CONSTANTS
  r1 = r1
  r2 = r2
  r3 = r3
  k1 = k1
  Req = {r1, r2, r3}
  Key = {k1}
  Website = Website
  NoKey = NoKey
  Mixes <- ThreeMixes
  MaxConcurrent = 1
  MaxQueued = 1
  FreeSites = 1
  Initial = 2
  MaxBoots = 2
  MaxFaults = 1
SPECIFICATION FairSpec
INVARIANTS CompletedIsPaid AcceptedRefundedOnce PaidIffServed 
PROPERTIES JobsEnd
CHECK_DEADLOCK FALSE
