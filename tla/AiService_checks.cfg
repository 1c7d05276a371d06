CONSTANTS
  b1 = b1
  b2 = b2
  b3 = b3
  alice = alice
  bob = bob
  tag = tag
  Ask = {1, 2}
  IdempotencyKey = {"short", "long"}
  LongKey = {"long"}
  Files = {2}
  FreeFiles = 1
  Credits = 2
  NoAsk = NoAsk
  Build = {b1, b2, b3}
  Owner = {alice, bob}
  Text = {tag, b1, Empty}
  Empty = Empty
  Slug = {"shop"}
  Call = {1, 2}
  All = All
  None = None
  MaxReports = 1
  MaxPages = 1
  First <- Tables
  MaxRequests = 2
  MaxFailures = 1
SPECIFICATION ServiceSpec
CHECK_DEADLOCK FALSE
INVARIANT PaidIffAnswered
INVARIANT RemovedIsHidden
INVARIANT WithdrawnUnlessBuilding
INVARIANT CacheIsCurrent
