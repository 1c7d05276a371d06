CONSTANTS
  ann = ann
  bob = bob
  claude = claude
  gpt = gpt
  Member = {ann, bob}
  Client = {claude, gpt}
  Group = {"g"}
  Call = {1, 2}
  MaxKey = 3
  Null = Null
  Person = {ann, bob}
  Agent = {claude}
  Jti = {1, 2}
  Grant = {1, 2}
  Fetch = {1}
  Skew = 2
  Ttls = {0}
  MaxTtl = 2
  MaxClock = 4
  Unbound = Unbound
  Tab = {1, 2}
  MaxFlows = 2
  MaxAsks = 2
  MaxFailures = 1
SPECIFICATION ConnectorSpec
CHECK_DEADLOCK FALSE
INVARIANT EachItsOwn
INVARIANT ShownStands
INVARIANT GrantIsWhatWasAsked
INVARIANT RevokedGetsNothing
