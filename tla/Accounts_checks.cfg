CONSTANTS
  b1 = b1
  b2 = b2
  alice = alice
  bob = bob
  vb = vb
  vc = vc
  key1 = key1
  key2 = key2
  Browser = {b1, b2}
  Oauth = {alice, bob}
  Vault = {vb, vc}
  ModeB = {vb}
  PubKey = {key1, key2}
  ApiKey = {1, 2, 3, 4, 5}
  Code = {1, 2, 3, 4}
  Nonce = {1, 2}
  Start <- Started
  MaxCodes = 2
  MaxCalls = 3
  MaxFaults = 1
  NoUser = NoUser
  NoKey = NoKey
  Unmade = Unmade
SPECIFICATION Spec
SYMMETRY Symmetry
CHECK_DEADLOCK FALSE
INVARIANT DeadKeyIsOut
INVARIANT NoLoneCycle
INVARIANT ChallengeSpentOnce
INVARIANT VaultKeyStands
