SPECIFICATION Spec
CONSTANTS
  Nobody = Nobody
  NoGroup = NoGroup
  NoConn = NoConn
  u1 = u1
  User = {u1}
  Pub = {p1}
  Conn = {c1}
  Group = {g1, g2}
  Creator <- OneCreator
  Req = {r1, r2}
  MaxGroups = 1
SYMMETRY Symmetry
INVARIANTS RevokedNeverWrites KilledNeverWrites RemovedAlone
