SPECIFICATION FairSpec
CONSTANTS
  Servers = {s1, s2}
  Spare = {h1, h2}
  Clients = {p1}
  MaxConn = 2
  MaxData = 1
INVARIANTS TypeOK OwnConnection
PROPERTIES ServeReturns
