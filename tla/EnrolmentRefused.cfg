CONSTANTS
  Hosts = {a, b}
  MaxLines = 3
  Tools = {t1, t2}
  Clients = {c, d, e}
  POOL_SIZE = 2
  Sockets = 2
  None = None
  Failed = Failed
SPECIFICATION EnrolSpec
INVARIANTS
  ProperRequestIsServed
CHECK_DEADLOCK FALSE
