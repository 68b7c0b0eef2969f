CONSTANTS
  Hosts = {a, b}
  MaxLines = 3
  Tools = {t1, t2}
  Clients = {c, d, e}
  POOL_SIZE = 2
  Sockets = 2
  None = None
  Failed = Failed
SPECIFICATION EnrolSpec
SYMMETRY HostsAreAlike
INVARIANTS
  EnrolmentInv
  SharedOnlyUnseen
PROPERTIES
  LinesKeepTheirId
CHECK_DEADLOCK FALSE
