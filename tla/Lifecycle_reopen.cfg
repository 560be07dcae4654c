CONSTANTS
  p1 = p1  p2 = p2  u1 = u1  u2 = u2  c1 = c1  c2 = c2
  t1 = t1  t2 = t2  t3 = t3
  Names = {p1}
  Uids = {u1}
  Containers = {c1}
  Tasks = {t1, t2}
  MaxLogRequests = 2
  MuxCap = 1
  MaxReopenStartRetries = 1
  Follow = TRUE
  CursorReconnect = TRUE
  Blocking = FALSE
  None = None
SPECIFICATION FairSpec
PROPERTY ReopensAfterEof
CHECK_DEADLOCK FALSE
