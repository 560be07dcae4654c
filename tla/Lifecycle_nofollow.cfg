CONSTANTS
  p1 = p1  p2 = p2  u1 = u1  u2 = u2  c1 = c1  c2 = c2
  t1 = t1  t2 = t2  t3 = t3
  Names = {p1}
  Uids = {u1}
  Containers = {c1, c2}
  Tasks = {t1, t2}
  MaxLogRequests = 1
  MuxCap = 1
  MaxReopenStartRetries = 1
  Follow = FALSE
  CursorReconnect = TRUE
  Blocking = TRUE
  None = None
SPECIFICATION NoFollowSpec
INVARIANT NoFollowDrains
PROPERTY NoFollowTerminates
CHECK_DEADLOCK FALSE
