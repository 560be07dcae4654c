\* A pod recreated under its name; one permit; --cursor-reconnect; a lossy mux.
CONSTANTS
  p1 = p1  p2 = p2  u1 = u1  u2 = u2  c1 = c1  c2 = c2
  t1 = t1  t2 = t2  t3 = t3
  Names = {p1}
  Uids = {u1, u2}
  Containers = {c1}
  Tasks = {t1, t2}
  MaxLogRequests = 1
  MuxCap = 2
  MaxReopenStartRetries = 1
  Follow = TRUE
  CursorReconnect = TRUE
  Blocking = FALSE
  None = None
SPECIFICATION Spec
SYMMETRY Symmetry
INVARIANTS
  TypeOK
  PermitsAccounted
  StreamsAccounted
  StatCoversMap
  
  NoOrphanTask
  MetaCoversActive
PROPERTY RemoveSparesLiveStream
CHECK_DEADLOCK FALSE
