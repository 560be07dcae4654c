\* The limit is hit between the two polls of run's select.
SPECIFICATION RunSpec
CONSTANTS
  a = a  b = b  None = None  Flush = Flush  Shutdown = Shutdown
  Sources = {a}
  MaxLines = 1  BufferSize = 1  Batch = 1
  Follow = TRUE  Lossy = FALSE
  Hidden <- NoLines
  Trigger <- NoLines
  Failing <- NoLines
  Helpers = {"watch"}
  Signals = {}
INVARIANTS LimitEndsWithError
CHECK_DEADLOCK FALSE
