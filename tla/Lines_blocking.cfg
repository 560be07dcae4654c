\* Blocking channels of two places; the last line of b is hidden and fires --exit-on.
SPECIFICATION Spec
CONSTANTS
  a = a  b = b  None = None  Flush = Flush  Shutdown = Shutdown
  Sources = {a, b}
  MaxLines = 2  BufferSize = 2  Batch = 2
  Follow = FALSE  Lossy = FALSE
  Hidden <- LastOfB
  Trigger <- LastOfB
  Failing <- NoLines
INVARIANTS TypeOK BlockingLosesNothing ExitOnSeesEveryLine InOrder
PROPERTIES Delivered
CHECK_DEADLOCK FALSE
