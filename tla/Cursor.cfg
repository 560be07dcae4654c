\* Two activations of a key; the log's second line is undated.
SPECIFICATION Spec
CONSTANTS
  None = None
  MaxLog = 3  MaxPending = 2
  Time <- ThreeLines
  Dated <- AllButSecond
  Tick = 1  Overlap = 1  FlushRetries = 1  MaxTasks = 2
  BaseTail = 1  BaseSince = None
INVARIANTS TypeOK NoGapUnlessOvertaken CursorSettles
CHECK_DEADLOCK FALSE
