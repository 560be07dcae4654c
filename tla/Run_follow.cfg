\* --follow with --lossy, channels of one place, the first line hidden; --stats reports
\* meanwhile and the limit ends the run.
SPECIFICATION RunSpec
CONSTANTS
  a = a  b = b  None = None  Flush = Flush  Shutdown = Shutdown
  Sources = {a}
  MaxLines = 2  BufferSize = 1  Batch = 2
  Follow = TRUE  Lossy = TRUE
  Hidden <- FirstOfA
  Trigger <- NoLines
  Failing <- NoLines
  Helpers = {"stats"}
  Signals = {}
INVARIANTS ForwardedIsWritten DropsCounted
CHECK_DEADLOCK FALSE
