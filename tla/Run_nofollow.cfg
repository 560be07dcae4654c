\* --no-follow, the second row an API error and the third line one for --exit-on; nothing but run itself is fair.
SPECIFICATION FairRunSpec
CONSTANTS
  a = a  b = b  None = None  Flush = Flush  Shutdown = Shutdown
  Sources = {a}
  MaxLines = 3  BufferSize = 1  Batch = 1
  Follow = FALSE  Lossy = FALSE
  Hidden <- NoLines
  Trigger <- ThirdOfA
  Failing <- SecondOfA
  Helpers = {}
  Signals = {"SIGINT"}
INVARIANTS RunTypeOK PromptRunIsComplete SuccessIsSuccess
PROPERTIES CancelledRunExits
CHECK_DEADLOCK FALSE
