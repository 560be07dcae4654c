\* Every combination of flags, and every row.
SPECIFICATION Spec
CONSTANTS
  None = None  Other = Other
  Levels = {2, 4, Other}
  Thresholds = {2, 3, None}
INVARIANTS TypeOK ShowsWhatFlagsSay ExitsWhenDue
CHECK_DEADLOCK FALSE
