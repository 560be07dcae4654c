--------------------------- MODULE PipelineOrder ---------------------------
(***************************************************************************)
(* The stages a row passes between the raw channel and the render channel, *)
(* in the order apply_pipeline wires them for a configuration. The stages  *)
(* are synchronous maps and filters, so a row goes through all of them     *)
(* before the next one enters, and rows share nothing but the exit watch.  *)
(*                                                                         *)
(* A message is the raw line or what jq made of it; a row knows which of   *)
(* the two each group of patterns matches. A level is its rank (trace 0,   *)
(* ..., error 4; case and the aliases err, fatal and warning are folded),  *)
(* or Other for any other string, or None. The colours of color_assign are *)
(* left out.                                                               *)
(***************************************************************************)
EXTENDS Naturals

CONSTANTS
  None, Other,
  Levels,       \* bound: the levels that lines carry
  Thresholds    \* bound: the values of --exit-on-level, or None

ASSUME LevelAssumption ==
  /\ None # Other /\ {None, Other} \cap (0..4) = {}
  /\ Levels \subseteq 0..4 \cup {None, Other}
  /\ Thresholds \subseteq 0..4 \cup {None}

Texts == {"raw", "jqed"}

Configs ==
  [filterOn : {"original", "transformed"}, include : BOOLEAN, exclude : BOOLEAN,
   jq : {"off", "replace", "append", "filter"}, levelKey : BOOLEAN,
   exitOn : BOOLEAN, exitLevel : Thresholds]

\* A row: an error of its stream, or a line. json: it parses as a JSON object; level: the
\* string at the level key; truthy: some output of the jq filter on it is; the others are
\* the messages that the --include, --exclude and --exit-on patterns match.
Rows ==
  {r \in [ok : BOOLEAN, json : BOOLEAN, level : Levels \cup {None}, truthy : BOOLEAN,
          includes : SUBSET Texts, excludes : SUBSET Texts, exits : SUBSET Texts] :
     /\ ~r.ok => ~r.json /\ r.includes = {} /\ r.excludes = {} /\ r.exits = {}
     /\ ~r.json => r.level = None /\ ~r.truthy}

VARIABLES
  cfg, row,
  pc,          \* the stage the row is at, "out" (to the forward task) or "dropped"
  msg,         \* the event's message
  structured,  \* the event carries parsed JSON
  level,       \* the event's level
  triggered    \* ExitWatchState: fire was called, and the root cancelled

event == <<msg, structured, level>>
vars  == <<cfg, row, pc, event, triggered>>

Stages == {"exit_first", "include_first", "exit_on", "json_annotate", "level_classify",
           "exit_level", "include_mid", "jq_evaluate", "include_last"}

TypeOK ==
  /\ cfg \in Configs /\ row \in Rows
  /\ pc \in Stages \cup {"out", "dropped"}
  /\ msg \in Texts /\ structured \in BOOLEAN
  /\ level \in Levels \cup {None}
  /\ triggered \in BOOLEAN
  /\ pc = "dropped" => row.ok
  /\ msg = "jqed" => ~structured

Init ==
  /\ cfg \in Configs /\ row \in Rows
  /\ pc = "exit_first"
  /\ msg = "raw" /\ structured = FALSE /\ level = None
  /\ triggered = FALSE

(***************************************************************************)
(* PipelineStageOrder::resolve                                             *)
(***************************************************************************)
\* Variant with a fault: --exit-on-level does not move the filters.
OrderIgnoresLevel ==
  [exitFirst    |-> cfg.filterOn = "original" /\ cfg.exitOn,
   includeFirst |-> cfg.filterOn = "original",
   includeMid   |-> FALSE,
   includeLast  |-> cfg.filterOn = "transformed"]

\* Variant with a fault: the filters also apply to what jq made of the line.
OrderFiltersTwice ==
  [exitFirst    |-> cfg.filterOn = "original" /\ cfg.exitOn,
   includeFirst |-> cfg.filterOn = "original" /\ cfg.exitLevel = None,
   includeMid   |-> cfg.filterOn = "original" /\ cfg.exitLevel # None,
   includeLast  |-> TRUE]

Order ==
  [exitFirst    |-> cfg.filterOn = "original" /\ cfg.exitOn,
   includeFirst |-> cfg.filterOn = "original" /\ cfg.exitLevel = None,
   includeMid   |-> cfg.filterOn = "original" /\ cfg.exitLevel # None,
   includeLast  |-> cfg.filterOn = "transformed"]

NeedsIncludeExclude == cfg.include \/ cfg.exclude
NeedsJsonAnnotation == cfg.jq # "off" \/ cfg.levelKey

(***************************************************************************)
(* The stages. A stage that is not wired passes the row on.                *)
(***************************************************************************)
GoTo(from, to) == pc = from /\ pc' = to /\ UNCHANGED <<cfg, row>>

ExitWatchMessage(from, to, wired) ==
  /\ GoTo(from, to)
  /\ triggered' = (triggered \/ (wired /\ row.ok /\ msg \in row.exits))
  /\ UNCHANGED event

\* --include takes precedence: with it, --exclude is not looked at.
Passes == IF cfg.include THEN msg \in row.includes ELSE ~(cfg.exclude /\ msg \in row.excludes)

IncludeExclude(from, to, wired) ==
  /\ GoTo(from, IF wired /\ NeedsIncludeExclude /\ row.ok /\ ~Passes THEN "dropped" ELSE to)
  /\ UNCHANGED <<event, triggered>>

ExitFirst    == ExitWatchMessage("exit_first", "include_first", Order.exitFirst)
IncludeFirst == IncludeExclude("include_first", "exit_on", Order.includeFirst)
ExitOn       == ExitWatchMessage("exit_on", "json_annotate", cfg.exitOn /\ ~Order.exitFirst)

JsonAnnotate ==
  /\ GoTo("json_annotate", "level_classify")
  /\ structured' = (NeedsJsonAnnotation /\ row.json)
  /\ UNCHANGED <<msg, level, triggered>>

LevelClassify ==
  /\ GoTo("level_classify", "exit_level")
  /\ level' = IF cfg.levelKey /\ structured THEN row.level ELSE level
  /\ UNCHANGED <<msg, structured, triggered>>

\* event_level_rank: an unknown level counts as info.
Rank(l) == IF l = Other THEN 2 ELSE l

ExitWatchLevel ==
  /\ GoTo("exit_level", "include_mid")
  /\ triggered' = \/ triggered
                  \/ /\ cfg.exitLevel # None /\ row.ok /\ level # None
                     /\ Rank(level) >= cfg.exitLevel
  /\ UNCHANGED event

IncludeMid == IncludeExclude("include_mid", "jq_evaluate", Order.includeMid)

\* Variant with a fault: the rewritten event keeps the parsed form of the old message.
JqEvaluateKeepsStructured ==
  /\ GoTo("jq_evaluate", IF cfg.jq = "filter" /\ row.ok /\ ~(structured /\ row.truthy)
                         THEN "dropped" ELSE "include_last")
  /\ msg' = IF cfg.jq \in {"replace", "append"} /\ structured THEN "jqed" ELSE msg
  /\ UNCHANGED <<structured, level, triggered>>

\* An event without parsed JSON passes, except in filter mode.
JqEvaluate ==
  LET rewrites == cfg.jq \in {"replace", "append"} /\ structured
  IN /\ GoTo("jq_evaluate", IF cfg.jq = "filter" /\ row.ok /\ ~(structured /\ row.truthy)
                            THEN "dropped" ELSE "include_last")
     /\ msg' = IF rewrites THEN "jqed" ELSE msg
     /\ structured' = (structured /\ ~rewrites)
     /\ UNCHANGED <<level, triggered>>

IncludeLast == IncludeExclude("include_last", "out", Order.includeLast)

Next ==
  \/ ExitFirst \/ IncludeFirst \/ ExitOn \/ JsonAnnotate \/ LevelClassify
  \/ ExitWatchLevel \/ IncludeMid \/ JqEvaluate \/ IncludeLast

Spec == Init /\ [][Next]_vars

(***************************************************************************)
(* What the flags promise, without a word about stages.                    *)
(***************************************************************************)
\* The message that is printed, and the one the filters are about.
PrintedText  == IF cfg.jq \in {"replace", "append"} /\ row.json THEN "jqed" ELSE "raw"
FilteredText == IF cfg.filterOn = "original" THEN "raw" ELSE PrintedText

Hidden ==
  /\ row.ok
  /\ \/ cfg.include /\ FilteredText \notin row.includes
     \/ ~cfg.include /\ cfg.exclude /\ FilteredText \in row.excludes
     \/ cfg.jq = "filter" /\ ~(row.json /\ row.truthy)

ExitDue ==
  /\ row.ok
  /\ \/ cfg.exitOn /\ "raw" \in row.exits
     \/ /\ cfg.exitLevel # None /\ cfg.levelKey /\ row.level # None
        /\ Rank(row.level) >= cfg.exitLevel

\* Whatever the other flags, the exit flags among them, and wherever they put the filters:
\* a line is hidden exactly if the filters hide the message --filter-on names or the jq
\* filter rejects it, errors always pass, and what is printed is what jq made of the line.
ShowsWhatFlagsSay ==
  /\ pc = "dropped" => Hidden
  /\ pc = "out" => ~Hidden /\ msg = PrintedText

\* --exit-on sees every raw line and --exit-on-level every classified one, whether or not
\* a filter hides it or jq rewrites it; nothing else fires.
ExitsWhenDue == pc \in {"out", "dropped"} => (triggered <=> ExitDue)
=============================================================================
