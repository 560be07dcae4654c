------------------------ MODULE PipelineOrderProofs ------------------------
(***************************************************************************)
(* The stages of PipelineOrder do what the flags promise, for every set of *)
(* levels and thresholds. The inductive invariant says, stage by stage,    *)
(* what has been applied to the row so far.                                *)
(***************************************************************************)
EXTENDS PipelineOrder, TLAPS

\* The stages behind each point of the pipeline.
AfterExitOn   == Stages \ {"exit_first", "include_first", "exit_on"}
AfterAnnotate == AfterExitOn \ {"json_annotate"}
AfterClassify == AfterAnnotate \ {"level_classify"}
AfterLevel    == AfterClassify \ {"exit_level"}

\* The filters hide the raw line, respectively the printed text.
Rejects(text) ==
  \/ cfg.include /\ text \notin row.includes
  \/ ~cfg.include /\ cfg.exclude /\ text \in row.excludes

MessageDue == row.ok /\ cfg.exitOn /\ "raw" \in row.exits
LevelDue ==
  /\ row.ok /\ cfg.exitLevel # None /\ cfg.levelKey /\ row.level # None
  /\ Rank(row.level) >= cfg.exitLevel

\* The event carries what the stages before pc left in it.
EventInv ==
  /\ pc \in Stages \ {"include_last"} => msg = "raw"
  /\ pc \in Stages \ AfterAnnotate => structured = FALSE
  /\ pc \in AfterAnnotate \ {"include_last"} => structured = (NeedsJsonAnnotation /\ row.json)
  /\ pc \in Stages \ AfterClassify => level = None
  /\ pc \in AfterClassify => level = IF cfg.levelKey THEN row.level ELSE None
  /\ pc \in {"include_last", "out"} => msg = PrintedText

\* The exit watch has seen the row exactly in the stages behind it.
ExitInv ==
  /\ pc = "exit_first" => ~triggered
  /\ pc \in {"include_first", "exit_on"} => triggered = (Order.exitFirst /\ MessageDue)
  /\ pc \in AfterExitOn \ AfterLevel => triggered = MessageDue
  /\ pc \in AfterLevel \cup {"out"} => triggered = (MessageDue \/ LevelDue)
  /\ pc = "dropped" => triggered = (MessageDue \/ LevelDue)

\* The filters have been passed in the stages behind them.
FilterInv ==
  /\ pc \in Stages \ {"exit_first", "include_first"} /\ Order.includeFirst
       => ~(row.ok /\ Rejects("raw"))
  /\ pc \in {"jq_evaluate", "include_last", "out"} /\ cfg.filterOn = "original"
       => ~(row.ok /\ Rejects("raw"))
  /\ pc \in {"include_last", "out"} /\ cfg.jq = "filter" /\ row.ok => row.json /\ row.truthy
  /\ pc = "out" /\ cfg.filterOn = "transformed" => ~(row.ok /\ Rejects(PrintedText))
  /\ pc = "dropped" => Hidden

IInv == TypeOK /\ EventInv /\ ExitInv /\ FilterInv

\* What is used of a row: only a line has levels, JSON and matches.
LEMMA RowShape ==
  ASSUME TypeOK
  PROVE  /\ row.ok \in BOOLEAN /\ row.json \in BOOLEAN /\ row.truthy \in BOOLEAN
         /\ row.level \in Levels \cup {None}
         /\ ~row.ok => ~row.json
         /\ ~row.json => row.level = None /\ ~row.truthy
  BY DEF TypeOK, Rows

LEMMA ConfigShape ==
  ASSUME TypeOK
  PROVE  /\ cfg.filterOn \in {"original", "transformed"}
         /\ cfg.include \in BOOLEAN /\ cfg.exclude \in BOOLEAN
         /\ cfg.jq \in {"off", "replace", "append", "filter"}
         /\ cfg.levelKey \in BOOLEAN /\ cfg.exitOn \in BOOLEAN
         /\ cfg.exitLevel \in Thresholds
  BY DEF TypeOK, Configs

\* The first row state satisfies the invariant.
LEMMA InitInv == Init => IInv
  BY LevelAssumption DEF Init, IInv, TypeOK, EventInv, ExitInv, FilterInv, Stages, Texts,
     AfterExitOn, AfterAnnotate, AfterClassify, AfterLevel

\* Every stage preserves the invariant.
LEMMA StepInv == IInv /\ [Next]_vars => IInv'
<1> SUFFICES ASSUME IInv, [Next]_vars PROVE IInv'
  OBVIOUS
<1> USE DEF IInv
<1>r. /\ row.ok \in BOOLEAN /\ row.json \in BOOLEAN /\ row.truthy \in BOOLEAN
      /\ row.level \in Levels \cup {None}
      /\ ~row.ok => ~row.json
      /\ ~row.json => row.level = None /\ ~row.truthy
  BY RowShape
<1>c. /\ cfg.filterOn \in {"original", "transformed"}
      /\ cfg.include \in BOOLEAN /\ cfg.exclude \in BOOLEAN
      /\ cfg.jq \in {"off", "replace", "append", "filter"}
      /\ cfg.levelKey \in BOOLEAN /\ cfg.exitOn \in BOOLEAN
      /\ cfg.exitLevel \in Thresholds
  BY ConfigShape
<1>1. CASE ExitFirst
  <2>1. /\ pc = "exit_first" /\ pc' = "include_first" /\ UNCHANGED <<cfg, row, msg, structured, level>>
        /\ triggered' = (triggered \/ (Order.exitFirst /\ row.ok /\ msg \in row.exits))
    BY <1>1 DEF ExitFirst, ExitWatchMessage, GoTo, event
  <2>2. TypeOK'
    BY <2>1 DEF TypeOK, Stages, Order
  <2>3. EventInv'
    BY <2>1 DEF EventInv, Stages, AfterExitOn, AfterAnnotate, AfterClassify
  <2>4. ExitInv'
    BY <2>1, <1>r, <1>c DEF ExitInv, EventInv, TypeOK, Stages, AfterExitOn, AfterAnnotate,
       AfterClassify, AfterLevel, Order, MessageDue
  <2>5. FilterInv'
    BY <2>1 DEF FilterInv, Stages
  <2> QED BY <2>2, <2>3, <2>4, <2>5
<1>2. CASE IncludeFirst
  <2>1. /\ pc = "include_first" /\ UNCHANGED <<cfg, row, msg, structured, level, triggered>>
        /\ pc' = IF Order.includeFirst /\ row.ok /\ Rejects("raw") THEN "dropped" ELSE "exit_on"
    BY <1>2, <1>c, <1>r DEF IncludeFirst, IncludeExclude, GoTo, event, Rejects, Passes, EventInv, Stages,
       NeedsIncludeExclude, TypeOK, Order
  <2>2. TypeOK'
    BY <2>1 DEF TypeOK, Stages
  <2>3. EventInv'
    BY <2>1 DEF EventInv, Stages, AfterExitOn, AfterAnnotate, AfterClassify
  <2>4. ExitInv'
    BY <2>1, <1>r, <1>c DEF ExitInv, Stages, AfterExitOn, AfterAnnotate,
       AfterClassify, AfterLevel, Order, MessageDue, LevelDue
  <2>5. FilterInv'
    BY <2>1, <1>c DEF FilterInv, Stages, Rejects, Hidden, FilteredText, Order
  <2> QED BY <2>2, <2>3, <2>4, <2>5
<1>3. CASE ExitOn
  <2>1. /\ pc = "exit_on" /\ pc' = "json_annotate" /\ UNCHANGED <<cfg, row, msg, structured, level>>
        /\ triggered' = (triggered \/ (cfg.exitOn /\ ~Order.exitFirst /\ row.ok /\ msg \in row.exits))
    BY <1>3 DEF ExitOn, ExitWatchMessage, GoTo, event
  <2>2. TypeOK'
    BY <2>1, <1>c, <1>r DEF TypeOK, Stages, Order
  <2>3. EventInv'
    BY <2>1 DEF EventInv, Stages, AfterExitOn, AfterAnnotate, AfterClassify
  <2>4. ExitInv'
    BY <2>1, <1>r, <1>c DEF ExitInv, EventInv, TypeOK, Stages, AfterExitOn, AfterAnnotate,
       AfterClassify, AfterLevel, Order, MessageDue
  <2>5. FilterInv'
    BY <2>1 DEF FilterInv, Stages, Rejects, Order
  <2> QED BY <2>2, <2>3, <2>4, <2>5
<1>4. CASE JsonAnnotate
  <2>1. /\ pc = "json_annotate" /\ pc' = "level_classify" /\ UNCHANGED <<cfg, row, msg, level, triggered>>
        /\ structured' = (NeedsJsonAnnotation /\ row.json)
    BY <1>4 DEF JsonAnnotate, GoTo
  <2>2. TypeOK'
    BY <2>1, <1>c, <1>r DEF TypeOK, Stages, EventInv, NeedsJsonAnnotation
  <2>3. EventInv'
    BY <2>1 DEF EventInv, Stages, AfterExitOn, AfterAnnotate, AfterClassify, NeedsJsonAnnotation
  <2>4. ExitInv'
    BY <2>1 DEF ExitInv, Stages, AfterExitOn, AfterAnnotate, AfterClassify, AfterLevel, MessageDue
  <2>5. FilterInv'
    BY <2>1 DEF FilterInv, Stages, Rejects, Order
  <2> QED BY <2>2, <2>3, <2>4, <2>5
<1>5. CASE LevelClassify
  <2>1. /\ pc = "level_classify" /\ pc' = "exit_level" /\ UNCHANGED <<cfg, row, msg, structured, triggered>>
        /\ level' = IF cfg.levelKey /\ structured THEN row.level ELSE level
    BY <1>5 DEF LevelClassify, GoTo
  <2>2. TypeOK'
    BY <2>1, <1>r DEF TypeOK, Stages
  <2>3. EventInv'
    BY <2>1, <1>r, <1>c DEF EventInv, Stages, AfterExitOn, AfterAnnotate, AfterClassify, NeedsJsonAnnotation
  <2>4. ExitInv'
    BY <2>1 DEF ExitInv, Stages, AfterExitOn, AfterAnnotate, AfterClassify, AfterLevel, MessageDue
  <2>5. FilterInv'
    BY <2>1 DEF FilterInv, Stages, Rejects, Order
  <2> QED BY <2>2, <2>3, <2>4, <2>5
<1>6. CASE ExitWatchLevel
  <2>1. /\ pc = "exit_level" /\ pc' = "include_mid" /\ UNCHANGED <<cfg, row, msg, structured, level>>
        /\ triggered' = (triggered \/ (cfg.exitLevel # None /\ row.ok /\ level # None
                                        /\ Rank(level) >= cfg.exitLevel))
    BY <1>6 DEF ExitWatchLevel, GoTo, event
  <2>2. TypeOK'
    BY <2>1, <1>r DEF TypeOK, Stages
  <2>3. EventInv'
    BY <2>1 DEF EventInv, Stages, AfterExitOn, AfterAnnotate, AfterClassify, NeedsJsonAnnotation
  <2>4. ExitInv'
    <3>1. level = IF cfg.levelKey THEN row.level ELSE None
      BY <2>1 DEF EventInv, Stages, AfterExitOn, AfterAnnotate, AfterClassify
    <3>2. triggered = MessageDue
      BY <2>1 DEF ExitInv, Stages, AfterExitOn, AfterAnnotate, AfterClassify, AfterLevel
    <3>3. triggered' = (MessageDue \/ LevelDue)
      BY <2>1, <3>1, <3>2, <1>c DEF LevelDue
    <3> QED
      BY <2>1, <3>3 DEF ExitInv, Stages, AfterExitOn, AfterAnnotate, AfterClassify, AfterLevel,
         MessageDue, LevelDue
  <2>5. FilterInv'
    BY <2>1 DEF FilterInv, Stages, Rejects, Order
  <2> QED BY <2>2, <2>3, <2>4, <2>5
<1>7. CASE IncludeMid
  <2>1. /\ pc = "include_mid" /\ UNCHANGED <<cfg, row, msg, structured, level, triggered>>
        /\ pc' = IF Order.includeMid /\ row.ok /\ Rejects("raw") THEN "dropped" ELSE "jq_evaluate"
    BY <1>7, <1>c, <1>r DEF IncludeMid, IncludeExclude, GoTo, event, Rejects, Passes, EventInv, Stages,
       NeedsIncludeExclude, TypeOK, Order
  <2>2. TypeOK'
    BY <2>1 DEF TypeOK, Stages
  <2>3. EventInv'
    BY <2>1 DEF EventInv, Stages, AfterExitOn, AfterAnnotate, AfterClassify, NeedsJsonAnnotation
  <2>4. ExitInv'
    BY <2>1 DEF ExitInv, Stages, AfterExitOn, AfterAnnotate, AfterClassify, AfterLevel, MessageDue, LevelDue
  <2>5. FilterInv'
    BY <2>1, <1>c DEF FilterInv, Stages, Rejects, Hidden, FilteredText, Order
  <2> QED BY <2>2, <2>3, <2>4, <2>5
<1>8. CASE JqEvaluate
  <2>1. /\ pc = "jq_evaluate" /\ UNCHANGED <<cfg, row, level, triggered>>
        /\ pc' = IF cfg.jq = "filter" /\ row.ok /\ ~(structured /\ row.truthy)
                 THEN "dropped" ELSE "include_last"
        /\ msg' = IF cfg.jq \in {"replace", "append"} /\ structured THEN "jqed" ELSE msg
        /\ structured' = (structured /\ ~(cfg.jq \in {"replace", "append"} /\ structured))
    BY <1>8 DEF JqEvaluate, GoTo
  <2>2. structured = (NeedsJsonAnnotation /\ row.json) /\ msg = "raw"
    BY <2>1 DEF EventInv, Stages, AfterExitOn, AfterAnnotate
  <2>3. TypeOK'
    BY <2>1, <2>2, <1>c, <1>r DEF TypeOK, Stages, Texts
  <2>4. msg' = PrintedText
    BY <2>1, <2>2, <1>c, <1>r DEF PrintedText, NeedsJsonAnnotation
  <2>5. EventInv'
    BY <2>1, <2>2, <2>4, <1>c, <1>r DEF EventInv, Stages, AfterExitOn, AfterAnnotate, AfterClassify, PrintedText
  <2>6. ExitInv'
    BY <2>1 DEF ExitInv, Stages, AfterExitOn, AfterAnnotate, AfterClassify, AfterLevel, MessageDue, LevelDue
  <2>7. FilterInv'
    BY <2>1, <2>2, <1>c, <1>r DEF FilterInv, Stages, Rejects, Hidden, NeedsJsonAnnotation, Order
  <2> QED BY <2>3, <2>5, <2>6, <2>7
<1>9. CASE IncludeLast
  <2>1. msg = PrintedText
    BY <1>9 DEF IncludeLast, IncludeExclude, GoTo, EventInv
  <2>2. /\ pc = "include_last" /\ UNCHANGED <<cfg, row, msg, structured, level, triggered>>
        /\ pc' = IF Order.includeLast /\ row.ok /\ Rejects(PrintedText) THEN "dropped" ELSE "out"
    BY <1>9, <2>1, <1>c, <1>r DEF IncludeLast, IncludeExclude, GoTo, event, Rejects, Passes,
       NeedsIncludeExclude, Order
  <2>3. TypeOK'
    BY <2>2 DEF TypeOK, Stages
  <2>4. EventInv'
    BY <2>1, <2>2 DEF EventInv, Stages, AfterExitOn, AfterAnnotate, AfterClassify, PrintedText
  <2>5. ExitInv'
    BY <2>2 DEF ExitInv, Stages, AfterExitOn, AfterAnnotate, AfterClassify, AfterLevel, MessageDue, LevelDue
  <2>6. FilterInv'
    BY <2>2, <1>c DEF FilterInv, Stages, Rejects, Hidden, FilteredText, PrintedText, Order
  <2> QED BY <2>3, <2>4, <2>5, <2>6
<1>10. CASE UNCHANGED vars
  BY <1>10 DEF vars, event, TypeOK, EventInv, ExitInv, FilterInv, MessageDue, LevelDue, Rejects,
     Hidden, PrintedText, FilteredText, Order, NeedsJsonAnnotation
<1> QED
  BY <1>1, <1>2, <1>3, <1>4, <1>5, <1>6, <1>7, <1>8, <1>9, <1>10 DEF Next

\* The invariant holds in every state of a row's way through the stages.
THEOREM PipelineInvariance == Spec => []IInv
  BY InitInv, StepInv, PTL DEF Spec

\* The types, for every set of levels and thresholds; jq never leaves a rewritten message
\* with the parsed form of the old one, and errors are never dropped.
THEOREM PipelineTypes == Spec => []TypeOK
<1>1. IInv => TypeOK
  BY DEF IInv
<1> QED BY <1>1, PipelineInvariance, PTL

\* include_exclude and jq_evaluate hide what the flags say, for every configuration.
THEOREM ShowsRight == Spec => []ShowsWhatFlagsSay
<1>1. IInv => ShowsWhatFlagsSay
  <2> SUFFICES ASSUME IInv PROVE ShowsWhatFlagsSay
    OBVIOUS
  <2>1. pc = "dropped" => Hidden
    BY DEF IInv, FilterInv
  <2>2. ASSUME pc = "out" PROVE ~Hidden /\ msg = PrintedText
    <3>1. msg = PrintedText
      BY <2>2 DEF IInv, EventInv
    <3>2. ~Hidden
      BY <2>2, ConfigShape DEF IInv, FilterInv, Hidden, FilteredText, Rejects
    <3> QED BY <3>1, <3>2
  <2> QED BY <2>1, <2>2 DEF ShowsWhatFlagsSay
<1> QED BY <1>1, PipelineInvariance, PTL

\* exit_watch_message and exit_watch_level fire exactly when they should, although the
\* filters are wired in front of one and behind the other.
THEOREM ExitsRight == Spec => []ExitsWhenDue
<1>1. IInv => ExitsWhenDue
  BY DEF IInv, ExitInv, ExitsWhenDue, ExitDue, MessageDue, LevelDue
<1> QED BY <1>1, PipelineInvariance, PTL
=============================================================================
