------------------------- MODULE RunShutdownProofs -------------------------
(***************************************************************************)
(* The safety properties of RunShutdown, for any set of helpers and any    *)
(* instance of LineFlow. The run takes the steps of LineFlow, and those of *)
(* the reporter that resets the counters, so that LineFlow's invariant is  *)
(* an invariant of the run as well.                                        *)
(***************************************************************************)
EXTENDS RunShutdown, LineFlowProofs, FiniteSetTheorems

USE DEF state, streams, mux, fwd, render, vars, cancellers, joins, results, stats, runVars, allVars

(***************************************************************************)
(* The inductive invariant.                                                *)
(***************************************************************************)
\* Run is past a step of its shutdown.
Past(t) == \E i \in 1..(at - 1) : Steps[i] = t

\* What run knows from its joins, and when it has an exit code.
JoinInv ==
  /\ runpc \in {"wait", "polled"} => at = 1
  /\ runpc \in {"join", "exited"} => cancelled
  /\ runpc = "exited" => at = Len(Steps) + 1 /\ code = ExitCode
  /\ runpc # "exited" => code = None
  /\ aborted = {} => ~left
  /\ pipeJoined => ForwardStopped /\ (fpc = "panicked" => pipeErr)
  /\ Past("pipeline") /\ ~left => ForwardStopped /\ (fpc = "panicked" => pipeErr)
  /\ Past("render") /\ aborted = {} => RenderStopped

\* Unless the pipeline was left behind, no line follows Shutdown, and none is left in
\* the channel when the render task flushes for the last time.
Queue == batch \o renderq
NoLines(q) == \A i \in DOMAIN q : q[i] \notin Lines
HasShutdown(q) == \E i \in DOMAIN q : q[i] = Shutdown
ShutdownLast(q) == \A i, j \in DOMAIN q : i < j /\ q[i] = Shutdown => q[j] \notin Lines
LastWordInv ==
  /\ HasShutdown(Queue) => Past("Shutdown")
  /\ rpc = "stopped" => buf = <<>> /\ batch = <<>> /\ renderq = <<>>
  /\ rpc \in {"final", "stopped"} /\ ~left => ForwardStopped /\ NoLines(Queue)
  /\ ~left => ShutdownLast(Queue)

\* The lines that reached the render channel.
Rendered == (Range(out) \cup Range(buf) \cup Range(batch) \cup Range(renderq)) \cap Lines

ForwardInv ==
  /\ IsFiniteSet(Rendered)
  /\ rpc # "failed" /\ ~left => Cardinality(Rendered) = Total("forwarded")

\* The raw channel is closed with its receiver, what the filters refuse does not reach
\* the render channel, and the mux only ends after the streams.
FlowInv ==
  /\ ForwardStopped => raw = <<>>
  /\ Rendered \cap (Hidden \cup Failing) = {} /\ frow \notin Hidden \cup Failing
  /\ PathAlive /\ mpc = "stopped" => ended = Sources

\* A run that nobody cancels from outside is cancelled by run itself, after the end of
\* the streams went down the path.
Clean ==
  /\ ~Follow /\ ~Lossy /\ reason = "none" /\ ~triggered
  /\ aborted = {} /\ fpc # "panicked" /\ rpc # "failed"
CleanInv ==
  /\ limit # "none" => Follow
  /\ signalled => reason # "none"
  /\ FlowInv
  /\ Clean /\ cancelled =>
       fpc = "stopped" /\ mpc = "stopped" /\ ended = Sources /\ Visible \subseteq Rendered

\* A counter that the reporter is about to swap is not in its snapshot.
SnapInv ==
  /\ spc = "tick" => snap["forwarded"] = 0
  /\ spc \in {"tick", "dropped"} => snap["dropped"] = 0
  /\ spc \in {"tick", "dropped", "muxDropped"} => snap["muxDropped"] = 0

RunIInv ==
  /\ IInv /\ RunTypeOK /\ SnapInv /\ JoinInv /\ LastWordInv /\ ForwardInv /\ CleanInv
  /\ IsFiniteSet(Produced) /\ DropsCounted

(***************************************************************************)
(* The order of the shutdown.                                              *)
(***************************************************************************)
Names == {"watch", "mux", "cursor", "metrics", "stats"} \cup
         {"pipeline", "flush_ticker", "Shutdown", "drop_tx", "render"}
Marks == {"pipeline", "flush_ticker", "Shutdown", "drop_tx", "render"}

\* The pipeline is joined at step p of q, which has none of the other marks.
PipelineAt(q, p) ==
  /\ q \in Seq(Names) /\ p \in 1..Len(q) /\ q[p] = "pipeline"
  /\ \A i \in 1..Len(q) : q[i] \in Marks => i = p

LEMMA SpawnedType ==
  ASSUME NEW h \in Names
  PROVE  /\ Spawned(h) \in Seq(Names) /\ Len(Spawned(h)) \in Nat
         /\ \A i \in 1..Len(Spawned(h)) : Spawned(h)[i] = h
<1>1. CASE h \in Helpers
  <2>1. Spawned(h) = <<h>>
    BY <1>1 DEF Spawned
  <2> QED
    BY <2>1
<1>2. CASE h \notin Helpers
  BY <1>2 DEF Spawned
<1> QED
  BY <1>1, <1>2

LEMMA SpawnedNext ==
  ASSUME NEW q, NEW p, PipelineAt(q, p), NEW h \in Names \ Marks
  PROVE  PipelineAt(q \o Spawned(h), p)
<1> DEFINE x == Spawned(h)
<1>1. x \in Seq(Names) /\ Len(x) \in Nat /\ \A i \in 1..Len(x) : x[i] = h
  BY SpawnedType
<1>2. q \in Seq(Names) /\ Len(q) \in Nat /\ p \in 1..Len(q)
  BY DEF PipelineAt
<1> HIDE DEF x
<1>3. /\ q \o x \in Seq(Names) /\ Len(q \o x) = Len(q) + Len(x)
      /\ \A i \in 1..(Len(q) + Len(x)) : (q \o x)[i] = IF i <= Len(q) THEN q[i] ELSE x[i - Len(q)]
  BY <1>1, <1>2, ConcatProperties
<1>4. \A i \in 1..Len(q \o x) : (q \o x)[i] \in Marks => i = p
  <2> SUFFICES ASSUME NEW i \in 1..Len(q \o x), (q \o x)[i] \in Marks PROVE i = p
    OBVIOUS
  <2>1. CASE i <= Len(q)
    BY <1>2, <1>3, <2>1 DEF PipelineAt
  <2>2. CASE ~(i <= Len(q))
    <3>1. i - Len(q) \in 1..Len(x) /\ (q \o x)[i] = x[i - Len(q)]
      BY <1>1, <1>2, <1>3, <2>2
    <3> QED
      BY <1>1, <3>1
  <2> QED
    BY <2>1, <2>2
<1> QED
  BY <1>1, <1>2, <1>3, <1>4 DEF PipelineAt, x

\* The pipeline is joined before the ticker; Shutdown, the drop of render_tx and the
\* join of the render task are the last three steps.
LEMMA StepsFacts ==
  /\ Len(Steps) \in Nat
  /\ \E p, f \in Nat :
       /\ 1 <= p /\ p < f /\ Len(Steps) = f + 3
       /\ \A i \in 1..Len(Steps) :
            /\ Steps[i] = "pipeline" <=> i = p
            /\ Steps[i] = "Shutdown" <=> i = f + 1
            /\ Steps[i] = "render" <=> i = f + 3
<1> DEFINE a == Spawned("watch")
           m == <<"mux", "pipeline">>
           b == a \o m
           p == Len(a) + 2
<1>1. a \in Seq(Names) /\ Len(a) \in Nat /\ \A i \in 1..Len(a) : a[i] = "watch"
  BY SpawnedType DEF Names
<1>2. PipelineAt(b, p)
  <2>1. m \in Seq(Names) /\ Len(m) = 2 /\ m[1] = "mux" /\ m[2] = "pipeline"
    BY DEF Names
  <2> HIDE DEF a, m
  <2>2. /\ b \in Seq(Names) /\ Len(b) = Len(a) + 2
        /\ \A i \in 1..(Len(a) + 2) : b[i] = IF i <= Len(a) THEN a[i] ELSE m[i - Len(a)]
    <3>1. /\ a \o m \in Seq(Names) /\ Len(a \o m) = Len(a) + Len(m)
          /\ \A i \in 1..(Len(a) + Len(m)) : (a \o m)[i] = IF i <= Len(a) THEN a[i] ELSE m[i - Len(a)]
      BY <1>1, <2>1, ConcatProperties
    <3> QED
      BY <2>1, <3>1
  <2>3. b[p] = "pipeline" /\ b[Len(a) + 1] = "mux" /\ \A i \in 1..Len(a) : b[i] = "watch"
    BY <1>1, <2>1, <2>2
  <2>4. \A i \in 1..Len(b) : i \in 1..Len(a) \/ i = Len(a) + 1 \/ i = p
    BY <1>1, <2>2
  <2> QED
    BY <1>1, <2>2, <2>3, <2>4 DEF PipelineAt, Marks
<1> HIDE DEF b, p
<1> DEFINE c == b \o Spawned("cursor") \o Spawned("metrics") \o Spawned("stats")
           e == <<"flush_ticker", "Shutdown", "drop_tx", "render">>
<1>3. PipelineAt(c, p)
  <2>1. PipelineAt(b \o Spawned("cursor"), p)
    BY <1>2, SpawnedNext DEF Marks, Names
  <2>2. PipelineAt(b \o Spawned("cursor") \o Spawned("metrics"), p)
    BY <2>1, SpawnedNext DEF Marks, Names
  <2> QED
    BY <2>2, SpawnedNext DEF Marks, Names
<1>4. Steps = c \o e
  BY DEF Steps, b
<1>5. e \in Seq(Names) /\ Len(e) = 4 /\ e[1] = "flush_ticker" /\ e[2] = "Shutdown"
      /\ e[3] = "drop_tx" /\ e[4] = "render"
  BY DEF Names
<1> HIDE DEF c, e
<1>6. c \in Seq(Names) /\ Len(c) \in Nat /\ p \in 1..Len(c) /\ c[p] = "pipeline"
      /\ \A i \in 1..Len(c) : c[i] \in Marks => i = p
  BY <1>3 DEF PipelineAt
<1>7. /\ Steps \in Seq(Names) /\ Len(Steps) = Len(c) + 4
      /\ \A i \in 1..(Len(c) + 4) : Steps[i] = IF i <= Len(c) THEN c[i] ELSE e[i - Len(c)]
  <2>1. /\ c \o e \in Seq(Names) /\ Len(c \o e) = Len(c) + Len(e)
        /\ \A i \in 1..(Len(c) + Len(e)) : (c \o e)[i] = IF i <= Len(c) THEN c[i] ELSE e[i - Len(c)]
    BY <1>5, <1>6, ConcatProperties
  <2> QED
    BY <1>4, <1>5, <2>1
<1>8. \A i \in 1..Len(c) : Steps[i] = c[i]
  BY <1>6, <1>7
<1>9. /\ Steps[Len(c) + 1] = "flush_ticker" /\ Steps[Len(c) + 2] = "Shutdown"
      /\ Steps[Len(c) + 3] = "drop_tx" /\ Steps[Len(c) + 4] = "render"
  <2>1. \A k \in 1..4 : Steps[Len(c) + k] = e[k]
    BY <1>6, <1>7
  <2> QED
    BY <1>5, <2>1
<1>10. \A i \in 1..Len(Steps) :
        i \in 1..Len(c) \/ i = Len(c) + 1 \/ i = Len(c) + 2 \/ i = Len(c) + 3 \/ i = Len(c) + 4
  BY <1>6, <1>7
<1> DEFINE f == Len(c) + 1
<1>11. \A i \in 1..Len(Steps) : /\ Steps[i] = "pipeline" <=> i = p
                                /\ Steps[i] = "Shutdown" <=> i = f + 1
                                /\ Steps[i] = "render" <=> i = f + 3
  BY <1>6, <1>8, <1>9, <1>10 DEF Marks
<1>12. p \in Nat /\ f \in Nat /\ 1 <= p /\ p < f /\ Len(Steps) = f + 3
  BY <1>6, <1>7
<1> HIDE DEF f
<1>13. Len(Steps) \in Nat
  BY <1>12
<1> QED
  BY <1>11, <1>12, <1>13, Zenon

LEMMA PastNext ==
  ASSUME at \in 1..(Len(Steps) + 1), NEW t, AtTask(t), at' = at + 1
  PROVE  \A u : Past(u)' <=> Past(u) \/ u = t
<1>1. Len(Steps) \in Nat /\ at \in 1..Len(Steps) /\ Steps[at] = t
  BY StepsFacts DEF AtTask
<1> QED
  BY <1>1 DEF Past

LEMMA PastSame == ASSUME at' = at PROVE \A u : Past(u)' <=> Past(u)
  BY DEF Past

\* Run tells the render task to shut down after it joined the pipeline.
LEMMA PastPipeline ==
  ASSUME at \in 1..(Len(Steps) + 1)
  PROVE  /\ Past("Shutdown") \/ AtTask("Shutdown") => Past("pipeline")
         /\ at = Len(Steps) + 1 => Past("pipeline") /\ Past("render")
         /\ at = 1 => \A u : ~Past(u)
<1>1. PICK p \in Nat, f \in Nat :
       /\ 1 <= p /\ p < f /\ Len(Steps) = f + 3
       /\ \A i \in 1..Len(Steps) :
            /\ Steps[i] = "pipeline" <=> i = p
            /\ Steps[i] = "Shutdown" <=> i = f + 1
            /\ Steps[i] = "render" <=> i = f + 3
  BY StepsFacts
<1>2. p \in 1..Len(Steps) /\ f + 3 \in 1..Len(Steps) /\ Len(Steps) \in Nat
  BY <1>1
<1>3. at > p => Past("pipeline")
  BY <1>1, <1>2 DEF Past
<1>4. at > f + 3 => Past("render")
  BY <1>1, <1>2 DEF Past
<1>5. Past("Shutdown") => at > p
  BY <1>1, <1>2 DEF Past
<1>6. AtTask("Shutdown") => at > p
  BY <1>1, <1>2 DEF AtTask
<1>7. at = Len(Steps) + 1 => at > p /\ at > f + 3
  BY <1>1
<1>8. at = 1 => \A u : ~Past(u)
  BY DEF Past
<1> QED
  BY <1>3, <1>4, <1>5, <1>6, <1>7, <1>8

(***************************************************************************)
(* The steps of the run.                                                   *)
(***************************************************************************)
LEMMA CounterNames ==
  /\ Range(Counters) = {"forwarded", "dropped", "muxDropped"}
  /\ DOMAIN Counters = {1, 2, 3} /\ Len(Counters) = 3
  /\ Counters[1] = "forwarded" /\ Counters[2] = "dropped" /\ Counters[3] = "muxDropped"
<1>1. DOMAIN Counters = {1, 2, 3} /\ Len(Counters) = 3
      /\ Counters[1] = "forwarded" /\ Counters[2] = "dropped" /\ Counters[3] = "muxDropped"
  BY DEF Counters
<1> QED
  BY <1>1 DEF Range

\* A swap changes no variable of LineFlow but a counter.
LEMMA SwapLeaves ==
  ASSUME NEW i, StatsSwap(i)
  PROVE  UNCHANGED <<state, streams, mpc, mrow, raw, fpc, frow, ticking, runTx, renderq, render>>
  BY DEF StatsSwap, SetWindow

LEMMA RunSteps ==
  ASSUME [RunNext]_allVars
  PROVE  [Next]_vars \/ \E i \in DOMAIN Counters : StatsSwap(i)
<1>1. CASE PathStep /\ UNCHANGED runVars
  BY <1>1 DEF PathStep, Next
<1>2. Cancel => [Next]_vars
  BY DEF Cancel, Next
<1>3. CASE PollLimit
  BY <1>2, <1>3 DEF PollLimit
<1>4. CASE PollCancelled
  BY <1>4 DEF PollCancelled
<1>5. CASE PipelineEnded
  BY <1>2, <1>5 DEF PipelineEnded
<1>6. CASE CancelledFirst
  BY <1>6 DEF CancelledFirst
<1>7. ASSUME NEW t \in Tasks, Joined(t) PROVE [Next]_vars
  BY <1>7 DEF Joined
<1>8. ASSUME NEW t \in Tasks, JoinTimeout(t) PROVE [Next]_vars
  BY <1>8 DEF JoinTimeout
<1>9. ASSUME NEW t \in Tasks, AbortTimeout(t) PROVE [Next]_vars
  BY <1>9 DEF AbortTimeout
<1>10. CASE TellRender
  BY <1>10 DEF TellRender, Next
<1>11. CASE DropTx
  BY <1>11 DEF DropTx, Next
<1>12. CASE Exit
  BY <1>12 DEF Exit
<1>13. CASE StatsPrint
  BY <1>13 DEF StatsPrint
<1>14. CASE StatsEnds
  BY <1>14 DEF StatsEnds
<1>15. ASSUME NEW t \in Tasks, AbortTask(t) PROVE [Next]_vars
  BY <1>15 DEF AbortTask, Next, Abort
<1>16. ASSUME NEW h \in Helpers, HelperEnds(h) PROVE [Next]_vars
  BY <1>16 DEF HelperEnds
<1>17. ASSUME NEW r \in Signals, Signal(r) PROVE [Next]_vars
  BY <1>17 DEF Signal
<1>18. CASE SignalCancel
  BY <1>2, <1>18 DEF SignalCancel
<1>19. CASE LimitNotify
  BY <1>19 DEF LimitNotify
<1>20. CASE LimitCancel
  BY <1>2, <1>20 DEF LimitCancel
<1>21. CASE UNCHANGED allVars
  BY <1>21
<1> QED
  BY <1>1, <1>3, <1>4, <1>5, <1>6, <1>7, <1>8, <1>9, <1>10, <1>11, <1>12, <1>13, <1>14, <1>15, <1>16,
     <1>17, <1>18, <1>19, <1>20, <1>21 DEF RunNext, RunStep, StatsStep

LEMMA SwapTypes ==
  ASSUME TypeOK, NEW i \in DOMAIN Counters, StatsSwap(i)
  PROVE  forwarded' \in Nat /\ dropped' \in Nat /\ muxDropped' \in Nat /\ Window[Counters[i]] \in Nat
<1>1. CASE i = 1
  BY <1>1, CounterNames DEF StatsSwap, SetWindow, Window, TypeOK
<1>2. CASE i = 2
  BY <1>2, CounterNames DEF StatsSwap, SetWindow, Window, TypeOK
<1>3. CASE i = 3
  BY <1>3, CounterNames DEF StatsSwap, SetWindow, Window, TypeOK
<1> QED
  BY <1>1, <1>2, <1>3, CounterNames

LEMMA IInvStep ==
  ASSUME IInv, [RunNext]_allVars
  PROVE  IInv'
<1>1. CASE [Next]_vars
  BY <1>1, StepInv
<1>2. ASSUME NEW i \in DOMAIN Counters, StatsSwap(i) PROVE IInv'
  <2>1. UNCHANGED <<state, streams, mpc, mrow, raw, fpc, frow, ticking, runTx, renderq, render>>
    BY <1>2, SwapLeaves
  <2>2. TypeOK'
    BY <1>2, <2>1, SwapTypes DEF IInv, TypeOK
  <2>3. HandsInv' /\ EndInv'
    BY <2>1 DEF IInv, HandsInv, EndInv, PathAlive
  <2>4. Path' = Path /\ Produced' = Produced
    BY <2>1 DEF Path, Maybe, Produced
  <2>5. OrderInv'
    BY <2>4 DEF IInv, OrderInv, Sorted
  <2>6. BlockingLosesNothing'
    BY <2>1, <2>4 DEF IInv, BlockingLosesNothing, PathAlive, Visible
  <2>7. ExitOnSeesEveryLine'
    BY <2>1, <2>4 DEF IInv, ExitOnSeesEveryLine, PathAlive
  <2> QED
    BY <2>2, <2>3, <2>5, <2>6, <2>7 DEF IInv
<1> QED
  BY <1>1, <1>2, RunSteps

(***************************************************************************)
(* Types, and what the reporter's lines add up to.                         *)
(***************************************************************************)
LEMMA RunTypeStep ==
  ASSUME IInv, RunTypeOK, [RunNext]_allVars
  PROVE  RunTypeOK'
<1>0. TypeOK' /\ TypeOK
  BY IInvStep DEF IInv
<1> DEFINE RunTypes ==
      /\ spc \in {"tick", "dropped", "muxDropped", "print", "stopped"}
      /\ snap \in [Range(Counters) -> Nat] /\ printed \in [Range(Counters) -> Nat]
      /\ runpc \in {"wait", "polled", "join", "exited"}
      /\ at \in 1..(Len(Steps) + 1)
      /\ aborted \subseteq Tasks /\ left \in BOOLEAN /\ helperDone \subseteq Helpers
      /\ limit \in {"none", "sent", "cancelled"}
      /\ limitHit \in BOOLEAN
      /\ pipeErr \in BOOLEAN /\ pipeJoined \in BOOLEAN
      /\ reason \in {"none", "SIGINT", "SIGTERM"} /\ signalled \in BOOLEAN
      /\ code \in {None, 0, 1, 2, 130, 143}
<1> SUFFICES RunTypes'
  BY <1>0 DEF RunTypeOK
<1>a. RunTypes
  BY DEF RunTypeOK
<1>b. \A t : AtTask(t) => at + 1 \in 1..(Len(Steps) + 1)
  BY <1>a, StepsFacts DEF AtTask
<1>1. CASE PathStep /\ UNCHANGED runVars
  BY <1>1, <1>a
<1>2. CASE PollLimit
  <2>1. limitHit' \in BOOLEAN /\ runpc' \in {"polled", "join"}
    BY <1>2, <1>a DEF PollLimit
  <2> QED
    BY <1>2, <1>a, <2>1 DEF PollLimit
<1>3. CASE PollCancelled
  BY <1>3, <1>a DEF PollCancelled
<1>4. CASE PipelineEnded
  BY <1>4, <1>a DEF PipelineEnded
<1>5. CASE CancelledFirst
  BY <1>5, <1>a DEF CancelledFirst
<1>6. ASSUME NEW t \in Tasks, Joined(t) PROVE RunTypes'
  <2>1. pipeErr' \in BOOLEAN
    BY <1>6 DEF Joined
  <2> QED
    BY <1>6, <1>a, <1>b, <2>1 DEF Joined
<1>7. ASSUME NEW t \in Tasks, JoinTimeout(t) PROVE RunTypes'
  BY <1>7, <1>a DEF JoinTimeout
<1>8. ASSUME NEW t \in Tasks, AbortTimeout(t) PROVE RunTypes'
  BY <1>8, <1>a, <1>b DEF AbortTimeout
<1>9. CASE TellRender
  BY <1>9, <1>a, <1>b DEF TellRender
<1>10. CASE DropTx
  BY <1>10, <1>a, <1>b DEF DropTx
<1>11. CASE Exit
  <2>1. ExitCode \in {0, 1, 2, 130, 143}
    BY <1>a DEF ExitCode
  <2> QED
    BY <1>11, <1>a, <2>1 DEF Exit
<1>12. CASE StatsPrint
  <2>1. printed' \in [Range(Counters) -> Nat] /\ snap' \in [Range(Counters) -> Nat]
    BY <1>12, <1>a DEF StatsPrint, Zero
  <2> QED
    BY <1>12, <1>a, <2>1 DEF StatsPrint
<1>13. CASE StatsEnds
  BY <1>13, <1>a DEF StatsEnds, StatsStop
<1>14. ASSUME NEW i \in DOMAIN Counters, StatsSwap(i) PROVE RunTypes'
  <2>1. Window[Counters[i]] \in Nat
    BY <1>14, <1>0, SwapTypes
  <2>2. snap' \in [Range(Counters) -> Nat]
    BY <1>14, <1>a, <2>1 DEF StatsSwap
  <2>3. spc' \in {"tick", "dropped", "muxDropped", "print", "stopped"}
    BY <1>14, CounterNames DEF StatsSwap
  <2> QED
    BY <1>14, <1>a, <2>2, <2>3 DEF StatsSwap
<1>15. ASSUME NEW t \in Tasks, AbortTask(t) PROVE RunTypes'
  BY <1>15, <1>a DEF AbortTask, StatsStop
<1>16. ASSUME NEW h \in Helpers, HelperEnds(h) PROVE RunTypes'
  BY <1>16, <1>a DEF HelperEnds
<1>17. ASSUME NEW r \in Signals, Signal(r) PROVE RunTypes'
  BY <1>17, <1>a, RunAssumption DEF Signal
<1>18. CASE SignalCancel
  BY <1>18, <1>a DEF SignalCancel
<1>19. CASE LimitNotify
  BY <1>19, <1>a DEF LimitNotify
<1>20. CASE LimitCancel
  BY <1>20, <1>a DEF LimitCancel
<1>21. CASE UNCHANGED allVars
  BY <1>21, <1>a
<1> QED
  BY <1>1, <1>2, <1>3, <1>4, <1>5, <1>6, <1>7, <1>8, <1>9, <1>10, <1>11, <1>12, <1>13, <1>14, <1>15, <1>16,
     <1>17, <1>18, <1>19, <1>20, <1>21 DEF RunNext, RunStep, StatsStep

\* Whoever moves, either the reporter's windows stay as they are and the counters move
\* as LineFlow moves them, or the counters move within the same total.
LEMMA TotalStep ==
  ASSUME IInv, RunTypeOK, SnapInv, [RunNext]_allVars
  PROVE  /\ SnapInv'
         /\ \/ [Next]_vars /\ UNCHANGED <<snap, printed>>
            \/ /\ UNCHANGED <<state, streams, mpc, mrow, raw, fpc, frow, ticking, runTx, renderq, render>>
               /\ \A c \in Range(Counters) : Total(c)' = Total(c)
<1> DEFINE Goal == \/ [Next]_vars /\ UNCHANGED <<snap, printed>>
                   \/ /\ UNCHANGED <<state, streams, mpc, mrow, raw, fpc, frow, ticking, runTx, renderq, render>>
                      /\ \A c \in Range(Counters) : Total(c)' = Total(c)
<1>a. /\ snap \in [{"forwarded", "dropped", "muxDropped"} -> Nat]
      /\ printed \in [{"forwarded", "dropped", "muxDropped"} -> Nat]
      /\ forwarded \in Nat /\ dropped \in Nat /\ muxDropped \in Nat
  BY CounterNames DEF RunTypeOK, IInv, TypeOK
<1>1. ASSUME NEW i \in DOMAIN Counters, StatsSwap(i) PROVE SnapInv' /\ Goal
  <2>0. UNCHANGED <<state, streams, mpc, mrow, raw, fpc, frow, ticking, runTx, renderq, render>>
        /\ UNCHANGED printed
    BY <1>1, SwapLeaves DEF StatsSwap
  <2> SUFFICES SnapInv' /\ \A c \in {"forwarded", "dropped", "muxDropped"} : Total(c)' = Total(c)
    BY <2>0, CounterNames
  <2>1. CASE i = 1
    BY <1>1, <1>a, <2>0, <2>1, CounterNames DEF StatsSwap, SetWindow, Window, SnapInv, Total
  <2>2. CASE i = 2
    BY <1>1, <1>a, <2>0, <2>2, CounterNames DEF StatsSwap, SetWindow, Window, SnapInv, Total
  <2>3. CASE i = 3
    BY <1>1, <1>a, <2>0, <2>3, CounterNames DEF StatsSwap, SetWindow, Window, SnapInv, Total
  <2> QED
    BY <2>1, <2>2, <2>3, CounterNames
<1>2. CASE StatsPrint
  <2>1. /\ \A c \in {"forwarded", "dropped", "muxDropped"} :
             printed'[c] = printed[c] + snap[c] /\ snap'[c] = 0
        /\ UNCHANGED <<vars, Window>> /\ spc' = "tick"
    BY <1>2, CounterNames DEF StatsPrint, Zero, Window
  <2>2. \A c \in {"forwarded", "dropped", "muxDropped"} : Window[c] \in Nat
    BY <1>a DEF Window
  <2>3. \A c \in {"forwarded", "dropped", "muxDropped"} : Total(c)' = Total(c)
    BY <1>a, <2>1, <2>2 DEF Total
  <2> QED
    BY <2>1, <2>3, CounterNames DEF SnapInv
<1>3. CASE UNCHANGED <<snap, printed, spc>>
  <2>1. CASE [Next]_vars
    BY <1>3, <2>1 DEF SnapInv
  <2>2. CASE \E i \in DOMAIN Counters : StatsSwap(i)
    BY <1>1, <2>2
  <2> QED
    BY <2>1, <2>2, RunSteps
<1>4. CASE StatsStop /\ UNCHANGED vars
  BY <1>4 DEF StatsStop, SnapInv
<1>5. ASSUME NEW t \in Tasks, AbortTask(t) PROVE SnapInv' /\ Goal
  BY <1>3, <1>4, <1>5 DEF AbortTask
<1>6. CASE StatsEnds
  BY <1>4, <1>6 DEF StatsEnds
<1>7. CASE RunStep
  BY <1>3, <1>7 DEF RunStep, PollLimit, PollCancelled, PipelineEnded, CancelledFirst, Joined,
     JoinTimeout, AbortTimeout, TellRender, DropTx, Exit
<1> QED
  BY <1>1, <1>2, <1>3, <1>5, <1>6, <1>7
     DEF RunNext, StatsStep, HelperEnds, Signal, SignalCancel, LimitNotify, LimitCancel

(***************************************************************************)
(* What run knows from its joins.                                          *)
(***************************************************************************)
\* The token stays cancelled, and a task that ended stays as it ended.
LEMMA Sticky ==
  ASSUME IInv, [RunNext]_allVars
  PROVE  /\ cancelled => cancelled'
         /\ ForwardStopped => fpc' = fpc /\ ForwardStopped'
         /\ RenderStopped => rpc' = rpc /\ RenderStopped'
<1>1. CASE [Next]_vars
  <2>1. cancelled => cancelled'
    BY <1>1 DEF IInv, TypeOK, Next, MuxStep, MuxCancelled, MuxClosed, MuxRow, MuxSend, StreamEnds, ForwardStep,
       Pull, PollPending, ForwardSend, ForwardCancelled, ForwardEnd, FlushTick, TickerStop, RenderStep,
       RenderRecv, RenderClosed, RenderCmd, Write, Flushed, Fault, ForwardPanic, RenderFail,
       CancelRoot, SendShutdown, DropRenderTx, Abort, AbortMux, AbortForward, AbortRender
  <2>2. ForwardStopped => fpc' = fpc
    BY <1>1 DEF Next, MuxStep, MuxCancelled, MuxClosed, MuxRow, MuxSend, StreamEnds, ForwardStep,
       Pull, NextPolled, PollPending, ForwardSend, ForwardCancelled, ForwardEnd, FlushTick, TickerStop,
       RenderStep, RenderRecv, RenderClosed, RenderCmd, Write, Flushed, Fault, ForwardPanic, RenderFail,
       CancelRoot, SendShutdown, DropRenderTx, Abort, AbortMux, AbortForward, AbortRender, ForwardStopped
  <2>3. RenderStopped => rpc' = rpc
    BY <1>1 DEF Next, MuxStep, MuxCancelled, MuxClosed, MuxRow, MuxSend, StreamEnds, ForwardStep,
       Pull, PollPending, ForwardSend, ForwardCancelled, ForwardEnd, FlushTick, TickerStop,
       RenderStep, RenderRecv, RenderClosed, RenderCmd, Write, Flushed, Fault, ForwardPanic, RenderFail,
       CancelRoot, SendShutdown, DropRenderTx, Abort, AbortMux, AbortForward, AbortRender, RenderStopped
  <2> QED
    BY <2>1, <2>2, <2>3 DEF ForwardStopped, RenderStopped
<1>2. ASSUME NEW i \in DOMAIN Counters, StatsSwap(i) PROVE UNCHANGED <<cancelled, fpc, rpc>>
  BY <1>2, SwapLeaves
<1> QED
  BY <1>1, <1>2, RunSteps DEF ForwardStopped, RenderStopped

LEMMA JoinStep ==
  ASSUME IInv, RunTypeOK, JoinInv, [RunNext]_allVars
  PROVE  JoinInv'
<1>a. /\ cancelled => cancelled'
      /\ ForwardStopped => fpc' = fpc /\ ForwardStopped'
      /\ RenderStopped => rpc' = rpc /\ RenderStopped'
  BY Sticky
<1>b. at \in 1..(Len(Steps) + 1) /\ Len(Steps) \in Nat
  BY StepsFacts DEF RunTypeOK
<1>c. at = 1 => \A u : ~Past(u)
  BY <1>b, PastPipeline
<1>1. CASE runpc # "exited" /\ UNCHANGED <<runpc, at, aborted, left, pipeErr, pipeJoined, code>>
  <2>1. \A u : Past(u)' <=> Past(u)
    BY <1>1, PastSame
  <2> QED
    BY <1>1, <1>a, <2>1 DEF JoinInv
<1>2. CASE runpc = "wait" /\ runpc' \in {"join", "polled"} /\ UNCHANGED <<at, aborted, left, code>>
           /\ (runpc' = "join" => cancelled')
           /\ (pipeJoined' => ForwardStopped /\ (fpc = "panicked" => pipeErr'))
  <2>1. \A u : ~Past(u)'
    BY <1>2, <1>c, PastSame DEF JoinInv
  <2> QED
    BY <1>2, <1>a, <2>1 DEF JoinInv
<1>3. Cancel => cancelled'
  BY <1>a DEF Cancel, CancelRoot
<1>4. CASE PollLimit
  BY <1>2, <1>3, <1>4 DEF PollLimit, JoinInv
<1>5. CASE PollCancelled
  <2>1. \A u : Past(u)' <=> Past(u)
    BY <1>5, PastSame DEF PollCancelled
  <2> QED
    BY <1>5, <1>a, <2>1 DEF PollCancelled, JoinInv
<1>6. CASE PipelineEnded
  BY <1>2, <1>3, <1>6 DEF PipelineEnded
<1>7. CASE CancelledFirst
  BY <1>2, <1>7 DEF CancelledFirst, JoinInv
<1>8. ASSUME NEW t, AtTask(t), at' = at + 1, t # "pipeline", t # "render",
             UNCHANGED <<runpc, aborted, left, pipeErr, pipeJoined, code>>
      PROVE  JoinInv'
  <2>1. \A u : Past(u)' <=> Past(u) \/ u = t
    BY <1>8, <1>b, PastNext
  <2> QED
    BY <1>8, <1>a, <2>1 DEF JoinInv, AtTask
<1>9. ASSUME NEW t \in Tasks, Joined(t) PROVE JoinInv'
  <2>1. \A u : Past(u)' <=> Past(u) \/ u = t
    BY <1>9, <1>b, PastNext DEF Joined
  <2>2. t = "pipeline" => ForwardStopped
    BY <1>9 DEF Joined, Finished
  <2>3. t = "render" => RenderStopped
    BY <1>9 DEF Joined, Finished
  <2>4. fpc' = "panicked" /\ t = "pipeline" => pipeErr'
    BY <1>9, <1>a, <2>2 DEF Joined, JoinInv
  <2>5. pipeErr => pipeErr'
    BY <1>9 DEF Joined, RunTypeOK
  <2> QED
    BY <1>9, <1>a, <2>1, <2>2, <2>3, <2>4, <2>5 DEF Joined, JoinInv, AtTask
<1>10. ASSUME NEW t \in Tasks, JoinTimeout(t) PROVE JoinInv'
  <2>1. \A u : Past(u)' <=> Past(u)
    BY <1>10, PastSame DEF JoinTimeout
  <2>2. aborted' # {}
    BY <1>10 DEF JoinTimeout
  <2> QED
    BY <1>10, <1>a, <2>1, <2>2 DEF JoinTimeout, JoinInv, AtTask
<1>11. ASSUME NEW t \in Tasks, AbortTimeout(t) PROVE JoinInv'
  <2>1. \A u : Past(u)' <=> Past(u) \/ u = t
    BY <1>11, <1>b, PastNext DEF AbortTimeout
  <2>2. aborted' # {} /\ (left' = (left \/ t = "pipeline"))
    BY <1>11 DEF AbortTimeout
  <2> QED
    BY <1>11, <1>a, <2>1, <2>2 DEF AbortTimeout, JoinInv, AtTask
<1>12. CASE TellRender
  BY <1>8, <1>12 DEF TellRender
<1>13. CASE DropTx
  BY <1>8, <1>13 DEF DropTx
<1>14. CASE Exit
  <2>1. \A u : Past(u)' <=> Past(u)
    BY <1>14, PastSame DEF Exit
  <2>2. at = Len(Steps) + 1
    BY <1>14, <1>b DEF Exit
  <2>3. ExitCode' = ExitCode
    BY <1>14 DEF Exit, ExitCode
  <2> QED
    BY <1>14, <1>a, <2>1, <2>2, <2>3 DEF Exit, JoinInv
<1>15. CASE UNCHANGED allVars
  <2>1. \A u : Past(u)' <=> Past(u)
    BY <1>15, PastSame
  <2>2. ExitCode' = ExitCode
    BY <1>15 DEF ExitCode
  <2> QED
    BY <1>15, <1>a, <2>1, <2>2 DEF JoinInv
<1>16. CASE RunStep
  BY <1>4, <1>5, <1>6, <1>7, <1>9, <1>10, <1>11, <1>12, <1>13, <1>14, <1>16 DEF RunStep
<1>17. CASE RunNext /\ StatsStep
  BY <1>1, <1>17 DEF RunNext, StatsStep, StatsPrint, StatsEnds, StatsSwap
<1>18. CASE RunNext /\ \E t \in Tasks : AbortTask(t)
  BY <1>1, <1>18 DEF RunNext, AbortTask
<1> QED
  BY <1>1, <1>15, <1>16, <1>17, <1>18
     DEF RunNext, HelperEnds, Signal, SignalCancel, LimitNotify, LimitCancel

(***************************************************************************)
(* Shutdown is the last word.                                              *)
(***************************************************************************)
LEMMA QueueTail ==
  ASSUME NEW q \in Seq(Commands), q # <<>>
  PROVE  /\ HasShutdown(Tail(q)) => HasShutdown(q)
         /\ ShutdownLast(q) => ShutdownLast(Tail(q))
         /\ NoLines(q) => NoLines(Tail(q))
         /\ ShutdownLast(q) /\ Head(q) = Shutdown => NoLines(Tail(q))
<1>1. \A i \in DOMAIN Tail(q) : i \in Nat /\ i + 1 \in DOMAIN q /\ Tail(q)[i] = q[i + 1] /\ 1 < i + 1
  OBVIOUS
<1>2. \A i, j \in DOMAIN Tail(q) : i < j => i + 1 < j + 1
  BY <1>1
<1>3. 1 \in DOMAIN q /\ Head(q) = q[1]
  OBVIOUS
<1> QED
  BY <1>1, <1>2, <1>3 DEF HasShutdown, ShutdownLast, NoLines

LEMMA QueueAppend ==
  ASSUME NEW q \in Seq(Commands), NEW x \in Commands
  PROVE  /\ HasShutdown(Append(q, x)) => HasShutdown(q) \/ x = Shutdown
         /\ ShutdownLast(q) /\ (x \in Lines => ~HasShutdown(q)) => ShutdownLast(Append(q, x))
         /\ NoLines(q) /\ x \notin Lines => NoLines(Append(q, x))
<1> DEFINE r == Append(q, x)
<1>1. \A i \in DOMAIN r : \/ i \in DOMAIN q /\ i \in 1..Len(q) /\ r[i] = q[i]
                          \/ i = Len(q) + 1 /\ r[i] = x
  BY AppendProperties
<1>2. \A i, j \in DOMAIN r : i < j => i \in DOMAIN q /\ r[i] = q[i]
  <2>1. Len(q) \in Nat /\ DOMAIN r = 1..(Len(q) + 1)
    BY AppendProperties
  <2> QED
    BY <1>1, <2>1
<1> HIDE DEF r
<1>3. HasShutdown(r) => HasShutdown(q) \/ x = Shutdown
  BY <1>1 DEF HasShutdown
<1>4. ShutdownLast(q) /\ (x \in Lines => ~HasShutdown(q)) => ShutdownLast(r)
  BY <1>1, <1>2 DEF ShutdownLast, HasShutdown
<1>5. NoLines(q) /\ x \notin Lines => NoLines(r)
  BY <1>1 DEF NoLines
<1> QED
  BY <1>3, <1>4, <1>5 DEF r

LEMMA TailConcat ==
  ASSUME NEW p \in Seq(Commands), NEW q \in Seq(Commands), p # <<>>
  PROVE  /\ p \o q \in Seq(Commands) /\ p \o q # <<>>
         /\ Tail(p \o q) = Tail(p) \o q /\ Head(p \o q) = Head(p)
<1>1. /\ p \o q \in Seq(Commands) /\ Len(p \o q) = Len(p) + Len(q)
      /\ \A i \in 1..(Len(p) + Len(q)) : (p \o q)[i] = IF i <= Len(p) THEN p[i] ELSE q[i - Len(p)]
  BY ConcatProperties
<1>2. Len(p) \in Nat /\ Len(q) \in Nat /\ Len(p) > 0
  OBVIOUS
<1>3. p \o q # <<>> /\ (p \o q)[1] = p[1]
  BY <1>1, <1>2
<1>4. Head(p \o q) = Head(p)
  BY <1>1, <1>3
<1>5. /\ Tail(p) \in Seq(Commands) /\ Len(Tail(p)) = Len(p) - 1
      /\ \A i \in 1..(Len(p) - 1) : Tail(p)[i] = p[i + 1]
  BY HeadTailProperties
<1>6. /\ Tail(p \o q) \in Seq(Commands) /\ Len(Tail(p \o q)) = Len(p) + Len(q) - 1
      /\ \A i \in 1..(Len(p) + Len(q) - 1) : Tail(p \o q)[i] = (p \o q)[i + 1]
  BY <1>1, <1>3, HeadTailProperties
<1>7. /\ Tail(p) \o q \in Seq(Commands) /\ Len(Tail(p) \o q) = Len(Tail(p)) + Len(q)
      /\ \A i \in 1..(Len(Tail(p)) + Len(q)) :
           (Tail(p) \o q)[i] = IF i <= Len(Tail(p)) THEN Tail(p)[i] ELSE q[i - Len(Tail(p))]
  BY <1>5, ConcatProperties
<1>8. Len(Tail(p \o q)) = Len(Tail(p) \o q)
  BY <1>2, <1>5, <1>6, <1>7
<1>9. \A i \in 1..Len(Tail(p \o q)) : Tail(p \o q)[i] = (Tail(p) \o q)[i]
  <2> TAKE i \in 1..Len(Tail(p \o q))
  <2>1. i \in 1..(Len(p) + Len(q) - 1)
    BY <1>6
  <2>2. CASE i <= Len(p) - 1
    BY <1>1, <1>2, <1>5, <1>6, <1>7, <2>1, <2>2
  <2>3. CASE ~(i <= Len(p) - 1)
    <3>1. Tail(p \o q)[i] = q[i + 1 - Len(p)]
      BY <1>1, <1>2, <1>6, <2>1, <2>3
    <3>2. (Tail(p) \o q)[i] = q[i - (Len(p) - 1)]
      BY <1>2, <1>5, <1>7, <2>1, <2>3
    <3>3. i + 1 - Len(p) = i - (Len(p) - 1)
      BY <1>2, <2>1
    <3> QED
      BY <3>1, <3>2, <3>3
  <2> QED
    BY <2>2, <2>3
<1>10. Tail(p \o q) = Tail(p) \o q
  BY <1>6, <1>7, <1>8, <1>9, SeqEqual
<1> QED
  BY <1>1, <1>3, <1>4, <1>10

\* Run's part in the path, and the steps the path takes by itself.
PathMove == PathStep \/ Abort \/ CancelRoot \/ DropRenderTx \/ UNCHANGED vars

LEMMA QueueMoves ==
  ASSUME TypeOK, TypeOK', HandsInv, PathMove
  PROVE  /\ \/ /\ Queue' = Queue
               /\ rpc' \in {"final", "stopped"} =>
                    rpc \in {"final", "stopped"} \/ (ForwardStopped /\ Queue = <<>>)
            \/ /\ Queue # <<>> /\ Queue' = Tail(Queue)
               /\ rpc = "write" /\ (rpc' \in {"final", "stopped"} => Head(Queue) = Shutdown)
            \/ \E x \in Lines \cup {Flush} :
                 Queue' = Append(Queue, x) /\ (x \in Lines => ~ForwardStopped) /\ rpc' = rpc
            \/ Queue' = <<>> /\ (rpc' \in {"final", "stopped"} => rpc = "final")
         /\ rpc' = "stopped" => \/ rpc = "stopped" /\ UNCHANGED <<buf, batch, renderq>>
                                \/ buf' = <<>> /\ batch' = <<>> /\ renderq' = <<>>
<1> DEFINE Same == Queue' = Queue /\ rpc' = rpc
           Ends == rpc' = "stopped" => \/ rpc = "stopped" /\ UNCHANGED <<buf, batch, renderq>>
                                       \/ buf' = <<>> /\ batch' = <<>> /\ renderq' = <<>>
           Adds(x) == Queue' = Append(Queue, x) /\ (x \in Lines => ~ForwardStopped) /\ rpc' = rpc
<1>a. /\ batch \in Seq(Commands) /\ renderq \in Seq(Commands) /\ Queue \in Seq(Commands)
      /\ raw \in Seq(Lines)
  BY PathType, ConcatProperties DEF Queue, TypeOK
<1>b. ASSUME NEW x \in Commands, renderq' = Append(renderq, x), batch' = batch
      PROVE  Queue' = Append(Queue, x)
  BY <1>a, <1>b, AppendConcat DEF Queue
<1>c. ASSUME UNCHANGED <<batch, renderq, rpc, buf>> PROVE Same /\ Ends
  BY <1>c DEF Queue
<1>1. CASE MuxStep
  BY <1>1, <1>c DEF MuxStep, MuxCancelled, MuxClosed, MuxSend, MuxRow, StreamEnds
<1>2. CASE Pull
  <2>1. UNCHANGED <<batch, rpc, buf, out>> /\ Head(raw) \in Lines /\ ~ForwardStopped
    BY <1>2, <1>a DEF Pull, NextPolled, ForwardStopped
  <2>2. CASE renderq' = renderq
    BY <1>c, <2>1, <2>2
  <2>3. CASE renderq' = Append(renderq, Head(raw)) /\ ~RenderStopped
    <3>1. Adds(Head(raw))
      BY <1>b, <2>1, <2>3, CommandFacts
    <3>2. Ends
      BY <2>1, <2>3 DEF RenderStopped
    <3> HIDE DEF Adds
    <3> QED
      BY <2>1, <3>1, <3>2 DEF Adds
  <2> QED
    BY <1>2, <2>2, <2>3 DEF Pull, Deliver, Forwarded
<1>3. CASE ForwardSend
  <2>1. UNCHANGED <<batch, rpc, buf, out>> /\ frow \in Lines /\ ~ForwardStopped
    BY <1>3 DEF ForwardSend, HandsInv, TypeOK, ForwardStopped
  <2>2. CASE renderq' = renderq
    BY <1>c, <2>1, <2>2
  <2>3. CASE renderq' = Append(renderq, frow) /\ ~RenderStopped
    <3>1. Adds(frow)
      BY <1>b, <2>1, <2>3, CommandFacts
    <3>2. Ends
      BY <2>1, <2>3 DEF RenderStopped
    <3> HIDE DEF Adds
    <3> QED
      BY <2>1, <3>1, <3>2 DEF Adds
  <2> QED
    BY <1>3, <2>2, <2>3 DEF ForwardSend, Forwarded
<1>4. CASE FlushTick
  <2>1. UNCHANGED <<batch, rpc, buf, out>> /\ renderq' = Append(renderq, Flush) /\ ~RenderStopped
    BY <1>4 DEF FlushTick
  <2>2. Adds(Flush)
    BY <1>b, <2>1, CommandFacts
  <2>3. Ends
    BY <2>1 DEF RenderStopped
  <2> HIDE DEF Adds
  <2> QED
    BY <2>1, <2>2, <2>3 DEF Adds
<1>5. CASE RenderRecv
  <2>3. batch' \o renderq' = renderq
    BY <1>5, RecvSplits
  <2>4. batch = <<>> /\ <<>> \o renderq = renderq
    BY <1>5, <1>a, ConcatEmptySeq DEF HandsInv, RenderRecv
  <2>5. Queue' = Queue /\ rpc' = "write"
    BY <1>5, <2>3, <2>4, Zenon DEF Queue, RenderRecv
  <2> QED
    BY <2>5
<1>6. CASE RenderClosed
  <2>1. batch = <<>> /\ renderq = <<>> /\ ForwardStopped /\ rpc' = "final" /\ UNCHANGED <<batch, renderq>>
    BY <1>6 DEF RenderClosed, RenderSendersGone, HandsInv
  <2>2. Queue = <<>> /\ Queue' = Queue
    BY <2>1, <1>a, ConcatEmptySeq DEF Queue
  <2> QED
    BY <2>1, <2>2
<1>7. CASE RenderCmd
  <2>1. rpc = "write" /\ renderq' = renderq
    BY <1>7 DEF RenderCmd
  <2>2. CASE batch = <<>>
    BY <1>7, <2>1, <2>2 DEF RenderCmd, Queue
  <2>3. CASE batch # <<>>
    <3>1. batch' = Tail(batch) /\ (rpc' \in {"final", "stopped"} => Head(batch) \notin Lines \cup {Flush})
      BY <1>7, <2>3 DEF RenderCmd
    <3>2. Head(batch) \in Commands
      BY <1>a, <2>3
    <3>3. Queue # <<>> /\ Queue' = Tail(Queue) /\ Head(Queue) = Head(batch)
      BY <1>a, <2>1, <2>3, <3>1, TailConcat DEF Queue
    <3>4. rpc' # "stopped"
      BY <1>7 DEF RenderCmd
    <3> QED
      BY <2>1, <3>1, <3>2, <3>3, <3>4 DEF Commands
  <2> QED
    BY <2>2, <2>3
<1>8. CASE Write
  BY <1>8 DEF Write, Queue
<1>9. CASE Flushed
  <2>1. CASE rpc = "flush"
    BY <1>9, <2>1 DEF Flushed, Queue
  <2>2. CASE rpc = "final"
    <3>1. buf' = <<>> /\ batch' = <<>> /\ renderq' = <<>>
      BY <1>9, <2>2 DEF Flushed
    <3>2. Queue' = <<>>
      BY <3>1, <1>a, ConcatEmptySeq DEF Queue
    <3> QED
      BY <2>2, <3>1, <3>2
  <2> QED
    BY <1>9, <2>1, <2>2 DEF Flushed
<1>10. CASE RenderGone
  <2>1. Queue' = <<>>
    BY <1>10, <1>a, ConcatEmptySeq DEF Queue, RenderGone
  <2> QED
    BY <1>10, <2>1 DEF RenderGone
<1>11. CASE PollPending \/ ForwardCancelled \/ ForwardEnd \/ ForwardPanic \/ AbortForward
  BY <1>11, <1>c DEF PollPending, ForwardCancelled, ForwardEnd, ForwardPanic, AbortForward
<1>12. CASE TickerStop \/ CancelRoot \/ DropRenderTx \/ AbortMux \/ UNCHANGED vars
  BY <1>12, <1>c DEF TickerStop, CancelRoot, DropRenderTx, AbortMux
<1> QED
  BY <1>1, <1>2, <1>3, <1>4, <1>5, <1>6, <1>7, <1>8, <1>9, <1>10, <1>11, <1>12
     DEF PathMove, PathStep, ForwardStep, RenderStep, Fault, RenderFail, Abort, AbortRender

LEMMA RunMoves ==
  ASSUME RunTypeOK, [RunNext]_allVars
  PROVE  /\ \/ PathMove
            \/ SendShutdown /\ AtTask("Shutdown") /\ at' = at + 1 /\ left' = left
            \/ \E i \in DOMAIN Counters : StatsSwap(i)
         /\ at' = at \/ \E t : AtTask(t) /\ at' = at + 1
         /\ left => left'
<1>2. Cancel => PathMove
  BY DEF Cancel, PathMove
<1>1. CASE PathStep /\ UNCHANGED runVars
  BY <1>1 DEF PathMove
<1>3. CASE PollLimit
  BY <1>2, <1>3 DEF PollLimit, PathMove
<1>4. CASE PollCancelled
  BY <1>4 DEF PollCancelled, PathMove
<1>5. CASE PipelineEnded
  BY <1>2, <1>5 DEF PipelineEnded
<1>6. CASE CancelledFirst
  BY <1>6 DEF CancelledFirst, PathMove
<1>7. ASSUME NEW t \in Tasks, Joined(t)
      PROVE  PathMove /\ AtTask(t) /\ at' = at + 1 /\ left' = left
  BY <1>7 DEF Joined, PathMove
<1>8. ASSUME NEW t \in Tasks, JoinTimeout(t) PROVE PathMove /\ at' = at /\ left' = left
  BY <1>8 DEF JoinTimeout, PathMove
<1>9. ASSUME NEW t \in Tasks, AbortTimeout(t)
      PROVE  PathMove /\ AtTask(t) /\ at' = at + 1 /\ (left => left')
  BY <1>9 DEF AbortTimeout, PathMove, RunTypeOK
<1>10. CASE TellRender
  BY <1>10 DEF TellRender, PathMove
<1>11. CASE DropTx
  BY <1>11 DEF DropTx, PathMove
<1>12. CASE Exit
  BY <1>12 DEF Exit, PathMove
<1>13. CASE StatsPrint
  BY <1>13 DEF StatsPrint, PathMove
<1>14. CASE StatsEnds
  BY <1>14 DEF StatsEnds, PathMove
<1>15. ASSUME NEW t \in Tasks, AbortTask(t) PROVE PathMove /\ at' = at /\ left' = left
  BY <1>15 DEF AbortTask, PathMove, PathStep, Abort
<1>16. ASSUME NEW h \in Helpers, HelperEnds(h) PROVE PathMove /\ at' = at /\ left' = left
  BY <1>16 DEF HelperEnds, PathMove
<1>17. ASSUME NEW r \in Signals, Signal(r) PROVE PathMove /\ at' = at /\ left' = left
  BY <1>17 DEF Signal, PathMove
<1>18. CASE SignalCancel
  BY <1>2, <1>18 DEF SignalCancel
<1>19. CASE LimitNotify
  BY <1>19 DEF LimitNotify, PathMove
<1>20. CASE LimitCancel
  BY <1>2, <1>20 DEF LimitCancel
<1>21. CASE UNCHANGED allVars
  BY <1>21 DEF PathMove
<1>22. ASSUME NEW i \in DOMAIN Counters, StatsSwap(i) PROVE at' = at /\ left' = left
  BY <1>22 DEF StatsSwap
<1> QED
  BY <1>1, <1>3, <1>4, <1>5, <1>6, <1>7, <1>8, <1>9, <1>10, <1>11, <1>12, <1>13, <1>14, <1>15, <1>16,
     <1>17, <1>18, <1>19, <1>20, <1>21, <1>22 DEF RunNext, RunStep, StatsStep

LEMMA LastWordStep ==
  ASSUME IInv, RunTypeOK, JoinInv, LastWordInv, [RunNext]_allVars
  PROVE  LastWordInv'
<1>a. TypeOK /\ TypeOK' /\ HandsInv
  BY IInvStep DEF IInv
<1>b. /\ ForwardStopped => ForwardStopped'
      /\ Past("Shutdown") => Past("Shutdown")'
      /\ ~left' => ~left
  <2>1. at \in 1..(Len(Steps) + 1)
    BY DEF RunTypeOK
  <2> QED
    BY <2>1, Sticky, RunMoves, PastSame, PastNext
<1>c. HasShutdown(Queue) /\ ~left => ForwardStopped
  BY PastPipeline DEF LastWordInv, JoinInv, RunTypeOK
<1>d. Queue \in Seq(Commands)
  BY <1>a, PathType, ConcatProperties DEF Queue
<1>e. /\ HasShutdown(Queue) => Past("Shutdown")
      /\ rpc = "stopped" => buf = <<>> /\ batch = <<>> /\ renderq = <<>>
      /\ rpc \in {"final", "stopped"} /\ ~left => ForwardStopped /\ NoLines(Queue)
      /\ ~left => ShutdownLast(Queue)
  BY DEF LastWordInv
<1>f. NoLines(<<>>) /\ ShutdownLast(<<>>) /\ ~HasShutdown(<<>>)
  BY DEF NoLines, ShutdownLast, HasShutdown
<1> DEFINE Inv == /\ HasShutdown(Queue') => Past("Shutdown")'
                  /\ rpc' \in {"final", "stopped"} /\ ~left' => ForwardStopped' /\ NoLines(Queue')
                  /\ ~left' => ShutdownLast(Queue')
<1>1. CASE PathMove
  <2>1. rpc' = "stopped" => buf' = <<>> /\ batch' = <<>> /\ renderq' = <<>>
    BY <1>1, <1>a, <1>e, QueueMoves
  <2>2. CASE /\ Queue' = Queue
             /\ rpc' \in {"final", "stopped"} =>
                  rpc \in {"final", "stopped"} \/ (ForwardStopped /\ Queue = <<>>)
    <3>1. Inv
      BY <1>b, <1>e, <1>f, <2>2
    <3> QED
      BY <2>1, <3>1 DEF LastWordInv, HasShutdown, NoLines, ShutdownLast
  <2>3. CASE /\ Queue # <<>> /\ Queue' = Tail(Queue)
             /\ rpc = "write" /\ (rpc' \in {"final", "stopped"} => Head(Queue) = Shutdown)
    <3>1. Head(Queue) = Shutdown => HasShutdown(Queue)
      BY <1>d, <2>3 DEF HasShutdown
    <3>2. /\ HasShutdown(Tail(Queue)) => HasShutdown(Queue)
          /\ ShutdownLast(Queue) => ShutdownLast(Tail(Queue))
          /\ ShutdownLast(Queue) /\ Head(Queue) = Shutdown => NoLines(Tail(Queue))
      BY <1>d, <2>3, QueueTail
    <3>3. Inv
      BY <1>b, <1>c, <1>e, <2>3, <3>1, <3>2
    <3> QED
      BY <2>1, <3>3 DEF LastWordInv, HasShutdown, NoLines, ShutdownLast
  <2>4. ASSUME NEW x \in Lines \cup {Flush},
               Queue' = Append(Queue, x), x \in Lines => ~ForwardStopped, rpc' = rpc
        PROVE  LastWordInv'
    <3>1. x \in Commands /\ x # Shutdown
      BY CommandFacts
    <3>2. /\ HasShutdown(Append(Queue, x)) => HasShutdown(Queue)
          /\ ShutdownLast(Queue) /\ (x \in Lines => ~HasShutdown(Queue)) => ShutdownLast(Append(Queue, x))
          /\ NoLines(Queue) /\ x \notin Lines => NoLines(Append(Queue, x))
      BY <1>d, <3>1, QueueAppend
    <3>3. Inv
      BY <1>b, <1>c, <1>e, <2>4, <3>2
    <3> QED
      BY <2>1, <3>3 DEF LastWordInv, HasShutdown, NoLines, ShutdownLast
  <2>5. CASE Queue' = <<>> /\ (rpc' \in {"final", "stopped"} => rpc = "final")
    <3>1. Inv
      BY <1>b, <1>e, <1>f, <2>5
    <3> QED
      BY <2>1, <3>1 DEF LastWordInv, HasShutdown, NoLines, ShutdownLast
  <2> QED
    BY <1>1, <1>a, <2>2, <2>3, <2>4, <2>5, QueueMoves
<1>2. CASE SendShutdown /\ AtTask("Shutdown") /\ at' = at + 1 /\ left' = left
  <2>1. UNCHANGED <<batch, buf, rpc>> /\ renderq' = Append(renderq, Shutdown) /\ ~RenderStopped
    BY <1>2 DEF SendShutdown
  <2>2. Queue' = Append(Queue, Shutdown)
    <3>1. batch \in Seq(Commands) /\ renderq \in Seq(Commands) /\ Shutdown \in Commands
      BY <1>a, PathType, CommandFacts
    <3> QED
      BY <2>1, <3>1, AppendConcat DEF Queue
  <2>3. Past("Shutdown")' /\ (~left => ForwardStopped)
    BY <1>2, PastNext, PastPipeline DEF RunTypeOK, JoinInv
  <2>4. /\ ShutdownLast(Queue) => ShutdownLast(Append(Queue, Shutdown))
        /\ NoLines(Queue) => NoLines(Append(Queue, Shutdown))
    BY <1>d, CommandFacts, QueueAppend
  <2>5. Inv
    BY <1>2, <1>b, <1>e, <2>1, <2>2, <2>3, <2>4
  <2> QED
    BY <2>1, <2>5 DEF LastWordInv, HasShutdown, NoLines, ShutdownLast, RenderStopped
<1>3. ASSUME NEW i \in DOMAIN Counters, StatsSwap(i) PROVE LastWordInv'
  <2>1. UNCHANGED <<batch, renderq, rpc, buf>> /\ Queue' = Queue
    BY <1>3, SwapLeaves DEF Queue
  <2>2. Inv
    BY <1>b, <1>e, <2>1
  <2> QED
    BY <1>e, <2>1, <2>2 DEF LastWordInv, HasShutdown, NoLines, ShutdownLast
<1> QED
  BY <1>1, <1>2, <1>3, RunMoves

(***************************************************************************)
(* Lines that reached the render channel.                                  *)
(***************************************************************************)
LEMMA SortedConcat ==
  ASSUME NEW p \in Seq(Commands), NEW q \in Seq(Commands), Sorted(p \o q)
  PROVE  Sorted(p) /\ Range(p) \cap Range(q) \cap Lines = {}
<1>1. /\ Len(p \o q) = Len(p) + Len(q) /\ p \o q \in Seq(Commands)
      /\ \A i \in 1..(Len(p) + Len(q)) : (p \o q)[i] = IF i <= Len(p) THEN p[i] ELSE q[i - Len(p)]
  BY ConcatProperties
<1>2. Len(p) \in Nat /\ Len(q) \in Nat /\ DOMAIN (p \o q) = 1..(Len(p) + Len(q))
      /\ DOMAIN p = 1..Len(p) /\ DOMAIN q = 1..Len(q)
  BY <1>1
<1>3. \A i \in DOMAIN p : i \in DOMAIN (p \o q) /\ (p \o q)[i] = p[i]
  BY <1>1, <1>2
<1>4. \A j \in DOMAIN q : Len(p) + j \in DOMAIN (p \o q) /\ (p \o q)[Len(p) + j] = q[j]
  BY <1>1, <1>2
<1>5. \A i \in DOMAIN p, j \in DOMAIN q : i < Len(p) + j
  BY <1>2
<1>6. Sorted(p)
  BY <1>3 DEF Sorted
<1>7. ASSUME NEW i \in DOMAIN p, NEW j \in DOMAIN q, p[i] = q[j], p[i] \in Lines PROVE FALSE
  <2>1. p[i][2] < p[i][2]
    BY <1>3, <1>4, <1>5, <1>7 DEF Sorted
  <2>2. p[i][2] \in Nat
    BY <1>7, LineBounds DEF Lines
  <2> QED
    BY <2>1, <2>2
<1> QED
  BY <1>6, <1>7 DEF Range

LEMMA Fresh ==
  ASSUME TypeOK, OrderInv
  PROVE  /\ Range(Maybe(frow)) \cap Rendered = {}
         /\ Range(raw) \cap Rendered = {}
<1> DEFINE w == out \o buf \o batch \o renderq
           f == Maybe(frow)
           m == Maybe(mrow)
<1>1. /\ w \in Seq(Commands) /\ f \in Seq(Commands) /\ raw \in Seq(Commands) /\ m \in Seq(Commands)
      /\ w \o f \in Seq(Commands) /\ w \o f \o raw \in Seq(Commands)
  BY PathType
<1>2. Path = w \o f \o raw \o m /\ Sorted(Path)
  BY DEF Path, OrderInv
<1>3. Range(w) = Range(out) \cup Range(buf) \cup Range(batch) \cup Range(renderq)
  <2>1. Range(out \o buf) = Range(out) \cup Range(buf)
    BY PathType, RangeConcat
  <2>2. Range(out \o buf \o batch) = Range(out \o buf) \cup Range(batch)
    BY PathType, RangeConcat
  <2>3. Range(out \o buf \o batch \o renderq) = Range(out \o buf \o batch) \cup Range(renderq)
    BY PathType, RangeConcat
  <2> QED
    BY <2>1, <2>2, <2>3
<1> HIDE DEF w, f, m
<1>4. Sorted(w \o f \o raw)
  BY <1>1, <1>2, SortedConcat
<1>5. Sorted(w \o f) /\ Range(w \o f) \cap Range(raw) \cap Lines = {}
  BY <1>1, <1>4, SortedConcat
<1>6. Range(w) \cap Range(f) \cap Lines = {} /\ Range(w \o f) = Range(w) \cup Range(f)
  BY <1>1, <1>5, SortedConcat, RangeConcat
<1> QED
  BY <1>3, <1>5, <1>6 DEF Rendered, f

\* What a step does to them: forward_to_render adds one, the render task's failure or
\* abort and its last flush may discard some.
LEMMA RenderedStep ==
  ASSUME TypeOK, TypeOK', HandsInv, OrderInv, [Next]_vars
  PROVE  \/ Rendered' = Rendered /\ forwarded' = forwarded
         \/ \E l \in Lines \ Rendered :
              /\ Rendered' = Rendered \cup {l} /\ forwarded' = forwarded + 1
              /\ l = frow \/ l \notin Hidden \cup Failing
         \/ rpc' = "failed" /\ Rendered' \subseteq Rendered
         \/ /\ rpc = "final" /\ batch' = <<>> /\ renderq' = <<>>
            /\ UNCHANGED <<out, buf, forwarded>>
<1> DEFINE Adds(l) == /\ Rendered' = Rendered \cup {l} /\ forwarded' = forwarded + 1
                      /\ l = frow \/ l \notin Hidden \cup Failing
<1>a. /\ out \in Seq(Commands) /\ buf \in Seq(Commands) /\ batch \in Seq(Commands)
      /\ renderq \in Seq(Commands) /\ raw \in Seq(Lines) /\ raw \in Seq(Commands)
  BY PathType DEF TypeOK
<1>b. ASSUME NEW x \in Commands, renderq' = Append(renderq, x), UNCHANGED <<out, buf, batch>>
      PROVE  Rendered' = Rendered \cup ({x} \cap Lines)
  <2>1. Range(renderq') = Range(renderq) \cup {x}
    BY <1>a, <1>b, RangeAppend
  <2> QED
    BY <1>b, <2>1 DEF Rendered
<1>c. ASSUME UNCHANGED <<out, buf, batch, renderq>> PROVE Rendered' = Rendered
  BY <1>c DEF Rendered
<1>d. Range(<<>>) = {}
  BY DEF Range
<1>1. CASE MuxStep
  BY <1>1, <1>c DEF MuxStep, MuxCancelled, MuxClosed, MuxSend, MuxRow, StreamEnds
<1>2. CASE Pull
  <2>1. UNCHANGED <<batch, buf, out>> /\ raw # <<>> /\ Head(raw) \in Lines /\ Head(raw) \in Range(raw)
    BY <1>2, <1>a, RangeTail DEF Pull
  <2>2. Head(raw) \in Lines \ Rendered
    BY <2>1, Fresh
  <2>3. CASE renderq' = renderq /\ forwarded' = forwarded
    BY <1>c, <2>1, <2>3
  <2>4. CASE Forwarded(Head(raw)) /\ Head(raw) \notin Failing \cup Hidden
    <3>1. Adds(Head(raw))
      BY <1>b, <2>1, <2>4, CommandFacts DEF Forwarded
    <3> HIDE DEF Adds
    <3> QED
      BY <2>2, <3>1 DEF Adds
  <2> QED
    BY <1>2, <2>3, <2>4 DEF Pull, Deliver, ForwardStop
<1>3. CASE ForwardSend
  <2>1. UNCHANGED <<batch, buf, out>> /\ frow \in Lines /\ frow # None
    BY <1>3 DEF ForwardSend, HandsInv, TypeOK
  <2>2. frow \in Lines \ Rendered
    <3>1. frow \in Range(Maybe(frow))
      BY <2>1 DEF Maybe, Range
    <3> QED
      BY <2>1, <3>1, Fresh
  <2>3. CASE renderq' = renderq /\ forwarded' = forwarded
    BY <1>c, <2>1, <2>3
  <2>4. CASE Forwarded(frow)
    <3>1. Adds(frow)
      BY <1>b, <2>1, <2>4, CommandFacts DEF Forwarded
    <3> HIDE DEF Adds
    <3> QED
      BY <2>2, <3>1 DEF Adds
  <2> QED
    BY <1>3, <2>3, <2>4 DEF ForwardSend, ForwardStop
<1>4. CASE FlushTick
  <2>1. renderq' = Append(renderq, Flush) /\ UNCHANGED <<out, buf, batch, forwarded>>
    BY <1>4 DEF FlushTick
  <2>2. Rendered' = Rendered
    BY <1>b, <2>1, CommandFacts
  <2> QED
    BY <2>1, <2>2
<1>5. CASE SendShutdown
  <2>1. renderq' = Append(renderq, Shutdown) /\ UNCHANGED <<out, buf, batch, forwarded>>
    BY <1>5 DEF SendShutdown
  <2>2. Rendered' = Rendered
    BY <1>b, <2>1, CommandFacts
  <2> QED
    BY <2>1, <2>2
<1>6. CASE RenderRecv
  <2>1. batch' \in Seq(Commands) /\ renderq' \in Seq(Commands)
    BY DEF TypeOK
  <2>2. Range(batch') \cup Range(renderq') = Range(renderq)
    <3>1. Range(batch' \o renderq') = Range(batch') \cup Range(renderq')
      BY <2>1, RangeConcat, Zenon
    <3>2. batch' \o renderq' = renderq
      BY <1>6, RecvSplits
    <3> QED
      BY <3>1, <3>2, Zenon
  <2>3. Range(batch) = {} /\ UNCHANGED <<out, buf, forwarded>>
    BY <1>6, <1>d DEF RenderRecv, HandsInv
  <2> QED
    BY <2>2, <2>3 DEF Rendered
<1>7. CASE RenderClosed
  BY <1>7, <1>c DEF RenderClosed
<1>8. CASE RenderCmd
  <2>1. UNCHANGED <<out, renderq, forwarded>>
    BY <1>8 DEF RenderCmd
  <2>2. CASE batch = <<>>
    BY <1>8, <1>c, <2>1, <2>2 DEF RenderCmd
  <2>3. CASE batch # <<>> /\ Head(batch) \in Lines
    <3>1. batch' = Tail(batch) /\ buf' = Append(buf, Head(batch))
      BY <1>8, <2>3 DEF RenderCmd
    <3>2. Range(batch) = {Head(batch)} \cup Range(batch') /\ Range(buf') = Range(buf) \cup {Head(batch)}
      BY <1>a, <2>3, <3>1, RangeTail, RangeAppend, CommandFacts
    <3> QED
      BY <2>1, <3>2 DEF Rendered
  <2>4. CASE batch # <<>> /\ Head(batch) \notin Lines
    <3>1. batch' = Tail(batch) /\ buf' = buf
      BY <1>8, <2>4 DEF RenderCmd
    <3>2. Range(batch) = {Head(batch)} \cup Range(batch')
      BY <1>a, <2>4, <3>1, RangeTail
    <3> QED
      BY <2>1, <2>4, <3>1, <3>2 DEF Rendered
  <2> QED
    BY <2>2, <2>3, <2>4
<1>9. CASE Write
  <2>1. out' = Append(out, Head(buf)) /\ buf' = Tail(buf) /\ buf # <<>>
        /\ UNCHANGED <<batch, renderq, forwarded>>
    BY <1>9 DEF Write
  <2>2. Head(buf) \in Commands
    BY <1>a, <2>1
  <2>3. Range(buf) = {Head(buf)} \cup Range(buf') /\ Range(out') = Range(out) \cup {Head(buf)}
    BY <1>a, <2>1, <2>2, RangeTail, RangeAppend
  <2> QED
    BY <2>1, <2>3 DEF Rendered
<1>10. CASE Flushed
  <2>1. CASE rpc = "flush"
    BY <1>10, <1>c, <2>1 DEF Flushed
  <2>2. CASE rpc = "final"
    BY <1>10, <2>2 DEF Flushed
  <2> QED
    BY <1>10, <2>1, <2>2 DEF Flushed
<1>11. CASE RenderGone
  BY <1>11, <1>d DEF RenderGone, Rendered
<1>12. CASE PollPending \/ ForwardCancelled \/ ForwardEnd \/ ForwardPanic \/ AbortForward
  BY <1>12, <1>c DEF PollPending, ForwardCancelled, ForwardEnd, ForwardPanic, AbortForward, ForwardStop
<1>13. CASE TickerStop \/ CancelRoot \/ DropRenderTx \/ AbortMux \/ UNCHANGED vars
  BY <1>13, <1>c DEF TickerStop, CancelRoot, DropRenderTx, AbortMux
<1> HIDE DEF Adds
<1> QED
  BY <1>1, <1>2, <1>3, <1>4, <1>5, <1>6, <1>7, <1>8, <1>9, <1>10, <1>11, <1>12, <1>13
     DEF Next, ForwardStep, RenderStep, Fault, RenderFail, Abort, AbortRender

LEMMA ForwardedStep ==
  ASSUME IInv, RunTypeOK, SnapInv, LastWordInv, ForwardInv, [RunNext]_allVars
  PROVE  ForwardInv'
<1>a. TypeOK /\ TypeOK' /\ HandsInv /\ OrderInv
  BY IInvStep DEF IInv
<1>b. (~left' => ~left) /\ (rpc' # "failed" => rpc # "failed")
  BY RunMoves, Sticky DEF RenderStopped
<1>c. /\ forwarded \in Nat /\ printed["forwarded"] \in Nat /\ snap["forwarded"] \in Nat
      /\ Window["forwarded"] = forwarded /\ Window["forwarded"]' = forwarded'
  BY <1>a, CounterNames DEF TypeOK, RunTypeOK, Window
<1>d. IsFiniteSet(Rendered) /\ (rpc # "failed" /\ ~left => Cardinality(Rendered) = Total("forwarded"))
  BY DEF ForwardInv
<1>1. CASE [Next]_vars /\ UNCHANGED <<snap, printed>>
  <2>1. CASE Rendered' = Rendered /\ forwarded' = forwarded
    BY <1>1, <1>b, <1>c, <1>d, <2>1 DEF ForwardInv, Total
  <2>2. ASSUME NEW l \in Lines \ Rendered, Rendered' = Rendered \cup {l}, forwarded' = forwarded + 1
        PROVE  ForwardInv'
    <3>1. IsFiniteSet(Rendered') /\ Cardinality(Rendered') = Cardinality(Rendered) + 1
      BY <1>d, <2>2, FS_AddElement
    <3>2. Total("forwarded")' = Total("forwarded") + 1
      BY <1>1, <1>c, <2>2 DEF Total
    <3> QED
      BY <1>b, <1>d, <3>1, <3>2 DEF ForwardInv
  <2>3. CASE rpc' = "failed" /\ Rendered' \subseteq Rendered
    <3>1. IsFiniteSet(Rendered')
      BY <1>d, <2>3, FS_Subset
    <3> QED
      BY <2>3, <3>1 DEF ForwardInv
  <2>4. CASE rpc = "final" /\ batch' = <<>> /\ renderq' = <<>> /\ UNCHANGED <<out, buf, forwarded>>
    <3>0. Range(<<>>) = {}
      BY DEF Range
    <3>1. Rendered' \subseteq Rendered
      BY <2>4, <3>0 DEF Rendered
    <3>2. IsFiniteSet(Rendered')
      BY <1>d, <3>1, FS_Subset
    <3>3. ~left => Rendered' = Rendered
      <4> SUFFICES ASSUME ~left PROVE Rendered \subseteq Rendered'
        BY <3>1
      <4>1. batch \in Seq(Commands) /\ renderq \in Seq(Commands)
        BY <1>a, PathType
      <4>2. Range(Queue) = Range(batch) \cup Range(renderq)
        BY <4>1, RangeConcat DEF Queue
      <4>3. Range(Queue) \cap Lines = {}
        BY <2>4 DEF LastWordInv, NoLines, Range
      <4> QED
        BY <2>4, <4>2, <4>3 DEF Rendered
    <3> QED
      BY <1>1, <1>b, <1>c, <1>d, <2>4, <3>2, <3>3 DEF ForwardInv, Total
  <2> QED
    BY <1>1, <1>a, <2>1, <2>2, <2>3, <2>4, RenderedStep
<1>2. CASE /\ UNCHANGED <<state, streams, mpc, mrow, raw, fpc, frow, ticking, runTx, renderq, render>>
           /\ \A c \in Range(Counters) : Total(c)' = Total(c)
  <2>1. Rendered' = Rendered /\ Total("forwarded")' = Total("forwarded") /\ rpc' = rpc
    BY <1>2, CounterNames DEF Rendered
  <2> QED
    BY <1>b, <1>d, <2>1 DEF ForwardInv
<1> QED
  BY <1>1, <1>2, TotalStep

(***************************************************************************)
(* Drops.                                                                  *)
(***************************************************************************)
LEMMA ProducedStep ==
  ASSUME IInv, IsFiniteSet(Produced), [RunNext]_allVars
  PROVE  IsFiniteSet(Produced')
<1>1. CASE [Next]_vars /\ \A s \in Sources : ~MuxRow(s)
  BY <1>1, OnlyMuxReads DEF Produced
<1>2. ASSUME NEW s \in Sources, MuxRow(s) PROVE IsFiniteSet(Produced')
  <2>1. Produced' = Produced \cup {<<s, produced[s] + 1>>}
    BY <1>2, RowIsNew DEF IInv
  <2> QED
    BY <2>1, FS_AddElement
<1>3. ASSUME NEW i \in DOMAIN Counters, StatsSwap(i) PROVE IsFiniteSet(Produced')
  BY <1>3, SwapLeaves DEF Produced
<1> QED
  BY <1>1, <1>2, <1>3, RunSteps

\* A row is dropped and counted: one more is lost.
LEMMA OneMore ==
  ASSUME NEW S, IsFiniteSet(S), NEW T, NEW x, T \subseteq S \cup {x}
  PROVE  IsFiniteSet(T) /\ Cardinality(T) <= Cardinality(S) + 1 /\ Cardinality(T) \in Nat
<1>1. IsFiniteSet(S \cup {x}) /\ Cardinality(S \cup {x}) <= Cardinality(S) + 1 /\ Cardinality(S) \in Nat
  BY FS_AddElement, FS_CardinalityType
<1>2. IsFiniteSet(T) /\ Cardinality(T) <= Cardinality(S \cup {x})
  BY <1>1, FS_Subset
<1>3. Cardinality(T) \in Nat /\ Cardinality(S \cup {x}) \in Nat
  BY <1>1, <1>2, FS_CardinalityType
<1> QED
  BY <1>1, <1>2, <1>3

LEMMA DropsStep ==
  ASSUME IInv, RunTypeOK, SnapInv, IsFiniteSet(Produced), DropsCounted, [RunNext]_allVars
  PROVE  DropsCounted'
<1> DEFINE drops == Total("muxDropped") + Total("dropped")
           V == Visible \ OnPath
           P == Produced \ OnPath
<1>a. TypeOK /\ TypeOK' /\ HandsInv /\ EndInv /\ OrderInv
  BY IInvStep DEF IInv
<1>b. Visible \subseteq Produced /\ Produced \subseteq Lines /\ Visible' \subseteq Produced' /\ Produced' \subseteq Lines
  BY DEF Visible, Produced
<1>c. /\ Visible \ Range(Path) = V /\ Produced \ Range(Path) = P
      /\ Visible' \ Range(Path') = V' /\ Produced' \ Range(Path') = P'
  BY <1>b DEF OnPath
<1>d. IsFiniteSet(V) /\ IsFiniteSet(P)
  BY <1>b, FS_Subset, FS_Difference
<1>e. Cardinality(V) \in Nat /\ Cardinality(P) \in Nat
  BY <1>d, FS_CardinalityType
<1>f. Lossy /\ PathAlive => Cardinality(V) <= drops /\ drops <= Cardinality(P)
  BY <1>c DEF DropsCounted
<1>g. /\ muxDropped \in Nat /\ dropped \in Nat /\ printed["muxDropped"] \in Nat /\ printed["dropped"] \in Nat
      /\ snap["muxDropped"] \in Nat /\ snap["dropped"] \in Nat
      /\ Window["muxDropped"] = muxDropped /\ Window["dropped"] = dropped
      /\ Window["muxDropped"]' = muxDropped' /\ Window["dropped"]' = dropped'
  BY <1>a, CounterNames DEF TypeOK, RunTypeOK, Window
<1>h. drops \in Nat
  BY <1>g DEF Total
<1> SUFFICES ASSUME Lossy, PathAlive'
             PROVE  Cardinality(V') <= drops' /\ drops' <= Cardinality(P')
  BY <1>c DEF DropsCounted
<1>1. CASE [Next]_vars /\ UNCHANGED <<snap, printed>>
  <2>1. PathAlive
    BY <1>1, <1>a, AliveBefore
  <2>2. Cardinality(V) <= drops /\ drops <= Cardinality(P)
    BY <1>f, <2>1
  <2>3. /\ muxDropped' = muxDropped /\ dropped' = dropped => drops' = drops
        /\ muxDropped' = muxDropped /\ dropped' = dropped + 1 => drops' = drops + 1
        /\ muxDropped' = muxDropped + 1 /\ dropped' = dropped => drops' = drops + 1
    <3> DEFINE m == Total("muxDropped")
               d == Total("dropped")
    <3>1. m \in Nat /\ d \in Nat
      BY <1>g DEF Total
    <3>2. muxDropped' = muxDropped => m' = m
      BY <1>1, <1>g DEF Total
    <3>3. muxDropped' = muxDropped + 1 => m' = m + 1
      BY <1>1, <1>g DEF Total
    <3>4. dropped' = dropped => d' = d
      BY <1>1, <1>g DEF Total
    <3>5. dropped' = dropped + 1 => d' = d + 1
      BY <1>1, <1>g DEF Total
    <3>6. drops = m + d /\ drops' = m' + d'
      OBVIOUS
    <3> HIDE DEF m, d, drops
    <3> QED
      BY <3>1, <3>2, <3>3, <3>4, <3>5, <3>6
  <2>4. CASE \A s \in Sources : ~MuxRow(s)
    <3>1. /\ produced' = produced /\ muxDropped' = muxDropped
          /\ \/ OnPath' = OnPath /\ dropped' = dropped
             \/ \E l \in Hidden \cup Failing : Drops(l) /\ dropped' = dropped
             \/ \E l \in Lines : Drops(l) /\ Lossy /\ dropped' = dropped + 1
      BY <1>1, <1>a, <2>4, PathKeeps
    <3>2. Produced' = Produced /\ Visible' = Visible
      BY <3>1 DEF Produced, Visible
    <3>3. CASE OnPath' = OnPath /\ dropped' = dropped
      <4>1. V' = V /\ P' = P
        BY <3>2, <3>3
      <4>2. drops' = drops
        BY <2>3, <3>1, <3>3
      <4> QED
        BY <2>2, <4>1, <4>2
    <3>4. ASSUME NEW l \in Hidden \cup Failing, Drops(l), dropped' = dropped
          PROVE  Cardinality(V') <= drops' /\ drops' <= Cardinality(P')
      <4>1. V' = V /\ P \subseteq P' /\ P' \subseteq P \cup {l}
        BY <3>2, <3>4 DEF Drops, Visible
      <4>2. IsFiniteSet(P') /\ Cardinality(P') \in Nat
        BY <1>d, <4>1, OneMore
      <4>3. Cardinality(P) <= Cardinality(P')
        BY <4>1, <4>2, FS_Subset
      <4>4. drops' = drops
        BY <2>3, <3>1, <3>4
      <4>5. Cardinality(V') = Cardinality(V)
        BY <4>1
      <4> HIDE DEF V, P, drops
      <4> QED
        BY <1>e, <1>h, <2>2, <4>2, <4>3, <4>4, <4>5
    <3>5. ASSUME NEW l \in Lines, Drops(l), dropped' = dropped + 1
          PROVE  Cardinality(V') <= drops' /\ drops' <= Cardinality(P')
      <4>1. l \in Produced /\ l \notin P
        BY <1>a, <3>5 DEF Drops, OrderInv, OnPath, Range
      <4>2. V' \subseteq V \cup {l} /\ P' = P \cup {l}
        BY <3>2, <3>5, <4>1 DEF Drops
      <4>3. Cardinality(V') <= Cardinality(V) + 1 /\ Cardinality(V') \in Nat
        BY <1>d, <4>2, OneMore
      <4>4. Cardinality(P') = Cardinality(P) + 1
        BY <1>d, <4>1, <4>2, FS_AddElement
      <4>5. drops' = drops + 1
        BY <2>3, <3>1, <3>5
      <4> QED
        BY <1>e, <1>h, <2>2, <4>3, <4>4, <4>5
    <3> QED
      BY <3>1, <3>3, <3>4, <3>5
  <2>5. ASSUME NEW s \in Sources, MuxRow(s)
        PROVE  Cardinality(V') <= drops' /\ drops' <= Cardinality(P')
    <3> DEFINE row == <<s, produced[s] + 1>>
    <3>1. /\ row \in Lines /\ row \notin Produced /\ Produced' = Produced \cup {row}
          /\ dropped' = dropped
          /\ \/ OnPath' = OnPath \cup {row} /\ muxDropped' = muxDropped
             \/ OnPath' = OnPath /\ muxDropped' = muxDropped + 1
      BY <1>a, <2>5, NewRowKept
    <3> HIDE DEF row
    <3>2. row \notin OnPath
      BY <1>a, <3>1 DEF OrderInv, OnPath, Range
    <3>3. Visible \subseteq Visible' /\ Visible' \subseteq Visible \cup {row}
      BY <3>1 DEF Visible
    <3>4. CASE OnPath' = OnPath \cup {row} /\ muxDropped' = muxDropped
      <4>1. V' = V /\ P' = P
        BY <1>b, <3>1, <3>2, <3>3, <3>4
      <4>2. drops' = drops
        BY <2>3, <3>1, <3>4
      <4> QED
        BY <2>2, <4>1, <4>2
    <3>5. CASE OnPath' = OnPath /\ muxDropped' = muxDropped + 1
      <4>1. V' \subseteq V \cup {row} /\ P' = P \cup {row} /\ row \notin P
        BY <3>1, <3>2, <3>3, <3>5
      <4>2. Cardinality(V') <= Cardinality(V) + 1 /\ Cardinality(V') \in Nat
        BY <1>d, <4>1, OneMore
      <4>3. Cardinality(P') = Cardinality(P) + 1
        BY <1>d, <4>1, FS_AddElement
      <4>4. drops' = drops + 1
        BY <2>3, <3>1, <3>5
      <4> QED
        BY <1>e, <1>h, <2>2, <4>2, <4>3, <4>4
    <3> QED
      BY <3>1, <3>4, <3>5
  <2> QED
    BY <2>4, <2>5
<1>2. CASE /\ UNCHANGED <<state, streams, mpc, mrow, raw, fpc, frow, ticking, runTx, renderq, render>>
           /\ \A c \in Range(Counters) : Total(c)' = Total(c)
  <2>1. drops' = drops /\ V' = V /\ P' = P /\ PathAlive
    BY <1>2, CounterNames DEF Visible, Produced, OnPath, Path, Maybe, PathAlive
  <2> QED
    BY <1>f, <2>1
<1> QED
  BY <1>1, <1>2, TotalStep

(***************************************************************************)
(* A run that ends by itself.                                              *)
(***************************************************************************)
LEMMA RawClosed ==
  ASSUME [Next]_vars, ForwardStopped => raw = <<>>
  PROVE  ForwardStopped' => raw' = <<>>
<1>1. CASE MuxStep
  BY <1>1 DEF MuxStep, MuxCancelled, MuxClosed, MuxRow, MuxSend, StreamEnds, MuxExit, ForwardStopped
<1>2. CASE Pull
  <2>1. CASE ForwardStop("stopped")
    BY <2>1 DEF ForwardStop
  <2>2. CASE fpc' \in {"poll", "recv", "send"}
    BY <2>2 DEF ForwardStopped
  <2> QED
    BY <1>2, <2>1, <2>2 DEF Pull, Deliver, Forwarded
<1>3. CASE ForwardSend
  BY <1>3 DEF ForwardSend, ForwardStop, Forwarded, ForwardStopped
<1>4. CASE PollPending
  BY <1>4 DEF PollPending, ForwardStopped
<1>5. CASE ForwardCancelled \/ ForwardEnd \/ ForwardPanic \/ AbortForward
  BY <1>5 DEF ForwardCancelled, ForwardEnd, ForwardPanic, AbortForward, ForwardStop
<1>6. CASE UNCHANGED <<fpc, raw>>
  BY <1>6 DEF ForwardStopped
<1>7. CASE RenderStep
  BY <1>6, <1>7 DEF RenderStep, RenderRecv, RenderClosed, RenderCmd, Write, Flushed
<1>8. CASE AbortMux
  BY <1>6, <1>8 DEF AbortMux, MuxExit
<1>9. CASE FlushTick \/ TickerStop \/ RenderFail \/ CancelRoot \/ SendShutdown \/ DropRenderTx \/ AbortRender
  BY <1>6, <1>9 DEF FlushTick, TickerStop, RenderFail, CancelRoot, SendShutdown, DropRenderTx, AbortRender
<1> QED
  BY <1>1, <1>2, <1>3, <1>4, <1>5, <1>6, <1>7, <1>8, <1>9 DEF Next, ForwardStep, Fault, Abort

LEMMA RowInHandPasses ==
  ASSUME [Next]_vars, frow \notin Hidden \cup Failing
  PROVE  frow' \notin Hidden \cup Failing
<1>0. None \notin Hidden \cup Failing
  BY LineKinds
<1>1. CASE frow' \in {frow, None}
  BY <1>0, <1>1
<1>2. CASE Pull
  <2>1. CASE frow' = Head(raw) /\ Head(raw) \notin Failing \cup Hidden
    BY <2>1
  <2> QED
    BY <1>1, <1>2, <2>1 DEF Pull, Deliver, Forwarded, ForwardStop
<1>3. CASE MuxStep
  BY <1>1, <1>3 DEF MuxStep, MuxCancelled, MuxClosed, MuxRow, MuxSend, StreamEnds
<1>4. CASE ForwardSend \/ PollPending
  BY <1>1, <1>4 DEF ForwardSend, PollPending, ForwardStop, Forwarded
<1>5. CASE ForwardCancelled \/ ForwardEnd \/ ForwardPanic \/ AbortForward
  BY <1>1, <1>5 DEF ForwardCancelled, ForwardEnd, ForwardPanic, AbortForward, ForwardStop
<1>6. CASE RenderStep
  BY <1>1, <1>6 DEF RenderStep, RenderRecv, RenderClosed, RenderCmd, Write, Flushed
<1>7. CASE FlushTick \/ TickerStop \/ RenderFail \/ CancelRoot \/ SendShutdown \/ DropRenderTx
           \/ AbortRender \/ AbortMux \/ UNCHANGED vars
  BY <1>1, <1>7 DEF FlushTick, TickerStop, RenderFail, CancelRoot, SendShutdown, DropRenderTx,
     AbortRender, AbortMux
<1> QED
  BY <1>2, <1>3, <1>4, <1>5, <1>6, <1>7 DEF Next, ForwardStep, Fault, Abort

LEMMA MuxEndsLast ==
  ASSUME TypeOK, EndInv, [Next]_vars, PathAlive', mpc' = "stopped",
         PathAlive /\ mpc = "stopped" => ended = Sources
  PROVE  ended' = Sources
<1>1. PathAlive
  BY AliveBefore
<1>2. mpc # "stopped" => ~ForwardStopped
  BY <1>1 DEF EndInv, PathAlive, ForwardStopped
<1>3. CASE UNCHANGED <<mpc, ended>>
  BY <1>1, <1>3
<1>4. CASE MuxClosed
  BY <1>4 DEF MuxClosed
<1>5. CASE MuxCancelled \/ AbortMux
  BY <1>1, <1>5 DEF MuxCancelled, AbortMux, PathAlive
<1>6. ASSUME NEW s \in Sources, MuxRow(s) PROVE ended' = Sources
  BY <1>2, <1>6 DEF MuxRow
<1>7. CASE MuxSend
  BY <1>2, <1>7 DEF MuxSend
<1>8. ASSUME NEW s \in Sources, StreamEnds(s) PROVE ended' = Sources
  BY <1>8 DEF StreamEnds
<1>9. CASE ForwardStep \/ ForwardPanic \/ AbortForward
  BY <1>3, <1>9 DEF ForwardStep, Pull, PollPending, ForwardSend, ForwardCancelled, ForwardEnd,
     ForwardPanic, AbortForward
<1>10. CASE RenderStep
  BY <1>3, <1>10 DEF RenderStep, RenderRecv, RenderClosed, RenderCmd, Write, Flushed
<1>11. CASE FlushTick \/ TickerStop \/ RenderFail \/ CancelRoot \/ SendShutdown \/ DropRenderTx
           \/ AbortRender \/ UNCHANGED vars
  BY <1>3, <1>11 DEF FlushTick, TickerStop, RenderFail, CancelRoot, SendShutdown, DropRenderTx, AbortRender
<1> QED
  BY <1>4, <1>5, <1>6, <1>7, <1>8, <1>9, <1>10, <1>11 DEF Next, MuxStep, Fault, Abort

LEMMA FlowStep ==
  ASSUME IInv, FlowInv, [RunNext]_allVars
  PROVE  FlowInv'
<1>a. TypeOK /\ TypeOK' /\ HandsInv /\ EndInv /\ OrderInv
  BY IInvStep DEF IInv
<1>1. CASE [Next]_vars
  <2>1. ForwardStopped' => raw' = <<>>
    BY <1>1, RawClosed DEF FlowInv
  <2>2. frow' \notin Hidden \cup Failing
    BY <1>1, RowInHandPasses DEF FlowInv
  <2>3. PathAlive' /\ mpc' = "stopped" => ended' = Sources
    BY <1>1, <1>a, MuxEndsLast DEF FlowInv
  <2>4. Rendered' \cap (Hidden \cup Failing) = {}
    <3>1. Range(<<>>) = {}
      BY DEF Range
    <3>2. rpc = "final" /\ batch' = <<>> /\ renderq' = <<>> /\ UNCHANGED <<out, buf, forwarded>>
            => Rendered' \subseteq Rendered
      BY <3>1 DEF Rendered
    <3>3. Rendered' \subseteq Rendered \/ \E l : l \notin Hidden \cup Failing /\ Rendered' = Rendered \cup {l}
      BY <1>1, <1>a, <3>2, RenderedStep DEF FlowInv
    <3> QED
      BY <3>3 DEF FlowInv
  <2> QED
    BY <2>1, <2>2, <2>3, <2>4 DEF FlowInv
<1>2. ASSUME NEW i \in DOMAIN Counters, StatsSwap(i) PROVE FlowInv'
  BY <1>2, SwapLeaves DEF FlowInv, Rendered, PathAlive, ForwardStopped
<1> QED
  BY <1>1, <1>2, RunSteps

\* Without --follow, a signal or --exit-on, only run cancels the root: when the pipeline
\* has ended.
LEMMA CancelledByRun ==
  ASSUME IInv, [RunNext]_allVars, limit # "none" => Follow, reason # "none" => reason' # "none",
         ~cancelled, cancelled', ~Follow, reason' = "none", ~triggered'
  PROVE  /\ ForwardStopped
         /\ UNCHANGED <<streams, mux, raw, fwd, renderq, render>>
<1>1. CASE UNCHANGED cancelled
  BY <1>1
<1>2. CASE Pull
  BY <1>2 DEF Pull, IInv, TypeOK
<1>3. CASE MuxStep
  BY <1>1, <1>3 DEF MuxStep, MuxCancelled, MuxClosed, MuxRow, MuxSend, StreamEnds
<1>4. CASE PollPending \/ ForwardSend \/ ForwardCancelled \/ ForwardEnd \/ ForwardPanic \/ AbortForward
  BY <1>1, <1>4 DEF PollPending, ForwardSend, ForwardCancelled, ForwardEnd, ForwardPanic, AbortForward
<1>5. CASE RenderStep
  BY <1>1, <1>5 DEF RenderStep, RenderRecv, RenderClosed, RenderCmd, Write, Flushed
<1>6. CASE FlushTick \/ TickerStop \/ RenderFail \/ SendShutdown \/ DropRenderTx
           \/ AbortRender \/ AbortMux \/ UNCHANGED vars
  BY <1>1, <1>6 DEF FlushTick, TickerStop, RenderFail, SendShutdown, DropRenderTx, AbortRender, AbortMux
<1>7. CASE PathStep
  BY <1>2, <1>3, <1>4, <1>5, <1>6, <1>7 DEF PathStep, ForwardStep, Fault
<1>8. CASE PollLimit \/ SignalCancel \/ LimitCancel \/ LimitNotify
  BY <1>8 DEF PollLimit, SignalCancel, LimitCancel, LimitNotify
<1>9. CASE PipelineEnded
  BY <1>9 DEF PipelineEnded, Cancel, CancelRoot
<1>10. CASE PollCancelled \/ CancelledFirst \/ TellRender \/ DropTx \/ Exit
  BY <1>6, <1>10 DEF PollCancelled, CancelledFirst, TellRender, DropTx, Exit
<1>11. ASSUME NEW t \in Tasks, Joined(t) \/ JoinTimeout(t) \/ AbortTimeout(t) PROVE UNCHANGED cancelled
  BY <1>11 DEF Joined, JoinTimeout, AbortTimeout
<1>12. CASE StatsPrint \/ StatsEnds
  BY <1>1, <1>12 DEF StatsPrint, StatsEnds
<1>13. ASSUME NEW i \in DOMAIN Counters, StatsSwap(i) PROVE UNCHANGED cancelled
  BY <1>13, SwapLeaves
<1>14. ASSUME NEW t \in Tasks, AbortTask(t) PROVE UNCHANGED cancelled
  BY <1>14 DEF AbortTask, AbortMux, AbortForward, TickerStop, AbortRender
<1>15. ASSUME NEW h \in Helpers, HelperEnds(h) PROVE UNCHANGED cancelled
  BY <1>15 DEF HelperEnds
<1>16. ASSUME NEW r \in Signals, Signal(r) PROVE UNCHANGED cancelled
  BY <1>16 DEF Signal
<1> QED
  BY <1>1, <1>6, <1>7, <1>8, <1>9, <1>10, <1>11, <1>12, <1>13, <1>14, <1>15, <1>16
     DEF RunNext, RunStep, StatsStep

\* Of the limit, the signals and the aborts, nothing is undone.
LEMMA NothingUndone ==
  ASSUME IInv, RunTypeOK, [RunNext]_allVars, limit # "none" => Follow, signalled => reason # "none"
  PROVE  /\ limit' # "none" => Follow
         /\ signalled' => reason' # "none"
         /\ reason # "none" => reason' # "none"
         /\ triggered => triggered'
         /\ aborted \subseteq aborted'
<1> DEFINE Goal == /\ limit' # "none" => Follow
                   /\ signalled' => reason' # "none"
                   /\ reason # "none" => reason' # "none"
                   /\ aborted \subseteq aborted'
<1>1. triggered => triggered'
  <2>1. CASE UNCHANGED triggered
    BY <2>1
  <2>2. CASE Pull
    BY <2>2 DEF Pull, IInv, TypeOK
  <2>3. CASE MuxStep
    BY <2>1, <2>3 DEF MuxStep, MuxCancelled, MuxClosed, MuxRow, MuxSend, StreamEnds
  <2>4. CASE PollPending \/ ForwardSend \/ ForwardCancelled \/ ForwardEnd \/ ForwardPanic \/ AbortForward
    BY <2>1, <2>4 DEF PollPending, ForwardSend, ForwardCancelled, ForwardEnd, ForwardPanic, AbortForward
  <2>5. CASE RenderStep
    BY <2>1, <2>5 DEF RenderStep, RenderRecv, RenderClosed, RenderCmd, Write, Flushed
  <2>6. CASE FlushTick \/ TickerStop \/ RenderFail \/ SendShutdown \/ DropRenderTx \/ CancelRoot
             \/ AbortRender \/ AbortMux \/ UNCHANGED vars
    BY <2>1, <2>6 DEF FlushTick, TickerStop, RenderFail, SendShutdown, DropRenderTx, CancelRoot,
       AbortRender, AbortMux
  <2>7. ASSUME NEW i \in DOMAIN Counters, StatsSwap(i) PROVE UNCHANGED triggered
    BY <2>7, SwapLeaves
  <2> QED
    BY <2>2, <2>3, <2>4, <2>5, <2>6, <2>7, RunSteps DEF Next, ForwardStep, Fault, Abort
<1> SUFFICES Goal
  BY <1>1
<1>2. CASE UNCHANGED <<limit, signalled, reason, aborted>>
  BY <1>2
<1>3. CASE PollLimit \/ PollCancelled \/ PipelineEnded \/ CancelledFirst \/ TellRender \/ DropTx \/ Exit
  BY <1>2, <1>3 DEF PollLimit, PollCancelled, PipelineEnded, CancelledFirst, TellRender, DropTx, Exit
<1>4. ASSUME NEW t \in Tasks, Joined(t) \/ JoinTimeout(t) \/ AbortTimeout(t) PROVE Goal
  BY <1>4 DEF Joined, JoinTimeout, AbortTimeout
<1>5. CASE StatsStep
  BY <1>2, <1>5 DEF StatsStep, StatsPrint, StatsEnds, StatsSwap
<1>6. ASSUME NEW t \in Tasks, AbortTask(t) PROVE Goal
  BY <1>2, <1>6 DEF AbortTask
<1>7. ASSUME NEW h \in Helpers, HelperEnds(h) PROVE Goal
  BY <1>2, <1>7 DEF HelperEnds
<1>8. ASSUME NEW r \in Signals, Signal(r) PROVE Goal
  BY <1>8, RunAssumption DEF Signal
<1>9. CASE SignalCancel \/ LimitNotify \/ LimitCancel
  BY <1>9 DEF SignalCancel, LimitNotify, LimitCancel
<1> QED
  BY <1>2, <1>3, <1>4, <1>5, <1>6, <1>7, <1>8, <1>9 DEF RunNext, RunStep

\* With empty hands and an empty raw channel, what is on the path reached the render channel.
LEMMA RenderedIsAll ==
  ASSUME TypeOK, frow = None, raw = <<>>, mrow = None
  PROVE  Range(Path) \cap Lines = Rendered
<1>1. Range(<<>>) = {}
  BY DEF Range
<1>2. Range(Path) = Parts
  BY RangePath
<1> QED
  BY <1>1, <1>2 DEF Parts, Maybe, Rendered

\* Before the render task ends nothing that reached its channel gets lost.
LEMMA RenderedKept ==
  ASSUME IInv, RunTypeOK, LastWordInv, [RunNext]_allVars, ~left, rpc' # "failed"
  PROVE  Rendered \subseteq Rendered'
<1>a. TypeOK /\ TypeOK' /\ HandsInv /\ OrderInv
  BY IInvStep DEF IInv
<1>1. CASE [Next]_vars
  <2>1. CASE rpc = "final" /\ batch' = <<>> /\ renderq' = <<>> /\ UNCHANGED <<out, buf, forwarded>>
    <3>1. batch \in Seq(Commands) /\ renderq \in Seq(Commands)
      BY <1>a, PathType
    <3>2. Range(Queue) = Range(batch) \cup Range(renderq)
      BY <3>1, RangeConcat DEF Queue
    <3>3. Range(Queue) \cap Lines = {}
      BY <2>1 DEF LastWordInv, NoLines, Range
    <3> QED
      BY <2>1, <3>2, <3>3 DEF Rendered
  <2> QED
    BY <1>1, <1>a, <2>1, RenderedStep
<1>2. ASSUME NEW i \in DOMAIN Counters, StatsSwap(i) PROVE Rendered \subseteq Rendered'
  BY <1>2, SwapLeaves DEF Rendered
<1> QED
  BY <1>1, <1>2, RunSteps

\* Once the mux has ended, nothing more is read.
LEMMA MuxOver ==
  ASSUME IInv, [RunNext]_allVars, mpc = "stopped"
  PROVE  mpc' = mpc /\ ended' = ended /\ produced' = produced
<1>1. CASE UNCHANGED <<mpc, ended, produced>>
  BY <1>1
<1>2. CASE MuxStep
  BY <1>2 DEF MuxStep, MuxCancelled, MuxClosed, MuxRow, MuxSend, StreamEnds
<1>3. CASE ForwardStep \/ ForwardPanic \/ AbortForward
  BY <1>1, <1>3 DEF ForwardStep, Pull, PollPending, ForwardSend, ForwardCancelled, ForwardEnd,
     ForwardPanic, AbortForward
<1>4. CASE RenderStep
  BY <1>1, <1>4 DEF RenderStep, RenderRecv, RenderClosed, RenderCmd, Write, Flushed
<1>5. CASE FlushTick \/ TickerStop \/ RenderFail \/ CancelRoot \/ SendShutdown \/ DropRenderTx
           \/ AbortRender \/ AbortMux \/ UNCHANGED vars
  BY <1>1, <1>5 DEF FlushTick, TickerStop, RenderFail, CancelRoot, SendShutdown, DropRenderTx,
     AbortRender, AbortMux
<1>6. ASSUME NEW i \in DOMAIN Counters, StatsSwap(i) PROVE UNCHANGED <<mpc, ended, produced>>
  BY <1>6, SwapLeaves
<1> QED
  BY <1>1, <1>2, <1>3, <1>4, <1>5, <1>6, RunSteps DEF Next, Fault, Abort

LEMMA CleanStep ==
  ASSUME IInv, RunTypeOK, JoinInv, LastWordInv, CleanInv, [RunNext]_allVars
  PROVE  CleanInv'
<1>a. TypeOK /\ TypeOK' /\ HandsInv /\ EndInv /\ BlockingLosesNothing
  BY IInvStep DEF IInv
<1>b. FlowInv /\ FlowInv'
  BY FlowStep DEF CleanInv
<1>c. /\ limit' # "none" => Follow
      /\ signalled' => reason' # "none"
      /\ reason # "none" => reason' # "none"
      /\ triggered => triggered'
      /\ aborted \subseteq aborted'
  BY NothingUndone DEF CleanInv
<1>d. ASSUME Clean', cancelled'
      PROVE  fpc' = "stopped" /\ mpc' = "stopped" /\ ended' = Sources /\ Visible' \subseteq Rendered'
  <2>1. /\ ~Follow /\ ~Lossy /\ reason' = "none" /\ reason = "none" /\ ~triggered' /\ ~triggered
        /\ aborted = {} /\ fpc' # "panicked" /\ rpc' # "failed"
    BY <1>c, <1>d DEF Clean
  <2>2. fpc # "panicked" /\ rpc # "failed" /\ ~left
    BY <2>1, Sticky DEF ForwardStopped, RenderStopped, JoinInv
  <2>3. Clean
    BY <2>1, <2>2 DEF Clean
  <2>4. CASE cancelled
    <3>1. fpc = "stopped" /\ mpc = "stopped" /\ ended = Sources /\ Visible \subseteq Rendered
      BY <2>3, <2>4 DEF CleanInv
    <3>2. fpc' = fpc /\ mpc' = mpc /\ ended' = ended /\ produced' = produced
      BY <3>1, Sticky, MuxOver DEF ForwardStopped
    <3>3. Visible' = Visible
      BY <3>2 DEF Visible, Produced
    <3>4. Rendered \subseteq Rendered'
      BY <2>1, <2>2, RenderedKept
    <3> QED
      BY <3>1, <3>2, <3>3, <3>4
  <2>5. CASE ~cancelled
    <3>1. ForwardStopped /\ UNCHANGED <<streams, mux, raw, fwd, renderq, render>>
      BY <1>c, <1>d, <2>1, <2>5, CancelledByRun DEF CleanInv
    <3>2. fpc = "stopped" /\ PathAlive
      BY <2>2, <2>5, <3>1 DEF ForwardStopped, PathAlive
    <3>3. mpc = "stopped" /\ ended = Sources /\ raw = <<>> /\ frow = None /\ mrow = None
      BY <1>a, <1>b, <3>1, <3>2 DEF EndInv, FlowInv, HandsInv
    <3>4. Visible \subseteq Rendered
      <4>1. Visible \subseteq Range(Path) /\ Visible \subseteq Lines
        BY <1>a, <2>1, <3>2 DEF BlockingLosesNothing, Visible, Produced
      <4> QED
        BY <1>a, <3>3, <4>1, RenderedIsAll
    <3>5. Visible' = Visible /\ Rendered' = Rendered
      BY <3>1 DEF Visible, Produced, Rendered
    <3> QED
      BY <3>1, <3>2, <3>3, <3>4, <3>5
  <2> QED
    BY <2>4, <2>5
<1> QED
  BY <1>b, <1>c, <1>d DEF CleanInv

(***************************************************************************)
(* The invariant, and what follows from it.                                *)
(***************************************************************************)
LEMMA RunInitInv == RunInit => RunIInv
<1> SUFFICES ASSUME RunInit PROVE RunIInv
  OBVIOUS
<1>1. Init /\ IInv
  BY InitInv DEF RunInit
<1>2. Zero \in [Range(Counters) -> Nat] /\ \A c \in {"forwarded", "dropped", "muxDropped"} : Zero[c] = 0
  BY CounterNames DEF Zero
<1>3. RunTypeOK /\ SnapInv
  <2>1. at \in 1..(Len(Steps) + 1)
    BY StepsFacts DEF RunInit
  <2>2. spc \in {"tick", "stopped"}
    BY DEF RunInit
  <2> QED
    BY <1>1, <1>2, <2>1, <2>2 DEF RunTypeOK, RunInit, SnapInv, IInv
<1>4. JoinInv
  <2>1. \A u : ~Past(u)
    BY <1>3, PastPipeline DEF RunInit, RunTypeOK
  <2> QED
    BY <2>1 DEF JoinInv, RunInit
<1>5. Range(<<>>) = {} /\ out = <<>> /\ buf = <<>> /\ batch = <<>> /\ renderq = <<>> /\ raw = <<>>
  BY <1>1 DEF Range, Init
<1>6. LastWordInv
  <2>1. Queue = <<>>
    BY <1>5 DEF Queue
  <2> QED
    BY <1>1, <2>1 DEF LastWordInv, HasShutdown, ShutdownLast, Init
<1>7. Rendered = {}
  BY <1>5 DEF Rendered
<1>8. /\ Total("forwarded") = 0 /\ Total("dropped") = 0 /\ Total("muxDropped") = 0
  BY <1>1, <1>2 DEF Total, Window, RunInit, Init
<1>9. IsFiniteSet({}) /\ Cardinality({}) = 0
  BY FS_EmptySet
<1>10. ForwardInv
  BY <1>7, <1>8, <1>9 DEF ForwardInv
<1>11. CleanInv
  BY <1>1, <1>5, <1>7, LineKinds DEF CleanInv, FlowInv, RunInit, Init, ForwardStopped
<1>12. Produced = {}
  BY <1>1, LineBounds DEF Produced, Init, Lines, Source
<1>13. DropsCounted
  <2>1. Visible \ Range(Path) = {} /\ Produced \ Range(Path) = {}
    BY <1>12 DEF Visible
  <2> QED
    BY <1>8, <1>9, <2>1 DEF DropsCounted
<1> QED
  BY <1>1, <1>3, <1>4, <1>6, <1>9, <1>10, <1>11, <1>12, <1>13 DEF RunIInv

LEMMA RunStepInv == RunIInv /\ [RunNext]_allVars => RunIInv'
<1> SUFFICES ASSUME RunIInv, [RunNext]_allVars PROVE RunIInv'
  OBVIOUS
<1>1. /\ IInv /\ RunTypeOK /\ SnapInv /\ JoinInv /\ LastWordInv /\ ForwardInv /\ CleanInv
      /\ IsFiniteSet(Produced) /\ DropsCounted
  BY DEF RunIInv
<1>2. IInv' /\ RunTypeOK' /\ SnapInv' /\ JoinInv' /\ LastWordInv'
  BY <1>1, IInvStep, RunTypeStep, TotalStep, JoinStep, LastWordStep
<1>3. ForwardInv' /\ CleanInv' /\ IsFiniteSet(Produced') /\ DropsCounted'
  BY <1>1, ForwardedStep, CleanStep, ProducedStep, DropsStep
<1> QED
  BY <1>2, <1>3 DEF RunIInv

LEMMA RunInvariance == RunSpec => []RunIInv
  BY RunInitInv, RunStepInv, PTL DEF RunSpec

\* Every variable of the run stays within its type: at, in particular, never points
\* beyond the last step of the shutdown but one.
THEOREM RunTypeCorrect == RunSpec => []RunTypeOK
<1>1. RunIInv => RunTypeOK
  BY DEF RunIInv
<1> QED
  BY <1>1, RunInvariance, PTL

\* run_with_client and main never report success for a run in which --exit-on fired, the
\* pipeline panicked, a source failed or a signal came, unless run had to leave the
\* pipeline task behind.
THEOREM SuccessMeansSuccess == RunSpec => []SuccessIsSuccess
<1>1. RunIInv => SuccessIsSuccess
  <2> SUFFICES ASSUME RunIInv, code = 0, ~left
               PROVE  ~triggered /\ fpc # "panicked" /\ ~errors /\ reason = "none"
    BY DEF SuccessIsSuccess
  <2>1. JoinInv /\ RunTypeOK
    BY DEF RunIInv
  <2>2. runpc = "exited" /\ at = Len(Steps) + 1 /\ ExitCode = 0
    BY <2>1, RunAssumption DEF JoinInv
  <2>3. fpc = "panicked" => pipeErr
    BY <2>1, <2>2, PastPipeline DEF JoinInv, RunTypeOK
  <2>4. reason \in {"none", "SIGINT", "SIGTERM"}
    BY <2>1 DEF RunTypeOK
  <2> QED
    BY <2>2, <2>3, <2>4 DEF ExitCode
<1> QED
  BY <1>1, RunInvariance, PTL

\* With --lossy the counters of RunStats account for every line that disappears, and for
\* nothing else, whatever the reporter does meanwhile.
THEOREM LossyCounts == RunSpec => []DropsCounted
<1>1. RunIInv => DropsCounted
  BY DEF RunIInv
<1> QED
  BY <1>1, RunInvariance, PTL

\* What the filters accept of a run that ended in time is on stdout: a --no-follow run
\* cancels the root after the pipeline's end, and tells the render task last.
THEOREM PromptRunComplete == RunSpec => []PromptRunIsComplete
<1>1. RunIInv => PromptRunIsComplete
  <2> SUFFICES ASSUME RunIInv, runpc = "exited", ~Follow, ~Lossy, reason = "none", ~triggered,
                      aborted = {}, fpc # "panicked", rpc # "failed"
               PROVE  ended = Sources /\ Visible = Range(out)
    BY DEF PromptRunIsComplete
  <2>1. JoinInv /\ RunTypeOK /\ LastWordInv /\ CleanInv /\ TypeOK /\ OrderInv
    BY DEF RunIInv, IInv
  <2>2. cancelled /\ Past("render")
    BY <2>1, PastPipeline DEF JoinInv, RunTypeOK
  <2>3. rpc = "stopped" /\ buf = <<>> /\ batch = <<>> /\ renderq = <<>>
    BY <2>1, <2>2 DEF JoinInv, RenderStopped, LastWordInv
  <2>4. ended = Sources /\ Visible \subseteq Rendered
    BY <2>1, <2>2 DEF CleanInv, Clean
  <2>5. Rendered = Range(out)
    <3>1. Range(<<>>) = {}
      BY DEF Range
    <3>2. Range(out) \subseteq Lines
      BY <2>1 DEF TypeOK, Range
    <3> QED
      BY <2>3, <3>1, <3>2 DEF Rendered
  <2>6. Rendered \subseteq Produced
    <3>1. Range(Path) = Parts
      BY <2>1, RangePath
    <3>2. \A l \in Range(Path) : l \in Lines => l \in Produced
      BY <2>1 DEF OrderInv, Range
    <3> QED
      BY <3>1, <3>2 DEF Parts, Rendered
  <2>7. Rendered \cap (Hidden \cup Failing) = {}
    BY <2>1 DEF CleanInv, FlowInv
  <2> QED
    BY <2>4, <2>5, <2>6, <2>7 DEF Visible
<1> QED
  BY <1>1, RunInvariance, PTL

\* A list without repetitions is as long as the set of its entries.
LEMMA SortedLength ==
  ASSUME NEW q \in Seq(Lines), Sorted(q)
  PROVE  Cardinality(Range(q)) = Len(q)
<1>1. Len(q) \in Nat /\ DOMAIN q = 1..Len(q) /\ \A i \in DOMAIN q : q[i] \in Lines
  OBVIOUS
<1>2. ASSUME NEW i \in DOMAIN q, NEW j \in DOMAIN q, i < j PROVE q[i] # q[j]
  <2>1. q[i][2] \in Nat
    BY <1>1, LineBounds DEF Lines
  <2> QED
    BY <1>1, <1>2, <2>1 DEF Sorted
<1>3. \A i, j \in 1..Len(q) : q[i] = q[j] => i = j
  BY <1>1, <1>2
<1>4. q \in [1..Len(q) -> Range(q)] /\ \A l \in Range(q) : \E i \in 1..Len(q) : q[i] = l
  BY <1>1 DEF Range
<1>5. IsFiniteSet(1..Len(q)) /\ Cardinality(1..Len(q)) = Len(q)
  BY <1>1, FS_Interval
<1>6. q \in Bijection(1..Len(q), Range(q))
  BY <1>3, <1>4 DEF Bijection, Injection, Surjection, IsInjective
<1> QED
  BY <1>5, <1>6, FS_Bijection DEF ExistsBijection

\* Every line that reached the render channel is on stdout when the process exits, unless
\* stdout failed or a task was given up: no line follows Shutdown, and no window of the
\* reporter counts it twice.
THEOREM ForwardedWritten == RunSpec => []ForwardedIsWritten
<1>1. RunIInv => ForwardedIsWritten
  <2> SUFFICES ASSUME RunIInv, rpc = "stopped", ~left PROVE Len(out) = Total("forwarded")
    BY DEF ForwardedIsWritten
  <2>1. ForwardInv /\ LastWordInv /\ TypeOK /\ OrderInv
    BY DEF RunIInv, IInv
  <2>2. buf = <<>> /\ batch = <<>> /\ renderq = <<>>
    BY <2>1 DEF LastWordInv
  <2>3. Rendered = Range(out)
    <3>1. Range(<<>>) = {}
      BY DEF Range
    <3>2. Range(out) \subseteq Lines
      BY <2>1 DEF TypeOK, Range
    <3> QED
      BY <2>2, <3>1, <3>2 DEF Rendered
  <2>4. Sorted(out)
    <3>1. out \in Seq(Commands) /\ buf \in Seq(Commands)
      BY <2>1, PathType
    <3>2. \A i \in DOMAIN out : i \in DOMAIN (out \o buf) /\ (out \o buf)[i] = out[i]
      BY <3>1, ConcatPrefix, Zenon
    <3>3. \A i \in DOMAIN out : i \in DOMAIN Path /\ Path[i] = out[i]
      BY <2>1, <3>2, PathPrefix, Zenon
    <3> QED
      BY <2>1, <3>3 DEF OrderInv, Sorted
  <2>5. out \in Seq(Lines) /\ Cardinality(Range(out)) = Len(out)
    BY <2>1, <2>4, SortedLength DEF TypeOK
  <2> QED
    BY <2>1, <2>3, <2>5 DEF ForwardInv
<1> QED
  BY <1>1, RunInvariance, PTL
=============================================================================
