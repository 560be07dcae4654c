---------------------------- MODULE RunShutdown ----------------------------
(***************************************************************************)
(* run_with_client from the moment its tasks are spawned: what it waits    *)
(* for, the bounded joins of its shutdown, the last word to the render     *)
(* task, and the process's exit code. The tasks that move log lines are    *)
(* those of LineFlow, stepping concurrently, and so does the --stats       *)
(* reporter, which takes their counters; the others (watch, cursor         *)
(* processor, lossy summary) only matter here by when they end.            *)
(***************************************************************************)
EXTENDS LineFlow

CONSTANTS
  Helpers,   \* which of "watch", "cursor", "metrics", "stats" were spawned
  Signals    \* the signals that may arrive

ASSUME RunAssumption ==
  /\ Helpers \subseteq {"watch", "cursor", "metrics", "stats"}
  /\ Signals \subseteq {"SIGINT", "SIGTERM"}
  /\ None \notin Nat

VARIABLES
  runpc,      \* "wait", "polled" (between two polls of the select), "join", "exited"
  at,         \* the step of the shutdown run is at
  aborted,    \* tasks whose abort was requested
  left,       \* history: run did not wait for the pipeline task any longer
  helperDone,
  limit,      \* the follow_limit_notifier: "none", "sent" or "cancelled"
  limitHit, pipeErr,
  pipeJoined, \* the wait has already taken the pipeline task's result
  reason,     \* shutdown_reason: which signal was stored
  signalled,  \* the signal listener has cancelled the root
  spc, snap,  \* the reporter of RunStats and the snapshot it is taking
  printed,    \* history: what its lines on stderr add up to
  code        \* the exit code

cancellers == <<limit, reason, signalled>>
joins   == <<aborted, left, helperDone>>
results == <<limitHit, pipeErr, pipeJoined, code>>
stats   == <<spc, snap, printed>>
runVars == <<runpc, at, cancellers, joins, results, stats>>
allVars == <<vars, runVars>>

\* A helper is joined if it was spawned.
Spawned(h) == IF h \in Helpers THEN <<h>> ELSE <<>>

\* Variant with a fault: the render task is told to shut down before the others end.
ShutdownFirst ==
  <<"Shutdown">> \o Spawned("watch") \o <<"mux", "pipeline">>
  \o Spawned("cursor") \o Spawned("metrics") \o Spawned("stats")
  \o <<"flush_ticker", "drop_tx", "render">>

\* The shutdown, in the order of the code.
Steps ==
  Spawned("watch") \o <<"mux", "pipeline">>
  \o Spawned("cursor") \o Spawned("metrics") \o Spawned("stats")
  \o <<"flush_ticker", "Shutdown", "drop_tx", "render">>

Tasks == Helpers \cup {"mux", "pipeline", "flush_ticker", "render"}

\* The counters of RunStats, in the order in which a snapshot takes them.
Counters == <<"forwarded", "dropped", "muxDropped">>
Zero == [c \in Range(Counters) |-> 0]

RunTypeOK ==
  /\ TypeOK
  /\ spc \in {"tick", "dropped", "muxDropped", "print", "stopped"}
  /\ snap \in [Range(Counters) -> Nat] /\ printed \in [Range(Counters) -> Nat]
  /\ runpc \in {"wait", "polled", "join", "exited"}
  /\ at \in 1..(Len(Steps) + 1)
  /\ aborted \subseteq Tasks /\ left \in BOOLEAN /\ helperDone \subseteq Helpers
  /\ limit \in {"none", "sent", "cancelled"}
  /\ limitHit \in BOOLEAN
  /\ pipeErr \in BOOLEAN /\ pipeJoined \in BOOLEAN
  /\ reason \in {"none", "SIGINT", "SIGTERM"} /\ signalled \in BOOLEAN
  /\ code \in {None, 0, 1, 2, 130, 143}

RunInit ==
  /\ Init
  /\ runpc = "wait" /\ at = 1 /\ aborted = {} /\ left = FALSE /\ helperDone = {}
  /\ limit = "none" /\ limitHit = FALSE
  /\ pipeErr = FALSE /\ pipeJoined = FALSE
  /\ reason = "none" /\ signalled = FALSE /\ code = None
  /\ spc = (IF "stats" \in Helpers THEN "tick" ELSE "stopped") /\ snap = Zero /\ printed = Zero

(***************************************************************************)
(* Who cancels the root.                                                   *)
(***************************************************************************)
\* The root token is, or already was, cancelled.
Cancel == CancelRoot \/ (cancelled /\ UNCHANGED vars)

\* The signal listener stores the reason, then cancels.
Signal(r) ==
  /\ reason = "none" /\ reason' = r
  /\ UNCHANGED <<vars, runpc, at, limit, signalled, joins, results, stats>>

SignalCancel ==
  /\ reason # "none" /\ ~signalled /\ signalled' = TRUE
  /\ Cancel
  /\ UNCHANGED <<runpc, at, limit, reason, joins, results, stats>>

\* An attach task finds no permit: it notifies, then cancels.
LimitNotify ==
  /\ Follow /\ limit = "none" /\ limit' = "sent"
  /\ UNCHANGED <<vars, runpc, at, reason, signalled, joins, results, stats>>

LimitCancel ==
  /\ limit = "sent" /\ limit' = "cancelled"
  /\ Cancel
  /\ UNCHANGED <<runpc, at, reason, signalled, joins, results, stats>>

(***************************************************************************)
(* RunStats::stderr_reporter. The mux and forward tasks add to the counters*)
(* while it swaps them with 0, one after the other.                        *)
(***************************************************************************)
Window == [forwarded |-> forwarded, dropped |-> dropped, muxDropped |-> muxDropped]
SetWindow(w) ==
  /\ forwarded' = w.forwarded /\ dropped' = w.dropped /\ muxDropped' = w.muxDropped
  /\ UNCHANGED <<state, streams, mpc, mrow, raw, fpc, frow, ticking, runTx, renderq, render>>

\* Variant with a fault: the counters are read, and reset when all of them are.
StatsSwapLoads(i) ==
  /\ spc = IF i = 1 THEN "tick" ELSE Counters[i]
  /\ snap' = [snap EXCEPT ![Counters[i]] = Window[Counters[i]]]
  /\ IF i < Len(Counters) THEN UNCHANGED vars ELSE SetWindow(Zero)
  /\ spc' = IF i < Len(Counters) THEN Counters[i + 1] ELSE "print"
  /\ UNCHANGED <<runpc, at, cancellers, joins, results, printed>>

\* snapshot_and_reset: the next counter is swapped, the first one when the interval is over.
StatsSwap(i) ==
  /\ spc = IF i = 1 THEN "tick" ELSE Counters[i]
  /\ snap' = [snap EXCEPT ![Counters[i]] = Window[Counters[i]]]
  /\ SetWindow([Window EXCEPT ![Counters[i]] = 0])
  /\ spc' = IF i < Len(Counters) THEN Counters[i + 1] ELSE "print"
  /\ UNCHANGED <<runpc, at, cancellers, joins, results, printed>>

\* The line is on stderr.
StatsPrint ==
  /\ spc = "print" /\ spc' = "tick"
  /\ printed' = [c \in Range(Counters) |-> printed[c] + snap[c]] /\ snap' = Zero
  /\ UNCHANGED <<vars, runpc, at, cancellers, joins, results>>

StatsStop == spc' = "stopped" /\ UNCHANGED <<snap, printed>>

\* The token is cancelled, or stderr does not take the line.
StatsEnds ==
  /\ (spc = "tick" /\ cancelled) \/ spc = "print"
  /\ StatsStop
  /\ UNCHANGED <<vars, runpc, at, cancellers, joins, results>>

StatsStep ==
  \/ StatsPrint \/ StatsEnds
  \/ \E i \in DOMAIN Counters : StatsSwap(i)

(***************************************************************************)
(* What run waits for.                                                     *)
(***************************************************************************)
\* With --follow: the biased select polls the limit channel first ...
PollLimit ==
  /\ runpc = "wait" /\ Follow
  /\ IF limit # "none"
     THEN limitHit' = TRUE /\ runpc' = "join" /\ Cancel
     ELSE runpc' = "polled" /\ UNCHANGED <<vars, limitHit>>
  /\ UNCHANGED <<at, cancellers, joins, pipeErr, pipeJoined, code, stats>>

\* ... and then the token.
PollCancelled ==
  /\ runpc = "polled"
  /\ runpc' = IF cancelled THEN "join" ELSE "wait"
  /\ UNCHANGED <<vars, at, cancellers, joins, results, stats>>

\* Variant with a fault: the result of the task is not looked at.
PipelineEndedUnseen ==
  /\ runpc = "wait" /\ ~Follow /\ ForwardStopped
  /\ pipeJoined' = TRUE
  /\ runpc' = "join" /\ Cancel
  /\ UNCHANGED <<at, cancellers, joins, limitHit, pipeErr, code, stats>>

\* Without --follow: the pipeline's end, or the token.
PipelineEnded ==
  /\ runpc = "wait" /\ ~Follow /\ ForwardStopped
  /\ pipeJoined' = TRUE /\ pipeErr' = (fpc = "panicked")
  /\ runpc' = "join" /\ Cancel
  /\ UNCHANGED <<at, cancellers, joins, limitHit, code, stats>>

CancelledFirst ==
  /\ runpc = "wait" /\ ~Follow /\ cancelled
  /\ runpc' = "join"
  /\ UNCHANGED <<vars, at, cancellers, joins, results, stats>>

(***************************************************************************)
(* shutdown_join_bounded, task after task.                                 *)
(***************************************************************************)
Finished(t) ==
  CASE t = "mux" -> mpc = "stopped"
    [] t = "pipeline" -> ForwardStopped
    [] t = "flush_ticker" -> ~ticking
    [] t = "render" -> RenderStopped
    [] t = "stats" -> spc = "stopped"
    [] OTHER -> t \in helperDone

AtTask(t) == runpc = "join" /\ at <= Len(Steps) /\ Steps[at] = t

\* The task has ended, in time or after its abort.
Joined(t) ==
  /\ AtTask(t) /\ Finished(t)
  /\ at' = at + 1
  /\ pipeErr' = (pipeErr \/ (t = "pipeline" /\ ~pipeJoined /\ fpc = "panicked"))
  /\ UNCHANGED <<vars, runpc, cancellers, joins, limitHit, pipeJoined, code, stats>>

JoinTimeout(t) ==
  /\ AtTask(t) /\ ~Finished(t) /\ t \notin aborted
  /\ aborted' = aborted \cup {t}
  /\ UNCHANGED <<vars, runpc, at, cancellers, left, helperDone, results, stats>>

\* The task did not even finish after its abort.
AbortTimeout(t) ==
  /\ AtTask(t) /\ ~Finished(t) /\ t \in aborted
  /\ at' = at + 1 /\ left' = (left \/ t = "pipeline")
  /\ UNCHANGED <<vars, runpc, cancellers, aborted, helperDone, results, stats>>

\* An aborted task stops where it next waits.
AbortTask(t) ==
  /\ t \in aborted
  /\ \/ /\ \/ t = "mux" /\ AbortMux
           \/ t = "pipeline" /\ AbortForward
           \/ t = "flush_ticker" /\ TickerStop
           \/ t = "render" /\ AbortRender
        /\ UNCHANGED <<helperDone, stats>>
     \/ t = "stats" /\ spc \in {"tick", "print"} /\ StatsStop /\ UNCHANGED <<vars, helperDone>>
     \/ /\ t \in Helpers \ (helperDone \cup {"stats"}) /\ helperDone' = helperDone \cup {t}
        /\ UNCHANGED <<vars, stats>>
  /\ UNCHANGED <<runpc, at, cancellers, aborted, left, results>>

\* The other tasks watch the token too.
HelperEnds(h) ==
  /\ cancelled /\ h \notin helperDone \cup {"stats"} /\ helperDone' = helperDone \cup {h}
  /\ UNCHANGED <<vars, runpc, at, cancellers, aborted, left, results, stats>>

(***************************************************************************)
(* The render task, the result and the exit code.                          *)
(***************************************************************************)
\* Variant with a fault: the send is not bounded by a timeout.
TellRenderUnbounded ==
  /\ AtTask("Shutdown") /\ at' = at + 1
  /\ SendShutdown \/ (RenderStopped /\ UNCHANGED vars)
  /\ UNCHANGED <<runpc, cancellers, joins, results, stats>>

\* Shutdown is sent, or the channel is closed, or there is no room for it in time.
TellRender ==
  /\ AtTask("Shutdown") /\ at' = at + 1
  /\ \/ SendShutdown
     \/ (RenderStopped \/ Len(renderq) = Capacity) /\ UNCHANGED vars
  /\ UNCHANGED <<runpc, cancellers, joins, results, stats>>

DropTx ==
  /\ AtTask("drop_tx") /\ at' = at + 1
  /\ DropRenderTx
  /\ UNCHANGED <<runpc, cancellers, joins, results, stats>>

\* The precedence of run's results, and of main's codes.
ExitCode ==
  IF pipeErr \/ limitHit \/ triggered THEN 1
  ELSE IF errors THEN 2
  ELSE CASE reason = "SIGINT" -> 130 [] reason = "SIGTERM" -> 143 [] OTHER -> 0

Exit ==
  /\ runpc = "join" /\ at > Len(Steps)
  /\ runpc' = "exited" /\ code' = ExitCode
  /\ UNCHANGED <<vars, at, cancellers, joins, limitHit, pipeErr, pipeJoined, stats>>

RunStep ==
  \/ PollLimit \/ PollCancelled \/ PipelineEnded \/ CancelledFirst
  \/ \E t \in Tasks : Joined(t) \/ JoinTimeout(t) \/ AbortTimeout(t)
  \/ TellRender \/ DropTx \/ Exit

PathStep == MuxStep \/ ForwardStep \/ FlushTick \/ TickerStop \/ RenderStep \/ Fault

\* process::exit ends every task.
RunNext ==
  /\ runpc # "exited"
  /\ \/ PathStep /\ UNCHANGED runVars
     \/ RunStep \/ StatsStep
     \/ \E t \in Tasks : AbortTask(t)
     \/ \E h \in Helpers : HelperEnds(h)
     \/ \E r \in Signals : Signal(r)
     \/ SignalCancel \/ LimitNotify \/ LimitCancel

RunSpec == RunInit /\ [][RunNext]_allVars

\* run itself is polled, and its timers expire; nothing is assumed of the other tasks.
FairRunSpec == RunSpec /\ WF_allVars(RunStep)

(***************************************************************************)
(* Properties.                                                             *)
(***************************************************************************)
\* All that a counter ever counted: printed, in the reporter's hand, or still in it.
Total(c) == printed[c] + snap[c] + Window[c]

\* Every line that forward_to_render put into the render channel is on stdout when the
\* process exits, unless stdout failed or the render task had to be aborted: nothing
\* is ever sent behind Shutdown, a closed channel is drained, and --stats counts each
\* of these lines in exactly one window.
ForwardedIsWritten ==
  runpc = "exited" /\ rpc = "stopped" /\ ~left => Len(out) = Total("forwarded")

\* With --lossy every line that disappears is counted by one of the two tiers, in
\* exactly one window of --stats, and nothing else is: no tick of the reporter loses or
\* repeats what is counted while it takes the counters one by one.
DropsCounted ==
  Lossy /\ PathAlive =>
    /\ Cardinality(Visible \ Range(Path)) <= Total("muxDropped") + Total("dropped")
    /\ Total("muxDropped") + Total("dropped") <= Cardinality(Produced \ Range(Path))

\* A --no-follow run that ends by itself, with every task in time, printed everything.
PromptRunIsComplete ==
  /\ runpc = "exited" /\ ~Follow /\ ~Lossy /\ reason = "none" /\ ~triggered
  /\ aborted = {} /\ fpc # "panicked" /\ rpc # "failed"
  => ended = Sources /\ Visible = Range(out)

\* Exit code 0 is never given to a run in which a pattern matched, the pipeline
\* panicked, a source failed or a signal ended the run.
SuccessIsSuccess ==
  code = 0 /\ ~left =>
    ~triggered /\ fpc # "panicked" /\ ~errors /\ reason = "none"

\* Once the root is cancelled the process exits, even if stdout is blocked for good and
\* no task reacts.
CancelledRunExits == cancelled ~> runpc = "exited"

(***************************************************************************)
(* What the documentation says and the code does not do.                   *)
(***************************************************************************)
\* README.md: "exceeding --max-log-requests concurrent openings ends with an error".
LimitEndsWithError == runpc = "exited" /\ limit = "cancelled" /\ reason = "none" => code = 1
=============================================================================
