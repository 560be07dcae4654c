------------------------------ MODULE LineFlow ------------------------------
(***************************************************************************)
(* The path of a log line, from the streams the mux holds to stdout:       *)
(*                                                                         *)
(*   streams -> mux -> raw channel -> pipeline, forward_to_render          *)
(*           -> render channel -> render_task -> BufWriter -> stdout       *)
(*                                                                         *)
(* with the flush ticker as a second writer of the render channel and the  *)
(* root cancellation token watched by everyone but the render task. Each   *)
(* task is a process of its own; both channels are bounded.                *)
(*                                                                         *)
(* A line is its source and its number. What the pipeline's stages make of *)
(* it is given by three sets: lines that the filters hide, lines that fire *)
(* --exit-on, and rows that are an API error instead of a line.            *)
(***************************************************************************)
EXTENDS Naturals, Sequences, FiniteSets, SequencesExt

CONSTANTS
  Sources,
  MaxLines,     \* bound: lines per source
  BufferSize,   \* --buffer-size
  Batch,        \* RENDER_RECV_BATCH (256 in the code)
  Follow,       \* --follow; FALSE is --no-follow
  Lossy,        \* --lossy: both tiers drop instead of waiting
  Hidden, Trigger, Failing,
  Flush, Shutdown,       \* RenderCommand; a Line command is the line itself
  None

Lines == Sources \X (1..MaxLines)
Source(l) == l[1]

ASSUME LineBounds == MaxLines \in Nat /\ BufferSize \in Nat /\ Batch \in Nat \ {0}
ASSUME LineFlags == Follow \in BOOLEAN /\ Lossy \in BOOLEAN
ASSUME LineKinds ==
  /\ Hidden \subseteq Lines /\ Trigger \subseteq Lines /\ Failing \subseteq Lines
  /\ Failing \cap (Hidden \cup Trigger) = {}
  /\ None \notin Lines
  /\ Flush \notin Lines /\ Shutdown \notin Lines /\ Flush # Shutdown

VARIABLES
  cancelled, triggered,  \* the root token; ExitWatchState
  errors,                \* RunStats.source_errors > 0
  produced, ended,       \* lines read from each stream; streams that ended
  mpc, mrow,             \* the mux task and the row it waits to send
  raw,                   \* the raw channel
  fpc, frow,             \* the forward task and the line it waits to send
  ticking,               \* the flush ticker runs
  runTx,                 \* run still holds its render_tx
  renderq,               \* the render channel
  rpc, batch, buf,       \* the render task, the commands it received, its BufWriter
  out,                   \* what stdout accepted
  muxDropped, dropped, forwarded  \* counters of drops and of lines forwarded

state   == <<cancelled, triggered, errors>>
streams == <<produced, ended>>
mux     == <<mpc, mrow, muxDropped>>
fwd     == <<fpc, frow, dropped, forwarded>>
render  == <<rpc, batch, buf, out>>
vars    == <<state, streams, mux, raw, fwd, ticking, runTx, renderq, render>>

\* Both channels are made with buffer_size.max(1).
Capacity == IF BufferSize = 0 THEN 1 ELSE BufferSize

Commands == Lines \cup {Flush, Shutdown}
ForwardStopped == fpc \in {"stopped", "panicked"}
RenderStopped == rpc \in {"stopped", "failed"}

TypeOK ==
  /\ cancelled \in BOOLEAN /\ triggered \in BOOLEAN /\ errors \in BOOLEAN
  /\ produced \in [Sources -> 0..MaxLines] /\ ended \subseteq Sources
  /\ mpc \in {"select", "forward", "stopped"} /\ mrow \in Lines \cup {None}
  /\ raw \in Seq(Lines) /\ Len(raw) <= Capacity
  /\ fpc \in {"recv", "poll", "send", "stopped", "panicked"} /\ frow \in Lines \cup {None}
  /\ ticking \in BOOLEAN /\ runTx \in BOOLEAN
  /\ renderq \in Seq(Commands) /\ Len(renderq) <= Capacity
  /\ rpc \in {"recv", "write", "flush", "final", "stopped", "failed"}
  /\ batch \in Seq(Commands) /\ Len(batch) <= Batch
  /\ buf \in Seq(Lines) /\ out \in Seq(Lines)
  /\ muxDropped \in Nat /\ dropped \in Nat /\ forwarded \in Nat

Init ==
  /\ cancelled = FALSE /\ triggered = FALSE /\ errors = FALSE
  /\ produced = [s \in Sources |-> 0] /\ ended = {}
  /\ mpc = "select" /\ mrow = None /\ raw = <<>>
  /\ fpc = "recv" /\ frow = None
  /\ ticking = TRUE /\ runTx = TRUE /\ renderq = <<>>
  /\ rpc = "recv" /\ batch = <<>> /\ buf = <<>> /\ out = <<>>
  /\ muxDropped = 0 /\ dropped = 0 /\ forwarded = 0

(***************************************************************************)
(* The mux task.                                                           *)
(***************************************************************************)
\* The loop breaks: the row in hand, the streams and raw_event_tx are dropped.
MuxExit ==
  /\ mpc' = "stopped" /\ mrow' = None
  /\ UNCHANGED <<muxDropped, raw>>

MuxCancelled ==
  /\ mpc # "stopped" /\ cancelled /\ MuxExit
  /\ UNCHANGED <<state, streams, fwd, ticking, runTx, renderq, render>>

\* Without --follow the command channel closes once every stream has ended.
MuxClosed ==
  /\ mpc = "select" /\ ~cancelled /\ ~Follow /\ ended = Sources
  /\ MuxExit
  /\ UNCHANGED <<state, streams, fwd, ticking, runTx, renderq, render>>

\* A stream yields its next row; Blocking waits for room, Lossy tries once.
MuxRow(s) ==
  /\ mpc = "select" /\ ~cancelled
  /\ s \notin ended /\ produced[s] < MaxLines
  /\ produced' = [produced EXCEPT ![s] = @ + 1]
  /\ LET row == <<s, produced[s] + 1>> IN
       IF ~Lossy
       THEN mpc' = "forward" /\ mrow' = row /\ UNCHANGED <<raw, muxDropped>>
       ELSE IF ForwardStopped THEN MuxExit
       ELSE /\ IF Len(raw) < Capacity
               THEN raw' = Append(raw, row) /\ UNCHANGED muxDropped
               ELSE muxDropped' = muxDropped + 1 /\ UNCHANGED raw
            /\ UNCHANGED <<mpc, mrow>>
  /\ UNCHANGED <<state, ended, fwd, ticking, runTx, renderq, render>>

\* raw_event_tx.send(row).await, raced with the token.
MuxSend ==
  /\ mpc = "forward" /\ ~cancelled
  /\ \/ ForwardStopped /\ MuxExit
     \/ /\ ~ForwardStopped /\ Len(raw) < Capacity
        /\ raw' = Append(raw, mrow)
        /\ mpc' = "select" /\ mrow' = None /\ UNCHANGED muxDropped
  /\ UNCHANGED <<state, streams, fwd, ticking, runTx, renderq, render>>

StreamEnds(s) ==
  /\ mpc = "select" /\ ~cancelled /\ s \notin ended
  /\ ended' = ended \cup {s}
  /\ UNCHANGED <<state, produced, mux, raw, fwd, ticking, runTx, renderq, render>>

(***************************************************************************)
(* The pipeline and forward_to_render, one task: the pipeline's stages run *)
(* inside source_stream.next().                                            *)
(***************************************************************************)
\* The loop breaks: the stream, with the raw channel's receiver, is dropped.
ForwardStop(as) ==
  /\ fpc' = as /\ frow' = None /\ raw' = <<>>
  /\ UNCHANGED <<dropped, forwarded>>

\* A line reaches the render channel.
Forwarded(l) ==
  /\ renderq' = Append(renderq, l)
  /\ forwarded' = forwarded + 1
  /\ fpc' = "recv" /\ frow' = None
  /\ UNCHANGED dropped

\* source_stream.next() is being polled: the token is looked at before, not between
\* two rows of which the first one is hidden.
NextPolled == (fpc = "recv" /\ ~cancelled) \/ fpc = "poll"

\* What becomes of a line that passed the pipeline.
Deliver(l) ==
  IF ~Lossy
  THEN fpc' = "send" /\ frow' = l /\ raw' = Tail(raw) /\ UNCHANGED <<dropped, forwarded, renderq>>
  ELSE IF RenderStopped THEN ForwardStop("stopped") /\ UNCHANGED renderq
  ELSE /\ raw' = Tail(raw)
       /\ IF Len(renderq) < Capacity THEN Forwarded(l)
          ELSE /\ fpc' = "recv" /\ dropped' = dropped + 1
               /\ UNCHANGED <<frow, forwarded, renderq>>

\* Variant with a fault: the filters run before the exit watch.
PullFilterFirst ==
  /\ NextPolled
  /\ raw # <<>>
  /\ LET l == Head(raw)
         fire == l \in Trigger \ Hidden
     IN /\ triggered' = (triggered \/ fire)
        /\ cancelled' = (cancelled \/ (fire /\ ~triggered))
        /\ errors' = (errors \/ l \in Failing)
        /\ IF l \in Failing \cup Hidden
           THEN /\ fpc' = IF l \in Hidden THEN "poll" ELSE "recv"
                /\ raw' = Tail(raw)
                /\ UNCHANGED <<frow, dropped, forwarded, renderq>>
           ELSE Deliver(l)
  /\ UNCHANGED <<streams, mux, ticking, runTx, render>>

\* The next row goes through the pipeline.
Pull ==
  /\ NextPolled
  /\ raw # <<>>
  /\ LET l == Head(raw)
         fire == l \in Trigger
     IN /\ triggered' = (triggered \/ fire)
        /\ cancelled' = (cancelled \/ (fire /\ ~triggered))
        /\ errors' = (errors \/ l \in Failing)
        /\ IF l \in Failing \cup Hidden
           THEN /\ fpc' = IF l \in Hidden THEN "poll" ELSE "recv"
                /\ raw' = Tail(raw)
                /\ UNCHANGED <<frow, dropped, forwarded, renderq>>
           ELSE Deliver(l)
  /\ UNCHANGED <<streams, mux, ticking, runTx, render>>

\* next() is pending: nothing more to read, or the task's budget is used up.
PollPending ==
  /\ fpc = "poll" /\ fpc' = "recv"
  /\ UNCHANGED <<state, streams, mux, raw, frow, dropped, forwarded, ticking, runTx, renderq, render>>

\* tx.send(Line).await, raced with the token.
ForwardSend ==
  /\ fpc = "send" /\ ~cancelled
  /\ \/ RenderStopped /\ ForwardStop("stopped") /\ UNCHANGED renderq
     \/ ~RenderStopped /\ Len(renderq) < Capacity /\ Forwarded(frow) /\ UNCHANGED raw
  /\ UNCHANGED <<state, streams, mux, ticking, runTx, render>>

ForwardCancelled ==
  /\ fpc \in {"recv", "send"} /\ cancelled /\ ForwardStop("stopped")
  /\ UNCHANGED <<state, streams, mux, ticking, runTx, renderq, render>>

\* Variant with a fault: the mux's end is taken for the end of the raw channel.
ForwardEndEarly ==
  /\ NextPolled
  /\ mpc = "stopped" /\ ForwardStop("stopped")
  /\ UNCHANGED <<state, streams, mux, ticking, runTx, renderq, render>>

\* The raw channel is empty and its sender gone.
ForwardEnd ==
  /\ NextPolled
  /\ raw = <<>> /\ mpc = "stopped" /\ ForwardStop("stopped")
  /\ UNCHANGED <<state, streams, mux, ticking, runTx, renderq, render>>

\* A stage panics on a row.
ForwardPanic ==
  /\ fpc \in {"recv", "poll"} /\ raw # <<>> /\ ForwardStop("panicked")
  /\ UNCHANGED <<state, streams, mux, ticking, runTx, renderq, render>>

(***************************************************************************)
(* The flush ticker and the render task.                                   *)
(***************************************************************************)
\* Variant with a fault: a Flush is sent whether or not there is room.
FlushTickUnbounded ==
  /\ ticking /\ ~RenderStopped /\ Len(renderq) <= Capacity
  /\ renderq' = Append(renderq, Flush)
  /\ UNCHANGED <<state, streams, mux, raw, fwd, ticking, runTx, render>>

\* try_send(Flush): a full or closed channel is ignored.
FlushTick ==
  /\ ticking /\ ~RenderStopped /\ Len(renderq) < Capacity
  /\ renderq' = Append(renderq, Flush)
  /\ UNCHANGED <<state, streams, mux, raw, fwd, ticking, runTx, render>>

TickerStop ==
  /\ ticking /\ cancelled /\ ticking' = FALSE
  /\ UNCHANGED <<state, streams, mux, raw, fwd, runTx, renderq, render>>

\* Every clone of render_tx is dropped.
RenderSendersGone == ForwardStopped /\ ~ticking /\ ~runTx

\* recv_many: as many commands as there are, at most Batch.
RenderRecv ==
  /\ rpc = "recv" /\ renderq # <<>>
  /\ LET n == IF Len(renderq) < Batch THEN Len(renderq) ELSE Batch IN
       /\ batch' = SubSeq(renderq, 1, n)
       /\ renderq' = SubSeq(renderq, n + 1, Len(renderq))
  /\ rpc' = "write"
  /\ UNCHANGED <<state, streams, mux, raw, fwd, ticking, runTx, buf, out>>

\* recv_many returns 0.
RenderClosed ==
  /\ rpc = "recv" /\ renderq = <<>> /\ RenderSendersGone
  /\ rpc' = "final"
  /\ UNCHANGED <<state, streams, mux, raw, fwd, ticking, runTx, renderq, batch, buf, out>>

\* One command of the batch; Shutdown leaves the rest of it.
RenderCmd ==
  /\ rpc = "write"
  /\ IF batch = <<>>
     THEN rpc' = "recv" /\ UNCHANGED <<batch, buf>>
     ELSE /\ batch' = Tail(batch)
          /\ IF Head(batch) \in Lines
             THEN buf' = Append(buf, Head(batch)) /\ UNCHANGED rpc
             ELSE /\ rpc' = IF Head(batch) = Flush THEN "flush" ELSE "final"
                  /\ UNCHANGED buf
  /\ UNCHANGED <<state, streams, mux, raw, fwd, ticking, runTx, renderq, out>>

\* Variant with a fault: what is buffered goes out last line first.
WriteLast ==
  /\ rpc \in {"write", "flush", "final"} /\ buf # <<>>
  /\ out' = Append(out, Last(buf)) /\ buf' = Front(buf)
  /\ UNCHANGED <<state, streams, mux, raw, fwd, ticking, runTx, renderq, rpc, batch>>

\* Stdout accepts a buffered line: in a flush, or when the BufWriter is full.
Write ==
  /\ rpc \in {"write", "flush", "final"} /\ buf # <<>>
  /\ out' = Append(out, Head(buf)) /\ buf' = Tail(buf)
  /\ UNCHANGED <<state, streams, mux, raw, fwd, ticking, runTx, renderq, rpc, batch>>

\* The flush is done; after Shutdown or the channel's end the task returns.
Flushed ==
  /\ buf = <<>>
  /\ \/ rpc = "flush" /\ rpc' = "write" /\ UNCHANGED <<batch, renderq>>
     \/ rpc = "final" /\ rpc' = "stopped" /\ batch' = <<>> /\ renderq' = <<>>
  /\ UNCHANGED <<state, streams, mux, raw, fwd, ticking, runTx, buf, out>>

\* The task ends with its BufWriter unflushed: a failed write, or an abort.
RenderGone ==
  /\ rpc' = "failed" /\ batch' = <<>> /\ buf' = <<>> /\ renderq' = <<>>
  /\ UNCHANGED out

RenderFail ==
  /\ rpc \in {"write", "flush", "final"} /\ RenderGone
  /\ UNCHANGED <<state, streams, mux, raw, fwd, ticking, runTx>>
(***************************************************************************)
(* What run does to the path: it cancels the root, tells the render task to*)
(* shut down, drops its sender, and aborts tasks that do not end in time.  *)
(* RunShutdown says when; here it may happen in any order once the root is *)
(* cancelled.                                                              *)
(***************************************************************************)
CancelRoot ==
  /\ ~cancelled /\ cancelled' = TRUE
  /\ UNCHANGED <<triggered, errors, streams, mux, raw, fwd, ticking, runTx, renderq, render>>

SendShutdown ==
  /\ cancelled /\ runTx /\ ~RenderStopped /\ Len(renderq) < Capacity
  /\ renderq' = Append(renderq, Shutdown)
  /\ UNCHANGED <<state, streams, mux, raw, fwd, ticking, runTx, render>>

DropRenderTx ==
  /\ cancelled /\ runTx /\ runTx' = FALSE
  /\ UNCHANGED <<state, streams, mux, raw, fwd, ticking, renderq, render>>

AbortMux ==
  /\ cancelled /\ mpc # "stopped" /\ MuxExit
  /\ UNCHANGED <<state, streams, fwd, ticking, runTx, renderq, render>>

AbortForward ==
  /\ cancelled /\ ~ForwardStopped /\ ForwardStop("stopped")
  /\ UNCHANGED <<state, streams, mux, ticking, runTx, renderq, render>>

AbortRender ==
  /\ cancelled /\ ~RenderStopped /\ RenderGone
  /\ UNCHANGED <<state, streams, mux, raw, fwd, ticking, runTx>>

MuxStep ==
  \/ MuxCancelled \/ MuxClosed \/ MuxSend
  \/ \E s \in Sources : MuxRow(s) \/ StreamEnds(s)
ForwardStep == Pull \/ PollPending \/ ForwardSend \/ ForwardCancelled \/ ForwardEnd
RenderStep == RenderRecv \/ RenderClosed \/ RenderCmd \/ Write \/ Flushed
Fault == ForwardPanic \/ RenderFail
Abort == AbortMux \/ AbortForward \/ AbortRender

Next ==
  \/ MuxStep \/ ForwardStep \/ FlushTick \/ TickerStop \/ RenderStep \/ Fault
  \/ CancelRoot \/ SendShutdown \/ DropRenderTx \/ Abort

Spec == Init /\ [][Next]_vars

(***************************************************************************)
(* Properties.                                                             *)
(***************************************************************************)
Maybe(row) == IF row = None THEN <<>> ELSE <<row>>

\* The lines on their way, oldest first, and the other commands between them.
Path == out \o buf \o batch \o renderq \o Maybe(frow) \o raw \o Maybe(mrow)

Produced == {l \in Lines : l[2] <= produced[Source(l)]}
Visible == Produced \ (Hidden \cup Failing)
PathAlive == ~cancelled /\ fpc # "panicked" /\ rpc # "failed"

\* Lines of one source never overtake each other or appear twice, wherever they are
\* between the mux and stdout.
InOrder ==
  \A i, j \in DOMAIN Path :
    i < j /\ Path[i] \in Lines /\ Path[j] \in Lines /\ Source(Path[i]) = Source(Path[j])
      => Path[i][2] < Path[j][2]

\* Without --lossy, backpressure loses nothing: as long as nobody cancels, every line
\* read from a stream that the filters let through is on its way or written.
BlockingLosesNothing == ~Lossy /\ PathAlive => Visible \subseteq Range(Path)

\* Without --lossy, --exit-on sees every line read from a stream: one that matches either
\* waits to be seen or has fired, even if the filters hide it.
ExitOnSeesEveryLine ==
  ~Lossy /\ PathAlive => \A l \in Produced \cap Trigger :
                            l \in Range(raw) \cup {mrow} \/ triggered

\* What the path promises a reader of stdout.
Delivery == INSTANCE OrderedDelivery WITH written <- out
Delivered == Delivery!Spec
=============================================================================
