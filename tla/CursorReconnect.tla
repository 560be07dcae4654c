-------------------------- MODULE CursorReconnect --------------------------
(***************************************************************************)
(* --cursor-reconnect for one container: what an attach task asks of the   *)
(* log API when it opens a stream again, and which lines it gets.          *)
(*                                                                         *)
(* Every line a stream yields sends its timestamp through an unbounded     *)
(* channel to the processor task, which stores it as the key's cursor. When*)
(* the stream ends, the attach task waits a bounded number of polls for the*)
(* cursor to arrive and asks for the lines from one Overlap before it. The *)
(* watch task meanwhile may drop the key, which forgets the cursor, and add*)
(* it again, which starts another attach task (an activation). The cursors *)
(* of different keys are independent.                                      *)
(*                                                                         *)
(* A line is its number in the container's log. Time gives the timestamp   *)
(* the API server has for it; Dated are the lines whose timestamp prefix   *)
(* parses. When the mux takes a stream over or drops one is left open: the *)
(* order of its commands is StreamLifecycle's subject, and so is the       *)
(* number of times a task retries to reopen.                               *)
(***************************************************************************)
EXTENDS Integers, Sequences, FiniteSets

CONSTANTS
  MaxLog,        \* bound: lines the container writes
  MaxPending,    \* bound: updates in the channel
  Time, Dated,
  Tick,          \* what an undated line adds to its predecessor (1 microsecond)
  Overlap,       \* CURSOR_RECONNECT_OVERLAP (1 second)
  FlushRetries,  \* CURSOR_FLUSH_RETRIES (16)
  MaxTasks,      \* bound: activations of the key
  BaseTail, BaseSince,   \* --tail and --since-time, or None
  None

Log == 1..MaxLog
Tasks == 1..MaxTasks

ASSUME CursorBounds ==
  /\ MaxLog \in Nat /\ MaxPending \in Nat /\ FlushRetries \in Nat /\ MaxTasks \in Nat
  /\ Tick \in Nat /\ Overlap \in Nat
ASSUME LogIsOrdered ==
  /\ Time \in [Log -> Nat] /\ \A i, j \in Log : i <= j => Time[i] <= Time[j]
  /\ Dated \subseteq Log
\* Undated lines in a row never add up to more than the overlap.
ASSUME UndatedRuns ==
  \A n \in Log : \A m \in 0..n : ((n + 1 - m)..n) \cap Dated = {} => m * Tick <= Overlap
ASSUME BaseRequest == None \notin Int /\ BaseTail \in Nat \cup {None} /\ BaseSince \in Nat \cup {None}

VARIABLES
  written,     \* lines in the container's log
  store,       \* the key's cursor in the ReconnectCursorStore, or None
  updates,     \* the channel of CursorUpdates
  current,     \* the activation in the registry, or None
  spawned,     \* activations so far
  cancelled,   \* activations whose token is cancelled
  holder,      \* the activation whose stream the mux holds, or None
  pc, reopen,
  flush,       \* flush_target
  left,        \* polls left in wait_cursor_flushed
  request,     \* the PodLogRequest being opened
  pos,         \* the next line of the activation's stream
  lastLine,    \* the stream's last timestamp: the resolver's and the tracker's
  delivered,   \* history: the lines each activation's streams yielded
  first,       \* history: the first of them, or None
  unconfirmed  \* history: activations that went on without the flush

watch  == <<current, spawned, cancelled>>
task   == <<pc, reopen, flush, left, request, unconfirmed>>
stream == <<holder, pos, lastLine, delivered, first>>
vars   == <<written, store, updates, watch, task, stream>>

Stamps == Int \cup {None}
Base == [tail |-> BaseTail, since |-> BaseSince]

TypeOK ==
  /\ written \in 0..MaxLog
  /\ store \in Stamps /\ updates \in Seq(Int)
  /\ current \in Tasks \cup {None} /\ spawned \in 0..MaxTasks /\ cancelled \subseteq Tasks
  /\ holder \in Tasks \cup {None}
  /\ pc \in [Tasks -> {"free", "top", "flush", "get", "open", "add", "streaming", "returned"}]
  /\ reopen \in [Tasks -> BOOLEAN]
  /\ flush \in [Tasks -> Stamps] /\ left \in [Tasks -> 0..FlushRetries]
  /\ request \in [Tasks -> [tail : Nat \cup {None}, since : Stamps]]
  /\ pos \in [Tasks -> 1..(MaxLog + 1)]
  /\ lastLine \in [Tasks -> Stamps]
  /\ delivered \in [Tasks -> SUBSET Log] /\ first \in [Tasks -> Log \cup {None}]
  /\ unconfirmed \subseteq Tasks

Init ==
  /\ written = 0 /\ store = None /\ updates = <<>>
  /\ current = None /\ spawned = 0 /\ cancelled = {} /\ holder = None
  /\ pc = [t \in Tasks |-> "free"] /\ reopen = [t \in Tasks |-> FALSE]
  /\ flush = [t \in Tasks |-> None] /\ left = [t \in Tasks |-> 0]
  /\ request = [t \in Tasks |-> Base] /\ pos = [t \in Tasks |-> 1]
  /\ lastLine = [t \in Tasks |-> None]
  /\ delivered = [t \in Tasks |-> {}] /\ first = [t \in Tasks |-> None]
  /\ unconfirmed = {}

(***************************************************************************)
(* The API server.                                                         *)
(***************************************************************************)
\* The container logs a line.
LogLine ==
  /\ written < MaxLog /\ written' = written + 1
  /\ UNCHANGED <<store, updates, watch, task, stream>>

\* The first line the API sends for a request: `since' first, then the `tail' last.
FirstLine(r) ==
  LET from == {i \in 1..written : r.since = None \/ Time[i] >= r.since}
      n    == IF r.tail = None \/ r.tail > Cardinality(from) THEN Cardinality(from) ELSE r.tail
  IN written - n + 1

(***************************************************************************)
(* The watch task and the cursor processor.                                *)
(***************************************************************************)
Spawn ==
  /\ current = None /\ spawned < MaxTasks
  /\ spawned' = spawned + 1 /\ current' = spawned + 1
  /\ pc' = [pc EXCEPT ![spawned + 1] = "top"]
  /\ UNCHANGED <<written, store, updates, cancelled, reopen, flush, left, request, unconfirmed, stream>>

\* drop_keys: the token is cancelled ...
CancelToken ==
  /\ current # None /\ current \notin cancelled
  /\ cancelled' = cancelled \cup {current}
  /\ UNCHANGED <<written, store, updates, current, spawned, task, stream>>

\* ... and the cursor forgotten.
Forget ==
  /\ current \in cancelled
  /\ store' = None /\ current' = None
  /\ UNCHANGED <<written, updates, spawned, cancelled, task, stream>>

\* Variant with a fault: a cursor is only stored once.
RecordFirst ==
  /\ updates # <<>>
  /\ store' = (IF store = None THEN Head(updates) ELSE store) /\ updates' = Tail(updates)
  /\ UNCHANGED <<written, watch, task, stream>>

Record ==
  /\ updates # <<>>
  /\ store' = Head(updates) /\ updates' = Tail(updates)
  /\ UNCHANGED <<written, watch, task, stream>>

(***************************************************************************)
(* An attach task: the request it builds, and the open.                    *)
(***************************************************************************)
GoTo(t, from, to) == pc[t] = from /\ pc' = [pc EXCEPT ![t] = to]

LoopTop(t) ==
  /\ \/ t \in cancelled /\ GoTo(t, "top", "returned") /\ UNCHANGED left
     \/ t \notin cancelled /\ ~reopen[t] /\ GoTo(t, "top", "get") /\ UNCHANGED left
     \/ /\ t \notin cancelled /\ reopen[t] /\ GoTo(t, "top", "flush")
        /\ left' = [left EXCEPT ![t] = FlushRetries]
  /\ UNCHANGED <<written, store, updates, watch, stream, reopen, flush, request, unconfirmed>>

CursorFlushed(t) == flush[t] # None => store # None /\ store >= flush[t]

\* Variant with a fault: one poll too many.
FlushPollTwice(t) ==
  /\ pc[t] = "flush" /\ ~CursorFlushed(t)
  /\ left' = [left EXCEPT ![t] = @ - 1]
  /\ UNCHANGED <<written, store, updates, watch, stream, pc, reopen, flush, request, unconfirmed>>

\* One poll of wait_cursor_flushed; after the last one it gives up.
FlushPoll(t) ==
  /\ pc[t] = "flush"
  /\ \/ left[t] > 0 /\ ~CursorFlushed(t) /\ left' = [left EXCEPT ![t] = @ - 1] /\ UNCHANGED <<pc, unconfirmed>>
     \/ /\ left[t] = 0 \/ CursorFlushed(t)
        /\ pc' = [pc EXCEPT ![t] = "get"] /\ left' = [left EXCEPT ![t] = 0]
        /\ unconfirmed' = IF left[t] = 0 /\ flush[t] # None THEN unconfirmed \cup {t} ELSE unconfirmed
  /\ UNCHANGED <<written, store, updates, watch, stream, reopen, flush, request>>

\* Variant with a fault: --tail still applies.
RequestForKeepsTail(again) ==
  IF again /\ store # None THEN [tail |-> BaseTail, since |-> store - Overlap] ELSE Base

\* pod_log_request_for_reopen
RequestFor(again) ==
  IF again /\ store # None THEN [tail |-> None, since |-> store - Overlap] ELSE Base

BuildRequest(t) ==
  /\ GoTo(t, "get", "open")
  /\ request' = [request EXCEPT ![t] = RequestFor(reopen[t])]
  /\ flush' = [flush EXCEPT ![t] = None]
  /\ UNCHANGED <<written, store, updates, watch, stream, reopen, left, unconfirmed>>

\* A client error, or all attempts fail. A task that reopens may start over.
OpenErr(t) ==
  /\ \/ GoTo(t, "open", "returned")
     \/ reopen[t] /\ t \notin cancelled /\ GoTo(t, "open", "top")
  /\ request' = [request EXCEPT ![t] = Base]
  /\ UNCHANGED <<written, store, updates, watch, stream, reopen, flush, left, unconfirmed>>

OpenOk(t) ==
  /\ GoTo(t, "open", "add")
  /\ pos' = [pos EXCEPT ![t] = FirstLine(request[t])]
  /\ request' = [request EXCEPT ![t] = Base]
  /\ UNCHANGED <<written, store, updates, watch, holder, lastLine, delivered, first, reopen,
                 flush, left, unconfirmed>>

(***************************************************************************)
(* The tracked stream in the mux.                                          *)
(***************************************************************************)
\* The streams of S end and tell their tasks; the other tasks are at `then'.
Ended(S, then) ==
  /\ pc' = [t \in Tasks |-> IF t \notin S THEN then[t]
                            ELSE IF t \in cancelled THEN "returned" ELSE "top"]
  /\ reopen' = [t \in Tasks |-> reopen[t] \/ t \in S \ cancelled]
  /\ flush' = [t \in Tasks |-> IF t \in S \ cancelled THEN lastLine[t] ELSE flush[t]]
  /\ pos' = [t \in Tasks |-> IF t \in S THEN 1 ELSE pos[t]]
  /\ lastLine' = [t \in Tasks |-> IF t \in S THEN None ELSE lastLine[t]]

\* The mux takes the stream, and drops the one it holds for the key.
MuxTake(t) ==
  /\ pc[t] = "add"
  /\ Ended({holder} \ {None}, [pc EXCEPT ![t] = "streaming"])
  /\ holder' = t
  /\ UNCHANGED <<written, store, updates, watch, left, request, unconfirmed, delivered, first>>

\* The stream ends: the connection, an error, its token, or a Remove.
StreamEnds ==
  /\ holder # None
  /\ Ended({holder}, pc)
  /\ holder' = None
  /\ UNCHANGED <<written, store, updates, watch, left, request, unconfirmed, delivered, first>>

\* LogLineTimestampResolver::resolve
Resolve(t, n) ==
  IF n \in Dated THEN Time[n] ELSE IF lastLine[t] = None THEN 0 ELSE lastLine[t] + Tick

\* The stream yields a line, even if its token is cancelled: its select is not biased.
Yield ==
  /\ holder # None /\ pos[holder] <= written /\ Len(updates) < MaxPending
  /\ LET n == pos[holder]
         ts == Resolve(holder, n)
     IN /\ lastLine' = [lastLine EXCEPT ![holder] = ts]
        /\ updates' = Append(updates, ts)
        /\ delivered' = [delivered EXCEPT ![holder] = @ \cup {n}]
        /\ first' = [first EXCEPT ![holder] = IF @ = None THEN n ELSE @]
        /\ pos' = [pos EXCEPT ![holder] = @ + 1]
  /\ UNCHANGED <<written, store, watch, task, holder>>

TaskStep(t) ==
  \/ LoopTop(t) \/ FlushPoll(t) \/ BuildRequest(t)
  \/ OpenErr(t) \/ OpenOk(t) \/ MuxTake(t)

Next ==
  \/ LogLine \/ Spawn \/ CancelToken \/ Forget \/ Record
  \/ \E t \in Tasks : TaskStep(t)
  \/ StreamEnds \/ Yield

Spec == Init /\ [][Next]_vars

(***************************************************************************)
(* Properties.                                                             *)
(***************************************************************************)
Printed == UNION {delivered[t] : t \in Tasks}

\* Wherever the open stream of an activation stands, every line before it, from the
\* first one the activation delivered, was printed.
SeamClosed(t) ==
  pc[t] \in {"add", "streaming"} /\ first[t] # None
    => \A j \in first[t]..(pos[t] - 1) : j \in Printed

\* An earlier activation of the key has printed a line beyond t's first.
Overtaken(t) == \E u \in 1..(t - 1) : \E l \in delivered[u] : first[t] # None /\ first[t] < l

\* No gap at the seam, after any number of disconnects, failed opens and reopens, also if
\* the key was dropped and added again: unless the wait for the cursor gave up, or a
\* stale stream of the key got ahead of the activation's own.
NoGapUnlessOvertaken ==
  \A t \in Tasks \ (cancelled \cup unconfirmed) : Overtaken(t) \/ SeamClosed(t)

\* Once the channel is drained the cursor of a live stream is its last line, although
\* earlier activations of the key were forgotten and their updates arrived late.
CursorSettles ==
  updates = <<>> /\ holder # None /\ holder \notin cancelled /\ lastLine[holder] # None
    => store = lastLine[holder]
=============================================================================
