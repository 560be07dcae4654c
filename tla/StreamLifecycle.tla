-------------------------- MODULE StreamLifecycle --------------------------
(***************************************************************************)
(* How a container's log stream comes and goes.                            *)
(*                                                                         *)
(* Three kinds of tasks run concurrently:                                  *)
(*   - the watch task (watch.rs, pod_lifecycle.rs, registry.rs) turns pod  *)
(*     events into the set `active' of keys to tail; it cancels the token  *)
(*     of a dropped key and spawns one attach task per added key;          *)
(*   - each attach task (attach.rs) takes a permit, opens the log, hands   *)
(*     the stream to the mux and waits for its end, then perhaps reopens;  *)
(*   - the mux task (mux.rs) takes Add/Remove commands from a bounded      *)
(*     channel, and merges the streams it holds.                           *)
(* Any of them may be stopped at any time by the root cancellation token.  *)
(*                                                                         *)
(* Log lines are abstracted to "the mux forwards something": their contents*)
(* and what happens to them after the mux are not this module's subject.   *)
(* Neither is the cursor store: the calls forget, track and reopen_request *)
(* only change what is asked of the log API, never the control below.      *)
(***************************************************************************)
EXTENDS Naturals, Sequences, FiniteSets

CONSTANTS
  Names,        \* pods, by namespace and name
  Uids,         \* pod UIDs: a recreated pod keeps its name, not its UID
  Containers,
  Tasks,        \* identities of attach tasks; also bounds how many are spawned
  MaxLogRequests,        \* --max-log-requests
  MuxCap,                \* capacity of the mux command channel (256 in the code)
  MaxReopenStartRetries, \* 5 in the code
  Follow,       \* --follow; FALSE is --no-follow
  CursorReconnect,       \* --cursor-reconnect
  Blocking,     \* mux policy: TRUE is Blocking, FALSE is Lossy
  None

ASSUME BoundsAssumption ==
  /\ MaxLogRequests \in Nat
  /\ MuxCap \in Nat \ {0}
  /\ MaxReopenStartRetries \in Nat
  /\ IsFiniteSet(Tasks)
ASSUME FlagsAssumption == {Follow, CursorReconnect, Blocking} \subseteq BOOLEAN

Keys == [pod : Names, uid : Uids, container : Containers]
ASSUME KeysAssumption == IsFiniteSet(Keys)
ASSUME NoneAssumption == None \notin Tasks /\ None \notin Keys

Locator(k) == [pod |-> k.pod, uid |-> k.uid]
Locators == [pod : Names, uid : Uids]

VARIABLES
  rootCancelled, \* the root CancellationToken
  limitHit,      \* a message was sent on the follow_limit_notifier channel
  rawClosed,     \* the receiver of the raw event channel is gone
  \* the watch task
  phase,         \* where the kube watcher is: "start", "init" or "live"
  pending,       \* keys admitted from pending_pods
  meta,          \* pods present in the PodMetaCache
  wpc,           \* "select", "reconcile", "send" or "stopped"
  toDrop, toAdd, \* what is left of the ReconcileDiff in progress
  removing,      \* the key whose Remove command is being sent
  active, token, \* PodStreamRegistry: token[k] names the task it was given to
  cancelled,     \* tasks whose own token the registry has cancelled
  \* the attach tasks
  pc, key, reopen, failures,
  permits,       \* permits left in the semaphore
  end,           \* the oneshot done channel: "none", "eof" or "cancelled"
  \* the mux task
  mpc,           \* "select", "forward" (a row waits for the raw channel) or "stopped"
  muxq,          \* the command channel
  map,           \* the StreamMap: map[k] is the task whose stream it holds
  stat,          \* RunStats.active_streams
  cut            \* history: tasks whose live, uncancelled stream the mux dropped

run      == <<rootCancelled, rawClosed, limitHit>>
watcher  == <<phase, pending, meta>>
handler  == <<wpc, toDrop, toAdd, removing>>
registry == <<active, token, cancelled>>
watch    == <<watcher, handler, registry>>
attach   == <<pc, key, reopen, failures, permits, end>>
mux      == <<mpc, muxq, map, stat, cut>>
vars     == <<run, watch, attach, mux>>

AttachPCs == {"free", "top", "acquire", "limit", "open", "add", "release",
              "streaming", "backoff", "returned"}
Commands == [op : {"Add", "Remove"}, key : Keys, task : Tasks \cup {None}]

TypeOK ==
  /\ rootCancelled \in BOOLEAN /\ limitHit \in BOOLEAN /\ rawClosed \in BOOLEAN
  /\ phase \in {"start", "init", "live"}
  /\ pending \subseteq Keys
  /\ meta \subseteq Locators
  /\ wpc \in {"select", "reconcile", "send", "stopped"}
  /\ toDrop \subseteq Keys /\ toAdd \subseteq Keys
  /\ removing \in Keys \cup {None}
  /\ active \subseteq Keys
  /\ token \in [Keys -> Tasks \cup {None}]
  /\ cancelled \subseteq Tasks
  /\ pc \in [Tasks -> AttachPCs]
  /\ key \in [Tasks -> Keys \cup {None}]
  /\ reopen \in [Tasks -> BOOLEAN]
  /\ failures \in [Tasks -> 0..MaxReopenStartRetries]
  /\ permits \in Nat
  /\ end \in [Tasks -> {"none", "eof", "cancelled"}]
  /\ mpc \in {"select", "forward", "stopped"}
  /\ muxq \in Seq(Commands) /\ Len(muxq) <= MuxCap
  /\ map \in [Keys -> Tasks \cup {None}]
  /\ stat \in Nat
  /\ cut \subseteq Tasks

(***************************************************************************)
(* Tokens, the oneshot and the channel.                                    *)
(***************************************************************************)
\* A pod token is a child of the root token.
Cancelled(t) == rootCancelled \/ t \in cancelled

\* Drop and end-of-stream of the tracking wrappers send the same reason.
StreamEnd(t) == IF Cancelled(t) THEN "cancelled" ELSE "eof"

Running == {t \in Tasks : pc[t] \notin {"free", "returned"}}

\* Variant with a fault: a task lets go of its sender once its stream is handed over.
SendersGoneEarly ==
  wpc = "stopped" /\ \A t \in Running : pc[t] \in {"release", "streaming"}

\* Every clone of mux_tx is dropped: the watch task's, and the one in the
\* shared context that the watch task and every attach task hold.
SendersGone == wpc = "stopped" /\ Running = {}

ShouldReconnect == CursorReconnect /\ Follow

\* Variant with a fault: a dropped stream does not tell its task (no Drop impl).
DropStreamsSilently(S) ==
  /\ end' = end
  /\ cut' = cut \cup {t \in S : ~Cancelled(t)}

\* The streams a set of tasks handed over are dropped: each tells its task.
DropStreams(S) ==
  /\ end' = [t \in Tasks |-> IF t \in S THEN StreamEnd(t) ELSE end[t]]
  /\ cut' = cut \cup {t \in S : ~Cancelled(t)}

Queued == {muxq[i].task : i \in DOMAIN muxq} \ {None}
Mapped == {map[k] : k \in Keys} \ {None}

\* The semaphore is built with max_log_requests.max(1) permits.
PermitTotal == IF MaxLogRequests = 0 THEN 1 ELSE MaxLogRequests

Init ==
  /\ rootCancelled = FALSE /\ limitHit = FALSE /\ rawClosed = FALSE
  /\ phase = "start" /\ pending = {} /\ meta = {}
  /\ wpc = "select" /\ toDrop = {} /\ toAdd = {} /\ removing = None
  /\ active = {} /\ token = [k \in Keys |-> None] /\ cancelled = {}
  /\ pc = [t \in Tasks |-> "free"]
  /\ key = [t \in Tasks |-> None]
  /\ reopen = [t \in Tasks |-> FALSE]
  /\ failures = [t \in Tasks |-> 0]
  /\ permits = PermitTotal
  /\ end = [t \in Tasks |-> "none"]
  /\ mpc = "select" /\ muxq = <<>> /\ map = [k \in Keys |-> None]
  /\ stat = 0 /\ cut = {}

(***************************************************************************)
(* The watch task: pod events.                                             *)
(***************************************************************************)
Free == {t \in Tasks : pc[t] = "free"}

\* Bound of the model: an event is delivered only if task identities remain
\* for the keys it adds.
Reconcile(current, desired) ==
  /\ wpc = "select"
  /\ Cardinality(desired \ current) <= Cardinality(Free)
  /\ toDrop' = current \ desired
  /\ toAdd' = desired \ current
  /\ wpc' = IF current = desired /\ Follow THEN "select" ELSE "reconcile"
  /\ UNCHANGED <<run, registry, attach, mux, removing>>

KeysOf(n) == {k \in active : k.pod = n}
KeysOfPod(n, u) == {k \in active : k.pod = n /\ k.uid = u}
PodKeys(n, u, C) == {[pod |-> n, uid |-> u, container |-> c] : c \in C}

\* Variant with a fault: the metadata is removed by name, whatever the UID.
OnDeleteByName(n, u) ==
  /\ Follow /\ phase = "live"
  /\ meta' = {m \in meta : m.pod # n}
  /\ Reconcile(KeysOfPod(n, u), {})
  /\ UNCHANGED <<phase, pending>>

OnDelete(n, u) ==
  /\ Follow /\ phase = "live"
  /\ meta' = meta \ {[pod |-> n, uid |-> u]}
  /\ Reconcile(KeysOfPod(n, u), {})
  /\ UNCHANGED <<phase, pending>>

\* An event for a pod that is admitted with streams for containers C.
OnApply(n, u, C) ==
  /\ Follow /\ phase = "live"
  /\ meta' = meta \cup {[pod |-> n, uid |-> u]}
  /\ Reconcile(KeysOf(n), PodKeys(n, u, C))
  /\ UNCHANGED <<phase, pending>>

\* An event for a pod that admit_pod refuses.
OnApplyRefused(n, u) == OnDelete(n, u)

OnInitBegin ==
  /\ Follow /\ wpc = "select"
  /\ phase' = "init" /\ pending' = {} /\ meta' = {}
  /\ UNCHANGED <<run, handler, registry, attach, mux>>

\* The list holds a pod once, and one UID per name. C = {}: a pod that the
\* snapshot will refuse, or that has no stream.
OnInitApply(n, u, C) ==
  /\ Follow /\ phase = "init" /\ wpc = "select"
  /\ \A k \in pending : k.pod # n
  /\ meta' = meta \cup {[pod |-> n, uid |-> u]}
  /\ pending' = pending \cup PodKeys(n, u, C)
  /\ UNCHANGED <<run, handler, registry, attach, mux, phase>>

\* Metadata of every listed pod is updated, then pruned to the snapshot.
OnInitSnapshot(snapshot) ==
  /\ meta' = {Locator(k) : k \in snapshot}
  /\ Reconcile(active, snapshot)

OnInitDone ==
  /\ Follow /\ phase = "init"
  /\ phase' = "live" /\ pending' = {}
  /\ OnInitSnapshot(pending)

Snapshots == {S \in SUBSET Keys : \A k, l \in S : k.pod = l.pod => k.uid = l.uid}

\* --no-follow: run itself reconciles the one listing it made.
NoFollowSnapshot(S) ==
  /\ ~Follow /\ phase = "start"
  /\ phase' = "live"
  /\ OnInitSnapshot(S)
  /\ UNCHANGED pending

(***************************************************************************)
(* The watch task: drop_keys, then add_key for every added key.            *)
(***************************************************************************)
\* Variants with a fault: the token is not cancelled; the key stays active.
DropKeyWithoutCancel(k) ==
  /\ wpc = "reconcile" /\ k \in toDrop
  /\ token' = [token EXCEPT ![k] = None]
  /\ active' = active \ {k}
  /\ toDrop' = toDrop \ {k} /\ removing' = k /\ wpc' = "send"
  /\ UNCHANGED <<run, watcher, attach, mux, toAdd, cancelled>>

DropKeyStaysActive(k) ==
  /\ wpc = "reconcile" /\ k \in toDrop
  /\ cancelled' = cancelled \cup ({token[k]} \ {None})
  /\ token' = [token EXCEPT ![k] = None]
  /\ toDrop' = toDrop \ {k} /\ removing' = k /\ wpc' = "send"
  /\ UNCHANGED <<run, watcher, attach, mux, toAdd, active>>

DropKey(k) ==
  /\ wpc = "reconcile" /\ k \in toDrop
  /\ cancelled' = cancelled \cup ({token[k]} \ {None})
  /\ token' = [token EXCEPT ![k] = None]
  /\ active' = active \ {k}
  /\ toDrop' = toDrop \ {k}
  /\ removing' = k
  /\ wpc' = "send"
  /\ UNCHANGED <<run, watcher, attach, mux, toAdd>>

\* mux_tx.send(Remove).await: waits for room; a closed channel is ignored.
SendRemove ==
  /\ wpc = "send"
  /\ \/ /\ mpc # "stopped" /\ Len(muxq) < MuxCap
        /\ muxq' = Append(muxq, [op |-> "Remove", key |-> removing, task |-> None])
     \/ mpc = "stopped" /\ UNCHANGED muxq
  /\ removing' = None
  /\ wpc' = "reconcile"
  /\ UNCHANGED <<run, watcher, registry, attach, toDrop, toAdd, mpc, map, stat, cut>>

AddKey(k, t) ==
  /\ wpc = "reconcile" /\ toDrop = {} /\ k \in toAdd
  /\ pc[t] = "free"
  /\ active' = active \cup {k}
  /\ token' = [token EXCEPT ![k] = t]
  /\ toAdd' = toAdd \ {k}
  /\ pc' = [pc EXCEPT ![t] = "top"]
  /\ key' = [key EXCEPT ![t] = k]
  /\ UNCHANGED <<run, watcher, mux, wpc, toDrop, removing, cancelled, reopen, failures, permits, end>>

\* Variant with a fault: a --no-follow run keeps its sender.
ReconciledKeepsSender ==
  /\ wpc = "reconcile" /\ toDrop = {} /\ toAdd = {}
  /\ wpc' = "select"
  /\ UNCHANGED <<run, watcher, registry, attach, mux, toDrop, toAdd, removing>>

\* The handler returns; in --no-follow, run drops its sender and the context.
Reconciled ==
  /\ wpc = "reconcile" /\ toDrop = {} /\ toAdd = {}
  /\ wpc' = IF Follow THEN "select" ELSE "stopped"
  /\ UNCHANGED <<run, watcher, registry, attach, mux, toDrop, toAdd, removing>>

WatchStop ==
  /\ Follow /\ wpc = "select" /\ rootCancelled
  /\ wpc' = "stopped"
  /\ UNCHANGED <<run, watcher, registry, attach, mux, toDrop, toAdd, removing>>

(***************************************************************************)
(* An attach task.                                                         *)
(***************************************************************************)
GoTo(t, from, to) == pc[t] = from /\ pc' = [pc EXCEPT ![t] = to]

\* Only the token checks: reopen_request awaits the cursor store before Acquire.
LoopTop(t) ==
  /\ IF Cancelled(t) THEN GoTo(t, "top", "returned") ELSE GoTo(t, "top", "acquire")
  /\ UNCHANGED <<run, watch, mux, key, reopen, failures, permits, end>>

\* try_acquire_owned (follow) or acquire_owned().await (no-follow).
Acquire(t) ==
  /\ permits > 0
  /\ GoTo(t, "acquire", "open")
  /\ permits' = permits - 1
  /\ UNCHANGED <<run, watch, mux, key, reopen, failures, end>>

\* try_acquire_owned fails: notify, then cancel the root.
LimitNotify(t) ==
  /\ Follow /\ permits = 0
  /\ GoTo(t, "acquire", "limit")
  /\ limitHit' = TRUE
  /\ UNCHANGED <<watch, mux, rootCancelled, rawClosed, key, reopen, failures, permits, end>>

LimitCancel(t) ==
  /\ GoTo(t, "limit", "returned")
  /\ rootCancelled' = TRUE
  /\ UNCHANGED <<watch, mux, rawClosed, limitHit, key, reopen, failures, permits, end>>

\* log_opener.open is not raced against any token.
OpenOk(t) ==
  /\ GoTo(t, "open", "add")
  /\ failures' = [failures EXCEPT ![t] = 0]
  /\ UNCHANGED <<run, watch, mux, key, reopen, permits, end>>

\* Variants with a fault: one retry too many; the permit kept over the backoff.
OpenErrOffByOne(t) ==
  /\ permits' = permits + 1
  /\ IF /\ reopen[t] /\ ShouldReconnect /\ ~Cancelled(t)
        /\ failures[t] <= MaxReopenStartRetries
     THEN /\ GoTo(t, "open", "backoff")
          /\ failures' = [failures EXCEPT ![t] = @ + 1]
     ELSE GoTo(t, "open", "returned") /\ UNCHANGED failures
  /\ UNCHANGED <<run, watch, mux, key, reopen, end>>

OpenErrKeepsPermit(t) ==
  /\ IF /\ reopen[t] /\ ShouldReconnect /\ ~Cancelled(t)
        /\ failures[t] < MaxReopenStartRetries
     THEN /\ GoTo(t, "open", "backoff")
          /\ failures' = [failures EXCEPT ![t] = @ + 1]
          /\ UNCHANGED permits
     ELSE GoTo(t, "open", "returned") /\ permits' = permits + 1 /\ UNCHANGED failures
  /\ UNCHANGED <<run, watch, mux, key, reopen, end>>

OpenErr(t) ==
  /\ permits' = permits + 1
  /\ IF /\ reopen[t] /\ ShouldReconnect /\ ~Cancelled(t)
        /\ failures[t] < MaxReopenStartRetries
     THEN /\ GoTo(t, "open", "backoff")
          /\ failures' = [failures EXCEPT ![t] = @ + 1]
     ELSE GoTo(t, "open", "returned") /\ UNCHANGED failures
  /\ UNCHANGED <<run, watch, mux, key, reopen, end>>

\* mux_tx.send(Add).await: waits for room in the channel.
SendAdd(t) ==
  /\ mpc # "stopped" /\ Len(muxq) < MuxCap
  /\ GoTo(t, "add", "release")
  /\ muxq' = Append(muxq, [op |-> "Add", key |-> key[t], task |-> t])
  /\ UNCHANGED <<run, watch, key, reopen, failures, permits, end, mpc, map, stat, cut>>

\* The channel is closed: the stream and the permit are dropped.
SendAddClosed(t) ==
  /\ mpc = "stopped"
  /\ GoTo(t, "add", "returned")
  /\ permits' = permits + 1
  /\ UNCHANGED <<run, watch, mux, key, reopen, failures, end>>

\* The permit is given back once the stream has started.
ReleasePermit(t) ==
  /\ GoTo(t, "release", "streaming")
  /\ permits' = permits + 1
  /\ UNCHANGED <<run, watch, mux, key, reopen, failures, end>>

\* Variant with a fault: the loop goes on without noting that it reopens.
OnStreamEndForgetsReopen(t) ==
  /\ end[t] # "none"
  /\ end' = [end EXCEPT ![t] = "none"]
  /\ IF end[t] = "eof" /\ ShouldReconnect
     THEN GoTo(t, "streaming", "top")
     ELSE GoTo(t, "streaming", "returned")
  /\ UNCHANGED <<run, watch, mux, key, reopen, failures, permits>>

\* done_rx.await
OnStreamEnd(t) ==
  /\ end[t] # "none"
  /\ end' = [end EXCEPT ![t] = "none"]
  /\ IF end[t] = "eof" /\ ShouldReconnect
     THEN GoTo(t, "streaming", "top") /\ reopen' = [reopen EXCEPT ![t] = TRUE]
     ELSE GoTo(t, "streaming", "returned") /\ UNCHANGED reopen
  /\ UNCHANGED <<run, watch, mux, key, failures, permits>>

\* The sleep is over, or a token is cancelled first.
BackoffOver(t) ==
  /\ \/ GoTo(t, "backoff", "top")
     \/ Cancelled(t) /\ GoTo(t, "backoff", "returned")
  /\ UNCHANGED <<run, watch, mux, key, reopen, failures, permits, end>>

(***************************************************************************)
(* The mux task. select! is biased: cancellation, then commands, then the  *)
(* streams.                                                                *)
(***************************************************************************)
StreamCount(m) == Cardinality({k \in Keys : m[k] # None})

\* The loop breaks: the receiver with its queue and the map are dropped.
MuxExit ==
  /\ mpc' = "stopped"
  /\ DropStreams(Queued \cup Mapped)
  /\ muxq' = <<>> /\ map' = [k \in Keys |-> None]
  /\ stat' = 0
  /\ UNCHANGED <<run, watch, pc, key, reopen, failures, permits>>

\* Variant with a fault: the send to the raw channel is not raced with the token.
MuxCancelledOnlyInSelect == mpc = "select" /\ rootCancelled /\ MuxExit

MuxCancelled == mpc \in {"select", "forward"} /\ rootCancelled /\ MuxExit

MuxClosed == mpc = "select" /\ ~rootCancelled /\ muxq = <<>> /\ SendersGone /\ MuxExit

\* Variant with a fault: the streams are counted before the new one is inserted.
MuxAddCountsFirst ==
  /\ mpc = "select" /\ ~rootCancelled /\ muxq # <<>> /\ Head(muxq).op = "Add"
  /\ LET c == Head(muxq) IN
       /\ map' = [map EXCEPT ![c.key] = c.task]
       /\ DropStreams({map[c.key]} \ {None})
  /\ stat' = StreamCount(map)
  /\ muxq' = Tail(muxq)
  /\ UNCHANGED <<run, watch, pc, key, reopen, failures, permits, mpc>>

\* StreamMap::insert replaces, and so drops, a stream held under the key.
MuxAdd ==
  /\ mpc = "select" /\ ~rootCancelled /\ muxq # <<>> /\ Head(muxq).op = "Add"
  /\ LET c == Head(muxq) IN
       /\ map' = [map EXCEPT ![c.key] = c.task]
       /\ DropStreams({map[c.key]} \ {None})
  /\ stat' = StreamCount(map')
  /\ muxq' = Tail(muxq)
  /\ UNCHANGED <<run, watch, pc, key, reopen, failures, permits, mpc>>

MuxRemove ==
  /\ mpc = "select" /\ ~rootCancelled /\ muxq # <<>> /\ Head(muxq).op = "Remove"
  /\ LET k == Head(muxq).key IN
       /\ map' = [map EXCEPT ![k] = None]
       /\ DropStreams({map[k]} \ {None})
       /\ stat' = IF map[k] # None THEN StreamCount(map') ELSE stat
  /\ muxq' = Tail(muxq)
  /\ UNCHANGED <<run, watch, pc, key, reopen, failures, permits, mpc>>

PollStream(k) == mpc = "select" /\ ~rootCancelled /\ muxq = <<>> /\ map[k] # None

\* A stream yields a row; under Blocking it waits for room in the raw channel.
MuxRow(k) ==
  /\ PollStream(k)
  /\ IF rawClosed /\ ~Blocking
     THEN MuxExit
     ELSE /\ mpc' = IF Blocking THEN "forward" ELSE "select"
          /\ UNCHANGED <<run, watch, attach, muxq, map, stat, cut>>

RawSent ==
  /\ mpc = "forward" /\ ~rootCancelled
  /\ IF rawClosed
     THEN MuxExit
     ELSE /\ mpc' = "select"
          /\ UNCHANGED <<run, watch, attach, muxq, map, stat, cut>>

\* A stream ends by itself: the StreamMap forgets it, the statistic does not.
MuxStreamEnd(k) ==
  /\ PollStream(k)
  /\ map' = [map EXCEPT ![k] = None]
  /\ end' = [end EXCEPT ![map[k]] = StreamEnd(map[k])]
  /\ UNCHANGED <<run, watch, pc, key, reopen, failures, permits, mpc, muxq, stat, cut>>

(***************************************************************************)
(* The rest of the program.                                                *)
(***************************************************************************)
\* A signal, --exit-on or the end of run cancels the root.
RootCancel ==
  /\ ~rootCancelled /\ rootCancelled' = TRUE
  /\ UNCHANGED <<watch, attach, mux, rawClosed, limitHit>>

\* forward_to_render has returned and dropped the raw channel's receiver.
ForwardGone ==
  /\ ~rawClosed /\ rawClosed' = TRUE
  /\ UNCHANGED <<watch, attach, mux, rootCancelled, limitHit>>

PodEvent ==
  \/ \E n \in Names, u \in Uids :
       \/ OnDelete(n, u)
       \/ OnApplyRefused(n, u)
       \/ \E C \in SUBSET Containers : OnApply(n, u, C) \/ OnInitApply(n, u, C)
  \/ OnInitBegin
  \/ OnInitDone
  \/ \E S \in Snapshots : NoFollowSnapshot(S)

WatchStep ==
  \/ \E k \in Keys : DropKey(k)
  \/ SendRemove
  \/ \E k \in Keys, t \in Tasks : AddKey(k, t)
  \/ Reconciled

AttachStep(t) ==
  \/ LoopTop(t) \/ Acquire(t) \/ LimitNotify(t) \/ LimitCancel(t)
  \/ OpenOk(t) \/ OpenErr(t) \/ SendAdd(t) \/ SendAddClosed(t) \/ ReleasePermit(t)
  \/ OnStreamEnd(t) \/ BackoffOver(t)

MuxCommand == MuxCancelled \/ MuxClosed \/ MuxAdd \/ MuxRemove

Next ==
  \/ PodEvent \/ WatchStep \/ WatchStop
  \/ \E t \in Tasks : AttachStep(t)
  \/ MuxCommand \/ RawSent
  \/ \E k \in Keys : MuxRow(k) \/ MuxStreamEnd(k)
  \/ RootCancel \/ ForwardGone

Spec == Init /\ [][Next]_vars

(***************************************************************************)
(* Fairness. Every task keeps being polled by the runtime. The semaphore   *)
(* and the channel queue their waiters, so no waiter is passed over for    *)
(* ever; the watch task's select! is not biased, so a ready cancellation   *)
(* branch is not passed over for ever either. An open request is answered  *)
(* or fails. Nothing is assumed of pod events, of the arrival of lines or  *)
(* of the end of a followed log.                                           *)
(***************************************************************************)
StreamCancelled(k) == map[k] # None /\ Cancelled(map[k]) /\ MuxStreamEnd(k)

TaskFairness ==
  /\ WF_vars(WatchStep) /\ SF_vars(WatchStop) /\ WF_vars(MuxCommand)
  /\ \A t \in Tasks :
       WF_vars(AttachStep(t)) /\ SF_vars(SendAdd(t))

\* The consumer of the raw channel keeps consuming: stdout is not blocked.
OutputFairness == WF_vars(RawSent)

\* A stream that is still held ends once its token is cancelled: the read loop
\* selects between the token and the next line.
CancelledStreamFairness == \A k \in Keys : SF_vars(StreamCancelled(k))

\* Without --follow the listed pods are reconciled, a task waits in the semaphore's
\* queue for its permit, and the log API sends a finite log.
NoFollowFairness ==
  /\ WF_vars(\E S \in Snapshots : NoFollowSnapshot(S))
  /\ \A t \in Tasks : SF_vars(Acquire(t))
  /\ \A k \in Keys : SF_vars(MuxStreamEnd(k))

FlowFairness == OutputFairness /\ CancelledStreamFairness

FairSpec == Spec /\ TaskFairness
NoFollowSpec == FairSpec /\ OutputFairness /\ NoFollowFairness

(***************************************************************************)
(* Safety.                                                                 *)
(***************************************************************************)
Holders == {t \in Tasks : pc[t] \in {"open", "add", "release"}}

\* Every path of attach_pod_log_stream gives its permit back, exactly once: the
\* permits left and the tasks that hold one always add up to the semaphore's size.
PermitsAccounted == permits + Cardinality(Holders) = PermitTotal

\* The registry's two maps agree, and its token for a key is the live one of a
\* task attached to that key.
RegistryConsistent ==
  \A k \in Keys :
    /\ k \in active <=> token[k] # None
    /\ k \in active => /\ token[k] \notin cancelled
                       /\ pc[token[k]] # "free"
                       /\ key[token[k]] = k

\* Whatever the interleaving of drops, re-adds and slow opens, an attach task whose
\* token is not cancelled is the one the registry holds for its key: no key is
\* ever tailed by two live tasks, and no task outlives its key uncancelled.
NoOrphanTask ==
  \A t \in Tasks : pc[t] # "free" /\ t \notin cancelled => token[key[t]] = t

\* The end of a stream is never lost: an attach task that waits on done_rx without
\* an answer has its stream either in the command channel or in the StreamMap, in
\* one place only, and no other stream exists.
StreamsAccounted ==
  /\ \A t \in Tasks :
       t \in Queued \cup Mapped <=> pc[t] \in {"release", "streaming"} /\ end[t] = "none"
  /\ Queued \cap Mapped = {}
  /\ \A i, j \in DOMAIN muxq :
       muxq[i].task = muxq[j].task /\ muxq[i].task # None => i = j
  /\ \A k \in Keys : map[k] # None => key[map[k]] = k

\* active_streams, which no step updates when a stream ends by itself, is stale upwards
\* only: between any two commands it counts at least the streams in the StreamMap.
StatCoversMap == stat >= StreamCount(map)

\* A Remove command only ever hits a stream whose token is already cancelled: it
\* cannot tear down the stream of a key that was added again meanwhile.
RemoveSparesLiveStream == [][MuxRemove => UNCHANGED cut]_vars

\* Outside a re-listing, and between two handlers, the metadata of every tailed pod
\* is in the cache: an attach task spawned then will find it.
MetaCoversActive ==
  phase = "live" /\ wpc = "select" => {Locator(k) : k \in active} \subseteq meta

\* --no-follow loses no stream: as long as nothing cancels the run and the output
\* lives, the mux drops no stream before its end, because it only stops when
\* every attach task has seen its stream's end and let go of its sender.
NoFollowDrains == ~Follow /\ ~rootCancelled /\ ~rawClosed => cut = {}

(***************************************************************************)
(* Liveness.                                                               *)
(***************************************************************************)
\* After cancellation every task stops, even if stdout is blocked for ever and
\* the watch task is waiting for room in the command channel.
CancelStopsAll == rootCancelled ~> wpc = "stopped" /\ mpc = "stopped" /\ Running = {}

\* While the output flows, a dropped key's task always ends, wherever it was when its
\* token was cancelled.
DroppedTaskEnds ==
  FlowFairness => \A t \in Tasks : t \in cancelled ~> pc[t] = "returned"

\* With --cursor-reconnect, while the output flows, a live task whose stream ended gets
\* a stream into the StreamMap again, unless it exhausts its retries, is dropped, or
\* the run ends.
ReopensAfterEof ==
  FlowFairness => \A t \in Tasks :
    pc[t] = "streaming" /\ end[t] = "eof"
      ~> \/ \E k \in Keys : map[k] = t
         \/ Cancelled(t)
         \/ pc[t] = "returned" /\ failures[t] = MaxReopenStartRetries
         \/ mpc = "stopped"

\* A --no-follow run drains: the mux stops, whatever the limit on log requests.
NoFollowTerminates == <>(mpc = "stopped")
=============================================================================
