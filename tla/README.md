# A TLA+ model of rustern

rustern tails the logs of many Kubernetes pods at once. Nearly all of what can
go wrong in it lies between its concurrent tasks: a watch task, one attach task
per container, a multiplexer, a pipeline, a renderer and a few helpers, joined
by bounded channels, one-shot channels, a semaphore and a tree of cancellation
tokens. This directory holds TLA+ modules for those tasks, TLC configurations
that check them on small instances, and TLAPS proofs for the properties that
can be proved for every instance.

Paths below are relative to `src/crates/rustern-core/src/` unless they start
with `src/`.

## 1. The system

| Component | State | Operations | Talks to |
|---|---|---|---|
| watch task, `runtime/watch.rs`, `runtime/pod_lifecycle.rs` | snapshot in progress, admission | handle `InitBegin`, `InitApply`, `InitDone`, `Apply`, `Delete`, errors, cancellation | kube watcher; registry; metadata cache |
| registry, `runtime/registry.rs`, `discovery/pod_reconcile.rs` | active keys, one token per key | reconcile a pod or a snapshot, drop keys, add a key | mux (commands), attach tasks (spawn, token), cursor store (forget) |
| attach task, `runtime/attach.rs` | loop state, retry counter, permit | acquire, open, hand over, wait for the end, reopen, back off | semaphore, log API, mux, limit notifier, root token |
| mux task, `runtime/mux.rs` | `StreamMap`, command queue | Add, Remove, forward a row, stream end, stop | attach tasks (end of stream), raw channel |
| pipeline, `runtime/spec.rs`, `pipeline/` | exit watch | stages wired by configuration | raw channel in, forward task out; root token |
| forward task, `runtime/forward.rs`, `runtime/mux_forward_core.rs` | row in hand, counters | receive, send or drop, stop | render channel |
| render task and ticker, `render/mod.rs` | batch, `BufWriter` | receive a batch, write, flush, shut down, fail | stdout |
| cursor reconnect, `runtime/cursor_service.rs`, `runtime/cursor_store.rs` | cursors, update channel | record, forget, wait for a flush, build a reopen request | streams (updates), attach tasks |
| pod log source, `source/` | reader, last timestamp | open with retries, read a line, resolve its timestamp | log API |
| run and main, `runtime/run.rs`, `src/src/main.rs` | what ended the run, exit code | wait, join with timeouts, abort, Shutdown, exit code | everyone |
| metadata cache, `runtime/pod_meta_cache.rs` | metadata by pod and UID | update, remove, clear, prune, look up | watch task, attach tasks |
| admission and container discovery, `runtime/watch_admission.rs`, `discovery/container_keys.rs`, `discovery/pod_condition.rs` | compiled filters | admit a pod, enumerate its containers | watch task |
| start-up: `src/src/cli`, `src/src/run_config`, `discovery/run_resolution.rs`, `context.rs`, `workload_selector.rs`, `pod_list.rs`, `resource.rs`, `runtime/list_pods.rs` | the options, the plan | validate, configure, build a client, read workloads, list pods page by page | kubeconfig, API server |
| statistics, `runtime/forward.rs` | atomic counters | count, take a window, report it | mux and forward task, stderr |
| exec credentials, formatters | none | I/O, text | - |

What is hard about it, and the properties that answer it (the full list, line by
line, is `hazards` in `PROJECT.json`):

* **Interleavings of pod events with slow opens.** A key is dropped and added
  again while its old task still opens the log, its old stream still sits in the
  mux and its `Remove` still waits in a channel. `NoOrphanTask`,
  `RegistryConsistent`, `RemoveSparesLiveStream`.
* **Waiting.** An attach task waits on a one-shot only its own stream can answer;
  the watch task waits for the mux, the mux for the pipeline, the renderer for
  stdout. `StreamsAccounted`, `DroppedTaskEnds`, `CancelStopsAll`,
  `NoFollowTerminates`, `CancelledRunExits`.
* **Resources.** Permits on every path (`PermitsAccounted`), bounded channels at
  their limit (`BlockingLosesNothing`), drops counted once (`DropsCounted`),
  a statistic nobody updates when a stream ends (`StatCoversMap`).
* **Order.** A line passes five buffers with two writers on one channel
  (`InOrder`, `Delivered`); `Shutdown` must be the last command
  (`ForwardedIsWritten`); `--exit-on` must look before the filters do, and
  `--exit-on-level` needs the classification first (`ExitOnSeesEveryLine`,
  `ExitsWhenDue`, `ShowsWhatFlagsSay`).
* **Stale state.** Cursor updates travel through a channel and outlive the stream
  that sent them (`CursorSettles`, `NoGapUnlessOvertaken`). An attach task looks
  its pod's metadata up once, while re-listings clear and refill the cache
  (`MetaFresh`), and opens the log by a name that may by now be another pod's
  (`ReadsOwnPod`). The kubeconfig is read three times (`NamespaceOfClient`).
* **Timeouts and partial failure.** A panicking stage, a failing stdout, a task
  that does not end in time, a signal in between (`SuccessIsSuccess`,
  `PromptRunIsComplete`, `LimitEndsWithError`); an open that fails for good
  (`NoKeyGivenUp`, `EventuallySettled`).
* **Long sequences of legal events.** Pods come and go through the filters, under
  one name, between re-listings (`ActiveIsAdmitted`).
* **Combinations of options.** Scope of the API, selectors, filters and pages have
  to add up to what was asked for (`TailsWhatFlagsAsk`), and wrong options have to
  be refused in time (`RejectsBeforeAsking`).

## 2. The modules

| Module | Models | Status |
|---|---|---|
| `StreamLifecycle` | watch task, registry, attach tasks, mux commands and streams | checked and proved |
| `StreamLifecycleProofs` | its theorems | |
| `LineFlow` | rows from the mux to stdout: both channels, forward, ticker, render | checked and proved |
| `OrderedDelivery` | what a reader of stdout may rely on | implemented by `LineFlow` (checked and proved) |
| `LineFlowProofs` | the theorems of both | |
| `RunShutdown` | `run_with_client` from its wait to the exit code, and the `--stats` reporter, over `LineFlow` | checked and proved |
| `RunShutdownProofs` | its theorems, over those of `LineFlow` | |
| `CursorReconnect` | `--cursor-reconnect` for one key | checked and proved |
| `CursorReconnectProofs` | its theorems | |
| `PipelineOrder` | the stages in the order the flags resolve to | checked and proved |
| `PipelineOrderProofs` | its theorems | |
| `Admission` | which pods and containers are tailed, as functions of a pod object | used by `PodWatch` and `Selection` |
| `PodWatch` | cluster, watcher, watch task, metadata cache, registry and first opens over `Admission` | checked and proved |
| `PodWatchProofs` | its theorems | |
| `Selection` | from options to selectors, as functions | used by `StartUp` |
| `SelectionProofs` | what the deduplication of `-n` computes; induction in a form the provers can use | |
| `StartUp` | `main` and `run` up to the first task | checked and proved |
| `StartUpProofs` | its theorems, over those of `Selection` | |
| `MCStreamLifecycle`, `MCLineFlow`, `MCRunShutdown`, `MCCursorReconnect`, `MCPodWatch`, `MCStartUp` | values for the constants, symmetry | |

`RunShutdown` EXTENDS `LineFlow` and takes its steps from it (`PathStep`,
`AbortMux`, `SendShutdown`, ...), so that a run of it is a run of `LineFlow` in
which the shutdown's steps come in the order of the code. `StreamLifecycle` and
`CursorReconnect` look at the same attach task from two sides: the first has its
control with all keys, the second its requests and lines with one key, and
leaves open when the mux takes and drops streams. `PodWatch` looks at the watch
task and the attach tasks a third time, with pod objects, admission and metadata
in place of permits, channels and reopening: there the keys of one handler are
dropped and added in a step. `Selection` and `PodWatch` share `Admission`, so the
policy that `StartUp` builds is the kind of policy `PodWatch` applies.

### StreamLifecycle

One process per task. A handler is cut where the code awaits: `drop_keys` sends
`Remove` for each key through a bounded channel, so `DropKey` (cancel the token,
forget the key) and `SendRemove` (the send that may wait) are two actions, and
`Reconciled` ends the handler. `toDrop` and `toAdd` are what is left of the
`ReconcileDiff` in progress. `pending` is the snapshot of a re-listing, `meta`
the pods in the metadata cache. An attach task's `pc` names its await points:

| `pc` | `attach_pod_log_stream` waits at / is about to |
|---|---|
| `top` | check the tokens |
| `acquire`, `limit` | take a permit; with `--follow`, notify and cancel when there is none |
| `open` | `log_opener.open` |
| `add` | send `MuxCmd::Add` |
| `release` | drop the permit |
| `streaming` | `done_rx` |
| `backoff` | the sleep before another attempt |
| `returned` | - |

`end[t]` is the message in the one-shot of task `t`'s stream. It is sent when the
stream ends, and by the stream's `Drop`: every action that drops streams (a
replaced `StreamMap` entry, `Remove`, the mux's exit with its queue) does so with
`DropStreams`. `cut` is a history variable: streams dropped although their token
was live. The mux's `select!` is biased, which the guards of `PollStream` (no
cancellation, no command waiting) say. A watch error is no action: the loop goes
on, and the watcher's re-listing is `OnInitBegin`. A key's token is `cancelled`
on its own or through its parent, the root (`Cancelled`).

### LineFlow, OrderedDelivery

A line is a source and a number; `Hidden`, `Trigger` and `Failing` say what the
pipeline makes of it. (jq may also rewrite a line; that changes its text, not its
way.) `mpc`/`mrow`, `fpc`/`frow`, `rpc`/`batch`/`buf` are the three tasks with
the row each has in hand. `forward_to_render` sees the end of its stream on its
next poll (`PollPending`, `ForwardEnd`), waits in `send` or drops; the render
task receives up to `Batch` commands, writes into a buffer and flushes on
`Flush`, `Shutdown` and at the end. A stage may panic, a write may fail, and
once the root is cancelled any task may be aborted. `Path` is everything between
the stream and stdout as one sequence, oldest first: written, buffer, batch, render
channel, the forward task's row, raw channel, the mux's row. `Delivered` says that
`LineFlow`, with `written <- out`, implements `OrderedDelivery`.

### RunShutdown

`runpc` is the wait: `wait`, `polled` (a `--follow` run has polled the limit
channel and not yet the token), `join`, `exited`. `Steps` is the shutdown in the
order of the code; each join may succeed, time out (and abort the task), and
time out again (and give up). `ExitCode` is the precedence of `run`'s result and
of `main`'s codes. The reporter of `--stats` is a task of its own: a tick swaps
the three counters of `LineFlow` with zero, one step each (`StatsSwap`), prints
the snapshot or fails to, and `printed` adds up what was printed. The other helper
tasks matter by when they end. An abort takes effect at an await point of the
aborted task, at any time after it is requested (`AbortTask`).

### CursorReconnect

A line is its number in the container's log, `Time` its timestamp at the API
server, `Dated` the lines whose prefix parses. An activation is an attach task of
the key. `Yield` reads a line, resolves its timestamp, remembers it and sends the
update; the select in the read loop is not biased, so a stream whose token is
cancelled may still yield. `Record` is the processor, `Forget` the call in
`drop_keys`, `FlushPoll` one of the bounded polls of `wait_cursor_flushed`, and
`RequestFor` is `pod_log_request_for_reopen`. `FirstLine` is the API's answer to a
request and is the one part modelled from its use. The retries inside one open
build the same request and are one step.

### Admission, PodWatch

A pod object has a name, a UID, a node, labels, containers with their placement
(main, init, ephemeral), a status with conditions and container states, and
`served`, the containers whose log the API has. `Admission` has one operator per
function of `container_keys.rs`, `pod_condition.rs` and `watch_admission.rs`; a
regular expression is the set of names it matches.

`PodWatch` is three parties. The cluster (external) creates, updates, deletes and
recreates pods. The watcher (external) reports changes in order and late
(`events`, `listing`), and may start over at any time, which is what a watch error
or an expired resource version leads to. The watch task handles an event in two
steps, cache first and registry second (`job`), because attach tasks read the
cache in between. An attach task looks up its metadata once (`Lookup`), then opens
the log of the pod that has its pod's *name* now (`OpenOk`: `src` is that pod's
UID), with up to `MaxAttempts` attempts; a refusal ends the task and leaves its key
active. `known` and `exposed` are history variables for `MetaFresh`: what the task
may have been given since its key was admitted, and whether its entry was cleared or
removed before it looked.

### Selection, StartUp

The options are a record (`Cli`). What of their text is parsed by a library is an
input: an option whose value does not parse is in `malformed`; a regular
expression is a set of names; a label selector is a set of requirements. `StartUp`
walks through `main` and `run`: `ValidateFlags`, `Configure`, `BuildClient`,
`BuildPlan`, one `GetWorkload` or `GetFails` per namespace, `Prepare` (pipeline,
policy, formatter), and without `--follow` a `ListPage` per page, at most
`MaxListPages`. `kubeconfig` may change between the three reads of it.
`AskedFor` is the reference definition of the pods a command line is about,
written from the options and the workloads' own selectors, with no word about
scopes, plans or pages; `TailsWhatFlagsAsk` compares it with what the server would
return and the policy admit. A workload owns the pods with its `OwnLabels` that
satisfy its `OwnExpressions`, and `app=<name>` stands in (`FallsBack`) where a
workload has neither, could not be read, or has other ones than the workload of
another namespace that was asked for.

### PipelineOrder

One row, every configuration. `apply_pipeline` is a fixed sequence of `if`s, and
so is the model: a stage that is not wired passes the row on. `Order` is
`PipelineStageOrder::resolve`. A message is `"raw"` or `"jqed"`, and a row says
which of the two each group of patterns matches. `Hidden` and `ExitDue` are the
reference definitions: what the flags promise without a word about stages.

## 3. The runs

All runs but `podwatch` set `CHECK_DEADLOCK FALSE`: the program really ends
(cancelled, drained, exited, started, a row at its sink).

| Run | Instance | Shows |
|---|---|---|
| `lifecycle_safety` | one pod name, two UIDs, two tasks, one permit, queue of two, one retry, `--cursor-reconnect`; 840 000 states | the safety properties of the lifecycle under every interleaving of events, opens, ends, reopens and cancellation |
| `lifecycle_cancel` | one key, two tasks, queue of one, blocking mux; `FairSpec` | cancellation stops everybody, also with stdout blocked; a dropped key's task ends while the output flows |
| `lifecycle_reopen` | one key, two tasks, two permits, one retry; `FairSpec` | a stream that ended is in the map again |
| `lifecycle_nofollow` | two containers, one permit, `--no-follow`; `NoFollowSpec` | nothing is cut, and the run ends by itself |
| `lines_blocking` | two sources of two lines, channels of two, batches of two; a hidden line that fires `--exit-on`; cancel, abort, panic, failing stdout; 2.3 million states | nothing lost, in order, seen by `--exit-on`; implements `OrderedDelivery` |
| `run_nofollow` | one source of three rows, the second an API error, the third for `--exit-on`; SIGINT, every timeout; `FairRunSpec` | complete when prompt, honest exit code, exits |
| `run_follow` | `--lossy`, channels of one, a hidden and a visible line, `--stats`, the limit; 3.5 million states | what was forwarded is written; each drop is counted in one window |
| `cursor` | three lines (the second undated), two activations, two updates in flight; 4 million states | no gap at the seam unless a stale stream is ahead; the cursor settles |
| `pipeline` | all configurations and rows with three levels and three thresholds; 2 million states | the stages do what the flags say |
| `podwatch` | one pod name, two UIDs, four shapes of a pod, two tasks, two attempts, three changes of the cluster, two events behind; `FairSpec`; 316 000 states | registry, metadata and logs agree with the cluster once the events are handled; what is admitted is opened |
| `startup` | some 300 command lines, five pods in three namespaces, two contexts, four to five workload objects per kind, two pages, one context switch; 2.8 million states | the pods asked for, no more and no less; wrong options refused in time |
| `run_limit` (violation) | the limit between two polls | see 6 |

Why these bounds are enough to meet the hazards. Two tasks and two UIDs give a
dropped key, its successor and a re-added key; a third task would be a second
successor, and no guard looks at more than one earlier task. A command queue of
two holds an `Add` and the `Remove` behind it, in both orders; of one, it makes
the watch task wait. One permit makes two tasks compete. One retry reaches "try
again" and "give up". In `LineFlow` channels of one and two are full while both
neighbours hold a row; two sources are needed for "per source", two lines for
"order". In `CursorReconnect` the late update of a dropped activation needs two
activations, a gap needs a line between two others, and the undated one checks
the derived timestamps. In `PodWatch` three changes of the cluster are a deletion, a
recreation and an update of the new pod, or a pod that leaves the filter and comes
back, each with the old events still under way; two attempts reach "try again" and
"give up". In `StartUp` two namespaces asked for and a third one not are needed to
tell a scope from a filter, and two pages to meet the last page allowed with and
without more behind it. The bounds are constants: `Tasks`, `MaxLines`, `MaxLog`,
`MaxPending`, `MaxTasks`, `MaxChanges`, `MaxBehind`, `MaxSwitches`; `MuxCap`, `Batch`,
`FlushRetries`, `MaxReopenStartRetries`, `MaxAttempts` and `MaxListPages` are the
code's constants made small.

Every property has a mutant in `PROJECT.json`: a variant of one definition with a
plausible fault (next to the definition, marked "Variant with a fault") that the
property catches under the run's own configuration.

## 4. Fairness

* `TaskFairness`: the runtime keeps polling every task. tokio's semaphore and
  channels queue their waiters, so a waiting send is not passed over for ever
  (`SF` of `SendAdd`); the watch task's `select!` is not biased and picks its
  branch at random, so a ready cancellation is not passed over for ever (`SF` of
  `WatchStop`). An open is answered or fails: `build_client`
  sets a connect timeout, and the server either answers or closes the connection.
* `FlowFairness` is a hypothesis of `DroppedTaskEnds` and `ReopensAfterEof`, not
  part of the specification: stdout accepts lines, and a held stream whose token
  is cancelled ends. `CancelStopsAll` does without it.
* `NoFollowFairness`: the listing arrives and a log that is not followed is
  finite.
* `FairRunSpec` assumes nothing but that `run` is polled and its timers fire.
* `PodWatch!FairSpec`: the watcher delivers what it has, the watch task handles it,
  every attach task is polled, every open is answered or fails, and the stream of a
  cancelled token ends. That the watcher is left running and the cluster comes to
  rest is a hypothesis of `EventuallySettled`.
* Nothing is assumed of pod events, of lines or of the end of a followed log.

## 5. The proofs

`StreamLifecycleProofs` proves, for any number of pods, containers and tasks, any
capacities and any flags, from the assumptions named in the module
(`BoundsAssumption`, `FlagsAssumption`, `KeysAssumption`: finitely many keys,
`NoneAssumption`): `TypeOK`, `PermitsAccounted`, `RegistryConsistent`,
`NoOrphanTask`, `StreamsAccounted`, `MetaCoversActive`, `NoFollowDrains`,
`StatCoversMap`, and the action property `RemoveSparesLiveStream`.

Few of them are inductive: even `TypeOK` needs to know that the watch task is
removing a key. The inductive invariant is

    IInv == TypeOK /\ KeysKnown /\ HandlerInv /\ RegistryInv /\ QueueInv /\ PlaceInv
            /\ RemoveInv /\ PermitsAccounted /\ NoFollowInv

* `HandlerInv` says what is left to do in the middle of a handler: without it
  `MetaCoversActive` is not preserved by the end of the handler, and `AddKey` could
  add a key that is active.
* `RegistryInv` ties the two maps of the registry to the tasks. A spawned task is
  `free` before, and a free task is not cancelled.
* `QueueInv` and `PlaceInv` say where each stream is: queued once, or in the map
  under its own key, exactly while its task waits unanswered. Adding, replacing,
  removing and dropping the whole queue keep this.
* `RemoveInv` is the reason why a late `Remove` is harmless: for every queued
  `Remove`, the stream in the map under its key, and every `Add` for that key
  queued before it, belong to a cancelled task. It holds because a key is dropped
  (its token cancelled) before its `Remove` is sent, and a live task of the key
  that is queued earlier would have to have been spawned after.
* `NoFollowInv`: without `--follow` there is one listing, so no key is dropped and
  the queue's senders outlive the streams.

Each part has a step lemma with one case per group of actions; frame lemmas say
which variables the steps of a task leave alone. `StatCoversMap` is proved from
`TypeOK` alone: the map only loses keys without the statistic being rewritten.

`PipelineOrderProofs` proves `TypeOK`, `ShowsWhatFlagsSay` and `ExitsWhenDue` of
`PipelineOrder` for every set of levels and thresholds. The invariant says at
each stage what has been applied so far: what the event carries (`EventInv`), what
the exit watch has seen (`ExitInv`), what the filters let pass (`FilterInv`). The
one subtle point is a line dropped by the early filters: they are only wired early
when there is no `--exit-on-level`, so nothing was due behind them.

`LineFlowProofs` proves `TypeOK`, `InOrder`, `BlockingLosesNothing`,
`ExitOnSeesEveryLine` and `Delivered` of `LineFlow` for any sources, numbers of lines,
capacities and batch size, with and without `--lossy` and `--follow` (`LineBounds`,
`LineFlags`, `LineKinds`). The invariant is

    IInv == TypeOK /\ HandsInv /\ EndInv /\ OrderInv
            /\ BlockingLosesNothing /\ ExitOnSeesEveryLine

The argument is about `Path`: every step but the reading of a row leaves it as it is
or takes entries away (`PathShrinks`), and a row that is read is newer than all of
its source, so an ordered path stays ordered. `HandsInv` (a task holds a row exactly
while it waits to send it) is what makes the hands part of the path. `EndInv` says
who may end before the root is cancelled; without it a live path could end in a task
that is gone, and `BlockingLosesNothing` would not be preserved. That `LineFlow`
implements `OrderedDelivery` follows step by step: `out` grows at its end only, by
lines of the buffer, which follow it in the path.

`RunShutdownProofs` proves `RunTypeOK`, `SuccessIsSuccess`, `DropsCounted`,
`PromptRunIsComplete` and `ForwardedIsWritten` of `RunSpec`, in addition from
`RunAssumption`. A step of `RunShutdown` is a step of `LineFlow` or leaves its
variables alone, so `IInv` carries over. Added to it are:

* `JoinInv`: what `run` knows when it is past a step of the shutdown, and when there
  is an exit code;
* `LastWordInv`: nothing the pipeline forwards is behind `Shutdown` in the render
  channel, and a render task that stopped left nothing behind;
* `ForwardInv`: the lines from the render channel on are as many as were counted as
  forwarded, in all windows together; `SnapInv` keeps the reporter from counting
  twice a counter it has yet to swap;
* `CleanInv`: a run that nobody cancels from outside is cancelled by `run` itself, and
  by then the end of the streams has gone down the path.

`CursorReconnectProofs` proves `TypeOK`, `CursorSettles` and `NoGapUnlessOvertaken`
for a log of any length, any number of activations, updates in flight and polls.
`UndatedRuns` is an assumption about the log: lines in a row without a timestamp do
not add up to more than the overlap (a microsecond each, a second of overlap). The
invariant follows a timestamp on its way: `SettleInv` (the last line's is the last
update or in the store), `ClockInv` (a derived one is ahead of the log's by a tick
for each undated line since the last dated one), `StoreInv` (what is in the store or
on its way is that of a line which was printed, give or take the overlap), `AskInv`
(an activation that waited for its cursor asks for the lines from a printed one on)
and `SeamInv` (so its stream begins at or before a printed line, and what it printed
has no holes).

`PodWatchProofs` proves `TypeOK`, `ActiveIsAdmitted`, `MetaFresh`, `ReadsOwnPod` and
`NoKeyGivenUp` for any names, UIDs, shapes of pods, policy and number of tasks, with
the watcher any number of events behind (`WatchBounds`, `StartedHaveLogs`: a container
reported as started has a log; `Identities`: `None` is not a name). The core is
`ViewInv`: the registry, as the job in hand will leave it, is the snapshot of *some*
view of the cluster, and the undelivered events lead from that view, one by one, to
the cluster as it is. Handling an event moves the view by one; a re-listing starts a
new one. With no events left the view is the cluster, which is `ActiveIsAdmitted`.
`PastInv` and `GoneInv` say that whatever anybody still holds was true once, and that a
task which reads another pod's log, or was refused one, belongs to a pod that is gone
for good (UIDs are not reused). `MetaInv` ties the cache to what the tasks that have
yet to look may be given.

`StartUpProofs` proves all four properties of `StartUp` for every set of command
lines, kubeconfigs, workloads and pods. None is inductive; `WholeInv` says what each
stage has established. `OrderInv`: nothing is asked before the plan is built, and
what is past `validate` is well formed. `QueryInv`: the configured query is the
resolved one, and past `BuildPlan` it parses. `FailureInv`: what may still fail once
something was asked. `ContextInv`: the namespaces are those of the kubeconfig that was
read for them and the client is that of the last one; the two agree when `--context`
names the context or nothing was switched in between. `CfgInv`: the configuration is a
function of the flags and of one kubeconfig. `FetchInv`: the selectors that were read
and those of the namespaces still to be read are all the selectors. `PlanInv` and
`ListInv`: the plan's selector is the unified one or `app=<name>`; what is listed and
what is not listed yet are, together, what the server selects.

`TailsWhatAsked` then goes through the parts of a query: `ScopeFits` (the scope of the
Api and the admission filter leave exactly the namespaces asked for), `FieldsMean`,
`QueryKept`, and `SelectorMeans` with `TranslationMeans` and `TranslationInjective`: a
translated selector asks of a pod what the workload's own selector means, and
different selectors never have the same translation, so unifying is right to compare
translations. The assumptions are what Kubernetes guarantees of the objects
(`WorkloadObjects`: labels are maps, `In` and `NotIn` have values; `NamesAreNames`:
a pod has a name and a namespace) and what clap guarantees of the flags
(`CommandLines`). `NoneIsNoFailure` keeps `None` apart.

`SelectionProofs` proves `DedupedIsExact` for any list of `-n` parts. The loop is a
recursive function, and what a recursive function computes needs induction. The
library's induction theorems take a predicate as a parameter, which the provers cannot
instantiate; `LeastNat` and `UpTo` state induction about *sets* of naturals instead,
from the well-foundedness of `<`, and `TraceExists` shows with it that the recursive
definition has a solution. Loops elsewhere are state machines and need none of this.

The invariants were checked by TLC on the instances of section 3 before they were
proved, except for `ViewInv` and `PlanInv`, which quantify over more than TLC can
enumerate.

Only model-checked are the liveness properties (fairness and ENABLED are out of the
prover's reach): `CancelStopsAll`, `DroppedTaskEnds`, `ReopensAfterEof`,
`NoFollowTerminates`, `CancelledRunExits` and `EventuallySettled`.

## 6. What the models found

A finding, with its run:

* `run_limit`: the biased `select!` of `run` polls the limit channel, then the
  token. An attach task that notifies and cancels between the two polls is taken
  for a plain cancellation, and the process ends with code 0 instead of an error.

Observations that the properties take into account:

* At the end of a `--no-follow` run the renderer has a bounded time
  (`runtime/run.rs:243`). A slower stdout loses lines, and the code is still 0,
  although `tests/no_follow_termination.rs:1` speaks of "log drain".
  `PromptRunIsComplete` holds for runs in which no task had to be aborted.
* A cursor update names its key only, and the flush counts as confirmed when the
  cursor is at or beyond the stream's last line (`runtime/cursor_service.rs:257`). A
  stream of a dropped activation that is late moves the cursor ahead, and the new
  activation reopens behind lines nobody printed. `NoGapUnlessOvertaken` says that
  this is the only way to a gap.
* The log is opened by pod name (`source/pod_log.rs:96`). A task of a pod that was
  just deleted can read its successor's log under the old UID and labels, until the
  deletion is handled (`ReadsOwnPod`).
* A re-listing clears the metadata cache; a task that looks up in that moment gives
  its lines neither labels nor node for as long as it lives (`exposed` in
  `MetaFresh`).
* With the default `--container-state all` a container that has not started is
  admitted, its open is refused, and nothing opens it again while its key is active.
  `NoKeyGivenUp` holds for policies that admit started containers.
* `--include` and `--highlight` patterns are merged into one (`render/highlight.rs:73`)
  after the workloads were read. Two of them that name the same capture group, or
  one that ends in an escaped blank, are refused only then; the repository's
  README:66 says "validated before connecting to the cluster".
* The namespace comes from one read of the kubeconfig and the client from the next
  (`discovery/context.rs:148`); a `kubectl config use-context` in between pairs the
  old context's namespace with the new cluster. README:73 has "the active kube
  context's namespace".
* The module comment `discovery/workload_selector.rs:3` says several namespaces keep
  `app=<name>`; the code reads the workload in each and unifies, as README:79 says.
  `k=v` and `k in (v)` count as different there.
* `-l` together with `kind/name` ignores the `kind/name`; `--field-selector ""`
  implies the query `.*` and selects everything.
* Ctrl-C before the tasks exist only cancels a token that nobody looks at yet: the
  requests of the start-up run to their end.

Observations without a property of their own:

* `max_log_requests` bounds the log requests being opened: the permit is dropped at
  the hand-over (`runtime/attach.rs:113`). `runtime/config.rs:47` calls it an
  "Upper bound on concurrent pod log streams".
* `--stats` counts a stream that ended by itself until the next command
  (`runtime/mux.rs:50`); `StatCoversMap` says it is never too low.
* With `--lossy` the mux may drop a line before `--exit-on` sees it
  (`runtime/mux.rs:67`); `ExitOnSeesEveryLine` is about runs without `--lossy`.
* A reopen without a stored cursor uses `--tail` and `--since` again
  (`runtime/cursor_store.rs:185`), although the repository's README says they only
  apply to the first open.
* The crate's README shows the filters before `json_annotate` in the original
  mode; with `--exit-on-level` they come after the classification. `ShowsRight`
  proves that this changes nothing that is displayed.
* Without `--level-key` no event has a level, so `--exit-on-level` never fires
  (`ExitDue` requires the key).
* With `--include`, `--exclude` is not looked at; a unit test wants it so.
* With `--follow` nothing waits for the forward and render tasks: after stdout is
  closed the process tails on without output until it is cancelled.
* A first open that fails is not retried, and its key stays active.
* The token of a credential plugin is fetched once (`discovery/context.rs:141`).
* The last window of `--stats` is not printed at the end of a run, and a window whose
  line stderr refuses is lost with it.

## 7. Plan

Done, in this order: `StreamLifecycle` with its proofs, `LineFlow` with
`OrderedDelivery`, `RunShutdown`, `CursorReconnect`, `PipelineOrder` with its
proofs, `Admission` and `PodWatch`, the `--stats` reporter, `Selection` and
`StartUp` with its first proofs; then the proofs of `LineFlow`, `RunShutdown`,
`CursorReconnect`, `PodWatch`, `StartUp` and `Selection`. Every safety property of
every run is proved now. Next: facts that the liveness arguments rest on and that
are safety (who can be waiting on whom in `StreamLifecycle` once the root is
cancelled, that `RunShutdown` always has a step while it joins), and action
properties of `PodWatch` and `CursorReconnect`.

## 8. Not modelled

Formatting and highlighting (text, no state), colours, regular expressions, jq and
the parsing of durations, time zones and selectors (libraries: an input says what
matches, what is truthy and what does not parse), the credential plugin (a child
process; `BuildClient` may fail), the length of backoffs, and what goes to the trace
log: the warnings about drops, at most one in five seconds, and their summary. The
shards of the metadata cache are left out, since every operation takes one at a
time. Windows signal handling is that of Unix with one signal.
