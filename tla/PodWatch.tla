------------------------------ MODULE PodWatch ------------------------------
(***************************************************************************)
(* What is tailed, and under which metadata, while the cluster changes.    *)
(*                                                                         *)
(* The pods that match the plan's selectors are created, updated, deleted  *)
(* and recreated under their name. The kube watcher (external) reports the *)
(* changes in order, late, and now and then lists everything again. The    *)
(* watch task (watch.rs, pod_lifecycle.rs) admits pods, keeps the metadata *)
(* cache (pod_meta_cache.rs) and reconciles the registry; each attach task *)
(* reads the cache once and then opens the log of its pod *by name*.       *)
(*                                                                         *)
(* StreamLifecycle follows permits, channels, reopening and shutdown with  *)
(* admission left open; here admission is Admission's, and an attach task  *)
(* is its first open: dropping and adding the keys of one event is a step. *)
(***************************************************************************)
EXTENDS Admission

CONSTANTS
  Namespace,
  Names, Uids,
  Shapes,       \* what a pod object can look like, identity aside
  Policy,       \* the WatchAdmissionPolicy
  Tasks,        \* attach tasks; bounds how many are under way
  MaxAttempts,  \* log_stream_with_retry's attempts (3 in the code)
  MaxBehind,    \* bound: changes the watcher has still to report
  MaxChanges    \* bound: changes of the cluster

ContainerNames == {c.name : c \in UNION {s.containers : s \in Shapes}}
Keys == [ns : {Namespace}, pod : Names, uid : Uids, container : ContainerNames]
Locators == [pod : Names, uid : Uids]
Metas == {[node |-> s.node, labels |-> s.labels] : s \in Shapes}
DefaultMeta == [node |-> None, labels |-> None]

\* served: the containers whose log the API serves, which are those that have started.
Pod(n, u, s) ==
  [ns |-> Namespace, name |-> n, uid |-> u, node |-> s.node, labels |-> s.labels,
   containers |-> s.containers, status |-> s.status, served |-> s.served]
Pods == {Pod(n, u, s) : n \in Names, u \in Uids, s \in Shapes}

ASSUME WatchBounds ==
  MaxAttempts \in Nat \ {0} /\ MaxBehind \in Nat /\ MaxChanges \in Nat
\* A container reported running or terminated has a log.
ASSUME StartedHaveLogs ==
  \A s \in Shapes : s.status # None =>
    \A c \in DOMAIN s.status.states :
      s.status.states[c] \in {"running", "terminated"} => c.name \in s.served

VARIABLES
  cluster,   \* the pods that match the plan, by name; None where there is none
  oldUids,   \* UIDs that were given to a pod
  changes,
  \* the kube watcher
  phase,     \* "start", "begun" (Init sent, not listed), "init" (the listing is delivered) or "live"
  events,    \* changes not yet delivered
  listing,   \* pods of the listing not yet delivered
  \* the watch task
  pending,   \* pending_pods
  job,       \* what the handler has left to do to the registry; None between handlers
  cache,     \* the PodMetaCache
  active, token, \* PodStreamRegistry
  cancelled,
  \* the attach tasks
  pc, key,
  attempt,   \* requests that failed with a server error
  meta,      \* the metadata the task's lines carry
  src,       \* the UID of the pod whose log it reads
  \* history
  errored,   \* tasks that gave up after MaxAttempts server errors
  known,     \* metadata of the task's pod that was handled from its key's admission to the lookup
  exposed    \* tasks that looked up after their pod's entry was cleared or removed

env     == <<cluster, oldUids, changes>>
watcher == <<phase, events, listing>>
handler == <<pending, job>>
registry == <<active, token, cancelled>>
attach  == <<pc, key, attempt, meta, src, errored>>
history == <<known, exposed>>
vars    == <<env, watcher, handler, cache, registry, attach, history>>

AttachPCs == {"free", "lookup", "top", "open", "streaming", "ended", "failed"}
Events == [op : {"Apply", "Delete"}, pod : Pods]
Jobs == [op : {"drop", "pod"}, pod : Pods] \cup [op : {"snapshot"}, keys : SUBSET Keys]

\* None stands for a value that is not there: it is not one of the values.
ASSUME Identities ==
  /\ None \notin Names /\ None \notin Uids /\ None \notin Tasks /\ None \notin Buckets
  /\ None \notin Pods /\ None \notin Keys /\ None \notin Metas /\ None \notin Jobs
  /\ Namespace # None

TypeOK ==
  /\ cluster \in [Names -> Pods \cup {None}] /\ oldUids \subseteq Uids /\ changes \in Nat
  /\ phase \in {"start", "begun", "init", "live"}
  /\ events \in Seq(Events)
  /\ listing \subseteq Pods /\ pending \subseteq Pods
  /\ job \in Jobs \cup {None}
  /\ cache \in [Locators -> Metas \cup {None}]
  /\ active \subseteq Keys /\ token \in [Keys -> Tasks \cup {None}] /\ cancelled \subseteq Tasks
  /\ pc \in [Tasks -> AttachPCs]
  /\ key \in [Tasks -> Keys \cup {None}]
  /\ attempt \in [Tasks -> Nat]
  /\ meta \in [Tasks -> Metas \cup {DefaultMeta}]
  /\ src \in [Tasks -> Uids \cup {None}]
  /\ errored \subseteq Tasks /\ exposed \subseteq Tasks
  /\ known \in [Tasks -> SUBSET Metas]

\* There may be pods before the run.
Init ==
  /\ cluster \in {c \in [Names -> Pods \cup {None}] : \A n, m \in Names :
                   c[n] # None => c[n].name = n /\ (c[m] # None /\ c[m].uid = c[n].uid => m = n)}
  /\ oldUids = {p.uid : p \in {cluster[n] : n \in Names} \ {None}} /\ changes = 0
  /\ phase = "start" /\ events = <<>> /\ listing = {} /\ pending = {} /\ job = None
  /\ cache = [l \in Locators |-> None]
  /\ active = {} /\ token = [k \in Keys |-> None] /\ cancelled = {}
  /\ pc = [t \in Tasks |-> "free"] /\ key = [t \in Tasks |-> None]
  /\ attempt = [t \in Tasks |-> 0] /\ meta = [t \in Tasks |-> DefaultMeta]
  /\ src = [t \in Tasks |-> None]
  /\ errored = {} /\ exposed = {} /\ known = [t \in Tasks |-> {}]

PodsIn(c) == {c[n] : n \in Names} \ {None}

(***************************************************************************)
(* The cluster (external). A pod keeps its name, and a UID is never given  *)
(* twice; a container that has started keeps its log while its pod exists. *)
(***************************************************************************)
\* The watch reports what changed since its listing.
Reported(op, pod) ==
  IF phase \in {"start", "begun"} THEN UNCHANGED events
  ELSE Len(events) < MaxBehind /\ events' = Append(events, [op |-> op, pod |-> pod])

Changed(n, pod) ==
  /\ changes < MaxChanges /\ changes' = changes + 1
  /\ cluster' = [cluster EXCEPT ![n] = pod]
  /\ UNCHANGED <<phase, listing, handler, cache, registry, attach, history>>

CreatePod(n, u, s) ==
  /\ cluster[n] = None /\ u \notin oldUids
  /\ oldUids' = oldUids \cup {u}
  /\ Changed(n, Pod(n, u, s)) /\ Reported("Apply", Pod(n, u, s))

UpdatePod(n, s) ==
  /\ cluster[n] # None /\ cluster[n].served \subseteq s.served
  /\ Pod(n, cluster[n].uid, s) # cluster[n]
  /\ Changed(n, Pod(n, cluster[n].uid, s)) /\ Reported("Apply", Pod(n, cluster[n].uid, s))
  /\ UNCHANGED oldUids

DeletePod(n) ==
  /\ cluster[n] # None
  /\ Changed(n, None) /\ Reported("Delete", cluster[n])
  /\ UNCHANGED oldUids
(***************************************************************************)
(* pod_meta_cache.rs. The shards are left out: no caller holds two of them.*)
(***************************************************************************)
Locator(pod) == [pod |-> pod.name, uid |-> pod.uid]
LocatorOf(k) == [pod |-> k.pod, uid |-> k.uid]
MetaSnapshot(pod) == [node |-> pod.node, labels |-> pod.labels]

Updated(c, pods) ==
  [l \in Locators |-> IF \E p \in pods : Locator(p) = l
                      THEN MetaSnapshot(CHOOSE p \in pods : Locator(p) = l) ELSE c[l]]
Removed(c, pod) == [c EXCEPT ![Locator(pod)] = None]
Pruned(c, keep) == [l \in Locators |-> IF l \in keep THEN c[l] ELSE None]

\* History: what the tasks of a pod may have been given, ...
Learnt(pods) ==
  [t \in Tasks |-> known[t] \cup
     {MetaSnapshot(p) : p \in {q \in pods : pc[t] = "lookup" /\ Locator(q) = LocatorOf(key[t])}}]
\* ... and the tasks that have yet to look their pod up.
Waiting(locators) == {t \in Tasks : pc[t] = "lookup" /\ LocatorOf(key[t]) \in locators}

(***************************************************************************)
(* The watch task. Every handler updates the cache and then, as a step of  *)
(* its own (attach tasks run in between), the registry. A watch error      *)
(* makes the watcher start over, which loses what it had not delivered.    *)
(***************************************************************************)
OnInitBegin ==
  /\ job = None
  /\ phase' = "begun" /\ events' = <<>> /\ listing' = {} /\ pending' = {}
  /\ cache' = [l \in Locators |-> None]
  /\ exposed' = exposed \cup Waiting(Locators)
  /\ UNCHANGED <<env, job, registry, attach, known>>

\* The list request is answered (external).
ListPods ==
  /\ phase = "begun" /\ phase' = "init" /\ listing' = PodsIn(cluster)
  /\ UNCHANGED <<env, events, handler, cache, registry, attach, history>>

OnInitApply(p) ==
  /\ phase = "init" /\ p \in listing
  /\ listing' = listing \ {p} /\ pending' = pending \cup {p}
  /\ cache' = Updated(cache, {p}) /\ known' = Learnt({p})
  /\ UNCHANGED <<env, phase, events, job, registry, attach, exposed>>

OnInitDone ==
  LET snap == CollectSnapshot(Policy, pending)
      keep == {LocatorOf(k) : k \in snap} IN
  /\ phase = "init" /\ listing = {} /\ job = None
  /\ phase' = "live" /\ pending' = {}
  /\ cache' = Pruned(Updated(cache, pending), keep)
  /\ job' = [op |-> "snapshot", keys |-> snap]
  /\ exposed' = exposed \cup Waiting(Locators \ keep)
  /\ UNCHANGED <<env, events, listing, registry, attach, known>>

\* Variant with a fault: the streams of a deleted pod are left to end by themselves.
OnDeleteKeepsStreams(pod) ==
  /\ cache' = Removed(cache, pod) /\ exposed' = exposed \cup Waiting({Locator(pod)})
  /\ UNCHANGED <<job, known>>

OnDelete(pod) ==
  /\ cache' = Removed(cache, pod)
  /\ job' = [op |-> "drop", pod |-> pod]
  /\ exposed' = exposed \cup Waiting({Locator(pod)}) /\ UNCHANGED known

\* Variant with a fault: a pod that is no longer admitted is left alone.
OnApplyRefusedIgnored(pod) ==
  /\ cache' = IF AdmitPod(Policy, pod) THEN Updated(cache, {pod}) ELSE cache
  /\ job' = IF AdmitPod(Policy, pod) THEN [op |-> "pod", pod |-> pod] ELSE None
  /\ known' = Learnt({pod}) /\ UNCHANGED exposed

\* Variant with a fault: the metadata is not refreshed before the streams are added.
OnApplyNoMeta(pod) ==
  IF AdmitPod(Policy, pod)
  THEN /\ job' = [op |-> "pod", pod |-> pod]
       /\ known' = Learnt({pod}) /\ UNCHANGED <<cache, exposed>>
  ELSE OnDelete(pod)

OnApply(pod) ==
  IF AdmitPod(Policy, pod)
  THEN /\ cache' = Updated(cache, {pod}) /\ known' = Learnt({pod})
       /\ job' = [op |-> "pod", pod |-> pod]
       /\ UNCHANGED exposed
  ELSE OnDelete(pod)

HandleEvent ==
  /\ phase = "live" /\ events # <<>> /\ job = None
  /\ events' = Tail(events)
  /\ IF Head(events).op = "Apply" THEN OnApply(Head(events).pod) ELSE OnDelete(Head(events).pod)
  /\ UNCHANGED <<env, phase, listing, pending, registry, attach>>

(***************************************************************************)
(* registry.rs: dropping and adding the keys of one handler. StreamLifecycle*)
(* takes the sends and the cursor's forgetting apart.                      *)
(***************************************************************************)
KeysForPodLocator(n, uid) ==
  {k \in active : k.pod = n /\ (uid = None \/ k.uid = uid)}

ToDrop ==
  CASE job.op = "drop"     -> KeysForPodLocator(job.pod.name, job.pod.uid)
    [] job.op = "pod"      -> KeysForPodLocator(job.pod.name, None) \ AdmitStreams(Policy, job.pod)
    [] job.op = "snapshot" -> active \ job.keys

ToAdd ==
  CASE job.op = "drop"     -> {}
    [] job.op = "pod"      -> AdmitStreams(Policy, job.pod) \ KeysForPodLocator(job.pod.name, None)
    [] job.op = "snapshot" -> job.keys \ active

Finished == {"ended", "failed"}

\* Variant with a fault: a dropped key's token is forgotten and not cancelled.
DroppedTokensForgotten(gone) == {t \in gone : pc[t] \in Finished}
DroppedTokens(gone) == gone

\* A finished task whose key is dropped is free for another key, and so is a
\* cancelled one that returns.
Gone == {token[k] : k \in ToDrop}
GoneFinished == {t \in Gone : pc[t] \in Finished}

RegistryStep(f) ==
  LET spawned == {f[k] : k \in ToAdd}
      taskKey(t) == CHOOSE k \in ToAdd : f[k] = t IN
  /\ job' = None
  /\ active' = (active \ ToDrop) \cup ToAdd
  /\ token' = [k \in Keys |-> IF k \in ToAdd THEN f[k] ELSE IF k \in ToDrop THEN None ELSE token[k]]
  /\ cancelled' = cancelled \cup (DroppedTokens(Gone) \ GoneFinished)
  /\ pc' = [t \in Tasks |-> IF t \in spawned THEN "lookup" ELSE IF t \in GoneFinished THEN "free" ELSE pc[t]]
  /\ key' = [t \in Tasks |-> IF t \in spawned THEN taskKey(t) ELSE IF t \in GoneFinished THEN None ELSE key[t]]
  /\ errored' = errored \ GoneFinished
  /\ known' = [t \in Tasks |->
                 IF t \in spawned THEN {cache[LocatorOf(taskKey(t))]} \ {None} ELSE known[t]]
  /\ UNCHANGED <<env, watcher, pending, cache, attempt, meta, src, exposed>>

RegistryReconciles ==
  /\ job # None
  /\ \E f \in [ToAdd -> {t \in Tasks : pc[t] = "free"} \cup GoneFinished] :
       /\ \A k, l \in ToAdd : f[k] = f[l] => k = l
       /\ RegistryStep(f)

(***************************************************************************)
(* An attach task (attach.rs, pod_log.rs)                                  *)
(***************************************************************************)
AttachStep == UNCHANGED <<env, watcher, handler, cache, active, token, known>>

\* The task is over, and what it held is dropped.
Over(t) ==
  /\ attempt' = [attempt EXCEPT ![t] = 0] /\ meta' = [meta EXCEPT ![t] = DefaultMeta]
  /\ src' = [src EXCEPT ![t] = None]
  /\ exposed' = exposed \ {t} /\ known' = [known EXCEPT ![t] = {}]
  /\ UNCHANGED <<env, watcher, handler, cache, active, token>>
\* Its key stays active, ...
Finishes(t, how) == Over(t) /\ pc' = [pc EXCEPT ![t] = how] /\ UNCHANGED <<key, cancelled>>
\* ... or had been dropped, and the task's token with it.
Returns(t) ==
  /\ Over(t) /\ pc' = [pc EXCEPT ![t] = "free"] /\ key' = [key EXCEPT ![t] = None]
  /\ cancelled' = cancelled \ {t} /\ UNCHANGED errored

\* Variant with a fault: a pod that is not cached leaves the metadata unset.
LookupNoDefault(t) ==
  /\ pc[t] = "lookup"
  /\ meta' = [meta EXCEPT ![t] = cache[LocatorOf(key[t])]]
  /\ pc' = [pc EXCEPT ![t] = "top"]
  /\ UNCHANGED <<key, attempt, src, errored, cancelled, exposed>> /\ AttachStep

\* source_meta_for_key: the only time the cache is read.
Lookup(t) ==
  /\ pc[t] = "lookup"
  /\ meta' = [meta EXCEPT ![t] = IF cache[LocatorOf(key[t])] = None THEN DefaultMeta
                                 ELSE cache[LocatorOf(key[t])]]
  /\ pc' = [pc EXCEPT ![t] = "top"]
  /\ UNCHANGED <<key, attempt, src, errored, cancelled, exposed>> /\ AttachStep

LoopTop(t) ==
  /\ pc[t] = "top"
  /\ IF t \in cancelled THEN Returns(t)
     ELSE /\ pc' = [pc EXCEPT ![t] = "open"]
          /\ UNCHANGED <<key, attempt, meta, src, errored, cancelled, exposed>> /\ AttachStep

\* start fails: the task returns, and its key stays active.
GivesUp(t, err) ==
  IF t \in cancelled THEN Returns(t)
  ELSE /\ errored' = IF err THEN errored \cup {t} ELSE errored
       /\ Finishes(t, "failed")

\* The request names the pod and the container; its UID is not part of it.
Served(k) == cluster[k.pod] # None /\ k.container \in cluster[k.pod].served

OpenOk(t) ==
  /\ pc[t] = "open" /\ Served(key[t])
  /\ pc' = [pc EXCEPT ![t] = "streaming"]
  /\ src' = [src EXCEPT ![t] = cluster[key[t].pod].uid]
  /\ UNCHANGED <<key, attempt, meta, errored, cancelled, exposed>> /\ AttachStep

\* 400 (the container is waiting to start) or 404: not retried.
OpenRefused(t) ==
  /\ pc[t] = "open" /\ ~Served(key[t]) /\ GivesUp(t, FALSE)

\* Variant with a fault: a failed open starts over without counting its attempts.
OpenErrorForever(t) ==
  /\ pc[t] = "open" /\ pc' = [pc EXCEPT ![t] = "top"]
  /\ UNCHANGED <<key, attempt, meta, src, errored, cancelled, exposed>> /\ AttachStep

\* A server error, 429 or a connection failure; the token is not looked at between attempts.
OpenError(t) ==
  /\ pc[t] = "open"
  /\ IF attempt[t] + 1 >= MaxAttempts THEN GivesUp(t, TRUE)
     ELSE /\ attempt' = [attempt EXCEPT ![t] = @ + 1]
          /\ UNCHANGED <<pc, key, meta, src, errored, cancelled, exposed>> /\ AttachStep

\* The token is cancelled, or the log ends: without reconnection the task returns.
StreamEnds(t) ==
  /\ pc[t] = "streaming"
  /\ IF t \in cancelled THEN Returns(t)
     ELSE Finishes(t, "ended") /\ UNCHANGED errored

(***************************************************************************)
(* The specification                                                       *)
(***************************************************************************)
ClusterNext ==
  \E n \in Names : \/ \E u \in Uids, s \in Shapes : CreatePod(n, u, s)
                   \/ \E s \in Shapes : UpdatePod(n, s)
                   \/ DeletePod(n)
WatchNext == OnInitBegin \/ ListPods \/ (\E p \in listing : OnInitApply(p)) \/ OnInitDone
             \/ HandleEvent \/ RegistryReconciles
AttachNext(t) == Lookup(t) \/ LoopTop(t) \/ OpenOk(t) \/ OpenRefused(t) \/ OpenError(t)
                 \/ StreamEnds(t)
Next == ClusterNext \/ WatchNext \/ \E t \in Tasks : AttachNext(t)

Spec == Init /\ [][Next]_vars

\* The runtime polls every task that is ready, a response or an error answers
\* every request, and a cancelled stream ends. A log need not end by itself, and
\* the watcher need not be asked to start over.
Starts == phase = "start" /\ OnInitBegin
Progress(t) == Lookup(t) \/ LoopTop(t) \/ OpenOk(t) \/ OpenRefused(t) \/ OpenError(t)
               \/ (t \in cancelled /\ StreamEnds(t))
FairSpec ==
  /\ Spec
  /\ WF_vars(Starts \/ ListPods \/ (\E p \in listing : OnInitApply(p)) \/ OnInitDone
             \/ HandleEvent \/ RegistryReconciles)
  /\ \A t \in Tasks : WF_vars(Progress(t))

(***************************************************************************)
(* Properties                                                              *)
(***************************************************************************)
CaughtUp == phase = "live" /\ events = <<>> /\ job = None

\* Once the watch task has handled everything the watcher reported, the registry
\* holds exactly the streams that the policy admits of the pods there are: after
\* any mix of relists, recreations under one name, and pods that come and go
\* through the condition filter (pod_lifecycle.rs, registry.rs).
ActiveIsAdmitted == CaughtUp => active = CollectSnapshot(Policy, PodsIn(cluster))

\* The lines of a task carry metadata its own pod had when its key was admitted or
\* later, never an earlier incarnation's or another pod's; a task that looks the
\* pod up after the entry was cleared or removed is the exception (pod_lifecycle.rs
\* orders the metadata update before the spawn; attach.rs reads it once).
MetaFresh ==
  \A t \in Tasks : pc[t] \in {"top", "open", "streaming"} => meta[t] \in known[t] \/ t \in exposed

\* A log is opened by pod name, so a task admitted for a deleted pod can read its
\* successor's log; no such stream outlives the handling of the events.
ReadsOwnPod ==
  CaughtUp => \A t \in Tasks : pc[t] = "streaming" /\ t \notin cancelled => src[t] = key[t].uid

\* When only started containers are admitted, a key that is still active has not
\* been given up by its task, except after MaxAttempts server errors: a refused
\* open means the pod is gone, and so is soon its key (attach.rs never retries a
\* first open).
NoKeyGivenUp ==
  CaughtUp /\ Policy.states # None /\ Policy.states \subseteq {"running", "terminated"} =>
    \A k \in active : pc[token[k]] = "failed" => token[k] \in errored

\* If the watcher is eventually left running and the cluster comes to rest, the
\* watch task catches up and every admitted stream has been opened, or given up
\* for good.
Settled == CaughtUp /\ \A k \in active : pc[token[k]] \in {"streaming", "ended", "failed"}
Restarts == phase # "start" /\ OnInitBegin
EventuallySettled == <>[][~(Restarts \/ ClusterNext)]_vars => <>[]Settled
=============================================================================
