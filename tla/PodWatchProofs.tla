--------------------------- MODULE PodWatchProofs ---------------------------
(***************************************************************************)
(* The safety properties of PodWatch, for any pods, shapes and policy, any *)
(* number of attach tasks and any bounds.                                  *)
(***************************************************************************)
EXTENDS PodWatch, SequenceTheorems, TLAPS

USE DEF env, watcher, handler, registry, attach, history, vars

(***************************************************************************)
(* The inductive invariant.                                                *)
(***************************************************************************)
\* What the watcher and the watch task have in hand in each phase.
PhaseInv ==
  /\ phase \in {"start", "begun"} => events = <<>> /\ listing = {} /\ pending = {}
  /\ phase = "live" => pending = {}
  /\ job # None => phase = "live"

\* The registry and the attach tasks agree on who tails what.
RegInv ==
  /\ \A k \in active : token[k] \in Tasks /\ key[token[k]] = k /\ token[k] \notin cancelled
  /\ \A t \in Tasks :
       /\ key[t] # None /\ t \notin cancelled => key[t] \in active /\ token[key[t]] = t
       /\ pc[t] = "free" <=> key[t] = None
       /\ t \in cancelled => pc[t] # "free" /\ pc[t] \notin Finished

\* A view is what the pods of the plan looked like at some moment.
Views == {c \in [Names -> Pods \cup {None}] : \A n \in Names : c[n] # None => c[n].name = n}

\* A change of the cluster, as an event reports it.
Reports(c, e, d) ==
  \/ /\ e.op = "Apply" /\ (c[e.pod.name] = None \/ c[e.pod.name].uid = e.pod.uid)
     /\ d = [c EXCEPT ![e.pod.name] = e.pod]
  \/ /\ e.op = "Delete" /\ c[e.pod.name] # None /\ c[e.pod.name].uid = e.pod.uid
     /\ d = [c EXCEPT ![e.pod.name] = None]

\* The undelivered events lead, one change at a time, from the view v[0] to the cluster.
Leads(v, es, c) ==
  /\ v \in [Nat -> Views] /\ v[Len(es)] = c
  /\ \A i \in 1..Len(es) : Reports(v[i - 1], es[i], v[i])

\* The registry as the job in hand will leave it.
Target == IF job = None THEN active ELSE (active \ ToDrop) \cup ToAdd

\* The registry, or the listing, is that of a view the events bring up to date.
ViewInv ==
  /\ phase = "init" => \E v \in [Nat -> Views] :
       Leads(v, events, cluster) /\ PodsIn(v[0]) = listing \cup pending
  /\ phase = "live" => \E v \in [Nat -> Views] :
       Leads(v, events, cluster) /\ Target = CollectSnapshot(Policy, PodsIn(v[0]))

\* Only started containers are tailed.
StartedOnly == Policy.states # None /\ Policy.states \subseteq {"running", "terminated"}

\* The pod of the key is still there, and its log can still be opened.
Lives(k, c) == c[k.pod] # None /\ c[k.pod].uid = k.uid
PastKey(k, c, uids) ==
  /\ k \in Keys /\ k.uid \in uids
  /\ StartedOnly /\ Lives(k, c) => k.container \in c[k.pod].served
\* The object is, or was, that of a pod of the cluster: while that pod lives it serves
\* at least the logs it served then.
Past(p, c, uids) ==
  /\ p \in Pods /\ p.uid \in uids
  /\ c[p.name] # None /\ c[p.name].uid = p.uid => p.served \subseteq c[p.name].served

\* Everything anybody knows of the cluster is, or was, true of it.
PastInv ==
  /\ cluster \in Views /\ \A n \in Names : cluster[n] # None => cluster[n].uid \in oldUids
  /\ \A p \in listing \cup pending : Past(p, cluster, oldUids)
  /\ \A i \in 1..Len(events) : Past(events[i].pod, cluster, oldUids)
  /\ job # None => IF job.op = "snapshot" THEN \A k \in job.keys : PastKey(k, cluster, oldUids)
                   ELSE Past(job.pod, cluster, oldUids)
  /\ \A t \in Tasks : key[t] # None => PastKey(key[t], cluster, oldUids)

\* A task that reads another pod's log, or was refused one, is that of a pod which is no more.
Misled(t) == pc[t] = "streaming" /\ src[t] # key[t].uid
Refused(t) == StartedOnly /\ pc[t] = "failed" /\ t \notin errored
GoneInv == \A t \in Tasks : Misled(t) \/ Refused(t) => ~Lives(key[t], cluster)

\* The cache has what the job's tasks will look up, what the listing said so far, and what
\* the tasks that have yet to look may be given.
MetaInv ==
  /\ job # None => \A k \in ToAdd : cache[LocatorOf(k)] # None
  /\ phase = "init" => \A p \in pending : cache[Locator(p)] = MetaSnapshot(p)
  /\ \A t \in Tasks : pc[t] = "lookup" =>
       t \in exposed \/ (cache[LocatorOf(key[t])] # None /\ cache[LocatorOf(key[t])] \in known[t])

WIInv ==
  TypeOK /\ PhaseInv /\ RegInv /\ PastInv /\ ViewInv /\ GoneInv /\ MetaInv /\ MetaFresh

(***************************************************************************)
(* Pods, keys and what is admitted.                                        *)
(***************************************************************************)
\* The fields of a pod object.
LEMMA PodFields ==
  ASSUME NEW p \in Pods
  PROVE  /\ p.name \in Names /\ p.uid \in Uids /\ p.uid # None /\ p.ns = Namespace
         /\ Locator(p) \in Locators /\ MetaSnapshot(p) \in Metas /\ MetaSnapshot(p) # None
         /\ \E s \in Shapes : p.containers = s.containers /\ p.status = s.status
                              /\ p.served = s.served
  BY Identities DEF Pods, Pod, Locator, Locators, MetaSnapshot, Metas

\* A key's locator.
LEMMA KeyFields ==
  ASSUME NEW k \in Keys
  PROVE  k.pod \in Names /\ k.uid \in Uids /\ LocatorOf(k) \in Locators
  BY DEF Keys, LocatorOf, Locators

\* The streams admitted of a pod are keys of that pod, and of containers whose log it
\* serves when only started ones are wanted (container_keys.rs, watch_admission.rs).
LEMMA AdmittedKeys ==
  ASSUME NEW p \in Pods, NEW k \in AdmitStreams(Policy, p)
  PROVE  /\ k \in Keys /\ k.pod = p.name /\ k.uid = p.uid /\ LocatorOf(k) = Locator(p)
         /\ StartedOnly => k.container \in p.served
<1>1. PICK c \in p.containers : k = SourceKey(p, c) /\ AcceptsByPlacement(Policy, p, c)
  BY DEF AdmitStreams, KeysFromPod, CollectCandidates
<1>2. k.pod = p.name /\ k.uid = p.uid /\ k.container = c.name /\ k.ns = p.ns
  BY <1>1 DEF SourceKey
<1>3. PICK s \in Shapes : p.containers = s.containers /\ p.status = s.status /\ p.served = s.served
  BY PodFields
<1>4. c.name \in ContainerNames
  BY <1>3 DEF ContainerNames
<1>5. k \in Keys
  BY <1>1, <1>2, <1>4, PodFields DEF SourceKey, Keys
<1>6. LocatorOf(k) = Locator(p)
  BY <1>2 DEF LocatorOf, Locator
<1>7. ASSUME StartedOnly PROVE k.container \in p.served
  <2>1. Bucket(p, c) \in {"running", "terminated"}
    BY <1>1, <1>7 DEF AcceptsByPlacement, StartedOnly
  <2>2. p.status # None /\ c \in DOMAIN p.status.states
        /\ p.status.states[c] \in {"running", "terminated"}
    BY <2>1, Identities DEF Bucket, Buckets
  <2> QED BY <1>2, <1>3, <2>2, StartedHaveLogs
<1> QED BY <1>2, <1>5, <1>6, <1>7

\* A snapshot of a view has, of every name, the streams admitted of its pod, if any.
LEMMA SnapshotKeys ==
  ASSUME NEW c \in Views
  PROVE  /\ PodsIn(c) \subseteq Pods
         /\ \A n \in Names : c[n] # None => c[n] \in PodsIn(c) /\ c[n] \in Pods
         /\ \A p \in PodsIn(c) : p.name \in Names /\ c[p.name] = p /\ p # None
         /\ \A k \in CollectSnapshot(Policy, PodsIn(c)) :
              /\ k \in Keys /\ Lives(k, c)
              /\ c[k.pod] \in Pods /\ k \in AdmitStreams(Policy, c[k.pod])
              /\ AdmitPod(Policy, c[k.pod])
<1>1. PodsIn(c) \subseteq Pods
  BY DEF PodsIn, Views
<1>2. \A p \in PodsIn(c) : p.name \in Names /\ c[p.name] = p /\ p # None
  BY DEF PodsIn, Views
<1>3. \A n \in Names : c[n] # None => c[n] \in PodsIn(c) /\ c[n] \in Pods
  BY DEF PodsIn, Views
<1>4. ASSUME NEW k \in CollectSnapshot(Policy, PodsIn(c))
      PROVE  /\ k \in Keys /\ Lives(k, c)
             /\ c[k.pod] \in Pods /\ k \in AdmitStreams(Policy, c[k.pod])
             /\ AdmitPod(Policy, c[k.pod])
  <2>1. PICK p \in PodsIn(c) : AdmitPod(Policy, p) /\ k \in AdmitStreams(Policy, p)
    BY DEF CollectSnapshot
  <2>2. p \in Pods /\ k \in Keys /\ k.pod = p.name /\ k.uid = p.uid
    BY <1>1, <2>1, AdmittedKeys
  <2> QED BY <1>2, <2>1, <2>2 DEF Lives
<1> QED BY <1>1, <1>2, <1>3, <1>4

\* What a job drops and adds.
LEMMA JobSets ==
  ASSUME TypeOK, job # None
  PROVE  /\ ToDrop \subseteq active /\ ToAdd \subseteq Keys /\ ToAdd \cap active = {}
         /\ job.op \in {"drop", "pod"} => job.pod \in Pods
         /\ job.op = "snapshot" => job.keys \subseteq Keys
         /\ job.op \in {"drop", "pod", "snapshot"}
<1>1. CASE job \in [op : {"drop", "pod"}, pod : Pods]
  <2>1. job.pod \in Pods /\ job.op \in {"drop", "pod"}
    BY <1>1
  <2>2. \A k \in AdmitStreams(Policy, job.pod) : k \in Keys /\ k.pod = job.pod.name
    BY <2>1, AdmittedKeys
  <2>3. CASE job.op = "drop"
    BY <2>1, <2>3 DEF ToDrop, ToAdd, KeysForPodLocator
  <2>4. CASE job.op = "pod"
    BY <2>1, <2>2, <2>4 DEF ToDrop, ToAdd, KeysForPodLocator
  <2> QED BY <2>1, <2>3, <2>4
<1>2. CASE job \in [op : {"snapshot"}, keys : SUBSET Keys]
  BY <1>2 DEF ToDrop, ToAdd
<1> QED BY <1>1, <1>2 DEF TypeOK, Jobs

(***************************************************************************)
(* The registry's step, task by task and key by key.                       *)
(***************************************************************************)
\* Every added key gets a task of its own, which was free or whose key is dropped.
Spawns(f) ==
  /\ \A k \in ToAdd :
       /\ f[k] \in Tasks /\ f[k] \notin cancelled
       /\ pc[f[k]] = "free" \/ f[k] \in GoneFinished
       /\ token'[k] = f[k] /\ pc'[f[k]] = "lookup" /\ key'[f[k]] = k
       /\ known'[f[k]] = {cache[LocatorOf(k)]} \ {None}
  /\ \A k \in Keys \ ToAdd : token'[k] = IF k \in ToDrop THEN None ELSE token[k]
  /\ \A t \in Tasks : (\A k \in ToAdd : f[k] # t) =>
       /\ pc'[t] = IF t \in GoneFinished THEN "free" ELSE pc[t]
       /\ key'[t] = IF t \in GoneFinished THEN None ELSE key[t]
       /\ known'[t] = known[t]

LEMMA RegistryEffects ==
  ASSUME TypeOK, RegInv, RegistryReconciles
  PROVE  /\ job # None /\ job' = None
         /\ active' = (active \ ToDrop) \cup ToAdd
         /\ cancelled' = cancelled \cup (Gone \ GoneFinished)
         /\ errored' = errored \ GoneFinished
         /\ Gone \subseteq Tasks
         /\ token' \in [Keys -> Tasks \cup {None}] /\ pc' \in [Tasks -> AttachPCs]
         /\ key' \in [Tasks -> Keys \cup {None}] /\ known' \in [Tasks -> SUBSET Metas]
         /\ UNCHANGED <<env, watcher, pending, cache, attempt, meta, src, exposed>>
         /\ \E f \in [ToAdd -> Tasks] : Spawns(f)
<1>1. job # None
  BY DEF RegistryReconciles
<1>2. ToDrop \subseteq active /\ ToAdd \subseteq Keys /\ ToAdd \cap active = {}
  BY <1>1, JobSets
<1>3. Gone \subseteq Tasks /\ GoneFinished \subseteq Gone
  BY <1>2 DEF Gone, GoneFinished, RegInv
<1>4. PICK f \in [ToAdd -> {t \in Tasks : pc[t] = "free"} \cup GoneFinished] :
        (\A k, l \in ToAdd : f[k] = f[l] => k = l) /\ RegistryStep(f)
  BY DEF RegistryReconciles
<1> DEFINE S == {f[k] : k \in ToAdd}
           TaskKey(t) == CHOOSE k \in ToAdd : f[k] = t
<1>5. /\ token' = [k \in Keys |-> IF k \in ToAdd THEN f[k]
                                  ELSE IF k \in ToDrop THEN None ELSE token[k]]
      /\ pc' = [t \in Tasks |-> IF t \in S THEN "lookup"
                                ELSE IF t \in GoneFinished THEN "free" ELSE pc[t]]
      /\ key' = [t \in Tasks |-> IF t \in S THEN TaskKey(t)
                                 ELSE IF t \in GoneFinished THEN None ELSE key[t]]
      /\ known' = [t \in Tasks |-> IF t \in S THEN {cache[LocatorOf(TaskKey(t))]} \ {None}
                                   ELSE known[t]]
  BY <1>4, Zenon DEF RegistryStep
<1>6. \A k \in ToAdd : TaskKey(f[k]) = k
  BY <1>4
<1>7. \A k \in ToAdd : f[k] \in Tasks /\ (pc[f[k]] = "free" \/ f[k] \in GoneFinished)
  BY <1>3, <1>4
<1>8. \A t \in S : t \in Tasks /\ TaskKey(t) \in ToAdd
  BY <1>6, <1>7
<1> HIDE DEF TaskKey
<1>9. \A k \in ToAdd : f[k] \notin cancelled
  BY <1>2, <1>7 DEF RegInv, Gone, GoneFinished
<1>10. Spawns(f)
  <2>1. \A k \in ToAdd : f[k] \in S /\ k \in Keys
    BY <1>2
  <2>2. \A t \in Tasks : (\A k \in ToAdd : f[k] # t) => t \notin S
    OBVIOUS
  <2> HIDE DEF S
  <2>3. \A k \in ToAdd : token'[k] = f[k] /\ pc'[f[k]] = "lookup" /\ key'[f[k]] = k
                         /\ known'[f[k]] = {cache[LocatorOf(k)]} \ {None}
    BY <1>5, <1>6, <1>7, <2>1
  <2>4. \A k \in Keys \ ToAdd : token'[k] = IF k \in ToDrop THEN None ELSE token[k]
    BY <1>5
  <2>5. \A t \in Tasks : t \notin S =>
          /\ pc'[t] = IF t \in GoneFinished THEN "free" ELSE pc[t]
          /\ key'[t] = IF t \in GoneFinished THEN None ELSE key[t]
          /\ known'[t] = known[t]
    BY <1>5
  <2> QED BY <1>7, <1>9, <2>2, <2>3, <2>4, <2>5 DEF Spawns
<1>11. token' \in [Keys -> Tasks \cup {None}]
  <2>1. \A k \in Keys : token[k] \in Tasks \cup {None}
    BY DEF TypeOK
  <2> QED BY <1>5, <1>7, <2>1
<1>12. pc' \in [Tasks -> AttachPCs]
  BY <1>5 DEF TypeOK, AttachPCs
<1>13. key' \in [Tasks -> Keys \cup {None}]
  <2>1. \A t \in S : TaskKey(t) \in Keys
    BY <1>2, <1>8
  <2> HIDE DEF S
  <2> QED BY <1>5, <2>1 DEF TypeOK
<1>14. known' \in [Tasks -> SUBSET Metas]
  <2>1. \A t \in S : {cache[LocatorOf(TaskKey(t))]} \ {None} \subseteq Metas
    <3> TAKE t \in S
    <3>1. TaskKey(t) \in Keys
      BY <1>2, <1>8
    <3>2. LocatorOf(TaskKey(t)) \in Locators
      BY <3>1, KeyFields
    <3> QED BY <3>2 DEF TypeOK
  <2> HIDE DEF S
  <2>2. \A t \in Tasks : known[t] \subseteq Metas
    BY DEF TypeOK
  <2> QED BY <1>5, <2>1, <2>2
<1>15. /\ job' = None
       /\ active' = (active \ ToDrop) \cup ToAdd
       /\ cancelled' = cancelled \cup (Gone \ GoneFinished)
       /\ errored' = errored \ GoneFinished
       /\ UNCHANGED <<env, watcher, pending, cache, attempt, meta, src, exposed>>
  BY <1>4 DEF RegistryStep, DroppedTokens
<1>16. f \in [ToAdd -> Tasks]
  BY <1>4, <1>7
<1> QED BY <1>1, <1>3, <1>10, <1>11, <1>12, <1>13, <1>14, <1>15, <1>16

(***************************************************************************)
(* The steps of an attach task, by what they do.                           *)
(***************************************************************************)
ToOpen(t) ==
  /\ pc[t] \in {"top", "open"} /\ pc' = [pc EXCEPT ![t] = "open"]
  /\ attempt' \in [Tasks -> Nat]
  /\ UNCHANGED <<key, meta, src, errored, cancelled, exposed>> /\ AttachStep
Leaves(t) == t \in cancelled /\ Returns(t)
Errs(t) == t \notin cancelled /\ errored' = errored \cup {t} /\ Finishes(t, "failed")
IsRefused(t) ==
  /\ t \notin cancelled /\ pc[t] = "open" /\ ~Served(key[t])
  /\ errored' = errored /\ Finishes(t, "failed")
Ends(t) == t \notin cancelled /\ Finishes(t, "ended") /\ UNCHANGED errored

LEMMA AttachCases ==
  ASSUME TypeOK, NEW t \in Tasks, AttachNext(t)
  PROVE  \/ Lookup(t) \/ OpenOk(t) \/ ToOpen(t)
         \/ /\ pc[t] \in {"top", "open", "streaming"}
            /\ Leaves(t) \/ Errs(t) \/ IsRefused(t) \/ Ends(t)
<1>1. CASE Lookup(t) \/ OpenOk(t)
  BY <1>1
<1>2. CASE LoopTop(t)
  BY <1>2 DEF LoopTop, ToOpen, Leaves, TypeOK
<1>3. CASE OpenRefused(t)
  BY <1>3 DEF OpenRefused, GivesUp, Leaves, IsRefused
<1>4. CASE OpenError(t)
  <2>1. CASE attempt[t] + 1 >= MaxAttempts
    BY <1>4, <2>1 DEF OpenError, GivesUp, Leaves, Errs
  <2>2. CASE ~(attempt[t] + 1 >= MaxAttempts)
    <3>1. /\ pc[t] = "open" /\ attempt' = [attempt EXCEPT ![t] = @ + 1]
          /\ UNCHANGED <<pc, key, meta, src, errored, cancelled, exposed>> /\ AttachStep
      BY <1>4, <2>2 DEF OpenError
    <3>2. pc' = [pc EXCEPT ![t] = "open"]
      BY <3>1 DEF TypeOK
    <3>3. attempt' \in [Tasks -> Nat]
      BY <3>1 DEF TypeOK
    <3> QED BY <3>1, <3>2, <3>3 DEF ToOpen
  <2> QED BY <2>1, <2>2
<1>5. CASE StreamEnds(t)
  BY <1>5 DEF StreamEnds, Leaves, Ends
<1> QED BY <1>1, <1>2, <1>3, <1>4, <1>5 DEF AttachNext

(***************************************************************************)
(* Types                                                                   *)
(***************************************************************************)
LEMMA PodIsPod ==
  ASSUME NEW n \in Names, NEW u \in Uids, NEW s \in Shapes
  PROVE  /\ Pod(n, u, s) \in Pods /\ Pod(n, u, s) # None
         /\ Pod(n, u, s).name = n /\ Pod(n, u, s).uid = u /\ Pod(n, u, s).served = s.served
  BY Identities DEF Pods, Pod

\* A change of the cluster, as the three actions make it.
LEMMA ClusterCases ==
  ASSUME TypeOK, cluster \in Views, ClusterNext
  PROVE  \E n \in Names, e \in Events, d \in Pods \cup {None} :
           /\ Changed(n, d) /\ Reported(e.op, e.pod) /\ e.pod.name = n
           /\ d = IF e.op = "Apply" THEN e.pod ELSE None
           /\ \/ /\ e.op = "Apply" /\ cluster[n] = None /\ e.pod.uid \notin oldUids
                 /\ oldUids' = oldUids \cup {e.pod.uid}
              \/ /\ e.op = "Apply" /\ cluster[n] # None /\ e.pod.uid = cluster[n].uid
                 /\ cluster[n].served \subseteq e.pod.served /\ oldUids' = oldUids
              \/ /\ e.op = "Delete" /\ cluster[n] # None /\ e.pod = cluster[n]
                 /\ oldUids' = oldUids
<1>1. PICK n \in Names : \/ \E u \in Uids, s \in Shapes : CreatePod(n, u, s)
                         \/ \E s \in Shapes : UpdatePod(n, s)
                         \/ DeletePod(n)
  BY DEF ClusterNext
<1>2. CASE \E u \in Uids, s \in Shapes : CreatePod(n, u, s)
  <2>1. PICK u \in Uids, s \in Shapes : CreatePod(n, u, s)
    BY <1>2
  <2> DEFINE e == [op |-> "Apply", pod |-> Pod(n, u, s)]
  <2>2. e \in Events /\ e.op = "Apply" /\ e.pod = Pod(n, u, s)
    BY PodIsPod DEF Events
  <2>3. /\ cluster[n] = None /\ u \notin oldUids /\ oldUids' = oldUids \cup {u}
        /\ Changed(n, Pod(n, u, s)) /\ Reported("Apply", Pod(n, u, s))
    BY <2>1 DEF CreatePod
  <2> HIDE DEF e
  <2> QED BY <2>2, <2>3, PodIsPod
<1>3. CASE \E s \in Shapes : UpdatePod(n, s)
  <2>1. PICK s \in Shapes : UpdatePod(n, s)
    BY <1>3
  <2>u. cluster[n] # None /\ cluster[n].uid \in Uids
    BY <2>1, PodFields DEF UpdatePod, TypeOK
  <2> DEFINE u == cluster[n].uid
             e == [op |-> "Apply", pod |-> Pod(n, u, s)]
  <2>2. e \in Events /\ e.op = "Apply" /\ e.pod = Pod(n, u, s)
    BY <2>u, PodIsPod DEF Events
  <2>3. /\ cluster[n].served \subseteq s.served /\ oldUids' = oldUids
        /\ Changed(n, Pod(n, u, s)) /\ Reported("Apply", Pod(n, u, s))
    BY <2>1 DEF UpdatePod
  <2> HIDE DEF e
  <2> QED BY <2>u, <2>2, <2>3, PodIsPod
<1>4. CASE DeletePod(n)
  <2> DEFINE e == [op |-> "Delete", pod |-> cluster[n]]
  <2>1. /\ cluster[n] # None /\ oldUids' = oldUids
        /\ Changed(n, None) /\ Reported("Delete", cluster[n])
    BY <1>4 DEF DeletePod
  <2>2. cluster[n] \in Pods /\ cluster[n].name = n
    BY <2>1 DEF Views
  <2>3. e \in Events /\ e.op = "Delete" /\ e.pod = cluster[n]
    BY <2>2 DEF Events
  <2> HIDE DEF e
  <2> QED BY <2>1, <2>2, <2>3
<1> QED BY <1>1, <1>2, <1>3, <1>4

LEMMA CacheTypes ==
  ASSUME TypeOK, NEW pods \in SUBSET Pods, NEW keep
  PROVE  /\ Updated(cache, pods) \in [Locators -> Metas \cup {None}]
         /\ Pruned(cache, keep) \in [Locators -> Metas \cup {None}]
         /\ Pruned(Updated(cache, pods), keep) \in [Locators -> Metas \cup {None}]
         /\ \A p \in Pods : Removed(cache, p) \in [Locators -> Metas \cup {None}]
         /\ Learnt(pods) \in [Tasks -> SUBSET Metas]
<1>1. \A l \in Locators : (\E p \in pods : Locator(p) = l) =>
        MetaSnapshot(CHOOSE p \in pods : Locator(p) = l) \in Metas
  BY PodFields
<1>2. Updated(cache, pods) \in [Locators -> Metas \cup {None}]
  BY <1>1 DEF Updated, TypeOK
<1>3. Pruned(cache, keep) \in [Locators -> Metas \cup {None}]
      /\ Pruned(Updated(cache, pods), keep) \in [Locators -> Metas \cup {None}]
  BY <1>2 DEF Pruned, TypeOK
<1>4. \A p \in Pods : Removed(cache, p) \in [Locators -> Metas \cup {None}]
  BY DEF Removed, TypeOK
<1>5. Learnt(pods) \in [Tasks -> SUBSET Metas]
  <2>1. \A p \in pods : MetaSnapshot(p) \in Metas
    BY PodFields
  <2> QED BY <2>1 DEF Learnt, TypeOK
<1> QED BY <1>2, <1>3, <1>4, <1>5

\* The two ways an event is handled.
Admits(e) ==
  /\ e.op = "Apply" /\ AdmitPod(Policy, e.pod)
  /\ cache' = Updated(cache, {e.pod}) /\ known' = Learnt({e.pod})
  /\ job' = [op |-> "pod", pod |-> e.pod] /\ UNCHANGED exposed
Drops(e) == (e.op = "Delete" \/ ~AdmitPod(Policy, e.pod)) /\ OnDelete(e.pod)

LEMMA HandleCases ==
  ASSUME TypeOK, HandleEvent
  PROVE  /\ phase = "live" /\ job = None /\ events # <<>>
         /\ Head(events) \in Events /\ Head(events).pod \in Pods
         /\ Head(events) = events[1] /\ Len(events) \in Nat \ {0}
         /\ events' = Tail(events) /\ events' \in Seq(Events) /\ Len(events') = Len(events) - 1
         /\ \A i \in 1..Len(events') : events'[i] = events[i + 1]
         /\ Admits(Head(events)) \/ Drops(Head(events))
         /\ UNCHANGED <<env, phase, listing, pending, registry, attach>>
         /\ job' \in Jobs
<1>1. /\ phase = "live" /\ job = None /\ events # <<>> /\ events' = Tail(events)
      /\ UNCHANGED <<env, phase, listing, pending, registry, attach>>
      /\ IF Head(events).op = "Apply" THEN OnApply(Head(events).pod)
         ELSE OnDelete(Head(events).pod)
  BY DEF HandleEvent
<1>2. events \in Seq(Events)
  BY DEF TypeOK
<1>3. /\ Head(events) \in Events /\ Head(events) = events[1] /\ Len(events) \in Nat \ {0}
      /\ Tail(events) \in Seq(Events) /\ Len(Tail(events)) = Len(events) - 1
      /\ \A i \in 1..Len(Tail(events)) : Tail(events)[i] = events[i + 1]
  BY <1>1, <1>2, HeadTailProperties, EmptySeq, LenProperties
<1>4. Head(events).pod \in Pods /\ Head(events).op \in {"Apply", "Delete"}
  BY <1>3 DEF Events
<1>5. Admits(Head(events)) \/ Drops(Head(events))
  BY <1>1, <1>4 DEF Admits, Drops, OnApply
<1>6. job' \in Jobs
  BY <1>4, <1>5 DEF Admits, Drops, OnDelete, Jobs
<1> QED BY <1>1, <1>3, <1>4, <1>5, <1>6

LEMMA InitTypes == Init => TypeOK
<1> SUFFICES ASSUME Init PROVE TypeOK
  OBVIOUS
<1>1. cluster \in [Names -> Pods \cup {None}] /\ oldUids \subseteq Uids /\ changes \in Nat
  <2>1. cluster \in [Names -> Pods \cup {None}] /\ changes = 0
        /\ oldUids = {p.uid : p \in {cluster[n] : n \in Names} \ {None}}
    BY DEF Init
  <2>2. \A p \in {cluster[n] : n \in Names} \ {None} : p.uid \in Uids
    BY <2>1, PodFields
  <2> QED BY <2>1, <2>2
<1> QED BY <1>1 DEF Init, TypeOK, AttachPCs

\* What a snapshot is made of.
LEMMA SnapshotTypes ==
  ASSUME NEW pods \in SUBSET Pods
  PROVE  /\ CollectSnapshot(Policy, pods) \subseteq Keys
         /\ \A k \in CollectSnapshot(Policy, pods) :
              \E p \in pods : AdmitPod(Policy, p) /\ k \in AdmitStreams(Policy, p)
                              /\ LocatorOf(k) = Locator(p)
<1>1. \A k \in CollectSnapshot(Policy, pods) :
        \E p \in pods : AdmitPod(Policy, p) /\ k \in AdmitStreams(Policy, p)
  BY DEF CollectSnapshot
<1> QED BY <1>1, AdmittedKeys

LEMMA TypeStep ==
  ASSUME TypeOK, PastInv, RegInv, [Next]_vars
  PROVE  TypeOK'
<1>1. CASE UNCHANGED vars
  BY <1>1 DEF TypeOK
<1>2. CASE ClusterNext
  <2>0. cluster \in Views
    BY DEF PastInv
  <2>1. PICK n \in Names, e \in Events, d \in Pods \cup {None} :
           /\ Changed(n, d) /\ Reported(e.op, e.pod)
           /\ oldUids' \in {oldUids, oldUids \cup {e.pod.uid}}
    BY <1>2, <2>0, ClusterCases
  <2>2. events' \in Seq(Events)
    <3>1. [op |-> e.op, pod |-> e.pod] \in Events
      BY DEF Events
    <3>2. events' = events \/ events' = Append(events, [op |-> e.op, pod |-> e.pod])
      BY <2>1 DEF Reported
    <3>3. \A x \in Events : Append(events, x) \in Seq(Events)
      BY AppendProperties DEF TypeOK
    <3> QED BY <3>1, <3>2, <3>3 DEF TypeOK
  <2>3. oldUids' \subseteq Uids
    <3>1. e.pod.uid \in Uids
      BY PodFields DEF Events
    <3> QED BY <2>1, <3>1 DEF TypeOK
  <2>4. cluster' \in [Names -> Pods \cup {None}] /\ changes' \in Nat
    BY <2>1 DEF Changed, TypeOK
  <2>5. UNCHANGED <<phase, listing, handler, cache, registry, attach, history>>
    BY <2>1 DEF Changed
  <2> QED BY <2>2, <2>3, <2>4, <2>5 DEF TypeOK
<1>3. CASE OnInitBegin
  <2>1. /\ phase' = "begun" /\ events' = <<>> /\ listing' = {} /\ pending' = {}
        /\ exposed' = exposed \cup Waiting(Locators)
        /\ UNCHANGED <<env, job, registry, attach, known>>
    BY <1>3 DEF OnInitBegin
  <2>2. cache' \in [Locators -> Metas \cup {None}]
    BY <1>3 DEF OnInitBegin
  <2>3. events' \in Seq(Events)
    BY <2>1
  <2>4. exposed' \subseteq Tasks
    BY <2>1 DEF Waiting, TypeOK
  <2> QED BY <2>1, <2>2, <2>3, <2>4 DEF TypeOK
<1>4. CASE ListPods
  BY <1>4 DEF ListPods, TypeOK, PodsIn
<1>5. CASE \E p \in listing : OnInitApply(p)
  <2>1. PICK p \in listing : OnInitApply(p)
    BY <1>5
  <2>2. p \in Pods
    BY DEF TypeOK
  <2>3. Updated(cache, {p}) \in [Locators -> Metas \cup {None}]
        /\ Learnt({p}) \in [Tasks -> SUBSET Metas]
    BY <2>2, CacheTypes
  <2> QED BY <2>1, <2>2, <2>3 DEF OnInitApply, TypeOK
<1>6. CASE OnInitDone
  <2> DEFINE snap == CollectSnapshot(Policy, pending)
             keep == {LocatorOf(k) : k \in snap}
  <2>1. /\ phase' = "live" /\ pending' = {}
        /\ cache' = Pruned(Updated(cache, pending), keep)
        /\ job' = [op |-> "snapshot", keys |-> snap]
        /\ exposed' = exposed \cup Waiting(Locators \ keep)
        /\ UNCHANGED <<env, events, listing, registry, attach, known>>
    BY <1>6 DEF OnInitDone
  <2>2. pending \subseteq Pods
    BY DEF TypeOK
  <2>3. snap \subseteq Keys
    BY <2>2, SnapshotTypes
  <2>4. Pruned(Updated(cache, pending), keep) \in [Locators -> Metas \cup {None}]
    BY <2>2, CacheTypes
  <2>5. Waiting(Locators \ keep) \subseteq Tasks
    BY DEF Waiting
  <2> HIDE DEF snap, keep
  <2>6. job' \in Jobs
    BY <2>1, <2>3 DEF Jobs
  <2> QED BY <2>1, <2>4, <2>5, <2>6 DEF TypeOK
<1>7. CASE HandleEvent
  <2> DEFINE e == Head(events)
  <2>1. /\ e.pod \in Pods /\ events' \in Seq(Events) /\ job' \in Jobs
        /\ Admits(e) \/ Drops(e)
        /\ UNCHANGED <<env, phase, listing, pending, registry, attach>>
    BY <1>7, HandleCases
  <2> HIDE DEF e
  <2>2. cache' \in [Locators -> Metas \cup {None}] /\ known' \in [Tasks -> SUBSET Metas]
        /\ exposed' \subseteq Tasks
    <3>1. CASE Admits(e)
      <4>1. Updated(cache, {e.pod}) \in [Locators -> Metas \cup {None}]
            /\ Learnt({e.pod}) \in [Tasks -> SUBSET Metas]
        BY <2>1, CacheTypes
      <4> QED BY <3>1, <4>1 DEF Admits, TypeOK
    <3>2. CASE Drops(e)
      <4>1. Removed(cache, e.pod) \in [Locators -> Metas \cup {None}]
        BY <2>1, CacheTypes
      <4> QED BY <3>2, <4>1 DEF Drops, OnDelete, Waiting, TypeOK
    <3> QED BY <2>1, <3>1, <3>2
  <2> QED BY <2>1, <2>2 DEF TypeOK
<1>8. CASE RegistryReconciles
  <2>1. ToAdd \subseteq Keys
    BY <1>8, RegistryEffects, JobSets
  <2>2. active' \subseteq Keys /\ cancelled' \subseteq Tasks /\ errored' \subseteq Tasks
    BY <1>8, <2>1, RegistryEffects DEF TypeOK
  <2> QED BY <1>8, <2>2, RegistryEffects DEF TypeOK
<1>9. ASSUME NEW t \in Tasks, AttachNext(t) PROVE TypeOK'
  <2>1. CASE Lookup(t)
    <3>1. CASE key[t] \in Keys
      <4>1. LocatorOf(key[t]) \in Locators
        BY <3>1, KeyFields
      <4> QED BY <2>1, <4>1 DEF Lookup, AttachStep, TypeOK, AttachPCs
    <3>2. key[t] \in Keys
      BY <2>1 DEF Lookup, RegInv, TypeOK
    <3> QED BY <3>1, <3>2
  <2>2. CASE OpenOk(t)
    <3>1. key[t] \in Keys
      BY <2>2 DEF OpenOk, RegInv, TypeOK
    <3>2. cluster[key[t].pod] # None /\ key[t].pod \in Names
      BY <2>2, <3>1, KeyFields DEF OpenOk, Served
    <3>3. cluster[key[t].pod].uid \in Uids
      BY <3>2, PodFields DEF TypeOK
    <3> QED BY <2>2, <3>3 DEF OpenOk, AttachStep, TypeOK, AttachPCs
  <2>3. CASE ToOpen(t)
    BY <2>3 DEF ToOpen, AttachStep, TypeOK, AttachPCs
  <2>4. CASE Leaves(t)
    BY <2>4 DEF Leaves, Returns, Over, TypeOK, AttachPCs
  <2>5. CASE Errs(t) \/ IsRefused(t) \/ Ends(t)
    <3>1. Over(t) /\ UNCHANGED <<key, cancelled>> /\ errored' \in {errored, errored \cup {t}}
          /\ (pc' = [pc EXCEPT ![t] = "failed"] \/ pc' = [pc EXCEPT ![t] = "ended"])
      BY <2>5 DEF Errs, IsRefused, Ends, Finishes
    <3>2. pc' \in [Tasks -> AttachPCs]
      BY <3>1 DEF TypeOK, AttachPCs
    <3> QED BY <3>1, <3>2 DEF Over, TypeOK
  <2> QED BY <1>9, <2>1, <2>2, <2>3, <2>4, <2>5, AttachCases
<1> QED BY <1>1, <1>2, <1>3, <1>4, <1>5, <1>6, <1>7, <1>8, <1>9 DEF Next, WatchNext

(***************************************************************************)
(* Phases, and the registry                                                *)
(***************************************************************************)
\* An attach task does not touch the watch task's state, nor the registry's keys.
LEMMA AttachFrame ==
  ASSUME TypeOK, NEW t \in Tasks, AttachNext(t)
  PROVE  UNCHANGED <<env, watcher, handler, cache, active, token>>
  BY AttachCases DEF Lookup, OpenOk, ToOpen, AttachStep, Leaves, Returns, Errs, IsRefused, Ends,
     Finishes, Over

LEMMA PhaseStep ==
  ASSUME TypeOK, RegInv, PhaseInv, PastInv, [Next]_vars
  PROVE  PhaseInv'
<1>1. CASE UNCHANGED vars
  BY <1>1 DEF PhaseInv
<1>2. CASE ClusterNext
  <2>0. cluster \in Views
    BY DEF PastInv
  <2>1. PICK n \in Names, e \in Events, d \in Pods \cup {None} :
           Changed(n, d) /\ Reported(e.op, e.pod)
    BY <1>2, <2>0, ClusterCases
  <2> QED BY <2>1 DEF Changed, Reported, PhaseInv
<1>3. CASE OnInitBegin
  BY <1>3 DEF OnInitBegin, PhaseInv
<1>4. CASE ListPods
  BY <1>4 DEF ListPods, PhaseInv
<1>5. CASE \E p \in listing : OnInitApply(p)
  BY <1>5 DEF OnInitApply, PhaseInv
<1>6. CASE OnInitDone
  BY <1>6 DEF OnInitDone, PhaseInv
<1>7. CASE HandleEvent
  BY <1>7, HandleCases DEF PhaseInv
<1>8. CASE RegistryReconciles
  BY <1>8, RegistryEffects DEF PhaseInv
<1>9. ASSUME NEW t \in Tasks, AttachNext(t) PROVE PhaseInv'
  BY <1>9, AttachFrame DEF PhaseInv
<1> QED BY <1>1, <1>2, <1>3, <1>4, <1>5, <1>6, <1>7, <1>8, <1>9 DEF Next, WatchNext

\* Dropping and adding the keys of one handler leaves one live task per active key, and no
\* uncancelled task without an active key.
LEMMA RegReconciles ==
  ASSUME TypeOK, RegInv, RegistryReconciles
  PROVE  RegInv'
<1>1. /\ ToDrop \subseteq active /\ ToAdd \subseteq Keys /\ ToAdd \cap active = {}
      /\ active \subseteq Keys
  BY RegistryEffects, JobSets DEF TypeOK
<1>2. /\ active' = (active \ ToDrop) \cup ToAdd
      /\ cancelled' = cancelled \cup (Gone \ GoneFinished)
  BY RegistryEffects
<1>3. PICK f \in [ToAdd -> Tasks] : Spawns(f)
  BY RegistryEffects
<1>4. /\ \A k \in ToDrop : token[k] \in Gone
      /\ \A t \in Gone : t \in Tasks /\ t \notin cancelled /\ key[t] # None
                         /\ key[t] \in ToDrop /\ token[key[t]] = t
      /\ \A t \in Tasks : t \in GoneFinished <=> t \in Gone /\ pc[t] \in Finished
  <2>1. None \notin Keys
    BY Identities
  <2> QED BY <1>1, <2>1 DEF RegInv, Gone, GoneFinished
<1>5. ASSUME NEW k \in ToAdd
      PROVE  /\ f[k] \in Tasks /\ f[k] \notin cancelled' /\ token'[k] = f[k]
             /\ key'[f[k]] = k /\ pc'[f[k]] = "lookup"
  <2>1. f[k] \in Tasks /\ f[k] \notin cancelled /\ (pc[f[k]] = "free" \/ f[k] \in GoneFinished)
        /\ token'[k] = f[k] /\ key'[f[k]] = k /\ pc'[f[k]] = "lookup"
    BY <1>3 DEF Spawns
  <2>2. f[k] \notin Gone \ GoneFinished
    BY <1>4, <2>1 DEF RegInv
  <2> QED BY <1>2, <2>1, <2>2
<1>6. ASSUME NEW t \in Tasks, \A k \in ToAdd : f[k] # t
      PROVE  /\ pc'[t] = IF t \in GoneFinished THEN "free" ELSE pc[t]
             /\ key'[t] = IF t \in GoneFinished THEN None ELSE key[t]
  BY <1>3, <1>6 DEF Spawns
<1>7. \A k \in active' : token'[k] \in Tasks /\ key'[token'[k]] = k /\ token'[k] \notin cancelled'
  <2> TAKE k \in active'
  <2>1. CASE k \in ToAdd
    BY <1>5, <2>1
  <2>2. CASE k \notin ToAdd
    <3>1. k \in active /\ k \notin ToDrop /\ k \in Keys
      BY <1>1, <1>2, <2>2
    <3>2. token'[k] = token[k] /\ token[k] \in Tasks /\ key[token[k]] = k
          /\ token[k] \notin cancelled /\ k # None
      BY <1>3, <2>2, <3>1, Identities DEF Spawns, RegInv
    <3>3. token[k] \notin Gone
      BY <1>4, <3>1, <3>2
    <3>4. \A l \in ToAdd : f[l] # token[k]
      <4>1. pc[token[k]] # "free"
        BY <3>2 DEF RegInv
      <4> QED BY <1>3, <1>4, <3>2, <3>3, <4>1 DEF Spawns
    <3>5. key'[token[k]] = k
      BY <1>4, <1>6, <3>2, <3>3, <3>4
    <3> QED BY <1>2, <3>2, <3>3, <3>5
  <2> QED BY <2>1, <2>2
<1>8. ASSUME NEW t \in Tasks
      PROVE  /\ key'[t] # None /\ t \notin cancelled' => key'[t] \in active' /\ token'[key'[t]] = t
             /\ pc'[t] = "free" <=> key'[t] = None
             /\ t \in cancelled' => pc'[t] # "free" /\ pc'[t] \notin Finished
  <2>1. CASE \E k \in ToAdd : f[k] = t
    <3>1. PICK k \in ToAdd : f[k] = t
      BY <2>1
    <3>2. k # None /\ k \in active'
      BY <1>1, <1>2, Identities
    <3> QED BY <1>5, <3>1, <3>2
  <2>2. CASE \A k \in ToAdd : f[k] # t
    <3>1. CASE t \in GoneFinished
      <4>1. t \notin cancelled'
        BY <1>2, <1>4, <3>1
      <4> QED BY <1>6, <2>2, <3>1, <4>1
    <3>2. CASE t \notin GoneFinished
      <4>1. pc'[t] = pc[t] /\ key'[t] = key[t]
        BY <1>6, <2>2, <3>2
      <4>2. t \in cancelled' => pc[t] # "free" /\ pc[t] \notin Finished
        BY <1>2, <1>4, <3>2 DEF RegInv
      <4>3. ASSUME key[t] # None, t \notin cancelled'
            PROVE  key[t] \in active' /\ token'[key[t]] = t
        <5>1. key[t] \in active /\ token[key[t]] = t
          BY <1>2, <4>3 DEF RegInv
        <5>2. key[t] \notin ToDrop /\ key[t] \notin ToAdd /\ key[t] \in Keys
          BY <1>1, <1>2, <1>4, <3>2, <4>3, <5>1
        <5> QED BY <1>2, <1>3, <5>1, <5>2 DEF Spawns
      <4> QED BY <4>1, <4>2, <4>3 DEF RegInv
    <3> QED BY <3>1, <3>2
  <2> QED BY <2>1, <2>2
<1> QED BY <1>7, <1>8 DEF RegInv

LEMMA RegStep ==
  ASSUME TypeOK, RegInv, PastInv, [Next]_vars
  PROVE  RegInv'
<1>1. CASE UNCHANGED <<registry, pc, key>>
  BY <1>1 DEF RegInv
<1>2. CASE ClusterNext
  <2>1. cluster \in Views
    BY DEF PastInv
  <2>2. \E n \in Names, d \in Pods \cup {None} : Changed(n, d)
    BY <1>2, <2>1, ClusterCases
  <2> QED BY <1>1, <2>2 DEF Changed
<1>3. CASE OnInitBegin \/ ListPods \/ (\E p \in listing : OnInitApply(p)) \/ OnInitDone
           \/ HandleEvent
  <2>1. UNCHANGED <<registry, pc, key>>
    BY <1>3 DEF OnInitBegin, ListPods, OnInitApply, OnInitDone, HandleEvent
  <2> QED BY <1>1, <2>1
<1>4. CASE RegistryReconciles
  BY <1>4, RegReconciles
<1>5. ASSUME NEW t \in Tasks, AttachNext(t) PROVE RegInv'
  <2>1. UNCHANGED <<active, token>>
    BY <1>5, AttachFrame
  <2>2. CASE Lookup(t) \/ OpenOk(t) \/ ToOpen(t)
    <3>1. /\ UNCHANGED <<key, cancelled>> /\ pc[t] \in {"lookup", "top", "open"}
          /\ \/ pc' = [pc EXCEPT ![t] = "top"] \/ pc' = [pc EXCEPT ![t] = "streaming"]
             \/ pc' = [pc EXCEPT ![t] = "open"]
      BY <2>2 DEF Lookup, OpenOk, ToOpen
    <3>2. pc'[t] \in {"top", "open", "streaming"} /\ \A u \in Tasks \ {t} : pc'[u] = pc[u]
      BY <3>1 DEF TypeOK
    <3> QED BY <2>1, <3>1, <3>2 DEF RegInv, Finished
  <2>3. CASE pc[t] \in {"top", "open", "streaming"} /\ Leaves(t)
    <3>1. /\ pc'[t] = "free" /\ key'[t] = None /\ cancelled' = cancelled \ {t} /\ t \in cancelled
          /\ \A u \in Tasks \ {t} : pc'[u] = pc[u] /\ key'[u] = key[u]
      BY <2>3 DEF Leaves, Returns, TypeOK
    <3>2. \A k \in active : token[k] # t
      BY <3>1 DEF RegInv
    <3> QED BY <2>1, <3>1, <3>2 DEF RegInv
  <2>4. CASE /\ pc[t] \in {"top", "open", "streaming"}
             /\ Errs(t) \/ IsRefused(t) \/ Ends(t)
    <3>1. /\ t \notin cancelled /\ UNCHANGED <<key, cancelled>>
          /\ (pc' = [pc EXCEPT ![t] = "failed"] \/ pc' = [pc EXCEPT ![t] = "ended"])
      BY <2>4 DEF Errs, IsRefused, Ends, Finishes
    <3>2. pc'[t] \in {"failed", "ended"} /\ \A u \in Tasks \ {t} : pc'[u] = pc[u]
      BY <3>1 DEF TypeOK
    <3> QED BY <2>1, <2>4, <3>1, <3>2 DEF RegInv
  <2> QED BY <1>5, <2>2, <2>3, <2>4, AttachCases
<1> QED BY <1>1, <1>2, <1>3, <1>4, <1>5 DEF Next, WatchNext

(***************************************************************************)
(* What anybody knows of the cluster is, or was, true of it                *)
(***************************************************************************)
\* A UID is not given twice and a started container keeps its log: what was true of a pod
\* stays past, and a pod that is no more stays so.
LEMMA PastStable ==
  ASSUME TypeOK, PastInv, ClusterNext
  PROVE  /\ cluster' \in Views /\ \A n \in Names : cluster'[n] # None => cluster'[n].uid \in oldUids'
         /\ \A p : Past(p, cluster, oldUids) => Past(p, cluster', oldUids')
         /\ \A k : PastKey(k, cluster, oldUids) => PastKey(k, cluster', oldUids')
         /\ \A k \in Keys : k.uid \in oldUids /\ ~Lives(k, cluster) => ~Lives(k, cluster')
         /\ UNCHANGED <<phase, listing, handler, cache, registry, attach, history>>
         /\ \E e \in Events :
              /\ phase \in {"start", "begun"} => events' = events
              /\ phase \notin {"start", "begun"} => events' = Append(events, e)
              /\ Reports(cluster, e, cluster') /\ Past(e.pod, cluster', oldUids')
<1>1. cluster \in Views /\ \A n \in Names : cluster[n] # None => cluster[n].uid \in oldUids
  BY DEF PastInv
<1>2. PICK n \in Names, e \in Events, d \in Pods \cup {None} :
           /\ Changed(n, d) /\ Reported(e.op, e.pod) /\ e.pod.name = n
           /\ d = IF e.op = "Apply" THEN e.pod ELSE None
           /\ \/ /\ e.op = "Apply" /\ cluster[n] = None /\ e.pod.uid \notin oldUids
                 /\ oldUids' = oldUids \cup {e.pod.uid}
              \/ /\ e.op = "Apply" /\ cluster[n] # None /\ e.pod.uid = cluster[n].uid
                 /\ cluster[n].served \subseteq e.pod.served /\ oldUids' = oldUids
              \/ /\ e.op = "Delete" /\ cluster[n] # None /\ e.pod = cluster[n]
                 /\ oldUids' = oldUids
  BY <1>1, ClusterCases
<1>3. e.pod \in Pods /\ e.pod # None /\ e.pod.uid \in Uids /\ e = [op |-> e.op, pod |-> e.pod]
  BY PodFields, Identities DEF Events
<1>4. cluster \in [Names -> Pods \cup {None}] /\ cluster' = [cluster EXCEPT ![n] = d]
  BY <1>2 DEF Changed, TypeOK
<1>5. cluster'[n] = d /\ \A m \in Names \ {n} : cluster'[m] = cluster[m]
  BY <1>4
<1>6. UNCHANGED <<phase, listing, handler, cache, registry, attach, history>>
  BY <1>2 DEF Changed
<1>7. oldUids \subseteq oldUids' /\ (d # None => d.uid \in oldUids')
  BY <1>1, <1>2
<1>8. cluster' \in Views /\ \A m \in Names : cluster'[m] # None => cluster'[m].uid \in oldUids'
  <2>1. cluster' \in [Names -> Pods \cup {None}]
    BY <1>4
  <2>2. d # None => d.name = n
    BY <1>2
  <2>3. \A m \in Names : cluster'[m] # None => cluster'[m].name = m
    BY <1>1, <1>5, <2>2 DEF Views
  <2>4. \A m \in Names : cluster'[m] # None => cluster'[m].uid \in oldUids'
    BY <1>1, <1>5, <1>7
  <2> QED BY <2>1, <2>3, <2>4 DEF Views
<1>9. ASSUME NEW u \in oldUids, cluster'[n] # None, cluster'[n].uid = u
      PROVE  cluster[n] # None /\ cluster[n].uid = u /\ cluster[n].served \subseteq cluster'[n].served
  BY <1>2, <1>5, <1>9
<1>10. ASSUME NEW p, Past(p, cluster, oldUids) PROVE Past(p, cluster', oldUids')
  <2>1. p \in Pods /\ p.uid \in oldUids /\ p.name \in Names
    BY <1>10, PodFields DEF Past
  <2>2. CASE p.name = n
    BY <1>7, <1>9, <1>10, <2>1, <2>2 DEF Past
  <2>3. CASE p.name # n
    BY <1>5, <1>7, <1>10, <2>1, <2>3 DEF Past
  <2> QED BY <2>2, <2>3
<1>11. ASSUME NEW k, PastKey(k, cluster, oldUids) PROVE PastKey(k, cluster', oldUids')
  <2>1. k \in Keys /\ k.uid \in oldUids /\ k.pod \in Names
    BY <1>11, KeyFields DEF PastKey
  <2>2. CASE k.pod = n
    BY <1>7, <1>9, <1>11, <2>1, <2>2 DEF PastKey, Lives
  <2>3. CASE k.pod # n
    BY <1>5, <1>7, <1>11, <2>1, <2>3 DEF PastKey, Lives
  <2> QED BY <2>2, <2>3
<1>12. ASSUME NEW k \in Keys, k.uid \in oldUids, ~Lives(k, cluster) PROVE ~Lives(k, cluster')
  <2>1. k.pod \in Names
    BY KeyFields
  <2> QED BY <1>5, <1>9, <1>12, <2>1 DEF Lives
<1>13. Past(e.pod, cluster', oldUids')
  <2>1. e.pod.uid \in oldUids'
    BY <1>1, <1>2
  <2>2. cluster'[n] # None => e.pod.served \subseteq cluster'[n].served
    BY <1>2, <1>5
  <2> QED BY <1>2, <1>3, <2>1, <2>2 DEF Past
<1>14. Reports(cluster, e, cluster')
  BY <1>2, <1>4 DEF Reports
<1>15. /\ phase \in {"start", "begun"} => events' = events
       /\ phase \notin {"start", "begun"} => events' = Append(events, e)
  BY <1>2, <1>3 DEF Reported
<1> QED BY <1>6, <1>8, <1>10, <1>11, <1>12, <1>13, <1>14, <1>15

\* The streams admitted of a pod that is, or was, there.
LEMMA PastAdmitted ==
  ASSUME NEW c, NEW uids, NEW p, Past(p, c, uids), NEW k \in AdmitStreams(Policy, p)
  PROVE  PastKey(k, c, uids)
<1>1. p \in Pods /\ k \in Keys /\ k.pod = p.name /\ k.uid = p.uid
      /\ (StartedOnly => k.container \in p.served)
  BY AdmittedKeys DEF Past
<1> QED BY <1>1 DEF Past, PastKey, Lives

LEMMA PastStep ==
  ASSUME TypeOK, PhaseInv, RegInv, PastInv, [Next]_vars
  PROVE  PastInv'
<1>1. /\ cluster \in Views /\ \A n \in Names : cluster[n] # None => cluster[n].uid \in oldUids
      /\ \A p \in listing \cup pending : Past(p, cluster, oldUids)
      /\ \A i \in 1..Len(events) : Past(events[i].pod, cluster, oldUids)
      /\ job # None => IF job.op = "snapshot" THEN \A k \in job.keys : PastKey(k, cluster, oldUids)
                       ELSE Past(job.pod, cluster, oldUids)
      /\ \A t \in Tasks : key[t] # None => PastKey(key[t], cluster, oldUids)
  BY DEF PastInv
<1>2. CASE UNCHANGED vars
  BY <1>2 DEF PastInv
<1>3. CASE ClusterNext
  <2>1. PICK e \in Events : /\ phase \in {"start", "begun"} => events' = events
                            /\ phase \notin {"start", "begun"} => events' = Append(events, e)
                            /\ Past(e.pod, cluster', oldUids')
    BY <1>3, PastStable
  <2>2. \A i \in 1..Len(events') : Past(events'[i].pod, cluster', oldUids')
    <3>1. \A i \in 1..Len(events) : Past(events[i].pod, cluster', oldUids')
      BY <1>1, <1>3, PastStable
    <3>2. CASE events' = events
      BY <3>1, <3>2
    <3>3. CASE events' = Append(events, e)
      <4>1. Len(events') = Len(events) + 1 /\ events'[Len(events) + 1] = e
            /\ \A i \in 1..Len(events) : events'[i] = events[i]
        BY <3>3, AppendProperties DEF TypeOK
      <4>2. Len(events) \in Nat
        BY LenProperties DEF TypeOK
      <4>3. \A i \in 1..Len(events') : i \in 1..Len(events) \/ i = Len(events) + 1
        BY <4>1, <4>2
      <4> QED BY <2>1, <3>1, <4>1, <4>3
    <3> QED BY <2>1, <3>2, <3>3
  <2>3. \A p \in listing \cup pending : Past(p, cluster', oldUids')
    BY <1>1, <1>3, PastStable
  <2>4. job # None => IF job.op = "snapshot" THEN \A k \in job.keys : PastKey(k, cluster', oldUids')
                      ELSE Past(job.pod, cluster', oldUids')
    BY <1>1, <1>3, PastStable
  <2>5. \A t \in Tasks : key[t] # None => PastKey(key[t], cluster', oldUids')
    BY <1>1, <1>3, PastStable
  <2>6. UNCHANGED <<listing, pending, job, key>>
    BY <1>3, PastStable
  <2>7. cluster' \in Views /\ \A n \in Names : cluster'[n] # None => cluster'[n].uid \in oldUids'
    BY <1>3, PastStable
  <2> QED BY <2>2, <2>3, <2>4, <2>5, <2>6, <2>7 DEF PastInv, Views
<1>4. CASE OnInitBegin
  <2>1. events' = <<>> /\ listing' = {} /\ pending' = {} /\ UNCHANGED <<env, job, key>>
    BY <1>4 DEF OnInitBegin
  <2>2. \A i \in 1..Len(events') : FALSE
    BY <2>1
  <2> QED BY <1>1, <2>1, <2>2 DEF PastInv, Views
<1>5. CASE ListPods
  <2>1. listing' = PodsIn(cluster) /\ UNCHANGED <<env, events, pending, job, key>>
    BY <1>5 DEF ListPods
  <2>2. \A p \in PodsIn(cluster) : Past(p, cluster, oldUids)
    <3> TAKE p \in PodsIn(cluster)
    <3>1. p \in Pods /\ p.name \in Names /\ cluster[p.name] = p /\ p # None
      BY <1>1, SnapshotKeys
    <3> QED BY <1>1, <3>1 DEF Past
  <2> QED BY <1>1, <2>1, <2>2 DEF PastInv, Views
<1>6. CASE \E p \in listing : OnInitApply(p)
  <2>1. PICK p \in listing : OnInitApply(p)
    BY <1>6
  <2>2. listing' \cup pending' = listing \cup pending /\ UNCHANGED <<env, events, job, key>>
    BY <2>1 DEF OnInitApply
  <2> QED BY <1>1, <2>2 DEF PastInv, Views
<1>7. CASE OnInitDone
  <2> DEFINE snap == CollectSnapshot(Policy, pending)
  <2>1. /\ listing' = listing /\ pending' = {} /\ job' = [op |-> "snapshot", keys |-> snap]
        /\ UNCHANGED <<env, events, key>>
    BY <1>7 DEF OnInitDone
  <2>2. \A k \in snap : PastKey(k, cluster, oldUids)
    <3> TAKE k \in snap
    <3>1. PICK p \in pending : k \in AdmitStreams(Policy, p)
      BY DEF CollectSnapshot
    <3> QED BY <1>1, <3>1, PastAdmitted
  <2> HIDE DEF snap
  <2>3. job'.op = "snapshot" /\ job'.keys = snap
    BY <2>1
  <2> QED BY <1>1, <2>1, <2>2, <2>3 DEF PastInv, Views
<1>8. CASE HandleEvent
  <2> DEFINE e == Head(events)
  <2>1. /\ e = events[1] /\ Len(events) \in Nat \ {0} /\ Len(events') = Len(events) - 1
        /\ \A i \in 1..Len(events') : events'[i] = events[i + 1]
        /\ Admits(e) \/ Drops(e)
        /\ UNCHANGED <<env, listing, pending, key>>
    BY <1>8, HandleCases
  <2> HIDE DEF e
  <2>2. \A i \in 1..Len(events') : Past(events'[i].pod, cluster, oldUids)
    <3> TAKE i \in 1..Len(events')
    <3>1. i + 1 \in 1..Len(events) /\ events'[i] = events[i + 1]
      BY <2>1
    <3> QED BY <1>1, <3>1
  <2>3. job'.op # "snapshot" /\ job'.pod = e.pod
    BY <2>1 DEF Admits, Drops, OnDelete
  <2>4. Past(e.pod, cluster, oldUids)
    <3>1. 1 \in 1..Len(events)
      BY <2>1
    <3> QED BY <1>1, <2>1, <3>1
  <2> QED BY <1>1, <2>1, <2>2, <2>3, <2>4 DEF PastInv, Views
<1>9. CASE RegistryReconciles
  <2>1. job # None /\ job' = None /\ UNCHANGED <<env, watcher, pending>>
    BY <1>9, RegistryEffects
  <2>2. PICK f \in [ToAdd -> Tasks] : Spawns(f)
    BY <1>9, RegistryEffects
  <2>3. \A k \in ToAdd : PastKey(k, cluster, oldUids)
    <3>1. job.op \in {"drop", "pod", "snapshot"}
      BY <2>1, JobSets
    <3>2. CASE job.op = "drop"
      BY <3>2 DEF ToAdd
    <3>3. CASE job.op = "pod"
      BY <1>1, <2>1, <3>3, PastAdmitted DEF ToAdd
    <3>4. CASE job.op = "snapshot"
      BY <1>1, <2>1, <3>4 DEF ToAdd
    <3> QED BY <3>1, <3>2, <3>3, <3>4
  <2>4. \A t \in Tasks : key'[t] # None => PastKey(key'[t], cluster, oldUids)
    <3> TAKE t \in Tasks
    <3>1. CASE \E k \in ToAdd : f[k] = t
      BY <2>2, <2>3, <3>1 DEF Spawns
    <3>2. CASE \A k \in ToAdd : f[k] # t
      <4>1. key'[t] = None \/ key'[t] = key[t]
        BY <2>2, <3>2 DEF Spawns
      <4> QED BY <1>1, <4>1
    <3> QED BY <3>1, <3>2
  <2> QED BY <1>1, <2>1, <2>4 DEF PastInv, Views
<1>10. ASSUME NEW t \in Tasks, AttachNext(t) PROVE PastInv'
  <2>1. UNCHANGED <<env, watcher, handler>>
    BY <1>10, AttachFrame
  <2>2. \A u \in Tasks : key'[u] = None \/ key'[u] = key[u]
    <3>1. key' = key \/ key' = [key EXCEPT ![t] = None]
      BY <1>10, AttachCases DEF Lookup, OpenOk, ToOpen, Leaves, Returns, Errs, IsRefused, Ends,
         Finishes
    <3> QED BY <3>1 DEF TypeOK
  <2> QED BY <1>1, <2>1, <2>2 DEF PastInv, Views
<1> QED BY <1>2, <1>3, <1>4, <1>5, <1>6, <1>7, <1>8, <1>9, <1>10 DEF Next, WatchNext

(***************************************************************************)
(* Tasks that read another pod's log, or were refused one                  *)
(***************************************************************************)
LEMMA GoneStep ==
  ASSUME TypeOK, RegInv, PastInv, GoneInv, [Next]_vars
  PROVE  GoneInv'
<1>1. \A t \in Tasks : Misled(t) \/ Refused(t) => ~Lives(key[t], cluster)
  BY DEF GoneInv
<1>2. CASE UNCHANGED <<cluster, pc, key, src, errored>>
  <2>1. \A t \in Tasks : (Misled(t)' => Misled(t)) /\ (Refused(t)' => Refused(t))
    BY <1>2 DEF Misled, Refused
  <2> QED BY <1>1, <1>2, <2>1 DEF GoneInv, Lives
<1>3. CASE ClusterNext
  <2>1. UNCHANGED <<pc, key, src, errored>>
    BY <1>3, PastStable
  <2>2. \A t \in Tasks : Misled(t) \/ Refused(t) => key[t] \in Keys /\ key[t].uid \in oldUids
    <3> TAKE t \in Tasks
    <3>1. pc[t] # "free" => key[t] # None
      BY DEF RegInv
    <3> QED BY <3>1 DEF Misled, Refused, PastInv, PastKey
  <2>3. \A t \in Tasks : Misled(t) \/ Refused(t) => ~Lives(key[t], cluster')
    BY <1>1, <1>3, <2>2, PastStable
  <2> QED BY <2>1, <2>3 DEF GoneInv, Misled, Refused, Lives
<1>4. CASE OnInitBegin \/ ListPods \/ (\E p \in listing : OnInitApply(p)) \/ OnInitDone
           \/ HandleEvent
  <2>1. UNCHANGED <<cluster, pc, key, src, errored>>
    BY <1>4 DEF OnInitBegin, ListPods, OnInitApply, OnInitDone, HandleEvent
  <2> QED BY <1>2, <2>1
<1>5. CASE RegistryReconciles
  <2>1. UNCHANGED <<cluster, src>> /\ errored' = errored \ GoneFinished
    BY <1>5, RegistryEffects
  <2>2. PICK f \in [ToAdd -> Tasks] : Spawns(f)
    BY <1>5, RegistryEffects
  <2>3. ASSUME NEW t \in Tasks, pc'[t] \in {"streaming", "failed"}
        PROVE  /\ pc'[t] = pc[t] /\ key'[t] = key[t] /\ t \in errored => t \in errored'
    BY <2>1, <2>2, <2>3 DEF Spawns
  <2>4. \A t \in Tasks : (Misled(t)' => Misled(t)) /\ (Refused(t)' => Refused(t))
    BY <2>1, <2>2, <2>3 DEF Misled, Refused, Spawns
  <2>5. \A t \in Tasks : (Misled(t) \/ Refused(t))' => key'[t] = key[t]
    BY <2>2 DEF Misled, Refused, Spawns
  <2> QED BY <1>1, <2>1, <2>4, <2>5 DEF GoneInv, Lives
<1>6. ASSUME NEW t \in Tasks, AttachNext(t) PROVE GoneInv'
  <2>0. cluster' = cluster
    BY <1>6, AttachFrame
  <2>1. ASSUME NEW u \in Tasks, u # t
        PROVE  pc'[u] = pc[u] /\ key'[u] = key[u] /\ src'[u] = src[u] /\ (u \in errored <=> u \in errored')
    BY <1>6, <2>1, AttachCases DEF Lookup, OpenOk, ToOpen, Leaves, Returns, Errs, IsRefused, Ends,
       Finishes, Over, TypeOK
  <2>2. ASSUME NEW u \in Tasks, u # t
        PROVE  (Misled(u) \/ Refused(u))' => ~Lives(key[u], cluster)' 
    BY <1>1, <2>0, <2>1, <2>2 DEF Misled, Refused, Lives
  <2> SUFFICES (Misled(t) \/ Refused(t))' => ~Lives(key[t], cluster)'
    BY <2>2 DEF GoneInv
  <2>3. CASE Lookup(t) \/ ToOpen(t) \/ Leaves(t) \/ Ends(t)
    <3>1. pc'[t] \in {"top", "open", "free", "ended"}
      BY <2>3 DEF Lookup, ToOpen, Leaves, Returns, Ends, Finishes, TypeOK
    <3> QED BY <3>1 DEF Misled, Refused
  <2>4. CASE OpenOk(t)
    <3>1. pc'[t] = "streaming" /\ key'[t] = key[t] /\ src'[t] = cluster[key[t].pod].uid
      BY <2>4 DEF OpenOk, TypeOK
    <3> QED BY <2>0, <3>1 DEF Misled, Refused, Lives
  <2>5. CASE Errs(t)
    <3>1. pc'[t] = "failed" /\ t \in errored'
      BY <2>5 DEF Errs, Finishes, TypeOK
    <3> QED BY <3>1 DEF Misled, Refused
  <2>6. CASE IsRefused(t)
    <3>1. pc'[t] = "failed" /\ key'[t] = key[t] /\ ~Served(key[t]) /\ pc[t] = "open"
      BY <2>6 DEF IsRefused, Finishes, TypeOK
    <3>2. PastKey(key[t], cluster, oldUids)
      BY <3>1 DEF RegInv, PastInv
    <3>3. StartedOnly => ~Lives(key[t], cluster)
      BY <3>1, <3>2 DEF PastKey, Lives, Served
    <3> QED BY <2>0, <3>1, <3>3 DEF Misled, Refused, Lives
  <2> QED BY <1>6, <2>3, <2>4, <2>5, <2>6, AttachCases
<1>7. CASE UNCHANGED vars
  BY <1>2, <1>7
<1> QED BY <1>3, <1>4, <1>5, <1>6, <1>7 DEF Next, WatchNext

(***************************************************************************)
(* Views and events                                                        *)
(***************************************************************************)
\* A further change extends the events that lead to the cluster, ...
LEMMA LeadsOn ==
  ASSUME NEW v, NEW es \in Seq(Events), NEW c, NEW d \in Views, NEW e \in Events,
         Leads(v, es, c), Reports(c, e, d)
  PROVE  \E w \in [Nat -> Views] : Leads(w, Append(es, e), d) /\ w[0] = v[0]
<1> DEFINE w == [i \in Nat |-> IF i = Len(es) + 1 THEN d ELSE v[i]]
           fs == Append(es, e)
<1>1. Len(es) \in Nat
  BY LenProperties
<1>2. v \in [Nat -> Views] /\ v[Len(es)] = c
      /\ \A i \in 1..Len(es) : Reports(v[i - 1], es[i], v[i])
  BY DEF Leads
<1>3. w \in [Nat -> Views]
  BY <1>2
<1>4. Len(fs) = Len(es) + 1 /\ fs[Len(es) + 1] = e /\ \A i \in 1..Len(es) : fs[i] = es[i]
  BY AppendProperties
<1>5. w[Len(es) + 1] = d /\ w[Len(es)] = c /\ w[0] = v[0]
      /\ \A i \in 1..Len(es) : w[i] = v[i] /\ w[i - 1] = v[i - 1]
  BY <1>1, <1>2
<1> HIDE DEF w, fs
<1>6. ASSUME NEW i \in 1..Len(fs) PROVE Reports(w[i - 1], fs[i], w[i])
  <2>1. CASE i \in 1..Len(es)
    BY <1>2, <1>4, <1>5, <2>1
  <2>2. CASE i = Len(es) + 1
    <3>1. i - 1 = Len(es)
      BY <1>1, <2>2
    <3> QED BY <1>4, <1>5, <2>2, <3>1
  <2> QED BY <1>1, <1>4, <2>1, <2>2
<1>7. Leads(w, fs, d)
  BY <1>3, <1>4, <1>5, <1>6 DEF Leads
<1> QED BY <1>3, <1>5, <1>7 DEF fs

\* ... and handling the first event moves on to the next view.
LEMMA LeadsFrom ==
  ASSUME NEW v, NEW es, NEW fs, NEW c, Leads(v, es, c),
         Len(es) \in Nat \ {0}, Len(fs) = Len(es) - 1,
         \A i \in 1..Len(fs) : fs[i] = es[i + 1]
  PROVE  /\ Reports(v[0], es[1], v[1]) /\ v[0] \in Views /\ v[1] \in Views
         /\ \E w \in [Nat -> Views] : Leads(w, fs, c) /\ w[0] = v[1]
<1> DEFINE w == [i \in Nat |-> v[i + 1]]
<1>1. v \in [Nat -> Views] /\ v[Len(es)] = c
      /\ \A i \in 1..Len(es) : Reports(v[i - 1], es[i], v[i])
  BY DEF Leads
<1>2. w \in [Nat -> Views] /\ w[0] = v[1] /\ w[Len(fs)] = c
  BY <1>1
<1>3. ASSUME NEW i \in 1..Len(fs) PROVE Reports(w[i - 1], fs[i], w[i])
  <2>0. i \in Nat /\ i - 1 \in Nat /\ (i - 1) + 1 = i /\ i + 1 \in 1..Len(es)
    BY <1>3
  <2>1. w[i - 1] = v[i] /\ w[i] = v[i + 1] /\ fs[i] = es[i + 1] /\ i + 1 \in 1..Len(es)
    BY <1>3, <2>0
  <2>2. Reports(v[(i + 1) - 1], es[i + 1], v[i + 1])
    BY <1>1, <2>1
  <2>3. (i + 1) - 1 = i
    OBVIOUS
  <2> QED BY <2>1, <2>2, <2>3
<1>4. Reports(v[0], es[1], v[1])
  <2>1. 1 \in 1..Len(es) /\ 1 - 1 = 0
    OBVIOUS
  <2>2. Reports(v[1 - 1], es[1], v[1])
    BY <1>1, <2>1
  <2> QED BY <2>1, <2>2
<1> HIDE DEF w
<1>5. Leads(w, fs, c)
  BY <1>2, <1>3 DEF Leads
<1> QED BY <1>1, <1>2, <1>4, <1>5

\* A stream is in the snapshot of a view when it is admitted of the pod of its name.
LEMMA SnapshotMember ==
  ASSUME NEW c \in Views, NEW k
  PROVE  k \in CollectSnapshot(Policy, PodsIn(c)) <=>
           k \in Keys /\ c[k.pod] # None /\ AdmitPod(Policy, c[k.pod])
                      /\ k \in AdmitStreams(Policy, c[k.pod])
<1>1. ASSUME k \in CollectSnapshot(Policy, PodsIn(c))
      PROVE  k \in Keys /\ c[k.pod] # None /\ AdmitPod(Policy, c[k.pod])
                      /\ k \in AdmitStreams(Policy, c[k.pod])
  BY <1>1, SnapshotKeys DEF Lives
<1>2. ASSUME k \in Keys, c[k.pod] # None, AdmitPod(Policy, c[k.pod]),
             k \in AdmitStreams(Policy, c[k.pod])
      PROVE  k \in CollectSnapshot(Policy, PodsIn(c))
  <2>1. k.pod \in Names
    BY <1>2, KeyFields
  <2>2. c[k.pod] \in PodsIn(c)
    BY <1>2, <2>1, SnapshotKeys
  <2> QED BY <1>2, <2>2 DEF CollectSnapshot
<1> QED BY <1>1, <1>2

\* What an event changes in the snapshot.
LEMMA SnapshotAfter ==
  ASSUME NEW c \in Views, NEW d \in Views, NEW e \in Events, Reports(c, e, d), NEW k
  PROVE  /\ e.op = "Apply" /\ AdmitPod(Policy, e.pod) =>
              (k \in CollectSnapshot(Policy, PodsIn(d)) <=>
                 \/ k \in CollectSnapshot(Policy, PodsIn(c)) /\ k.pod # e.pod.name
                 \/ k \in AdmitStreams(Policy, e.pod))
         /\ e.op = "Delete" \/ ~AdmitPod(Policy, e.pod) =>
              (k \in CollectSnapshot(Policy, PodsIn(d)) <=>
                 k \in CollectSnapshot(Policy, PodsIn(c))
                 /\ ~(k.pod = e.pod.name /\ k.uid = e.pod.uid))
<1> DEFINE n == e.pod.name
           In(x) == k \in Keys /\ x[k.pod] # None /\ AdmitPod(Policy, x[k.pod])
                    /\ k \in AdmitStreams(Policy, x[k.pod])
<1>1. e.pod \in Pods /\ e.pod # None /\ n \in Names /\ e.op \in {"Apply", "Delete"}
  BY PodFields, Identities DEF Events
<1>2. d[n] = (IF e.op = "Apply" THEN e.pod ELSE None) /\ \A m \in Names \ {n} : d[m] = c[m]
  <2>1. c \in [Names -> Pods \cup {None}]
    BY DEF Views
  <2>2. CASE e.op = "Apply"
    <3>1. d = [c EXCEPT ![n] = e.pod]
      BY <2>2 DEF Reports
    <3> QED BY <1>1, <2>1, <2>2, <3>1
  <2>3. CASE e.op = "Delete"
    <3>1. d = [c EXCEPT ![n] = None]
      BY <2>3 DEF Reports
    <3> QED BY <1>1, <2>1, <2>3, <3>1
  <2> QED BY <1>1, <2>2, <2>3
<1>3. c[n] # None => c[n].uid = e.pod.uid /\ c[n] \in Pods
  BY <1>1 DEF Reports, Views
<1>4. k \in Keys => k.pod \in Names
  BY KeyFields
<1>5. k \in AdmitStreams(Policy, e.pod) => k \in Keys /\ k.pod = n
  BY <1>1, AdmittedKeys
<1>6. In(c) /\ k.pod = n => k.uid = e.pod.uid
  BY <1>3, AdmittedKeys
<1>7. k.pod # n => (In(c) <=> In(d))
  BY <1>2, <1>4
<1>8. k.pod = n /\ k \in Keys => (In(d) <=> e.op = "Apply" /\ AdmitPod(Policy, e.pod)
                                             /\ k \in AdmitStreams(Policy, e.pod))
  BY <1>1, <1>2
<1>9. (k \in CollectSnapshot(Policy, PodsIn(c)) <=> In(c))
      /\ (k \in CollectSnapshot(Policy, PodsIn(d)) <=> In(d))
  BY SnapshotMember
<1>10. In(c) \/ In(d) => k \in Keys
  OBVIOUS
<1> HIDE DEF In, n
<1> QED BY <1>1, <1>5, <1>6, <1>7, <1>8, <1>9, <1>10 DEF n

\* A handled event leaves the registry a job that brings it to the next view.
LEMMA TargetAfter ==
  ASSUME TypeOK, job = None, NEW e \in Events, Admits(e) \/ Drops(e), active' = active,
         NEW k
  PROVE  /\ Admits(e) => (k \in Target' <=> \/ k \in active /\ k.pod # e.pod.name
                                            \/ k \in AdmitStreams(Policy, e.pod))
         /\ Drops(e) => (k \in Target' <=> k \in active
                                           /\ ~(k.pod = e.pod.name /\ k.uid = e.pod.uid))
<1>1. e.pod \in Pods /\ e.pod.uid # None
  BY PodFields DEF Events
<1>2. k \in AdmitStreams(Policy, e.pod) => k.pod = e.pod.name
  BY <1>1, AdmittedKeys
<1>3. [op |-> "pod", pod |-> e.pod] # None /\ [op |-> "drop", pod |-> e.pod] # None
  BY <1>1, Identities DEF Jobs
<1>4. CASE Admits(e)
  <2>1. job' # None /\ job'.op = "pod" /\ job'.pod = e.pod /\ e.op = "Apply" /\ AdmitPod(Policy, e.pod)
    BY <1>3, <1>4 DEF Admits
  <2>2. ~Drops(e) \/ e.op = "Delete"
    BY <2>1 DEF Drops
  <2>3. Target' = (active \ {x \in active : x.pod = e.pod.name /\ x \notin AdmitStreams(Policy, e.pod)})
                  \cup {x \in AdmitStreams(Policy, e.pod) : ~(x \in active /\ x.pod = e.pod.name)}
    BY <2>1 DEF Target, ToDrop, ToAdd, KeysForPodLocator
  <2> QED BY <1>2, <2>1, <2>2, <2>3
<1>5. CASE Drops(e)
  <2>1. job' # None /\ job'.op = "drop" /\ job'.pod = e.pod
    BY <1>3, <1>5 DEF Drops, OnDelete
  <2>2. Target' = active \ {x \in active : x.pod = e.pod.name /\ x.uid = e.pod.uid}
    BY <1>1, <2>1 DEF Target, ToDrop, ToAdd, KeysForPodLocator
  <2>3. ~Admits(e)
    BY <1>5 DEF Admits, Drops
  <2> QED BY <2>2, <2>3
<1> QED BY <1>4, <1>5

LEMMA ViewStep ==
  ASSUME TypeOK, PhaseInv, RegInv, PastInv, ViewInv, [Next]_vars
  PROVE  ViewInv'
<1>1. CASE UNCHANGED <<phase, events, cluster, listing, pending, active, job>>
  <2>1. Target' = Target
    BY <1>1 DEF Target, ToDrop, ToAdd, KeysForPodLocator
  <2> QED BY <1>1, <2>1 DEF ViewInv
<1>2. CASE ClusterNext
  <2>1. PICK e \in Events :
          /\ phase \notin {"start", "begun"} => events' = Append(events, e)
          /\ Reports(cluster, e, cluster')
    BY <1>2, PastStable
  <2>2. cluster' \in Views /\ UNCHANGED <<phase, listing, pending, active, job>>
    BY <1>2, PastStable
  <2>3. events \in Seq(Events)
    BY DEF TypeOK
  <2>4. Target' = Target
    BY <2>2 DEF Target, ToDrop, ToAdd, KeysForPodLocator
  <2>5. ASSUME phase = "init"
        PROVE  \E w \in [Nat -> Views] :
                 Leads(w, events', cluster') /\ PodsIn(w[0]) = listing' \cup pending'
    <3>1. PICK v \in [Nat -> Views] :
            Leads(v, events, cluster) /\ PodsIn(v[0]) = listing \cup pending
      BY <2>5 DEF ViewInv
    <3>2. \E w \in [Nat -> Views] : Leads(w, Append(events, e), cluster') /\ w[0] = v[0]
      BY <2>1, <2>2, <2>3, <3>1, LeadsOn
    <3> QED BY <2>1, <2>2, <2>5, <3>1, <3>2
  <2>6. ASSUME phase = "live"
        PROVE  \E w \in [Nat -> Views] :
                 Leads(w, events', cluster') /\ Target' = CollectSnapshot(Policy, PodsIn(w[0]))
    <3>1. PICK v \in [Nat -> Views] :
            Leads(v, events, cluster) /\ Target = CollectSnapshot(Policy, PodsIn(v[0]))
      BY <2>6 DEF ViewInv
    <3>2. \E w \in [Nat -> Views] : Leads(w, Append(events, e), cluster') /\ w[0] = v[0]
      BY <2>1, <2>2, <2>3, <3>1, LeadsOn
    <3> QED BY <2>1, <2>4, <2>6, <3>1, <3>2
  <2> QED BY <2>2, <2>5, <2>6 DEF ViewInv
<1>3. CASE OnInitBegin
  <2>1. phase' = "begun"
    BY <1>3 DEF OnInitBegin
  <2> QED BY <2>1 DEF ViewInv
<1>4. CASE ListPods
  <2>1. /\ phase = "begun" /\ phase' = "init" /\ listing' = PodsIn(cluster)
        /\ UNCHANGED <<cluster, events, pending>>
    BY <1>4 DEF ListPods
  <2>2. events = <<>> /\ pending = {} /\ cluster \in Views
    BY <2>1 DEF PhaseInv, PastInv
  <2> DEFINE v == [i \in Nat |-> cluster]
  <2>3. v \in [Nat -> Views] /\ v[0] = cluster /\ v[Len(events)] = cluster /\ Len(events) = 0
    BY <2>2
  <2> HIDE DEF v
  <2>4. Leads(v, events, cluster)
    BY <2>3 DEF Leads
  <2>5. PodsIn(v[0]) = listing' \cup pending'
    BY <2>1, <2>2, <2>3
  <2> QED BY <2>1, <2>3, <2>4, <2>5 DEF ViewInv
<1>5. CASE \E p \in listing : OnInitApply(p)
  <2>1. PICK p \in listing : OnInitApply(p)
    BY <1>5
  <2>2. /\ phase = "init" /\ phase' = "init" /\ listing' \cup pending' = listing \cup pending
        /\ UNCHANGED <<cluster, events>>
    BY <2>1 DEF OnInitApply
  <2> QED BY <2>2 DEF ViewInv
<1>6. CASE OnInitDone
  <2> DEFINE snap == CollectSnapshot(Policy, pending)
  <2>1. /\ phase = "init" /\ listing = {} /\ phase' = "live"
        /\ job' = [op |-> "snapshot", keys |-> snap] /\ UNCHANGED <<cluster, events, active>>
    BY <1>6 DEF OnInitDone
  <2>2. snap \subseteq Keys
    BY SnapshotTypes DEF TypeOK
  <2> HIDE DEF snap
  <2>3. job' # None /\ job'.op = "snapshot" /\ job'.keys = snap
    BY <2>1, <2>2, Identities DEF Jobs
  <2>4. Target' = snap
    BY <2>1, <2>3 DEF Target, ToDrop, ToAdd
  <2>5. PICK v \in [Nat -> Views] :
          Leads(v, events, cluster) /\ PodsIn(v[0]) = listing \cup pending
    BY <2>1 DEF ViewInv
  <2>6. snap = CollectSnapshot(Policy, PodsIn(v[0]))
    BY <2>1, <2>5 DEF snap
  <2> QED BY <2>1, <2>4, <2>5, <2>6 DEF ViewInv
<1>7. CASE HandleEvent
  <2> DEFINE e == Head(events)
  <2>1. /\ phase = "live" /\ job = None /\ e \in Events /\ e = events[1]
        /\ Len(events) \in Nat \ {0} /\ Len(events') = Len(events) - 1
        /\ \A i \in 1..Len(events') : events'[i] = events[i + 1]
        /\ Admits(e) \/ Drops(e)
        /\ UNCHANGED <<cluster, phase, active>>
    BY <1>7, HandleCases
  <2> HIDE DEF e
  <2>2. PICK v \in [Nat -> Views] :
          Leads(v, events, cluster) /\ Target = CollectSnapshot(Policy, PodsIn(v[0]))
    BY <2>1 DEF ViewInv
  <2>3. /\ Reports(v[0], e, v[1]) /\ v[0] \in Views /\ v[1] \in Views
        /\ \E w \in [Nat -> Views] : Leads(w, events', cluster) /\ w[0] = v[1]
    BY <2>1, <2>2, LeadsFrom
  <2>4. active = CollectSnapshot(Policy, PodsIn(v[0]))
    BY <2>1, <2>2 DEF Target
  <2>5. ASSUME NEW k PROVE k \in Target' <=> k \in CollectSnapshot(Policy, PodsIn(v[1]))
    <3>1. CASE Admits(e)
      <4>1. e.op = "Apply" /\ AdmitPod(Policy, e.pod)
        BY <3>1 DEF Admits
      <4>2. k \in Target' <=> \/ k \in active /\ k.pod # e.pod.name
                              \/ k \in AdmitStreams(Policy, e.pod)
        BY <2>1, <3>1, TargetAfter
      <4>3. k \in CollectSnapshot(Policy, PodsIn(v[1])) <=>
                 \/ k \in CollectSnapshot(Policy, PodsIn(v[0])) /\ k.pod # e.pod.name
                 \/ k \in AdmitStreams(Policy, e.pod)
        BY <2>1, <2>3, <4>1, SnapshotAfter
      <4> QED BY <2>4, <4>2, <4>3
    <3>2. CASE Drops(e)
      <4>1. e.op = "Delete" \/ ~AdmitPod(Policy, e.pod)
        BY <3>2 DEF Drops
      <4>2. k \in Target' <=> k \in active /\ ~(k.pod = e.pod.name /\ k.uid = e.pod.uid)
        BY <2>1, <3>2, TargetAfter
      <4>3. k \in CollectSnapshot(Policy, PodsIn(v[1])) <=>
                 k \in CollectSnapshot(Policy, PodsIn(v[0]))
                 /\ ~(k.pod = e.pod.name /\ k.uid = e.pod.uid)
        BY <2>1, <2>3, <4>1, SnapshotAfter
      <4> QED BY <2>4, <4>2, <4>3
    <3> QED BY <2>1, <3>1, <3>2
  <2>6. Target' = CollectSnapshot(Policy, PodsIn(v[1]))
    <3> DEFINE B == CollectSnapshot(Policy, PodsIn(v[1]))
               A == Target
    <3>1. \A k : k \in A' <=> k \in B
      BY <2>5
    <3>2. \A x, y : (\A k : k \in x <=> k \in y) => x = y
      BY SetExtensionality
    <3> HIDE DEF A, B
    <3>3. A' = B
      BY <3>1, <3>2
    <3> QED BY <3>3 DEF A, B
  <2> QED BY <2>1, <2>3, <2>6 DEF ViewInv
<1>8. CASE RegistryReconciles
  <2>1. /\ job # None /\ job' = None /\ active' = (active \ ToDrop) \cup ToAdd
        /\ UNCHANGED <<cluster, phase, events, listing, pending>>
    BY <1>8, RegistryEffects
  <2>2. Target' = Target
    BY <2>1 DEF Target
  <2> QED BY <2>1, <2>2 DEF ViewInv
<1>9. ASSUME NEW t \in Tasks, AttachNext(t) PROVE ViewInv'
  <2>1. UNCHANGED <<phase, events, cluster, listing, pending, active, job>>
    BY <1>9, AttachFrame
  <2> QED BY <1>1, <2>1
<1>10. CASE UNCHANGED vars
  BY <1>1, <1>10
<1> QED BY <1>2, <1>3, <1>4, <1>5, <1>6, <1>7, <1>8, <1>9, <1>10 DEF Next, WatchNext

(***************************************************************************)
(* Metadata                                                                *)
(***************************************************************************)
\* What the tasks that have yet to look, and those that have looked, may count on.
Awaits(t) ==
  pc[t] = "lookup" =>
    t \in exposed \/ (cache[LocatorOf(key[t])] # None /\ cache[LocatorOf(key[t])] \in known[t])
Fresh(t) == pc[t] \in {"top", "open", "streaming"} => meta[t] \in known[t] \/ t \in exposed

LEMMA MetaParts ==
  (\A t \in Tasks : Awaits(t) /\ Fresh(t)) <=>
  /\ \A t \in Tasks : pc[t] = "lookup" =>
       t \in exposed \/ (cache[LocatorOf(key[t])] # None /\ cache[LocatorOf(key[t])] \in known[t])
  /\ MetaFresh
  BY DEF Awaits, Fresh, MetaFresh

\* One pod's metadata enters the cache, and what is known of it grows by it.
LEMMA UpdatedOne ==
  ASSUME TypeOK, NEW p \in Pods
  PROVE  /\ \A l \in Locators : Updated(cache, {p})[l] = IF Locator(p) = l THEN MetaSnapshot(p)
                                                         ELSE cache[l]
         /\ \A t \in Tasks : known[t] \subseteq Learnt({p})[t]
         /\ \A t \in Tasks : pc[t] = "lookup" /\ Locator(p) = LocatorOf(key[t]) =>
                             MetaSnapshot(p) \in Learnt({p})[t]
<1>1. \A l \in Locators : Locator(p) = l => (CHOOSE q \in {p} : Locator(q) = l) = p
  OBVIOUS
<1>2. \A l \in Locators : Updated(cache, {p})[l] = IF Locator(p) = l THEN MetaSnapshot(p) ELSE cache[l]
  BY <1>1 DEF Updated
<1>3. \A t \in Tasks : Learnt({p})[t] = known[t] \cup
        {MetaSnapshot(x) : x \in {q \in {p} : pc[t] = "lookup" /\ Locator(q) = LocatorOf(key[t])}}
  BY DEF Learnt
<1> QED BY <1>2, <1>3

\* A handler that updates the cache with one pod keeps the tasks' metadata fresh.
LEMMA UpdateKeepsFresh ==
  ASSUME TypeOK, RegInv, \A t \in Tasks : Awaits(t) /\ Fresh(t), NEW p \in Pods,
         cache' = Updated(cache, {p}), known' = Learnt({p}), UNCHANGED <<pc, key, meta, exposed>>
  PROVE  \A t \in Tasks : (Awaits(t) /\ Fresh(t))'
<1> TAKE t \in Tasks
<1>1. known[t] \subseteq known'[t]
  BY UpdatedOne
<1>2. Fresh(t)'
  BY <1>1 DEF Fresh
<1>3. ASSUME pc[t] = "lookup", t \notin exposed
      PROVE  cache'[LocatorOf(key[t])] # None /\ cache'[LocatorOf(key[t])] \in known'[t]
  <2>1. LocatorOf(key[t]) \in Locators
    BY <1>3, KeyFields DEF RegInv, TypeOK
  <2>2. cache[LocatorOf(key[t])] # None /\ cache[LocatorOf(key[t])] \in known[t]
    BY <1>3 DEF Awaits
  <2>3. CASE Locator(p) = LocatorOf(key[t])
    BY <1>3, <2>1, <2>3, UpdatedOne, PodFields
  <2>4. CASE Locator(p) # LocatorOf(key[t])
    BY <1>1, <2>1, <2>2, <2>4, UpdatedOne
  <2> QED BY <2>3, <2>4
<1> QED BY <1>2, <1>3 DEF Awaits

\* A handler that clears or removes entries exposes the tasks that have yet to look them up.
LEMMA ClearKeepsFresh ==
  ASSUME TypeOK, RegInv, \A t \in Tasks : Awaits(t) /\ Fresh(t), NEW L \in SUBSET Locators,
         exposed' = exposed \cup Waiting(L), UNCHANGED <<pc, key, meta, known>>,
         \A l \in Locators \ L : cache'[l] = cache[l]
  PROVE  \A t \in Tasks : (Awaits(t) /\ Fresh(t))'
<1> TAKE t \in Tasks
<1>1. Fresh(t)'
  BY DEF Fresh
<1>2. ASSUME pc[t] = "lookup", t \notin exposed'
      PROVE  cache'[LocatorOf(key[t])] # None /\ cache'[LocatorOf(key[t])] \in known[t]
  <2>1. LocatorOf(key[t]) \in Locators
    BY <1>2, KeyFields DEF RegInv, TypeOK
  <2>2. LocatorOf(key[t]) \notin L
    BY <1>2 DEF Waiting
  <2> QED BY <1>2, <2>1, <2>2 DEF Awaits
<1> QED BY <1>1, <1>2 DEF Awaits

LEMMA MetaStep ==
  ASSUME TypeOK, PhaseInv, RegInv, PastInv, ViewInv, MetaInv, MetaFresh, [Next]_vars
  PROVE  MetaInv' /\ MetaFresh'
<1> DEFINE Good == \A t \in Tasks : Awaits(t) /\ Fresh(t)
           JobMeta == job # None => \A k \in ToAdd : cache[LocatorOf(k)] # None
           ListMeta == phase = "init" => \A p \in pending : cache[Locator(p)] = MetaSnapshot(p)
<1>0. Good /\ JobMeta /\ ListMeta
  BY MetaParts DEF MetaInv
<1> SUFFICES Good' /\ JobMeta' /\ ListMeta'
  BY DEF MetaInv, MetaFresh, Awaits, Fresh
<1>1. CASE UNCHANGED <<phase, pending, job, active, cache, pc, key, meta, known, exposed>>
  <2>1. Good'
    BY <1>0, <1>1 DEF Awaits, Fresh
  <2>2. JobMeta' /\ ListMeta'
    BY <1>0, <1>1 DEF ToAdd, KeysForPodLocator
  <2> QED BY <2>1, <2>2
<1>2. CASE ClusterNext
  <2>1. UNCHANGED <<phase, pending, job, active, cache, pc, key, meta, known, exposed>>
    BY <1>2, PastStable
  <2> QED BY <1>1, <2>1
<1>3. CASE OnInitBegin
  <2>1. /\ phase' = "begun" /\ job' = None /\ exposed' = exposed \cup Waiting(Locators)
        /\ UNCHANGED <<pc, key, meta, known>>
    BY <1>3 DEF OnInitBegin
  <2>2. Good'
    BY <1>0, <2>1, ClearKeepsFresh
  <2> QED BY <2>1, <2>2
<1>4. CASE ListPods
  <2>1. /\ phase = "begun" /\ UNCHANGED <<pending, job, active, cache, pc, key, meta, known, exposed>>
    BY <1>4 DEF ListPods
  <2>2. pending = {} /\ job = None
    BY <2>1 DEF PhaseInv
  <2>3. Good'
    BY <1>0, <2>1 DEF Awaits, Fresh
  <2> QED BY <2>1, <2>2, <2>3
<1>5. CASE \E p \in listing : OnInitApply(p)
  <2>1. PICK p \in listing : OnInitApply(p)
    BY <1>5
  <2>2. /\ phase = "init" /\ phase' = "init" /\ pending' = pending \cup {p}
        /\ cache' = Updated(cache, {p}) /\ known' = Learnt({p})
        /\ UNCHANGED <<job, pc, key, meta, exposed>>
    BY <2>1 DEF OnInitApply
  <2>3. p \in Pods /\ pending \subseteq Pods
    BY DEF TypeOK
  <2>4. Good'
    BY <1>0, <2>2, <2>3, UpdateKeepsFresh
  <2>5. job' = None
    BY <2>2 DEF PhaseInv
  <2>6. ASSUME NEW q \in pending' PROVE cache'[Locator(q)] = MetaSnapshot(q)
    <3>1. PICK v \in [Nat -> Views] : PodsIn(v[0]) = listing \cup pending
      BY <2>2 DEF ViewInv
    <3>2. v[0] \in Views
      OBVIOUS
    <3>3. p \in PodsIn(v[0]) /\ q \in PodsIn(v[0]) /\ q \in Pods
      BY <2>2, <2>3, <2>6, <3>1
    <3>4. q.name = p.name => q = p
      BY <3>2, <3>3, SnapshotKeys
    <3>5. Locator(q) \in Locators /\ Locator(p) \in Locators
      BY <2>3, <3>3, PodFields
    <3>6. CASE q = p
      BY <2>2, <2>3, <3>5, <3>6, UpdatedOne
    <3>7. CASE q # p
      <4>1. Locator(p) # Locator(q)
        BY <3>4, <3>7 DEF Locator
      <4>2. q \in pending
        BY <2>2, <3>7
      <4> QED BY <1>0, <2>2, <2>3, <3>5, <4>1, <4>2, UpdatedOne
    <3> QED BY <3>6, <3>7
  <2> QED BY <2>4, <2>5, <2>6 DEF MetaSnapshot, Locator
<1>6. CASE OnInitDone
  <2> DEFINE snap == CollectSnapshot(Policy, pending)
             keep == {LocatorOf(k) : k \in snap}
  <2>1. /\ phase = "init" /\ phase' = "live"
        /\ cache' = Pruned(Updated(cache, pending), keep)
        /\ job' = [op |-> "snapshot", keys |-> snap]
        /\ exposed' = exposed \cup Waiting(Locators \ keep)
        /\ UNCHANGED <<active, pc, key, meta, known>>
    BY <1>6 DEF OnInitDone
  <2>2. pending \subseteq Pods
    BY DEF TypeOK
  <2>3. \A l \in Locators : Updated(cache, pending)[l] = cache[l]
    <3> TAKE l \in Locators
    <3>1. CASE \E p \in pending : Locator(p) = l
      <4> DEFINE q == CHOOSE p \in pending : Locator(p) = l
      <4>1. q \in pending /\ Locator(q) = l
        BY <3>1
      <4>2. cache[Locator(q)] = MetaSnapshot(q)
        BY <1>0, <2>1, <4>1
      <4>3. Updated(cache, pending)[l] = MetaSnapshot(q)
        BY <3>1 DEF Updated
      <4> QED BY <4>1, <4>2, <4>3
    <3>2. CASE ~\E p \in pending : Locator(p) = l
      BY <3>2 DEF Updated
    <3> QED BY <3>1, <3>2
  <2>4. \A k \in snap : k \in Keys /\ \E p \in pending : LocatorOf(k) = Locator(p)
    BY <2>2, SnapshotTypes
  <2>5. \A k \in snap : LocatorOf(k) \in keep /\ LocatorOf(k) \in Locators
    BY <2>4, KeyFields
  <2> HIDE DEF snap, keep
  <2>6. \A l \in Locators : l \in keep => cache'[l] = cache[l]
    BY <2>1, <2>3 DEF Pruned
  <2>7. Good'
    <3>1. \A l \in Locators \ (Locators \ keep) : cache'[l] = cache[l]
      BY <2>6
    <3> QED BY <1>0, <2>1, <3>1, ClearKeepsFresh
  <2>8. \A k \in snap : cache'[LocatorOf(k)] # None
    <3> TAKE k \in snap
    <3>1. PICK p \in pending : LocatorOf(k) = Locator(p)
      BY <2>4
    <3>2. cache[Locator(p)] = MetaSnapshot(p) /\ MetaSnapshot(p) # None
      BY <1>0, <2>1, <2>2, PodFields
    <3> QED BY <2>5, <2>6, <3>1, <3>2
  <2>9. JobMeta'
    <3>1. ToAdd' \subseteq snap
      BY <2>1 DEF ToAdd
    <3> QED BY <2>8, <3>1 DEF LocatorOf
  <2> QED BY <2>1, <2>7, <2>9
<1>7. CASE HandleEvent
  <2> DEFINE e == Head(events)
  <2>1. /\ phase = "live" /\ phase' = "live" /\ e.pod \in Pods
        /\ Admits(e) \/ Drops(e)
        /\ UNCHANGED <<active, pc, key, meta>>
    BY <1>7, HandleCases
  <2> HIDE DEF e
  <2>2. CASE Admits(e)
    <3>1. cache' = Updated(cache, {e.pod}) /\ known' = Learnt({e.pod}) /\ UNCHANGED exposed
          /\ job' = [op |-> "pod", pod |-> e.pod]
      BY <2>2 DEF Admits
    <3>2. Good'
      BY <1>0, <2>1, <3>1, UpdateKeepsFresh
    <3>3. \A k \in AdmitStreams(Policy, e.pod) : LocatorOf(k) = Locator(e.pod)
      BY <2>1, AdmittedKeys
    <3>4. cache'[Locator(e.pod)] # None
      BY <2>1, <3>1, UpdatedOne, PodFields
    <3>5. ToAdd' \subseteq AdmitStreams(Policy, e.pod)
      BY <3>1 DEF ToAdd
    <3>6. JobMeta'
      <4>1. \A k \in ToAdd' : cache'[LocatorOf(k)] # None
        BY <3>3, <3>4, <3>5
      <4> QED BY <4>1 DEF LocatorOf
    <3> QED BY <2>1, <3>2, <3>6
  <2>3. CASE Drops(e)
    <3>1. /\ cache' = Removed(cache, e.pod) /\ exposed' = exposed \cup Waiting({Locator(e.pod)})
          /\ job' = [op |-> "drop", pod |-> e.pod] /\ UNCHANGED known
      BY <2>3 DEF Drops, OnDelete
    <3>2. Locator(e.pod) \in Locators
      BY <2>1, PodFields
    <3>3. \A l \in Locators \ {Locator(e.pod)} : cache'[l] = cache[l]
      BY <3>1 DEF Removed, TypeOK
    <3>4. Good'
      BY <1>0, <2>1, <3>1, <3>2, <3>3, ClearKeepsFresh
    <3>5. ToAdd' = {}
      BY <3>1 DEF ToAdd
    <3> QED BY <2>1, <3>4, <3>5
  <2> QED BY <2>1, <2>2, <2>3
<1>8. CASE RegistryReconciles
  <2>1. job # None /\ job' = None /\ UNCHANGED <<phase, pending, cache, meta, exposed>>
        /\ key' \in [Tasks -> Keys \cup {None}]
    BY <1>8, RegistryEffects
  <2>2. PICK f \in [ToAdd -> Tasks] : Spawns(f)
    BY <1>8, RegistryEffects
  <2>3. ASSUME NEW t \in Tasks PROVE (Awaits(t) /\ Fresh(t))'
    <3>1. CASE \E k \in ToAdd : f[k] = t
      <4>1. PICK k \in ToAdd : f[k] = t
        BY <3>1
      <4>2. pc'[t] = "lookup" /\ key'[t] = k /\ known'[t] = {cache[LocatorOf(k)]} \ {None}
        BY <2>2, <4>1 DEF Spawns
      <4>3. cache[LocatorOf(k)] # None
        BY <1>0, <2>1
      <4> QED BY <2>1, <4>2, <4>3 DEF Awaits, Fresh
    <3>2. CASE \A k \in ToAdd : f[k] # t
      <4>1. known'[t] = known[t]
            /\ (pc'[t] = "free" \/ (pc'[t] = pc[t] /\ key'[t] = key[t]))
        BY <2>2, <3>2 DEF Spawns
      <4>2. Awaits(t) /\ Fresh(t)
        BY <1>0
      <4> QED BY <2>1, <4>1, <4>2 DEF Awaits, Fresh
    <3> QED BY <3>1, <3>2
  <2>4. ListMeta'
    BY <1>0, <2>1
  <2> QED BY <2>1, <2>3, <2>4
<1>9. ASSUME NEW t \in Tasks, AttachNext(t) PROVE Good' /\ JobMeta' /\ ListMeta'
  <2>1. UNCHANGED <<phase, pending, job, active, cache>>
    BY <1>9, AttachFrame
  <2>2. JobMeta' /\ ListMeta'
    BY <1>0, <2>1 DEF ToAdd, KeysForPodLocator
  <2>3. ASSUME NEW u \in Tasks, u # t PROVE (Awaits(u) /\ Fresh(u))'
    <3>1. /\ pc'[u] = pc[u] /\ key'[u] = key[u] /\ meta'[u] = meta[u] /\ known'[u] = known[u]
          /\ (u \in exposed <=> u \in exposed')
      BY <1>9, <2>3, AttachCases DEF Lookup, OpenOk, ToOpen, AttachStep, Leaves, Returns, Errs,
         IsRefused, Ends, Finishes, Over, TypeOK
    <3>2. Awaits(u) /\ Fresh(u)
      BY <1>0
    <3> QED BY <2>1, <3>1, <3>2 DEF Awaits, Fresh
  <2>4. (Awaits(t) /\ Fresh(t))'
    <3>0. Awaits(t) /\ Fresh(t)
      BY <1>0
    <3>1. CASE Lookup(t)
      <4>1. pc[t] = "lookup" /\ pc'[t] = "top" /\ UNCHANGED <<known, exposed, cache>>
            /\ (cache[LocatorOf(key[t])] # None => meta'[t] = cache[LocatorOf(key[t])])
        BY <3>1 DEF Lookup, AttachStep, TypeOK
      <4> QED BY <3>0, <4>1 DEF Awaits, Fresh
    <3>2. CASE OpenOk(t) \/ ToOpen(t)
      <4>1. pc[t] \in {"top", "open"} /\ pc'[t] \in {"open", "streaming"}
            /\ UNCHANGED <<known, exposed, cache, meta>>
        BY <3>2 DEF OpenOk, ToOpen, AttachStep, TypeOK
      <4> QED BY <3>0, <4>1 DEF Awaits, Fresh
    <3>3. CASE Leaves(t) \/ Errs(t) \/ IsRefused(t) \/ Ends(t)
      <4>1. pc'[t] \in {"free", "failed", "ended"}
        BY <3>3 DEF Leaves, Returns, Errs, IsRefused, Ends, Finishes, TypeOK
      <4> QED BY <4>1 DEF Awaits, Fresh
    <3> QED BY <1>9, <3>1, <3>2, <3>3, AttachCases
  <2> QED BY <2>2, <2>3, <2>4
<1>10. CASE UNCHANGED vars
  BY <1>1, <1>10
<1> QED BY <1>2, <1>3, <1>4, <1>5, <1>6, <1>7, <1>8, <1>9, <1>10 DEF Next, WatchNext

(***************************************************************************)
(* The theorems                                                            *)
(***************************************************************************)
LEMMA InitInvariant == Init => WIInv
<1> SUFFICES ASSUME Init PROVE WIInv
  OBVIOUS
<1>1. TypeOK
  BY InitTypes
<1>2. PhaseInv
  BY DEF Init, PhaseInv
<1>3. RegInv
  BY DEF Init, RegInv
<1>4. PastInv
  <2>1. cluster \in Views
    BY DEF Init, Views
  <2>2. \A n \in Names : cluster[n] # None => cluster[n].uid \in oldUids
    BY DEF Init
  <2>3. events = <<>> /\ listing = {} /\ pending = {} /\ job = None
        /\ \A t \in Tasks : key[t] = None
    BY DEF Init
  <2> QED BY <2>1, <2>2, <2>3 DEF PastInv
<1>5. ViewInv
  BY DEF Init, ViewInv
<1>6. GoneInv
  BY DEF Init, GoneInv, Misled, Refused
<1>7. MetaInv /\ MetaFresh
  BY DEF Init, MetaInv, MetaFresh
<1> QED BY <1>1, <1>2, <1>3, <1>4, <1>5, <1>6, <1>7 DEF WIInv

LEMMA StepInvariant == WIInv /\ [Next]_vars => WIInv'
<1> SUFFICES ASSUME WIInv, [Next]_vars PROVE WIInv'
  OBVIOUS
<1>1. TypeOK /\ PhaseInv /\ RegInv /\ PastInv /\ ViewInv /\ GoneInv /\ MetaInv /\ MetaFresh
  BY DEF WIInv
<1>2. TypeOK' /\ PhaseInv' /\ RegInv' /\ PastInv'
  BY <1>1, TypeStep, PhaseStep, RegStep, PastStep
<1>3. ViewInv' /\ GoneInv' /\ MetaInv' /\ MetaFresh'
  BY <1>1, ViewStep, GoneStep, MetaStep
<1> QED BY <1>2, <1>3 DEF WIInv

\* The inductive invariant holds throughout, for any pods, shapes and policy, any number of
\* attach tasks and any number of events the watcher is behind.
THEOREM WatchInvariance == Spec => []WIInv
  BY InitInvariant, StepInvariant, PTL DEF Spec

\* Types: the registry, the cache and the attach tasks hold what they should.
THEOREM WatchTypes == Spec => []TypeOK
<1>1. WIInv => TypeOK
  BY DEF WIInv
<1> QED BY <1>1, WatchInvariance, PTL

\* Once everything is handled, the registry is the snapshot of the cluster.
LEMMA CaughtUpView ==
  ASSUME WIInv, CaughtUp
  PROVE  cluster \in Views /\ active = CollectSnapshot(Policy, PodsIn(cluster))
<1>1. phase = "live" /\ events = <<>> /\ job = None
  BY DEF CaughtUp
<1>2. PICK v \in [Nat -> Views] :
        Leads(v, events, cluster) /\ Target = CollectSnapshot(Policy, PodsIn(v[0]))
  BY <1>1 DEF WIInv, ViewInv
<1>3. Len(events) = 0
  BY <1>1
<1>4. v[0] = cluster /\ cluster \in Views
  BY <1>2, <1>3 DEF Leads
<1> QED BY <1>1, <1>2, <1>4 DEF Target

\* When the watch task has caught up, the registry holds exactly the streams the policy
\* admits of the pods there are, after any mix of relists, recreations and refusals.
THEOREM ActiveAdmitted == Spec => []ActiveIsAdmitted
<1>1. WIInv => ActiveIsAdmitted
  BY CaughtUpView DEF ActiveIsAdmitted
<1> QED BY <1>1, WatchInvariance, PTL

\* A task's lines carry metadata its own pod had when its key was admitted or later, unless
\* its pod's entry was cleared or removed before it looked.
THEOREM MetaIsFresh == Spec => []MetaFresh
<1>1. WIInv => MetaFresh
  BY DEF WIInv
<1> QED BY <1>1, WatchInvariance, PTL

\* No uncancelled stream of another pod's log outlives the handling of the events.
THEOREM ReadsOwn == Spec => []ReadsOwnPod
<1>1. WIInv => ReadsOwnPod
  <2> SUFFICES ASSUME WIInv, CaughtUp, NEW t \in Tasks, pc[t] = "streaming", t \notin cancelled
               PROVE  src[t] = key[t].uid
    BY DEF ReadsOwnPod
  <2>1. key[t] \in active
    BY DEF WIInv, RegInv
  <2>2. Lives(key[t], cluster)
    BY <2>1, CaughtUpView, SnapshotKeys
  <2> QED BY <2>2 DEF WIInv, GoneInv, Misled
<1> QED BY <1>1, WatchInvariance, PTL

\* When only started containers are admitted, no active key was given up by its task
\* without MaxAttempts server errors.
THEOREM KeysKept == Spec => []NoKeyGivenUp
<1>1. WIInv => NoKeyGivenUp
  <2> SUFFICES ASSUME WIInv, CaughtUp, StartedOnly, NEW k \in active, pc[token[k]] = "failed"
               PROVE  token[k] \in errored
    BY DEF NoKeyGivenUp, StartedOnly
  <2>1. token[k] \in Tasks /\ key[token[k]] = k
    BY DEF WIInv, RegInv
  <2>2. Lives(k, cluster)
    BY CaughtUpView, SnapshotKeys
  <2> QED BY <2>1, <2>2 DEF WIInv, GoneInv, Refused
<1> QED BY <1>1, WatchInvariance, PTL
=============================================================================
