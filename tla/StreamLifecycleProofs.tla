----------------------- MODULE StreamLifecycleProofs -----------------------

(***************************************************************************)
(* The safety properties of StreamLifecycle, for any number of pods, tasks *)
(* and permits, any channel capacity and any setting of the flags.         *)
(***************************************************************************)
EXTENDS StreamLifecycle, FiniteSetTheorems, TLAPS

(***************************************************************************)
(* The inductive invariant, part by part.                                  *)
(***************************************************************************)
\* A started task has a key; the watch task sends Remove for a key it dropped.
KeysKnown ==
  /\ \A t \in Tasks : pc[t] # "free" => key[t] \in Keys
  /\ wpc = "send" => removing \in Keys /\ token[removing] = None

\* The handlers: nothing is left to do between two events; keys about to be added
\* are not active; events other than a listing are handled once it is complete.
HandlerInv ==
  /\ wpc \in {"select", "stopped"} => toDrop = {} /\ toAdd = {}
  /\ wpc \in {"reconcile", "send"} => phase = "live"
  /\ toAdd \cap active = {}
  /\ phase = "live" => {Locator(k) : k \in (active \ toDrop) \cup toAdd} \subseteq meta

\* The registry and the tasks.
RegistryInv ==
  /\ RegistryConsistent
  /\ NoOrphanTask
  /\ \A t \in Tasks : pc[t] = "free" => t \notin cancelled

\* The commands: no stream is queued twice, and an Add is for its task's key.
UniqueInQueue ==
  \A i, j \in DOMAIN muxq : muxq[i].task = muxq[j].task /\ muxq[i].task # None => i = j

QueueInv ==
  /\ UniqueInQueue
  /\ \A i \in DOMAIN muxq :
       IF muxq[i].op = "Add"
       THEN muxq[i].task \in Tasks /\ key[muxq[i].task] = muxq[i].key
       ELSE muxq[i].task = None

\* The streams: where they are, and that an end is only there for who waits for it.
PlaceInv ==
  /\ \A t \in Tasks :
       t \in Queued \cup Mapped <=> pc[t] \in {"release", "streaming"} /\ end[t] = "none"
  /\ Queued \cap Mapped = {}
  /\ \A k \in Keys : map[k] # None => key[map[k]] = k
  /\ \A t \in Tasks : pc[t] \notin {"release", "streaming"} => end[t] = "none"

\* Every stream a queued Remove may hit belongs to a cancelled task.
RemoveInv ==
  \A i \in DOMAIN muxq : muxq[i].op = "Remove" =>
    /\ map[muxq[i].key] # None => map[muxq[i].key] \in cancelled
    /\ \A j \in 1..(i - 1) :
         muxq[j].op = "Add" /\ muxq[j].key = muxq[i].key => muxq[j].task \in cancelled

\* Without --follow there is one listing, so nothing is ever dropped.
NoFollowInv ==
  ~Follow => /\ cancelled = {} /\ toDrop = {}
             /\ phase = "start" => active = {}
             /\ ~rootCancelled /\ ~rawClosed => cut = {}

IInv ==
  /\ TypeOK /\ KeysKnown /\ HandlerInv /\ RegistryInv /\ QueueInv /\ PlaceInv /\ RemoveInv
  /\ PermitsAccounted /\ NoFollowInv

USE DEF run, watcher, handler, registry, watch, attach, mux, vars

(***************************************************************************)
(* What the steps of each task leave alone.                                *)
(***************************************************************************)
\* An attach task moves its own program counter among those of a started task.
LEMMA AttachFrame ==
  ASSUME TypeOK, NEW t \in Tasks, AttachStep(t)
  PROVE  /\ UNCHANGED <<watch, key, rawClosed, mpc, map, stat, cut>>
         /\ pc[t] # "free"
         /\ \E p \in AttachPCs \ {"free"} : pc' = [pc EXCEPT ![t] = p]
  BY DEF TypeOK, AttachStep, AttachPCs, GoTo, LoopTop, Acquire, LimitNotify, LimitCancel,
         OpenOk, OpenErr, SendAdd, SendAddClosed, ReleasePermit, OnStreamEnd, BackoffOver

MuxStep ==
  MuxCommand \/ RawSent \/ \E k \in Keys : MuxRow(k) \/ MuxStreamEnd(k)

\* The mux task changes the streams, their ends and the history only.
LEMMA MuxFrame ==
  ASSUME MuxStep
  PROVE  UNCHANGED <<run, watch, pc, key, reopen, failures, permits>>
  BY DEF MuxStep, MuxCommand, MuxCancelled, MuxClosed, MuxAdd, MuxRemove, RawSent, MuxRow,
         MuxStreamEnd, MuxExit

\* Pod events leave everything but the watcher's state and the work list alone.
LEMMA EventFrame ==
  ASSUME PodEvent
  PROVE  /\ wpc = "select"
         /\ UNCHANGED <<run, registry, attach, mux, removing>>
  <1> DEFINE Frame == wpc = "select" /\ UNCHANGED <<run, registry, attach, mux, removing>>
  <1>1. \A A, B : Reconcile(A, B) => Frame
    BY DEF Reconcile
  <1>2. \A n \in Names, u \in Uids : OnDelete(n, u) \/ OnApplyRefused(n, u) => Frame
    BY <1>1 DEF OnDelete, OnApplyRefused
  <1>3. \A n \in Names, u \in Uids, C \in SUBSET Containers : OnApply(n, u, C) => Frame
    BY <1>1 DEF OnApply
  <1>4. \A n \in Names, u \in Uids, C \in SUBSET Containers : OnInitApply(n, u, C) => Frame
    BY DEF OnInitApply
  <1>5. OnInitBegin => Frame
    BY DEF OnInitBegin
  <1>6. OnInitDone \/ (\E S \in Snapshots : NoFollowSnapshot(S)) => Frame
    BY <1>1 DEF OnInitDone, NoFollowSnapshot, OnInitSnapshot
  <1> HIDE DEF Frame
  <1>7. Frame
    BY <1>2, <1>3, <1>4, <1>5, <1>6 DEF PodEvent
  <1> QED BY <1>7 DEF Frame

\* The watch task touches neither the mux's streams nor permits.
LEMMA WatchFrame ==
  ASSUME WatchStep \/ WatchStop
  PROVE  UNCHANGED <<run, watcher, mpc, map, stat, cut, reopen, failures, permits, end>>
  BY DEF WatchStep, WatchStop, DropKey, SendRemove, AddKey, Reconciled

\* The steps of Next, by task.
LEMMA NextCases ==
  ASSUME [Next]_vars
  PROVE  \/ PodEvent \/ WatchStep \/ WatchStop
         \/ \E t \in Tasks : AttachStep(t)
         \/ MuxStep \/ RootCancel \/ ForwardGone
         \/ UNCHANGED vars
  BY DEF Next, MuxStep

(***************************************************************************)
(* Operators: what they are made of.                                       *)
(***************************************************************************)
\* The keys of one pod are keys, of that pod and UID.
LEMMA PodKeysAreKeys ==
  ASSUME NEW n \in Names, NEW u \in Uids, NEW C \in SUBSET Containers
  PROVE  /\ PodKeys(n, u, C) \subseteq Keys
         /\ \A k \in PodKeys(n, u, C) :
              k.pod = n /\ Locator(k) = [pod |-> n, uid |-> u]
  BY DEF PodKeys, Keys, Locator

\* A key's locator is a locator.
LEMMA LocatorType == \A k \in Keys : Locator(k) \in Locators
  BY DEF Keys, Locator, Locators

\* StreamMap::len is a natural number.
LEMMA StreamCountType == \A m : StreamCount(m) \in Nat
  <1> TAKE m
  <1>1. {k \in Keys : m[k] # None} \subseteq Keys
    OBVIOUS
  <1>2. IsFiniteSet({k \in Keys : m[k] # None})
    BY <1>1, KeysAssumption, FS_Subset
  <1> QED BY <1>2, FS_CardinalityType DEF StreamCount

\* What the command channel holds.
LEMMA CommandType ==
  ASSUME TypeOK
  PROVE  /\ DOMAIN muxq = 1..Len(muxq) /\ Len(muxq) \in Nat
         /\ \A i \in 1..Len(muxq) : muxq[i] \in Commands
         /\ \A c \in Commands : /\ c.op \in {"Add", "Remove"} /\ c.key \in Keys
                                /\ c.task \in Tasks \cup {None}
  <1>1. DOMAIN muxq = 1..Len(muxq) /\ \A i \in 1..Len(muxq) : muxq[i] \in Commands
    BY DEF TypeOK
  <1>2. Len(muxq) \in Nat
    BY DEF TypeOK
  <1>3. \A c \in Commands : /\ c.op \in {"Add", "Remove"} /\ c.key \in Keys
                            /\ c.task \in Tasks \cup {None}
    BY DEF Commands
  <1> QED BY <1>1, <1>2, <1>3

\* Receiving from the command channel shifts the commands by one.
LEMMA QueueTail ==
  ASSUME TypeOK, muxq # <<>>
  PROVE  /\ Head(muxq) = muxq[1] /\ 1 \in 1..Len(muxq)
         /\ Tail(muxq) \in Seq(Commands)
         /\ Len(Tail(muxq)) = Len(muxq) - 1
         /\ \A i \in 1..(Len(muxq) - 1) : Tail(muxq)[i] = muxq[i + 1]
  BY DEF TypeOK

\* Sending puts a command at the end.
LEMMA QueueAppend ==
  ASSUME TypeOK, NEW c \in Commands
  PROVE  /\ Append(muxq, c) \in Seq(Commands)
         /\ Len(Append(muxq, c)) = Len(muxq) + 1
         /\ Append(muxq, c)[Len(muxq) + 1] = c
         /\ \A i \in 1..Len(muxq) : Append(muxq, c)[i] = muxq[i]
  BY DEF TypeOK

\* Streams are named by the tasks that opened them.
LEMMA StreamSetTypes ==
  ASSUME TypeOK
  PROVE  Queued \subseteq Tasks /\ Mapped \subseteq Tasks
  <1>1. Mapped \subseteq Tasks
    BY DEF TypeOK, Mapped
  <1> QED BY <1>1, CommandType DEF Queued

(***************************************************************************)
(* Type correctness.                                                       *)
(***************************************************************************)
\* Pod events keep the types of what they change.
LEMMA EventType ==
  ASSUME TypeOK, PodEvent
  PROVE  phase' \in {"start", "init", "live"} /\ pending' \subseteq Keys
         /\ meta' \subseteq Locators /\ wpc' \in {"select", "reconcile"}
         /\ toDrop' \subseteq Keys /\ toAdd' \subseteq Keys
  <1> USE DEF TypeOK, Reconcile
  <1>1. CASE \E n \in Names, u \in Uids : OnDelete(n, u) \/ OnApplyRefused(n, u)
    BY <1>1 DEF OnDelete, OnApplyRefused, KeysOfPod
  <1>2. CASE \E n \in Names, u \in Uids : \E C \in SUBSET Containers : OnApply(n, u, C)
    <2> PICK n \in Names, u \in Uids, C \in SUBSET Containers : OnApply(n, u, C)
      BY <1>2
    <2>1. [pod |-> n, uid |-> u] \in Locators
      BY DEF Locators
    <2> QED BY <2>1, PodKeysAreKeys DEF OnApply, KeysOf
  <1>3. CASE \E n \in Names, u \in Uids : \E C \in SUBSET Containers : OnInitApply(n, u, C)
    <2> PICK n \in Names, u \in Uids, C \in SUBSET Containers : OnInitApply(n, u, C)
      BY <1>3
    <2>1. [pod |-> n, uid |-> u] \in Locators
      BY DEF Locators
    <2> QED BY <2>1, PodKeysAreKeys DEF OnInitApply
  <1>4. CASE OnInitBegin
    BY <1>4 DEF OnInitBegin
  <1>5. CASE OnInitDone
    BY <1>5, LocatorType DEF OnInitDone, OnInitSnapshot
  <1>6. CASE \E S \in Snapshots : NoFollowSnapshot(S)
    BY <1>6, LocatorType DEF NoFollowSnapshot, OnInitSnapshot, Snapshots
  <1> QED BY <1>1, <1>2, <1>3, <1>4, <1>5, <1>6 DEF PodEvent

\* So do the mux task's steps, MuxExit included.
LEMMA MuxType ==
  ASSUME TypeOK, MuxStep
  PROVE  /\ end' \in [Tasks -> {"none", "eof", "cancelled"}]
         /\ mpc' \in {"select", "forward", "stopped"}
         /\ muxq' \in Seq(Commands) /\ Len(muxq') <= MuxCap
         /\ map' \in [Keys -> Tasks \cup {None}]
         /\ stat' \in Nat /\ cut' \subseteq Tasks
  <1> USE DEF TypeOK
  <1>0. \A S \in SUBSET Tasks : DropStreams(S) =>
          end' \in [Tasks -> {"none", "eof", "cancelled"}] /\ cut' \subseteq Tasks
    BY DEF DropStreams, StreamEnd
  <1>1. CASE MuxExit
    <2>1. Queued \cup Mapped \in SUBSET Tasks
      BY StreamSetTypes
    <2>2. <<>> \in Seq(Commands) /\ Len(<<>>) = 0
      OBVIOUS
    <2> QED BY <1>0, <1>1, <2>1, <2>2, BoundsAssumption DEF MuxExit
  <1>2. muxq # <<>> =>
          /\ Head(muxq).key \in Keys /\ Head(muxq).task \in Tasks \cup {None}
          /\ Tail(muxq) \in Seq(Commands) /\ Len(Tail(muxq)) <= MuxCap
    BY BoundsAssumption, QueueTail, CommandType
  <1>3. \A k \in Keys : {map[k]} \ {None} \in SUBSET Tasks
    OBVIOUS
  <1>4. CASE MuxAdd
    BY <1>0, <1>2, <1>3, <1>4, StreamCountType DEF MuxAdd
  <1>5. CASE MuxRemove
    BY <1>0, <1>2, <1>3, <1>5, StreamCountType DEF MuxRemove
  <1>6. CASE RawSent
    BY <1>1, <1>6 DEF RawSent
  <1>7. CASE \E k \in Keys : MuxRow(k)
    BY <1>1, <1>7 DEF MuxRow
  <1>8. CASE \E k \in Keys : MuxStreamEnd(k)
    BY <1>8 DEF MuxStreamEnd, StreamEnd, PollStream
  <1> QED BY <1>1, <1>4, <1>5, <1>6, <1>7, <1>8
       DEF MuxStep, MuxCommand, MuxCancelled, MuxClosed

\* So do the attach tasks' steps; the retry count stays within its bound.
LEMMA AttachType ==
  ASSUME TypeOK, KeysKnown, NEW t \in Tasks, AttachStep(t)
  PROVE  /\ rootCancelled' \in BOOLEAN /\ limitHit' \in BOOLEAN
         /\ pc' \in [Tasks -> AttachPCs] /\ reopen' \in [Tasks -> BOOLEAN]
         /\ failures' \in [Tasks -> 0..MaxReopenStartRetries]
         /\ permits' \in Nat
         /\ end' \in [Tasks -> {"none", "eof", "cancelled"}]
         /\ muxq' \in Seq(Commands) /\ Len(muxq') <= MuxCap
  <1>1. pc' \in [Tasks -> AttachPCs]
    BY AttachFrame DEF TypeOK
  <1>2. CASE SendAdd(t)
    <2>1. [op |-> "Add", key |-> key[t], task |-> t] \in Commands
      BY <1>2 DEF SendAdd, GoTo, KeysKnown, Commands
    <2>2. Len(muxq) \in Nat /\ Len(muxq) < MuxCap
      BY <1>2, CommandType DEF SendAdd
    <2>3. muxq' \in Seq(Commands) /\ Len(muxq') = Len(muxq) + 1
      BY <1>2, <2>1, QueueAppend DEF SendAdd
    <2>4. Len(muxq') <= MuxCap
      BY <2>2, <2>3, BoundsAssumption
    <2> QED BY <1>1, <1>2, <2>3, <2>4 DEF SendAdd, TypeOK
  <1>3. CASE OpenErr(t)
    <2>1. failures[t] \in 0..MaxReopenStartRetries
      BY DEF TypeOK
    <2>2. \/ failures' = failures
          \/ /\ failures[t] < MaxReopenStartRetries
             /\ failures' = [failures EXCEPT ![t] = failures[t] + 1]
      BY <1>3 DEF OpenErr
    <2>5. failures[t] < MaxReopenStartRetries => failures[t] + 1 \in 0..MaxReopenStartRetries
      BY <2>1, BoundsAssumption
    <2>3. failures' \in [Tasks -> 0..MaxReopenStartRetries]
      BY <2>2, <2>5 DEF TypeOK
    <2>4. permits' \in Nat
      BY <1>3 DEF OpenErr, TypeOK
    <2> QED BY <1>1, <1>3, <2>3, <2>4 DEF OpenErr, TypeOK
  <1>4. CASE OpenOk(t)
    BY <1>1, <1>4, BoundsAssumption DEF OpenOk, TypeOK
  <1>5. CASE OnStreamEnd(t)
    BY <1>1, <1>5 DEF OnStreamEnd, TypeOK
  <1>6. CASE LoopTop(t) \/ LimitNotify(t) \/ LimitCancel(t) \/ BackoffOver(t)
    BY <1>1, <1>6 DEF LoopTop, LimitNotify, LimitCancel, BackoffOver, TypeOK
  <1>7. CASE Acquire(t) \/ SendAddClosed(t) \/ ReleasePermit(t)
    BY <1>1, <1>7 DEF Acquire, SendAddClosed, ReleasePermit, TypeOK
  <1> QED BY <1>2, <1>3, <1>4, <1>5, <1>6, <1>7 DEF AttachStep

\* So do the watch task's steps.
LEMMA WatchType ==
  ASSUME TypeOK, KeysKnown, WatchStep \/ WatchStop
  PROVE  TypeOK'
  <1>1. ASSUME NEW k \in Keys, DropKey(k) PROVE TypeOK'
    BY <1>1 DEF DropKey, TypeOK
  <1>2. CASE SendRemove
    <2>1. [op |-> "Remove", key |-> removing, task |-> None] \in Commands
      BY <1>2 DEF SendRemove, KeysKnown, Commands
    <2>2. CASE mpc # "stopped"
      <3>1. Len(muxq) \in Nat /\ Len(muxq) < MuxCap
        BY <1>2, <2>2, CommandType DEF SendRemove
      <3>2. muxq' \in Seq(Commands) /\ Len(muxq') = Len(muxq) + 1
        BY <1>2, <2>1, <2>2, QueueAppend DEF SendRemove
      <3>3. Len(muxq') <= MuxCap
        BY <3>1, <3>2, BoundsAssumption
      <3> QED BY <1>2, <3>2, <3>3 DEF SendRemove, TypeOK
    <2>3. CASE mpc = "stopped"
      BY <1>2, <2>3 DEF SendRemove, TypeOK
    <2> QED BY <2>2, <2>3
  <1>3. ASSUME NEW k \in Keys, NEW t \in Tasks, AddKey(k, t) PROVE TypeOK'
    BY <1>3 DEF AddKey, TypeOK, AttachPCs
  <1>4. CASE Reconciled \/ WatchStop
    BY <1>4 DEF Reconciled, WatchStop, TypeOK
  <1> QED BY <1>1, <1>2, <1>3, <1>4 DEF WatchStep

\* TypeOK is preserved, given that started tasks have keys.
LEMMA TypeStep ==
  ASSUME TypeOK, KeysKnown, [Next]_vars
  PROVE  TypeOK'
  <1>1. CASE PodEvent
    BY <1>1, EventType, EventFrame DEF TypeOK
  <1>2. CASE WatchStep \/ WatchStop
    BY <1>2, WatchType
  <1>3. ASSUME NEW t \in Tasks, AttachStep(t) PROVE TypeOK'
    BY <1>3, AttachType, AttachFrame DEF TypeOK
  <1>4. CASE MuxStep
    BY <1>4, MuxType, MuxFrame DEF TypeOK
  <1>5. CASE RootCancel \/ ForwardGone \/ UNCHANGED vars
    BY <1>5 DEF RootCancel, ForwardGone, TypeOK
  <1> QED BY <1>1, <1>2, <1>3, <1>4, <1>5, NextCases

(***************************************************************************)
(* The watch task's work list and the registry.                            *)
(***************************************************************************)
\* A pod event computes its work from the registry: what it adds is not active,
\* and metadata covers what will be active once the work is done.
LEMMA EventWork ==
  ASSUME TypeOK, HandlerInv, PodEvent
  PROVE  HandlerInv'
  <1> USE DEF TypeOK, HandlerInv, Reconcile
  <1>1. ASSUME NEW n \in Names, NEW u \in Uids, OnDelete(n, u) PROVE HandlerInv'
    BY <1>1 DEF OnDelete, KeysOfPod, Locator
  <1>2. ASSUME NEW n \in Names, NEW u \in Uids, NEW C \in SUBSET Containers, OnApply(n, u, C)
        PROVE  HandlerInv'
    BY <1>2, PodKeysAreKeys DEF OnApply, KeysOf
  <1>3. ASSUME NEW n \in Names, NEW u \in Uids, NEW C \in SUBSET Containers,
               OnInitApply(n, u, C)
        PROVE  HandlerInv'
    BY <1>3 DEF OnInitApply
  <1>4. CASE OnInitBegin
    BY <1>4 DEF OnInitBegin
  <1>5. CASE OnInitDone
    BY <1>5 DEF OnInitDone, OnInitSnapshot
  <1>6. ASSUME NEW S \in Snapshots, NoFollowSnapshot(S) PROVE HandlerInv'
    BY <1>6 DEF NoFollowSnapshot, OnInitSnapshot
  <1> QED BY <1>1, <1>2, <1>3, <1>4, <1>5, <1>6 DEF PodEvent, OnApplyRefused

\* HandlerInv is preserved: the work list shrinks as it is carried out.
LEMMA HandlerStep ==
  ASSUME TypeOK, HandlerInv, [Next]_vars
  PROVE  HandlerInv'
  <1> USE DEF HandlerInv
  <1>1. CASE PodEvent
    BY <1>1, EventWork
  <1>2. CASE WatchStep \/ WatchStop
    BY <1>2 DEF WatchStep, WatchStop, DropKey, SendRemove, AddKey, Reconciled, TypeOK
  <1>3. ASSUME NEW t \in Tasks, AttachStep(t) PROVE HandlerInv'
    BY <1>3, AttachFrame
  <1>4. CASE MuxStep
    BY <1>4, MuxFrame
  <1>5. CASE RootCancel \/ ForwardGone \/ UNCHANGED vars
    BY <1>5 DEF RootCancel, ForwardGone
  <1> QED BY <1>1, <1>2, <1>3, <1>4, <1>5, NextCases

\* KeysKnown is preserved: AddKey gives a task its key, DropKey clears the token.
LEMMA KeysKnownStep ==
  ASSUME TypeOK, KeysKnown, [Next]_vars
  PROVE  KeysKnown'
  <1> USE DEF KeysKnown
  <1>1. CASE PodEvent
    BY <1>1, EventFrame, EventType
  <1>2. CASE WatchStep \/ WatchStop
    <2>1. ASSUME NEW k \in Keys, DropKey(k) PROVE KeysKnown'
      BY <2>1 DEF DropKey, TypeOK
    <2>2. ASSUME NEW k \in Keys, NEW t \in Tasks, AddKey(k, t) PROVE KeysKnown'
      BY <2>2 DEF AddKey, TypeOK
    <2>3. CASE SendRemove \/ Reconciled \/ WatchStop
      BY <2>3 DEF SendRemove, Reconciled, WatchStop
    <2> QED BY <1>2, <2>1, <2>2, <2>3 DEF WatchStep
  <1>3. ASSUME NEW t \in Tasks, AttachStep(t) PROVE KeysKnown'
    BY <1>3, AttachFrame DEF TypeOK
  <1>4. CASE MuxStep
    BY <1>4, MuxFrame
  <1>5. CASE RootCancel \/ ForwardGone \/ UNCHANGED vars
    BY <1>5 DEF RootCancel, ForwardGone
  <1> QED BY <1>1, <1>2, <1>3, <1>4, <1>5, NextCases

\* RegistryInv is preserved: a token changes only together with active and cancelled.
LEMMA RegistryStep ==
  ASSUME TypeOK, KeysKnown, HandlerInv, RegistryInv, [Next]_vars
  PROVE  RegistryInv'
  <1> USE DEF RegistryInv, RegistryConsistent, NoOrphanTask
  <1>1. CASE PodEvent
    BY <1>1, EventFrame
  <1>2. ASSUME NEW k \in Keys, DropKey(k) PROVE RegistryInv'
    BY <1>2, NoneAssumption DEF DropKey, TypeOK, KeysKnown
  <1>3. ASSUME NEW k \in Keys, NEW t \in Tasks, AddKey(k, t) PROVE RegistryInv'
    BY <1>3, NoneAssumption DEF AddKey, TypeOK, KeysKnown, HandlerInv
  <1>4. CASE SendRemove \/ Reconciled \/ WatchStop
    BY <1>4 DEF SendRemove, Reconciled, WatchStop
  <1>5. ASSUME NEW t \in Tasks, AttachStep(t) PROVE RegistryInv'
    BY <1>5, AttachFrame DEF TypeOK
  <1>6. CASE MuxStep
    BY <1>6, MuxFrame
  <1>7. CASE RootCancel \/ ForwardGone \/ UNCHANGED vars
    BY <1>7 DEF RootCancel, ForwardGone
  <1> QED BY <1>1, <1>2, <1>3, <1>4, <1>5, <1>6, <1>7, NextCases DEF WatchStep

(***************************************************************************)
(* Permits.                                                                *)
(***************************************************************************)
\* A task that takes a permit was not a holder, one that returns it was.
LEMMA HoldersChange ==
  ASSUME TypeOK, NEW t \in Tasks, NEW p \in AttachPCs, pc' = [pc EXCEPT ![t] = p]
  PROVE  /\ IsFiniteSet(Holders) /\ Cardinality(Holders) \in Nat
         /\ Holders' = IF p \in {"open", "add", "release"} THEN Holders \cup {t}
                       ELSE Holders \ {t}
         /\ Cardinality(Holders \cup {t}) =
              IF t \in Holders THEN Cardinality(Holders) ELSE Cardinality(Holders) + 1
         /\ Cardinality(Holders \ {t}) =
              IF t \in Holders THEN Cardinality(Holders) - 1 ELSE Cardinality(Holders)
  <1>1. IsFiniteSet(Holders)
    BY BoundsAssumption, FS_Subset DEF Holders
  <1>2. Holders' = IF p \in {"open", "add", "release"} THEN Holders \cup {t}
                   ELSE Holders \ {t}
    BY DEF TypeOK, Holders
  <1> QED BY <1>1, <1>2, FS_CardinalityType, FS_AddElement, FS_RemoveElement

\* PermitsAccounted is preserved: a task takes or gives back one permit as it enters or

\* leaves the stretch from open to release.
LEMMA PermitStep ==
  ASSUME TypeOK, PermitsAccounted, [Next]_vars
  PROVE  PermitsAccounted'
  <1>1. CASE PodEvent
    BY <1>1, EventFrame DEF PermitsAccounted, Holders
  <1>2. ASSUME NEW k \in Keys, NEW t \in Tasks, AddKey(k, t) PROVE PermitsAccounted'
    <2>1. Holders' = Holders
      BY <1>2 DEF AddKey, Holders, TypeOK
    <2> QED BY <1>2, <2>1 DEF AddKey, PermitsAccounted
  <1>3. CASE (\E k \in Keys : DropKey(k)) \/ SendRemove \/ Reconciled \/ WatchStop
    BY <1>3 DEF DropKey, SendRemove, Reconciled, WatchStop, PermitsAccounted, Holders
  <1>4. ASSUME NEW t \in Tasks, AttachStep(t) PROVE PermitsAccounted'
    <2> PICK p \in AttachPCs : pc' = [pc EXCEPT ![t] = p]
      BY <1>4, AttachFrame
    <2>0. permits \in Nat /\ PermitTotal \in Nat /\ pc'[t] = p
      BY BoundsAssumption DEF TypeOK, PermitTotal
    <2>5. /\ Cardinality(Holders) \in Nat
          /\ Holders' = IF p \in {"open", "add", "release"} THEN Holders \cup {t}
                        ELSE Holders \ {t}
          /\ Cardinality(Holders \cup {t}) =
               IF t \in Holders THEN Cardinality(Holders) ELSE Cardinality(Holders) + 1
          /\ Cardinality(Holders \ {t}) =
               IF t \in Holders THEN Cardinality(Holders) - 1 ELSE Cardinality(Holders)
      BY HoldersChange
    <2>6. permits + Cardinality(Holders) = PermitTotal
      BY DEF PermitsAccounted
    <2>1. CASE Acquire(t)
      <3>1. t \notin Holders /\ p = "open" /\ permits' = permits - 1
        BY <2>0, <2>1 DEF Acquire, GoTo, Holders, TypeOK
      <3>2. Cardinality(Holders') = Cardinality(Holders) + 1
        BY <2>5, <3>1
      <3>3. permits' + Cardinality(Holders') = PermitTotal
        BY <2>0, <2>5, <2>6, <3>1, <3>2
      <3> QED BY <3>3 DEF PermitsAccounted
    <2>2. CASE OpenErr(t) \/ SendAddClosed(t) \/ ReleasePermit(t)
      <3>1. t \in Holders /\ p \in {"backoff", "returned", "streaming"} /\ permits' = permits + 1
        BY <2>0, <2>2 DEF OpenErr, SendAddClosed, ReleasePermit, GoTo, Holders, TypeOK
      <3>2. Cardinality(Holders') = Cardinality(Holders) - 1
        BY <2>5, <3>1
      <3>3. permits' + Cardinality(Holders') = PermitTotal
        BY <2>0, <2>5, <2>6, <3>1, <3>2
      <3> QED BY <3>3 DEF PermitsAccounted
    <2>3. CASE OpenOk(t) \/ SendAdd(t)
      <3>1. t \in Holders /\ p \in {"add", "release"} /\ permits' = permits
        BY <2>0, <2>3 DEF OpenOk, SendAdd, GoTo, Holders, TypeOK
      <3>2. Cardinality(Holders') = Cardinality(Holders)
        BY <2>5, <3>1
      <3>3. permits' + Cardinality(Holders') = PermitTotal
        BY <2>0, <2>5, <2>6, <3>1, <3>2
      <3> QED BY <3>3 DEF PermitsAccounted
    <2>4. CASE LoopTop(t) \/ LimitNotify(t) \/ LimitCancel(t) \/ OnStreamEnd(t) \/ BackoffOver(t)
      <3>1. t \notin Holders /\ p \notin {"open", "add", "release"} /\ permits' = permits
        BY <2>0, <2>4 DEF LoopTop, LimitNotify, LimitCancel, OnStreamEnd, BackoffOver, GoTo,
                          Holders, TypeOK
      <3>2. Cardinality(Holders') = Cardinality(Holders)
        BY <2>5, <3>1
      <3>3. permits' + Cardinality(Holders') = PermitTotal
        BY <2>0, <2>5, <2>6, <3>1, <3>2
      <3> QED BY <3>3 DEF PermitsAccounted
    <2> QED BY <1>4, <2>1, <2>2, <2>3, <2>4 DEF AttachStep
  <1>5. CASE MuxStep
    BY <1>5, MuxFrame DEF PermitsAccounted, Holders
  <1>6. CASE RootCancel \/ ForwardGone \/ UNCHANGED vars
    BY <1>6 DEF RootCancel, ForwardGone, PermitsAccounted, Holders
  <1> QED BY <1>1, <1>2, <1>3, <1>4, <1>5, <1>6, NextCases DEF WatchStep

(***************************************************************************)
(* Streams: in the channel, in the map, or ended and reported.             *)
(***************************************************************************)
\* Sending a command adds its stream to the queued ones.
LEMMA QueuedSend ==
  ASSUME TypeOK, TypeOK', NEW c \in Commands, muxq' = Append(muxq, c)
  PROVE  Queued' = Queued \cup ({c.task} \ {None})
  <1>1. DOMAIN muxq = 1..Len(muxq) /\ DOMAIN muxq' = 1..(Len(muxq) + 1) /\ Len(muxq) \in Nat
    BY CommandType, QueueAppend DEF TypeOK
  <1>2. /\ muxq'[Len(muxq) + 1] = c
        /\ \A i \in 1..Len(muxq) : muxq'[i] = muxq[i]
    BY QueueAppend
  <1>3. ASSUME NEW x \in Queued' PROVE x \in Queued \cup ({c.task} \ {None})
    <2> PICK i \in 1..(Len(muxq) + 1) : x = muxq'[i].task /\ x # None
      BY <1>1 DEF Queued
    <2>1. CASE i = Len(muxq) + 1
      BY <1>2, <2>1
    <2>2. CASE i \in 1..Len(muxq)
      BY <1>1, <1>2, <2>2 DEF Queued
    <2> QED BY <1>1, <2>1, <2>2
  <1>4. ASSUME NEW x \in Queued PROVE x \in Queued'
    <2> PICK i \in 1..Len(muxq) : x = muxq[i].task /\ x # None
      BY <1>1 DEF Queued
    <2>1. i \in DOMAIN muxq' /\ muxq'[i].task = x
      BY <1>1, <1>2
    <2> QED BY <2>1 DEF Queued
  <1>5. c.task # None => c.task \in Queued'
    <2>1. Len(muxq) + 1 \in DOMAIN muxq'
      BY <1>1
    <2> QED BY <1>2, <2>1 DEF Queued
  <1> QED BY <1>3, <1>4, <1>5

\* Receiving a command takes its stream, and no other, out of the queued ones.
LEMMA QueuedRecv ==
  ASSUME TypeOK, TypeOK', muxq # <<>>, muxq' = Tail(muxq), UniqueInQueue
  PROVE  Queued' = Queued \ {Head(muxq).task}
  <1>1. /\ DOMAIN muxq = 1..Len(muxq) /\ DOMAIN muxq' = 1..(Len(muxq) - 1)
        /\ Len(muxq) \in Nat /\ Len(muxq) >= 1
    BY CommandType, QueueTail DEF TypeOK
  <1>2. /\ Head(muxq) = muxq[1]
        /\ \A i \in 1..(Len(muxq) - 1) : muxq'[i] = muxq[i + 1]
    BY QueueTail
  <1>3. ASSUME NEW x \in Queued' PROVE x \in Queued \ {Head(muxq).task}
    <2> PICK i \in 1..(Len(muxq) - 1) : x = muxq'[i].task /\ x # None
      BY <1>1 DEF Queued
    <2>1. i + 1 \in DOMAIN muxq /\ 1 \in DOMAIN muxq /\ i + 1 # 1 /\ muxq[i + 1].task = x
      BY <1>1, <1>2
    <2>2. x \in Queued
      BY <2>1 DEF Queued
    <2>3. x # muxq[1].task
      BY <2>1 DEF UniqueInQueue
    <2> QED BY <1>2, <2>2, <2>3
  <1>4. ASSUME NEW x \in Queued, x # Head(muxq).task PROVE x \in Queued'
    <2> PICK i \in 1..Len(muxq) : x = muxq[i].task /\ x # None
      BY <1>1 DEF Queued
    <2>1. i # 1
      BY <1>2, <1>4
    <2>2. i - 1 \in 1..(Len(muxq) - 1) /\ (i - 1) + 1 = i
      BY <1>1, <2>1
    <2>3. i - 1 \in DOMAIN muxq' /\ muxq'[i - 1].task = x
      BY <1>1, <1>2, <2>2
    <2> QED BY <2>3 DEF Queued
  <1> QED BY <1>3, <1>4

\* Sending a new stream, or a Remove, keeps QueueInv.
LEMMA QueueSend ==
  ASSUME TypeOK, TypeOK', QueueInv, NEW c \in Commands, muxq' = Append(muxq, c), key' = key,
         c.op = "Add" => c.task \in Tasks /\ key[c.task] = c.key,
         c.op = "Remove" => c.task = None,
         c.task \notin Queued
  PROVE  QueueInv'
  <1>1. DOMAIN muxq = 1..Len(muxq) /\ DOMAIN muxq' = 1..(Len(muxq) + 1) /\ Len(muxq) \in Nat
    BY CommandType, QueueAppend DEF TypeOK
  <1>2. /\ muxq'[Len(muxq) + 1] = c
        /\ \A i \in 1..Len(muxq) : muxq'[i] = muxq[i]
    BY QueueAppend
  <1>3. \A i \in DOMAIN muxq' : i = Len(muxq) + 1 \/ i \in DOMAIN muxq
    BY <1>1
  <1>4. \A i \in DOMAIN muxq : muxq[i].task = c.task => c.task = None
    BY DEF Queued
  <1>5. UniqueInQueue'
    BY <1>1, <1>2, <1>3, <1>4 DEF QueueInv, UniqueInQueue
  <1>6. c.op \in {"Add", "Remove"}
    BY CommandType
  <1> QED BY <1>1, <1>2, <1>3, <1>5, <1>6 DEF QueueInv

\* Receiving keeps QueueInv.
LEMMA QueueRecv ==
  ASSUME TypeOK, TypeOK', QueueInv, muxq # <<>>, muxq' = Tail(muxq), key' = key
  PROVE  QueueInv'
  <1>1. /\ DOMAIN muxq = 1..Len(muxq) /\ DOMAIN muxq' = 1..(Len(muxq) - 1)
        /\ Len(muxq) \in Nat /\ Len(muxq) >= 1
    BY CommandType, QueueTail DEF TypeOK
  <1>2. \A i \in 1..(Len(muxq) - 1) : muxq'[i] = muxq[i + 1]
    BY QueueTail
  <1>3. \A i \in DOMAIN muxq' : i + 1 \in DOMAIN muxq /\ muxq'[i] = muxq[i + 1]
    BY <1>1, <1>2
  <1>4. \A i, j \in DOMAIN muxq' : i + 1 = j + 1 => i = j
    BY <1>1
  <1>5. UniqueInQueue'
    BY <1>3, <1>4 DEF QueueInv, UniqueInQueue
  <1> QED BY <1>3, <1>5 DEF QueueInv

\* The watch task does not move streams; a fresh task has none.
LEMMA PlaceWatch ==
  ASSUME TypeOK, TypeOK', KeysKnown, QueueInv, PlaceInv, WatchStep \/ WatchStop
  PROVE  QueueInv' /\ PlaceInv'
  <1>1. CASE (\E k \in Keys : DropKey(k)) \/ Reconciled \/ WatchStop
    BY <1>1 DEF DropKey, Reconciled, WatchStop, QueueInv, UniqueInQueue, PlaceInv, Queued, Mapped
  <1>2. CASE SendRemove
    <2>1. UNCHANGED <<pc, key, end, map>>
      BY <1>2 DEF SendRemove
    <2>2. CASE muxq' = muxq
      BY <2>1, <2>2 DEF QueueInv, UniqueInQueue, PlaceInv, Queued, Mapped
    <2>3. CASE muxq' = Append(muxq, [op |-> "Remove", key |-> removing, task |-> None])
      <3> DEFINE c == [op |-> "Remove", key |-> removing, task |-> None]
      <3>1. c \in Commands /\ c.task = None /\ c.op = "Remove"
        BY <1>2 DEF SendRemove, KeysKnown, Commands
      <3>2. Queued' = Queued
        BY <2>3, <3>1, QueuedSend
      <3>3. None \notin Queued
        BY DEF Queued
      <3>4. QueueInv'
        BY <2>1, <2>3, <3>1, <3>3, QueueSend
      <3> QED BY <2>1, <3>2, <3>4 DEF PlaceInv, Mapped
    <2> QED BY <1>2, <2>2, <2>3 DEF SendRemove
  <1>3. ASSUME NEW k \in Keys, NEW t \in Tasks, AddKey(k, t) PROVE QueueInv' /\ PlaceInv'
    <2>1. /\ UNCHANGED <<end, muxq, map>> /\ Queued' = Queued /\ Mapped' = Mapped
          /\ pc[t] = "free" /\ pc' = [pc EXCEPT ![t] = "top"] /\ key' = [key EXCEPT ![t] = k]
      BY <1>3 DEF AddKey, Queued, Mapped
    <2>2. t \notin Queued /\ t \notin Mapped
      BY <2>1 DEF PlaceInv
    <2>3. \A i \in DOMAIN muxq : muxq[i].task # t
      BY <2>2, NoneAssumption DEF Queued
    <2>4. \A l \in Keys : map[l] # t
      BY <2>2, NoneAssumption DEF Mapped
    <2>5. QueueInv'
      BY <2>1, <2>3 DEF QueueInv, UniqueInQueue, TypeOK
    <2>6. PlaceInv'
      BY <2>1, <2>4 DEF PlaceInv, TypeOK
    <2> QED BY <2>5, <2>6
  <1> QED BY <1>1, <1>2, <1>3 DEF WatchStep

\* An attach task moves its own stream into the channel, or takes its end.
LEMMA PlaceAttach ==
  ASSUME TypeOK, TypeOK', KeysKnown, QueueInv, PlaceInv, NEW t \in Tasks, AttachStep(t)
  PROVE  QueueInv' /\ PlaceInv'
  <1>1. UNCHANGED <<key, map>> /\ Mapped' = Mapped
    BY AttachFrame DEF Mapped
  <1>2. CASE SendAdd(t)
    <2> DEFINE c == [op |-> "Add", key |-> key[t], task |-> t]
    <2>1. c \in Commands /\ c.task = t /\ c.op = "Add" /\ c.key = key[t] /\ t # None
      BY <1>2, NoneAssumption DEF SendAdd, GoTo, KeysKnown, Commands
    <2>2. pc[t] = "add" /\ pc' = [pc EXCEPT ![t] = "release"] /\ end' = end
          /\ muxq' = Append(muxq, c)
      BY <1>2 DEF SendAdd, GoTo
    <2>3. t \notin Queued /\ t \notin Mapped /\ end[t] = "none"
      BY <2>2 DEF PlaceInv
    <2>4. QueueInv'
      BY <1>1, <2>1, <2>2, <2>3, QueueSend
    <2>5. Queued' = Queued \cup {t}
      BY <2>1, <2>2, QueuedSend
    <2>6. PlaceInv'
      BY <1>1, <2>2, <2>3, <2>5 DEF PlaceInv, TypeOK
    <2> QED BY <2>4, <2>6
  <1>3. CASE OnStreamEnd(t)
    BY <1>1, <1>3 DEF OnStreamEnd, GoTo, QueueInv, UniqueInQueue, PlaceInv, Queued, TypeOK
  <1>4. CASE ReleasePermit(t)
    BY <1>1, <1>4 DEF ReleasePermit, GoTo, QueueInv, UniqueInQueue, PlaceInv, Queued, TypeOK
  <1>5. CASE LoopTop(t) \/ Acquire(t) \/ LimitNotify(t) \/ LimitCancel(t) \/ OpenOk(t)
             \/ OpenErr(t) \/ SendAddClosed(t) \/ BackoffOver(t)
    <2>1. UNCHANGED <<end, muxq>> /\ Queued' = Queued
      BY <1>5 DEF LoopTop, Acquire, LimitNotify, LimitCancel, OpenOk, OpenErr, SendAddClosed,
                  BackoffOver, Queued
    <2>2. \E p \in AttachPCs \ {"release", "streaming"} :
            pc[t] \notin {"release", "streaming"} /\ pc' = [pc EXCEPT ![t] = p]
      BY <1>5 DEF LoopTop, Acquire, LimitNotify, LimitCancel, OpenOk, OpenErr, SendAddClosed,
                  BackoffOver, GoTo, AttachPCs
    <2>3. QueueInv'
      BY <1>1, <2>1 DEF QueueInv, UniqueInQueue
    <2>4. PlaceInv'
      BY <1>1, <2>1, <2>2 DEF PlaceInv, TypeOK
    <2> QED BY <2>3, <2>4
  <1> QED BY <1>2, <1>3, <1>4, <1>5 DEF AttachStep

\* The mux moves streams from the channel to the map, and reports each one it lets go.
LEMMA PlaceMux ==
  ASSUME TypeOK, TypeOK', QueueInv, PlaceInv, MuxStep
  PROVE  QueueInv' /\ PlaceInv'
  <1>0. UNCHANGED <<rootCancelled, cancelled, pc, key>>
    BY MuxFrame
  <1>1. \A t \in Tasks : StreamEnd(t) # "none"
    BY DEF StreamEnd
  <1>2. CASE MuxExit
    <2>1. muxq' = <<>> /\ Queued' = {} /\ Mapped' = {} /\ map' = [k \in Keys |-> None]
      BY <1>2 DEF MuxExit, Queued, Mapped
    <2>2. end' = [t \in Tasks |-> IF t \in Queued \cup Mapped THEN StreamEnd(t) ELSE end[t]]
      BY <1>2 DEF MuxExit, DropStreams
    <2>3. QueueInv'
      BY <2>1 DEF QueueInv, UniqueInQueue
    <2>4. PlaceInv'
      BY <1>0, <1>1, <2>1, <2>2 DEF PlaceInv
    <2> QED BY <2>3, <2>4
  <1>3. CASE MuxAdd
    <2> DEFINE c == Head(muxq)
    <2>1. /\ muxq # <<>> /\ c.op = "Add" /\ muxq' = Tail(muxq)
          /\ map' = [map EXCEPT ![c.key] = c.task]
          /\ end' = [t \in Tasks |-> IF t \in {map[c.key]} \ {None} THEN StreamEnd(t)
                                     ELSE end[t]]
      BY <1>3 DEF MuxAdd, DropStreams
    <2>2. c = muxq[1] /\ 1 \in DOMAIN muxq
      BY <2>1, QueueTail, CommandType
    <2>3. c.task \in Tasks /\ key[c.task] = c.key /\ c.key \in Keys /\ c.task # None
      BY <2>1, <2>2, CommandType, NoneAssumption DEF QueueInv
    <2>4. Queued' = Queued \ {c.task} /\ c.task \in Queued
      BY <2>1, <2>2, <2>3, QueuedRecv DEF QueueInv, Queued
    <2>5. c.task \notin Mapped
      BY <2>4 DEF PlaceInv
    <2>6. Mapped' = (Mapped \ {map[c.key]}) \cup {c.task}
      <3>1. \A k, l \in Keys : map[k] = map[l] /\ map[k] # None => k = l
        BY DEF PlaceInv
      <3> QED BY <2>1, <2>3, <3>1 DEF Mapped, TypeOK
    <2>7. map[c.key] # None => map[c.key] \in Mapped /\ map[c.key] \in Tasks
      BY <2>3 DEF Mapped, TypeOK
    <2>8. PlaceInv'
      <3>1. \A k \in Keys : map'[k] # None => key'[map'[k]] = k
        BY <1>0, <2>1, <2>3 DEF PlaceInv, TypeOK
      <3>2. Queued' \cap Mapped' = {}
        BY <2>4, <2>6 DEF PlaceInv
      <3>3. \A t \in Tasks : pc'[t] \notin {"release", "streaming"} => end'[t] = "none"
        BY <1>0, <2>1, <2>7 DEF PlaceInv
      <3>4. ASSUME NEW t \in Tasks
            PROVE  t \in Queued' \cup Mapped'
                     <=> pc'[t] \in {"release", "streaming"} /\ end'[t] = "none"
        <4>1. CASE t = map[c.key]
          <5>1. t # c.task /\ t \in Mapped /\ t \notin Queued /\ t # None
            BY <2>4, <2>5, <2>7, <4>1, NoneAssumption DEF PlaceInv
          <5> QED BY <1>1, <2>1, <2>4, <2>6, <4>1, <5>1
        <4>2. CASE t # map[c.key]
          <5>1. end'[t] = end[t] /\ (t \in Queued' \cup Mapped' <=> t \in Queued \cup Mapped)
            BY <2>1, <2>4, <2>6, <4>2
          <5> QED BY <1>0, <5>1 DEF PlaceInv
        <4> QED BY <4>1, <4>2
      <3> QED BY <3>1, <3>2, <3>3, <3>4 DEF PlaceInv
    <2> QED BY <1>0, <2>1, <2>8, QueueRecv
  <1>4. CASE MuxRemove
    <2> DEFINE k == Head(muxq).key
    <2>1. /\ muxq # <<>> /\ Head(muxq).op = "Remove" /\ muxq' = Tail(muxq)
          /\ map' = [map EXCEPT ![k] = None]
          /\ end' = [t \in Tasks |-> IF t \in {map[k]} \ {None} THEN StreamEnd(t) ELSE end[t]]
      BY <1>4 DEF MuxRemove, DropStreams
    <2>2. Head(muxq) = muxq[1] /\ 1 \in DOMAIN muxq
      BY <2>1, QueueTail, CommandType
    <2>3. Head(muxq).task = None /\ k \in Keys
      BY <2>1, <2>2, CommandType DEF QueueInv
    <2>4. Queued' = Queued
      BY <2>1, <2>3, QueuedRecv DEF QueueInv, Queued
    <2>5. Mapped' = Mapped \ {map[k]}
      <3>1. \A j, l \in Keys : map[j] = map[l] /\ map[j] # None => j = l
        BY DEF PlaceInv
      <3> QED BY <2>1, <2>3, <3>1 DEF Mapped, TypeOK
    <2>6. map[k] # None => map[k] \in Mapped
      BY <2>3 DEF Mapped
    <2>7. PlaceInv'
      BY <1>0, <1>1, <2>1, <2>3, <2>4, <2>5, <2>6, NoneAssumption DEF PlaceInv, TypeOK
    <2> QED BY <1>0, <2>1, <2>7, QueueRecv
  <1>5. ASSUME NEW k \in Keys, MuxStreamEnd(k) PROVE QueueInv' /\ PlaceInv'
    <2>1. /\ map[k] \in Tasks /\ map[k] # None /\ muxq' = muxq /\ Queued' = Queued
          /\ map' = [map EXCEPT ![k] = None]
          /\ end' = [end EXCEPT ![map[k]] = StreamEnd(map[k])]
      BY <1>5 DEF MuxStreamEnd, PollStream, Queued, TypeOK
    <2>2. Mapped' = Mapped \ {map[k]} /\ map[k] \in Mapped
      <3>1. \A j, l \in Keys : map[j] = map[l] /\ map[j] # None => j = l
        BY DEF PlaceInv
      <3> QED BY <2>1, <3>1 DEF Mapped, TypeOK
    <2>3. QueueInv'
      BY <1>0, <2>1 DEF QueueInv, UniqueInQueue
    <2>4. PlaceInv'
      BY <1>0, <1>1, <2>1, <2>2 DEF PlaceInv, TypeOK
    <2> QED BY <2>3, <2>4
  <1>6. CASE UNCHANGED <<end, muxq, map>>
    BY <1>0, <1>6 DEF QueueInv, UniqueInQueue, PlaceInv, Queued, Mapped
  <1> QED BY <1>2, <1>3, <1>4, <1>5, <1>6
       DEF MuxStep, MuxCommand, MuxCancelled, MuxClosed, RawSent, MuxRow

\* QueueInv and PlaceInv are preserved.
LEMMA PlaceStep ==
  ASSUME TypeOK, TypeOK', KeysKnown, QueueInv, PlaceInv, [Next]_vars
  PROVE  QueueInv' /\ PlaceInv'
  <1>1. CASE PodEvent
    BY <1>1, EventFrame DEF QueueInv, UniqueInQueue, PlaceInv, Queued, Mapped
  <1>2. CASE WatchStep \/ WatchStop
    BY <1>2, PlaceWatch
  <1>3. ASSUME NEW t \in Tasks, AttachStep(t) PROVE QueueInv' /\ PlaceInv'
    BY <1>3, PlaceAttach
  <1>4. CASE MuxStep
    BY <1>4, PlaceMux
  <1>5. CASE RootCancel \/ ForwardGone \/ UNCHANGED vars
    BY <1>5 DEF RootCancel, ForwardGone, QueueInv, UniqueInQueue, PlaceInv, Queued, Mapped
  <1> QED BY <1>1, <1>2, <1>3, <1>4, <1>5, NextCases

(***************************************************************************)
(* Remove commands.                                                        *)
(***************************************************************************)
\* A stream that exists for a key the registry does not hold is a cancelled one.
LEMMA StrayStreamCancelled ==
  ASSUME TypeOK, RegistryInv, QueueInv, PlaceInv, NEW k \in Keys, token[k] = None
  PROVE  /\ map[k] # None => map[k] \in cancelled
         /\ \A i \in DOMAIN muxq :
              muxq[i].op = "Add" /\ muxq[i].key = k => muxq[i].task \in cancelled
  <1>1. \A t \in Tasks : t \in Queued \cup Mapped /\ key[t] = k => t \in cancelled
    BY NoneAssumption DEF RegistryInv, NoOrphanTask, PlaceInv
  <1>2. map[k] # None => map[k] \in cancelled
    BY <1>1 DEF PlaceInv, Mapped, TypeOK
  <1>3. ASSUME NEW i \in DOMAIN muxq, muxq[i].op = "Add", muxq[i].key = k
        PROVE  muxq[i].task \in cancelled
    <2>1. muxq[i].task \in Tasks /\ key[muxq[i].task] = k
      BY <1>3 DEF QueueInv
    <2>2. muxq[i].task \in Queued
      BY <2>1, NoneAssumption DEF Queued
    <2> QED BY <1>1, <2>1, <2>2
  <1> QED BY <1>2, <1>3

\* Sending a command keeps RemoveInv if a Remove is for a key with no live stream.
LEMMA RemoveSend ==
  ASSUME TypeOK, TypeOK', RemoveInv, NEW c \in Commands, muxq' = Append(muxq, c),
         UNCHANGED <<map, cancelled>>,
         c.op = "Remove" =>
           /\ map[c.key] # None => map[c.key] \in cancelled
           /\ \A i \in DOMAIN muxq :
                muxq[i].op = "Add" /\ muxq[i].key = c.key => muxq[i].task \in cancelled
  PROVE  RemoveInv'
  <1>1. DOMAIN muxq = 1..Len(muxq) /\ DOMAIN muxq' = 1..(Len(muxq) + 1) /\ Len(muxq) \in Nat
    BY CommandType, QueueAppend DEF TypeOK
  <1>2. /\ muxq'[Len(muxq) + 1] = c
        /\ \A i \in 1..Len(muxq) : muxq'[i] = muxq[i]
    BY QueueAppend
  <1> SUFFICES ASSUME NEW i \in DOMAIN muxq', muxq'[i].op = "Remove"
               PROVE  /\ map[muxq'[i].key] # None => map[muxq'[i].key] \in cancelled
                      /\ \A j \in 1..(i - 1) :
                           muxq'[j].op = "Add" /\ muxq'[j].key = muxq'[i].key
                             => muxq'[j].task \in cancelled
    BY DEF RemoveInv
  <1>3. \A j \in 1..(i - 1) : j \in 1..Len(muxq) /\ muxq'[j] = muxq[j]
    BY <1>1, <1>2
  <1>4. CASE i = Len(muxq) + 1
    BY <1>1, <1>2, <1>3, <1>4
  <1>5. CASE i \in DOMAIN muxq
    <2>1. muxq'[i] = muxq[i]
      BY <1>1, <1>2, <1>5
    <2> QED BY <1>3, <1>5, <2>1 DEF RemoveInv
  <1> QED BY <1>1, <1>4, <1>5

\* Receiving a command keeps RemoveInv if the map gains at most the Add received.
LEMMA RemoveRecv ==
  ASSUME TypeOK, TypeOK', RemoveInv, muxq # <<>>, muxq' = Tail(muxq), cancelled' = cancelled,
         \A k \in Keys : \/ map'[k] = map[k] \/ map'[k] = None
                         \/ /\ Head(muxq).op = "Add" /\ Head(muxq).key = k
                            /\ map'[k] = Head(muxq).task
  PROVE  RemoveInv'
  <1>1. /\ DOMAIN muxq = 1..Len(muxq) /\ DOMAIN muxq' = 1..(Len(muxq) - 1)
        /\ Len(muxq) \in Nat /\ Len(muxq) >= 1
    BY CommandType, QueueTail DEF TypeOK
  <1>2. \A i \in 1..(Len(muxq) - 1) : muxq'[i] = muxq[i + 1]
    BY QueueTail
  <1>3. Head(muxq) = muxq[1]
    BY QueueTail
  <1> SUFFICES ASSUME NEW i \in DOMAIN muxq', muxq'[i].op = "Remove"
               PROVE  /\ map'[muxq'[i].key] # None => map'[muxq'[i].key] \in cancelled
                      /\ \A j \in 1..(i - 1) :
                           muxq'[j].op = "Add" /\ muxq'[j].key = muxq'[i].key
                             => muxq'[j].task \in cancelled
    BY DEF RemoveInv
  <1>4. i + 1 \in DOMAIN muxq /\ muxq'[i] = muxq[i + 1] /\ 1 \in 1..((i + 1) - 1)
    BY <1>1, <1>2
  <1>5. \A j \in 1..(i - 1) : j + 1 \in 1..((i + 1) - 1) /\ muxq'[j] = muxq[j + 1]
    BY <1>1, <1>2
  <1>6. \A j \in 1..(i - 1) :
          muxq'[j].op = "Add" /\ muxq'[j].key = muxq'[i].key => muxq'[j].task \in cancelled
    BY <1>4, <1>5 DEF RemoveInv
  <1>7. muxq[i + 1].key \in Keys
    BY <1>1, <1>4, CommandType
  <1>8. map'[muxq'[i].key] # None => map'[muxq'[i].key] \in cancelled
    BY <1>3, <1>4, <1>7 DEF RemoveInv
  <1> QED BY <1>6, <1>8

\* RemoveInv is preserved: a Remove is sent only after the key's token is cancelled.
LEMMA RemoveStep ==
  ASSUME IInv, TypeOK', [Next]_vars
  PROVE  RemoveInv'
  <1> USE DEF IInv
  <1>1. CASE PodEvent \/ RootCancel \/ ForwardGone \/ UNCHANGED vars
    BY <1>1, EventFrame DEF RootCancel, ForwardGone, RemoveInv
  <1>2. CASE SendRemove
    <2> DEFINE c == [op |-> "Remove", key |-> removing, task |-> None]
    <2>1. c \in Commands /\ c.key = removing /\ removing \in Keys /\ token[removing] = None
      BY <1>2 DEF SendRemove, KeysKnown, Commands
    <2>2. UNCHANGED <<map, cancelled>> /\ (muxq' = muxq \/ muxq' = Append(muxq, c))
      BY <1>2 DEF SendRemove
    <2>3. CASE muxq' = muxq
      BY <2>2, <2>3 DEF RemoveInv
    <2>4. CASE muxq' = Append(muxq, c)
      BY <2>1, <2>2, <2>4, RemoveSend, StrayStreamCancelled
    <2> QED BY <2>2, <2>3, <2>4
  <1>3. CASE (\E k \in Keys : DropKey(k)) \/ (\E k \in Keys, t \in Tasks : AddKey(k, t))
             \/ Reconciled \/ WatchStop
    <2>1. UNCHANGED <<muxq, map>> /\ cancelled \subseteq cancelled'
      BY <1>3 DEF DropKey, AddKey, Reconciled, WatchStop
    <2> QED BY <2>1 DEF RemoveInv
  <1>4. ASSUME NEW t \in Tasks, AttachStep(t) PROVE RemoveInv'
    <2>1. UNCHANGED <<map, cancelled>>
      BY <1>4, AttachFrame
    <2>2. CASE SendAdd(t)
      <3> DEFINE c == [op |-> "Add", key |-> key[t], task |-> t]
      <3>1. c \in Commands /\ c.op = "Add" /\ muxq' = Append(muxq, c)
        BY <2>2 DEF SendAdd, GoTo, KeysKnown, Commands
      <3> QED BY <2>1, <3>1, RemoveSend
    <2>3. CASE ~SendAdd(t)
      <3>1. muxq' = muxq
        BY <1>4, <2>3 DEF AttachStep, LoopTop, Acquire, LimitNotify, LimitCancel, OpenOk, OpenErr,
             SendAddClosed, ReleasePermit, OnStreamEnd, BackoffOver
      <3> QED BY <2>1, <3>1 DEF RemoveInv
    <2> QED BY <2>2, <2>3
  <1>5. CASE MuxStep
    <2>0. cancelled' = cancelled
      BY <1>5, MuxFrame
    <2>1. CASE MuxExit
      BY <2>1 DEF MuxExit, RemoveInv
    <2>2. CASE MuxAdd
      <3>1. /\ muxq # <<>> /\ muxq' = Tail(muxq) /\ Head(muxq).op = "Add"
            /\ map' = [map EXCEPT ![Head(muxq).key] = Head(muxq).task]
        BY <2>2 DEF MuxAdd
      <3>2. \A k \in Keys : \/ map'[k] = map[k]
                            \/ Head(muxq).key = k /\ map'[k] = Head(muxq).task
        BY <3>1 DEF TypeOK
      <3> QED BY <2>0, <3>1, <3>2, RemoveRecv
    <2>3. CASE MuxRemove
      <3>1. /\ muxq # <<>> /\ muxq' = Tail(muxq)
            /\ map' = [map EXCEPT ![Head(muxq).key] = None]
        BY <2>3 DEF MuxRemove
      <3>2. \A k \in Keys : map'[k] = map[k] \/ map'[k] = None
        BY <3>1 DEF TypeOK
      <3> QED BY <2>0, <3>1, <3>2, RemoveRecv
    <2>4. ASSUME NEW k \in Keys, MuxStreamEnd(k) PROVE RemoveInv'
      <3>1. muxq' = muxq /\ \A l \in Keys : map'[l] = map[l] \/ map'[l] = None
        BY <2>4 DEF MuxStreamEnd, TypeOK
      <3>2. \A i \in DOMAIN muxq : muxq[i].key \in Keys
        BY CommandType
      <3> QED BY <2>0, <3>1, <3>2 DEF RemoveInv
    <2>5. CASE UNCHANGED <<muxq, map>>
      BY <2>0, <2>5 DEF RemoveInv
    <2> QED BY <1>5, <2>1, <2>2, <2>3, <2>4, <2>5
         DEF MuxStep, MuxCommand, MuxCancelled, MuxClosed, RawSent, MuxRow
  <1> QED BY <1>1, <1>2, <1>3, <1>4, <1>5, NextCases DEF WatchStep

(***************************************************************************)
(* Runs without --follow.                                                  *)
(***************************************************************************)
\* At most one stream of a live task exists per key, so an Add received by the mux
\* replaces no live stream unless its own task was cancelled.
LEMMA OneLiveStream ==
  ASSUME TypeOK, RegistryInv, PlaceInv, NEW s \in Queued, NEW t \in Mapped, key[s] = key[t]
  PROVE  s \in cancelled \/ t \in cancelled
  <1>1. s \in Tasks /\ t \in Tasks /\ s # t /\ pc[s] # "free" /\ pc[t] # "free"
    BY StreamSetTypes DEF PlaceInv
  <1> QED BY <1>1 DEF RegistryInv, NoOrphanTask

\* When all senders are gone there is no stream left.
LEMMA NoSenderNoStream ==
  ASSUME TypeOK, PlaceInv, SendersGone
  PROVE  Queued \cup Mapped = {}
  BY StreamSetTypes DEF SendersGone, Running, PlaceInv

\* NoFollowInv is preserved: nothing is dropped without --follow.
LEMMA NoFollowStep ==
  ASSUME IInv, [Next]_vars
  PROVE  NoFollowInv'
  <1> SUFFICES ASSUME ~Follow PROVE NoFollowInv'
    BY DEF NoFollowInv
  <1> USE DEF IInv
  <1>0. /\ cancelled = {} /\ toDrop = {}
        /\ phase = "start" => active = {}
        /\ ~rootCancelled /\ ~rawClosed => cut = {}
    BY DEF NoFollowInv
  <1>1. CASE PodEvent
    <2>1. \E S \in Snapshots : NoFollowSnapshot(S)
      BY <1>1 DEF PodEvent, OnDelete, OnApplyRefused, OnApply, OnInitApply, OnInitBegin, OnInitDone
    <2>2. /\ toDrop' = {} /\ phase' = "live"
          /\ UNCHANGED <<cancelled, active, rootCancelled, rawClosed, cut>>
      BY <1>0, <2>1 DEF NoFollowSnapshot, OnInitSnapshot, Reconcile
    <2> QED BY <1>0, <2>2 DEF NoFollowInv
  <1>2. CASE WatchStep \/ WatchStop
    <2>1. UNCHANGED <<rootCancelled, rawClosed, cut, phase>>
      BY <1>2, WatchFrame
    <2>2. toDrop' = {} /\ cancelled' = {}
      BY <1>0, <1>2 DEF WatchStep, WatchStop, DropKey, SendRemove, AddKey, Reconciled
    <2>3. phase' = "start" => active' = {}
      <3>1. ASSUME NEW k \in Keys, NEW t \in Tasks, AddKey(k, t) PROVE phase' # "start"
        BY <2>1, <3>1 DEF AddKey, HandlerInv
      <3> QED BY <1>0, <1>2, <2>1, <3>1
           DEF WatchStep, WatchStop, DropKey, SendRemove, Reconciled
    <2> QED BY <1>0, <2>1, <2>2, <2>3 DEF NoFollowInv
  <1>3. ASSUME NEW t \in Tasks, AttachStep(t) PROVE NoFollowInv'
    <2>1. UNCHANGED <<toDrop, phase, active, cancelled, rawClosed, cut>>
      BY <1>3, AttachFrame
    <2>2. rootCancelled => rootCancelled'
      BY <1>3 DEF AttachStep, LoopTop, Acquire, LimitNotify, LimitCancel, OpenOk, OpenErr, SendAdd,
           SendAddClosed, ReleasePermit, OnStreamEnd, BackoffOver
    <2> QED BY <1>0, <2>1, <2>2 DEF NoFollowInv
  <1>4. CASE MuxStep
    <2>1. UNCHANGED <<toDrop, phase, active, cancelled, rootCancelled, rawClosed>>
      BY <1>4, MuxFrame
    <2>2. ASSUME ~rootCancelled, ~rawClosed PROVE cut' = cut
      <3>1. CASE MuxClosed
        BY <3>1, NoSenderNoStream DEF MuxClosed, MuxExit, DropStreams
      <3>2. CASE MuxAdd
        <4> DEFINE c == Head(muxq)
        <4>1. /\ muxq # <<>> /\ c.op = "Add" /\ DropStreams({map[c.key]} \ {None})
          BY <3>2 DEF MuxAdd
        <4>2. c = muxq[1] /\ 1 \in DOMAIN muxq
          BY <4>1, QueueTail, CommandType
        <4>3. c.task \in Tasks /\ key[c.task] = c.key /\ c.key \in Keys /\ c.task # None
          BY <4>1, <4>2, CommandType, NoneAssumption DEF QueueInv
        <4>4. c.task \in Queued
          BY <4>2, <4>3 DEF Queued
        <4>5. map[c.key] # None => map[c.key] \in Mapped /\ key[map[c.key]] = c.key
          BY <4>3 DEF Mapped, PlaceInv
        <4>6. map[c.key] = None
          BY <1>0, <4>3, <4>4, <4>5, OneLiveStream
        <4> QED BY <4>1, <4>6 DEF DropStreams
      <3>3. CASE MuxRemove
        <4>1. muxq # <<>> /\ Head(muxq).op = "Remove" /\ DropStreams({map[Head(muxq).key]} \ {None})
          BY <3>3 DEF MuxRemove
        <4>2. Head(muxq) = muxq[1] /\ 1 \in DOMAIN muxq
          BY <4>1, QueueTail, CommandType
        <4>3. map[Head(muxq).key] = None
          BY <1>0, <4>1, <4>2 DEF RemoveInv
        <4> QED BY <4>1, <4>3 DEF DropStreams
      <3> QED BY <1>4, <2>2, <3>1, <3>2, <3>3
           DEF MuxStep, MuxCommand, MuxCancelled, RawSent, MuxRow, MuxStreamEnd
    <2> QED BY <1>0, <2>1, <2>2 DEF NoFollowInv
  <1>5. CASE RootCancel \/ ForwardGone \/ UNCHANGED vars
    BY <1>0, <1>5 DEF RootCancel, ForwardGone, NoFollowInv
  <1> QED BY <1>1, <1>2, <1>3, <1>4, <1>5, NextCases

(***************************************************************************)
(* The theorems.                                                           *)
(***************************************************************************)
\* The inductive invariant holds initially.
LEMMA InitIInv == Init => IInv
  <1> SUFFICES ASSUME Init PROVE IInv
    OBVIOUS
  <1> USE DEF Init
  <1>1. PermitTotal \in Nat
    BY BoundsAssumption DEF PermitTotal
  <1>2. <<>> \in Seq(Commands) /\ Len(<<>>) = 0 /\ DOMAIN muxq = {}
    OBVIOUS
  <1>3. TypeOK
    <2>1. failures \in [Tasks -> 0..MaxReopenStartRetries] /\ permits \in Nat
      BY <1>1, BoundsAssumption
    <2>2. muxq \in Seq(Commands) /\ Len(muxq) <= MuxCap
      BY <1>2, BoundsAssumption
    <2>3. /\ pc \in [Tasks -> AttachPCs] /\ end \in [Tasks -> {"none", "eof", "cancelled"}]
          /\ map \in [Keys -> Tasks \cup {None}] /\ token \in [Keys -> Tasks \cup {None}]
      BY DEF AttachPCs
    <2> QED BY <2>1, <2>2, <2>3 DEF TypeOK
  <1>4. Holders = {} /\ Queued = {} /\ Mapped = {}
    BY <1>2 DEF Holders, Queued, Mapped
  <1>5. PermitsAccounted
    BY <1>1, <1>4, FS_EmptySet DEF PermitsAccounted
  <1>6. KeysKnown /\ HandlerInv
    BY DEF KeysKnown, HandlerInv
  <1>7. RegistryInv /\ NoFollowInv
    BY DEF RegistryInv, RegistryConsistent, NoOrphanTask, NoFollowInv
  <1>8. QueueInv /\ PlaceInv /\ RemoveInv
    BY <1>2, <1>4 DEF QueueInv, UniqueInQueue, PlaceInv, RemoveInv
  <1> QED BY <1>3, <1>5, <1>6, <1>7, <1>8 DEF IInv

\* Every step preserves the inductive invariant.
LEMMA StepIInv == IInv /\ [Next]_vars => IInv'
  <1> SUFFICES ASSUME IInv, [Next]_vars PROVE IInv'
    OBVIOUS
  <1>1. TypeOK'
    BY TypeStep DEF IInv
  <1>2. KeysKnown' /\ HandlerInv' /\ RegistryInv'
    BY KeysKnownStep, HandlerStep, RegistryStep DEF IInv
  <1>3. QueueInv' /\ PlaceInv'
    BY <1>1, PlaceStep DEF IInv
  <1>4. RemoveInv' /\ PermitsAccounted' /\ NoFollowInv'
    BY <1>1, RemoveStep, PermitStep, NoFollowStep DEF IInv
  <1> QED BY <1>1, <1>2, <1>3, <1>4 DEF IInv

\* The inductive invariant holds in every reachable state.
THEOREM Invariance == Spec => []IInv
  BY InitIInv, StepIInv, PTL DEF Spec
\* Every variable keeps its type: in particular the command channel never exceeds its
\* capacity and no task retries an open more than MaxReopenStartRetries times.
THEOREM TypeCorrect == Spec => []TypeOK
  <1>1. IInv => TypeOK
    BY DEF IInv
  <1> QED BY <1>1, Invariance, PTL

\* The semaphore never leaks or gains a permit, on any path of attach_pod_log_stream.
THEOREM PermitsConserved == Spec => []PermitsAccounted
  <1>1. IInv => PermitsAccounted
    BY DEF IInv
  <1> QED BY <1>1, Invariance, PTL

\* PodStreamRegistry's active keys and tokens agree, and each token belongs to a
\* started task of that key.
THEOREM RegistryCorrect == Spec => []RegistryConsistent
  <1>1. IInv => RegistryConsistent
    BY DEF IInv, RegistryInv
  <1> QED BY <1>1, Invariance, PTL

\* No attach task with a live token is unknown to the registry, so no key is tailed by
\* two live tasks.
THEOREM NoOrphans == Spec => []NoOrphanTask
  <1>1. IInv => NoOrphanTask
    BY DEF IInv, RegistryInv
  <1> QED BY <1>1, Invariance, PTL

\* A task waiting on done_rx has its stream in the channel or in the StreamMap, or its
\* answer: the end of a stream is never lost.
THEOREM StreamsConserved == Spec => []StreamsAccounted
  <1>1. IInv => StreamsAccounted
    BY DEF IInv, QueueInv, UniqueInQueue, PlaceInv, StreamsAccounted
  <1> QED BY <1>1, Invariance, PTL

\* Between handlers of a complete listing, every tailed pod has its metadata.
THEOREM MetaCovered == Spec => []MetaCoversActive
  <1>1. IInv => MetaCoversActive
    BY DEF IInv, HandlerInv, MetaCoversActive
  <1> QED BY <1>1, Invariance, PTL

\* A --no-follow run that is neither cancelled nor without output cuts no stream.
THEOREM NoFollowComplete == Spec => []NoFollowDrains
  <1>1. IInv => NoFollowDrains
    BY DEF IInv, NoFollowInv, NoFollowDrains
  <1> QED BY <1>1, Invariance, PTL

\* MuxCmd::Remove never tears down the stream of a key that was added again: every
\* stream it finds belongs to a task whose token is already cancelled.
THEOREM RemoveSafe == Spec => RemoveSparesLiveStream
  <1>1. IInv /\ [Next]_vars => [MuxRemove => UNCHANGED cut]_vars
    <2> SUFFICES ASSUME IInv, MuxRemove PROVE cut' = cut
      OBVIOUS
    <2>1. muxq # <<>> /\ Head(muxq).op = "Remove" /\ DropStreams({map[Head(muxq).key]} \ {None})
      BY DEF MuxRemove
    <2>2. Head(muxq) = muxq[1] /\ 1 \in DOMAIN muxq
      BY <2>1, QueueTail, CommandType DEF IInv
    <2>3. map[Head(muxq).key] # None => map[Head(muxq).key] \in cancelled
      BY <2>1, <2>2 DEF IInv, RemoveInv
    <2> QED BY <2>1, <2>3 DEF DropStreams, Cancelled
  <1> QED BY <1>1, Invariance, PTL DEF Spec, RemoveSparesLiveStream
\* A StreamMap with fewer keys counts no more streams.
LEMMA CountMonotone ==
  ASSUME NEW m, NEW n, \A k \in Keys : n[k] # None => m[k] # None
  PROVE  StreamCount(n) <= StreamCount(m)
  <1>1. {k \in Keys : n[k] # None} \subseteq {k \in Keys : m[k] # None}
    OBVIOUS
  <1>2. IsFiniteSet({k \in Keys : m[k] # None})
    BY KeysAssumption, FS_Subset
  <1> QED BY <1>1, <1>2, FS_Subset DEF StreamCount

\* RunStats.active_streams never undercounts, although it is not updated when a stream
\* ends by itself.
THEOREM StatNeverLow == Spec => []StatCoversMap
  <1>1. Init => StatCoversMap
    <2> SUFFICES ASSUME Init PROVE StatCoversMap
      OBVIOUS
    <2>1. {k \in Keys : map[k] # None} = {} /\ stat = 0
      BY DEF Init
    <2> QED BY <2>1, FS_EmptySet DEF StatCoversMap, StreamCount
  <1>2. TypeOK /\ StatCoversMap /\ [Next]_vars => StatCoversMap'
    <2> SUFFICES ASSUME TypeOK, StatCoversMap, [Next]_vars PROVE StatCoversMap'
      OBVIOUS
    <2>1. CASE UNCHANGED <<map, stat>>
      BY <2>1 DEF StatCoversMap, StreamCount
    <2>2. CASE stat' = StreamCount(map')
      BY <2>2, StreamCountType DEF StatCoversMap
    <2>3. CASE MuxExit
      <3>1. {k \in Keys : map'[k] # None} = {} /\ stat' = 0
        BY <2>3 DEF MuxExit
      <3> QED BY <3>1, FS_EmptySet DEF StatCoversMap, StreamCount
    <2>4. CASE stat' = stat /\ \A k \in Keys : map'[k] # None => map[k] # None
      <3>1. StreamCount(map') <= StreamCount(map)
        BY <2>4, CountMonotone
      <3> QED BY <2>4, <3>1, StreamCountType DEF StatCoversMap, TypeOK
    <2>5. CASE MuxStep
      <3>1. CASE MuxCancelled \/ MuxClosed
        BY <3>1, <2>3 DEF MuxCancelled, MuxClosed
      <3>2. CASE MuxAdd
        BY <3>2, <2>2 DEF MuxAdd
      <3>3. CASE MuxRemove
        BY <3>3, <2>2, <2>4 DEF MuxRemove, TypeOK
      <3>4. ASSUME NEW k \in Keys, MuxRow(k) \/ MuxStreamEnd(k) PROVE StatCoversMap'
        BY <3>4, <2>1, <2>3, <2>4 DEF MuxRow, MuxStreamEnd, TypeOK
      <3>5. CASE RawSent
        BY <3>5, <2>1, <2>3 DEF RawSent
      <3> QED BY <2>5, <3>1, <3>2, <3>3, <3>4, <3>5 DEF MuxStep, MuxCommand
    <2>6. CASE PodEvent \/ WatchStep \/ WatchStop \/ \E t \in Tasks : AttachStep(t)
      BY <2>1, <2>6, AttachFrame, EventFrame, WatchFrame
    <2>7. CASE RootCancel \/ ForwardGone \/ UNCHANGED vars
      BY <2>1, <2>7 DEF RootCancel, ForwardGone
    <2> QED BY <2>5, <2>6, <2>7, NextCases
  <1> QED BY <1>1, <1>2, TypeCorrect, PTL DEF Spec
=============================================================================
