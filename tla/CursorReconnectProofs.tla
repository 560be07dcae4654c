----------------------- MODULE CursorReconnectProofs -----------------------
(***************************************************************************)
(* The safety properties of CursorReconnect, for any log, any number of    *)
(* activations and any number of polls.                                    *)
(***************************************************************************)
EXTENDS CursorReconnect, FiniteSetTheorems, SequenceTheorems, TLAPS

USE DEF watch, task, stream, vars

(***************************************************************************)
(* The inductive invariant.                                                *)
(***************************************************************************)
\* One activation at a time is neither cancelled nor over, and the mux holds the stream
\* of the one that streams.
TaskInv ==
  /\ current # None => current = spawned
  /\ \A t \in Tasks :
       /\ pc[t] = "free" <=> t > spawned
       /\ t <= spawned /\ t \notin cancelled => t = current
       /\ holder = t <=> pc[t] = "streaming"
       /\ lastLine[t] # None => pc[t] = "streaming"

\* What an activation's streams yielded.
YieldInv ==
  \A t \in Tasks :
    /\ pc[t] = "free" => first[t] = None
    /\ first[t] = None => delivered[t] = {}
    /\ delivered[t] \subseteq 1..written

\* The last line's timestamp is on its way to the store, or is there.
SettleInv ==
  holder # None /\ holder \notin cancelled /\ lastLine[holder] # None =>
    IF updates = <<>> THEN store = lastLine[holder]
    ELSE updates[Len(updates)] = lastLine[holder]

\* How far a resolved timestamp may be ahead of the log's: m ticks after m undated lines.
Undated(n, m) == ((n + 1 - m)..n) \cap Dated = {}
Ahead(v, n) == \E m \in 0..n : Undated(n, m) /\ v <= Time[n] + m * Tick
ClockInv ==
  \A t \in Tasks : lastLine[t] # None => pos[t] - 1 \in Log /\ Ahead(lastLine[t], pos[t] - 1)

\* A cursor is that of a line some stream of the key yielded.
FromLine(v, yielded) == \E t \in Tasks : \E n \in yielded[t] : v - Overlap <= Time[n]
StoreInv ==
  /\ store # None => FromLine(store, delivered)
  /\ \A i \in DOMAIN updates : FromLine(updates[i], delivered)

\* An activation that waited for its cursor will not ask for less than the lines from it.
Waited(t) == t \notin cancelled \cup unconfirmed /\ first[t] # None
Asks(t) ==
  /\ pc[t] = "streaming" \/ reopen[t]
  /\ \/ store # None \/ lastLine[t] # None
     \/ pc[t] \in {"top", "flush"} /\ flush[t] # None
  /\ pc[t] = "open" =>
       /\ request[t].tail = None /\ request[t].since \in Int
       /\ \E u \in Tasks : \E n \in delivered[u] : request[t].since <= Time[n]
AskInv == \A t \in Tasks : Waited(t) => Asks(t)

\* What an activation yielded has no gaps.
Unbroken(t) == \A n \in delivered[t] : \A j \in first[t]..n : j \in Printed
SeamInv ==
  \A t \in Tasks : Waited(t) => Overtaken(t) \/ (SeamClosed(t) /\ Unbroken(t))

CIInv ==
  /\ TypeOK /\ TaskInv /\ YieldInv /\ SettleInv /\ ClockInv /\ StoreInv /\ AskInv /\ SeamInv

LEMMA Basics ==
  /\ None \notin Int /\ None \notin Tasks /\ None \notin Log
  /\ Tasks \subseteq Nat \ {0} /\ Log \subseteq Nat \ {0}
  /\ MaxLog \in Nat /\ MaxTasks \in Nat /\ Base \in [tail : Nat \cup {None}, since : Stamps]
  BY CursorBounds, BaseRequest DEF Tasks, Log, Base, Stamps

(***************************************************************************)
(* What the API sends.                                                     *)
(***************************************************************************)
LEMMA FirstLineType ==
  ASSUME TypeOK, NEW r \in [tail : Nat \cup {None}, since : Stamps]
  PROVE  FirstLine(r) \in 1..(MaxLog + 1)
<1> DEFINE from == {i \in 1..written : r.since = None \/ Time[i] >= r.since}
           c == Cardinality(from)
           n == IF r.tail = None \/ r.tail > c THEN c ELSE r.tail
<1>1. written \in Nat /\ written <= MaxLog /\ MaxLog \in Nat
  BY CursorBounds DEF TypeOK
<1>2. IsFiniteSet(1..written) /\ Cardinality(1..written) = written
  BY <1>1, FS_Interval
<1>3. from \subseteq 1..written
  OBVIOUS
<1>4. c \in Nat /\ c <= written
  <2> HIDE DEF from
  <2> QED
    BY <1>2, <1>3, FS_Subset, FS_CardinalityType
<1>5. FirstLine(r) = written - n + 1
  BY DEF FirstLine
<1>6. n \in Nat /\ n <= c
  <2> HIDE DEF c
  <2> QED
    BY <1>4
<1> HIDE DEF n, c
<1> QED
  BY <1>1, <1>4, <1>5, <1>6

\* The lines from a time on, without --tail, include those that are not older.
LEMMA FirstLineBefore ==
  ASSUME TypeOK, NEW r, r.tail = None, r.since \in Int,
         NEW k \in 1..written, r.since <= Time[k]
  PROVE  FirstLine(r) <= k
<1> DEFINE from == {i \in 1..written : r.since = None \/ Time[i] >= r.since}
           c == Cardinality(from)
<1>1. written \in Nat /\ written <= MaxLog /\ MaxLog \in Nat /\ k \in Nat /\ k <= written
  BY CursorBounds DEF TypeOK
<1>2. IsFiniteSet(1..written)
  BY <1>1, FS_Interval
<1>3. from \subseteq 1..written
  OBVIOUS
<1>4. k..written \subseteq from
  <2> SUFFICES ASSUME NEW i \in k..written PROVE i \in 1..written /\ Time[i] >= r.since
    OBVIOUS
  <2>1. i \in Log /\ k \in Log /\ k <= i /\ i \in 1..written
    BY <1>1 DEF Log
  <2>2. Time[k] <= Time[i] /\ Time[k] \in Nat /\ Time[i] \in Nat
    BY <2>1, LogIsOrdered
  <2> QED
    BY <2>1, <2>2
<1>5. Cardinality(k..written) = written - k + 1
  BY <1>1, FS_Interval
<1>6. FirstLine(r) = written - c + 1
  BY DEF FirstLine
<1> HIDE DEF from
<1>7. c \in Nat /\ written - k + 1 <= c
  <2>1. IsFiniteSet(from)
    BY <1>2, <1>3, FS_Subset
  <2>2. Cardinality(k..written) <= c
    BY <1>4, <2>1, FS_Subset
  <2>3. c \in Nat
    BY <2>1, FS_CardinalityType
  <2> QED
    BY <1>5, <2>2, <2>3
<1> HIDE DEF c
<1> QED
  BY <1>1, <1>6, <1>7

(***************************************************************************)
(* Types.                                                                  *)
(***************************************************************************)
\* A line's timestamp is a number.
LEMMA ResolveType ==
  ASSUME TypeOK, NEW t \in Tasks, NEW n \in Log
  PROVE  Resolve(t, n) \in Int
<1>1. Tick \in Nat /\ Time[n] \in Nat /\ lastLine[t] \in Int \cup {None}
  BY CursorBounds, LogIsOrdered DEF TypeOK, Stamps
<1> QED
  BY <1>1 DEF Resolve

LEMMA TypeStep == TypeOK /\ [Next]_vars => TypeOK'
<1> SUFFICES ASSUME TypeOK, [Next]_vars PROVE TypeOK'
  OBVIOUS
<1> USE DEF TypeOK
<1>1. CASE LogLine
  BY <1>1, CursorBounds DEF LogLine
<1>2. CASE Spawn
  <2>1. spawned + 1 \in Tasks /\ spawned + 1 \in 0..MaxTasks
    BY <1>2, CursorBounds DEF Spawn, Tasks
  <2> QED
    BY <1>2, <2>1 DEF Spawn
<1>3. CASE CancelToken
  BY <1>3 DEF CancelToken
<1>4. CASE Forget
  BY <1>4 DEF Forget, Stamps
<1>5. CASE Record
  <2>1. Head(updates) \in Int /\ Tail(updates) \in Seq(Int)
    BY <1>5 DEF Record
  <2> QED
    BY <1>5, <2>1 DEF Record, Stamps
<1>6. ASSUME NEW t \in Tasks, LoopTop(t) PROVE TypeOK'
  <2>1. FlushRetries \in 0..FlushRetries
    BY CursorBounds
  <2>2. pc' \in [Tasks -> {"free", "top", "flush", "get", "open", "add", "streaming", "returned"}]
        /\ left' \in [Tasks -> 0..FlushRetries]
    <3>1. CASE GoTo(t, "top", "returned") /\ UNCHANGED left
      BY <3>1 DEF GoTo
    <3>2. CASE GoTo(t, "top", "get") /\ UNCHANGED left
      BY <3>2 DEF GoTo
    <3>3. CASE GoTo(t, "top", "flush") /\ left' = [left EXCEPT ![t] = FlushRetries]
      BY <2>1, <3>3 DEF GoTo
    <3> QED
      BY <1>6, <3>1, <3>2, <3>3 DEF LoopTop
  <2> QED
    BY <1>6, <2>2 DEF LoopTop
<1>7. ASSUME NEW t \in Tasks, FlushPoll(t) PROVE TypeOK'
  <2>1. left' \in [Tasks -> 0..FlushRetries]
    <3>1. CASE left[t] > 0 /\ left' = [left EXCEPT ![t] = @ - 1]
      <4>1. left[t] - 1 \in 0..FlushRetries
        BY <3>1, CursorBounds
      <4> QED
        BY <3>1, <4>1
    <3>2. CASE left' = [left EXCEPT ![t] = 0]
      <4>1. 0 \in 0..FlushRetries
        BY CursorBounds
      <4> QED
        BY <3>2, <4>1
    <3> QED
      BY <1>7, <3>1, <3>2 DEF FlushPoll
  <2>2. pc' \in [Tasks -> {"free", "top", "flush", "get", "open", "add", "streaming", "returned"}]
        /\ unconfirmed' \subseteq Tasks
    BY <1>7 DEF FlushPoll
  <2> QED
    BY <1>7, <2>1, <2>2 DEF FlushPoll
<1>8. ASSUME NEW t \in Tasks, BuildRequest(t) PROVE TypeOK'
  <2>1. RequestFor(reopen[t]) \in [tail : Nat \cup {None}, since : Stamps]
    BY CursorBounds, Basics DEF RequestFor, Stamps
  <2>2. None \in Stamps
    BY DEF Stamps
  <2> QED
    BY <1>8, <2>1, <2>2 DEF BuildRequest, GoTo
<1>9. ASSUME NEW t \in Tasks, OpenErr(t) PROVE TypeOK'
  <2>1. pc' \in [Tasks -> {"free", "top", "flush", "get", "open", "add", "streaming", "returned"}]
    BY <1>9 DEF OpenErr, GoTo
  <2> QED
    BY <1>9, <2>1, Basics DEF OpenErr
<1>10. ASSUME NEW t \in Tasks, OpenOk(t) PROVE TypeOK'
  <2>1. FirstLine(request[t]) \in 1..(MaxLog + 1)
    BY FirstLineType
  <2> QED
    BY <1>10, <2>1, Basics DEF OpenOk, GoTo
<1>11. ASSUME NEW S, NEW then, Ended(S, then),
              then \in [Tasks -> {"free", "top", "flush", "get", "open", "add", "streaming", "returned"}]
       PROVE  /\ pc' \in [Tasks -> {"free", "top", "flush", "get", "open", "add", "streaming", "returned"}]
              /\ reopen' \in [Tasks -> BOOLEAN] /\ flush' \in [Tasks -> Stamps]
              /\ pos' \in [Tasks -> 1..(MaxLog + 1)] /\ lastLine' \in [Tasks -> Stamps]
  <2>1. 1 \in 1..(MaxLog + 1) /\ None \in Stamps
    BY CursorBounds DEF Stamps
  <2>2. pc' \in [Tasks -> {"free", "top", "flush", "get", "open", "add", "streaming", "returned"}]
        /\ reopen' \in [Tasks -> BOOLEAN]
    BY <1>11 DEF Ended
  <2>3. flush' \in [Tasks -> Stamps] /\ lastLine' \in [Tasks -> Stamps]
    BY <1>11, <2>1 DEF Ended
  <2>4. pos' \in [Tasks -> 1..(MaxLog + 1)]
    BY <1>11, <2>1 DEF Ended
  <2> QED
    BY <2>2, <2>3, <2>4
<1>12. ASSUME NEW t \in Tasks, MuxTake(t) PROVE TypeOK'
  BY <1>11, <1>12 DEF MuxTake
<1>13. CASE StreamEnds
  BY <1>11, <1>13 DEF StreamEnds
<1>14. CASE Yield
  <2> DEFINE n == pos[holder]
             ts == Resolve(holder, n)
  <2>1. holder \in Tasks /\ n \in Log /\ n + 1 \in 1..(MaxLog + 1)
    BY <1>14, CursorBounds DEF Yield, Log
  <2>2. ts \in Int
    BY <2>1, ResolveType
  <2>3. updates' \in Seq(Int)
    BY <1>14, <2>2 DEF Yield
  <2>4. /\ lastLine' = [lastLine EXCEPT ![holder] = ts]
        /\ delivered' = [delivered EXCEPT ![holder] = @ \cup {n}]
        /\ first' = [first EXCEPT ![holder] = IF @ = None THEN n ELSE @]
        /\ pos' = [pos EXCEPT ![holder] = n + 1]
        /\ UNCHANGED <<written, store, watch, task, holder>>
    BY <1>14 DEF Yield
  <2> HIDE DEF n, ts
  <2>5. lastLine' \in [Tasks -> Stamps] /\ pos' \in [Tasks -> 1..(MaxLog + 1)]
    BY <2>1, <2>2, <2>4 DEF Stamps
  <2>6. delivered' \in [Tasks -> SUBSET Log] /\ first' \in [Tasks -> Log \cup {None}]
    BY <2>1, <2>4
  <2> QED
    BY <2>3, <2>4, <2>5, <2>6
<1>15. CASE UNCHANGED vars
  BY <1>15
<1> QED
  BY <1>1, <1>2, <1>3, <1>4, <1>5, <1>6, <1>7, <1>8, <1>9, <1>10, <1>12, <1>13, <1>14, <1>15
     DEF Next, TaskStep

(***************************************************************************)
(* Activations and their streams.                                          *)
(***************************************************************************)
\* What the end of streams does to their tasks and to the others.
LEMMA EndedFacts ==
  ASSUME TypeOK, NEW S, NEW then, Ended(S, then)
  PROVE  \A t \in Tasks :
           /\ t \notin S => /\ pc'[t] = then[t] /\ reopen'[t] = reopen[t] /\ flush'[t] = flush[t]
                            /\ pos'[t] = pos[t] /\ lastLine'[t] = lastLine[t]
           /\ t \in S => /\ pc'[t] \in {"top", "returned"} /\ lastLine'[t] = None
                         /\ t \notin cancelled => /\ pc'[t] = "top" /\ reopen'[t]
                                                  /\ flush'[t] = lastLine[t]
<1>1. \A t \in Tasks : reopen[t] \in BOOLEAN
  BY DEF TypeOK
<1> QED
  BY <1>1 DEF Ended

LEMMA TaskInvStep == TypeOK /\ TaskInv /\ [Next]_vars => TaskInv'
<1> SUFFICES ASSUME TypeOK, TaskInv, [Next]_vars PROVE TaskInv'
  OBVIOUS
<1>0. \A t \in Tasks : pc[t] \in {"free", "top", "flush", "get", "open", "add", "streaming", "returned"}
  BY DEF TypeOK
<1>a. pc \in [Tasks -> {"free", "top", "flush", "get", "open", "add", "streaming", "returned"}]
      /\ spawned \in Nat /\ current \in Tasks \cup {None} /\ Tasks \subseteq Nat /\ None \notin Tasks
      /\ holder \in Tasks \cup {None}
  BY Basics DEF TypeOK
<1>1. ASSUME NEW t \in Tasks, NEW a \in {"top", "flush", "get", "open", "add"},
             NEW b \in {"returned", "top", "flush", "get", "open", "add"},
             pc[t] = a, pc' = [pc EXCEPT ![t] = b], UNCHANGED <<watch, holder, lastLine>>
      PROVE  TaskInv'
  BY <1>1, <1>a DEF TaskInv
<1>2. CASE UNCHANGED <<watch, holder, lastLine, pc>>
  BY <1>2 DEF TaskInv
<1>3. CASE LogLine \/ Record
  BY <1>2, <1>3 DEF LogLine, Record
<1>4. CASE Spawn
  <2>1. spawned + 1 \in Tasks /\ spawned + 1 > spawned
    BY <1>4, <1>a, CursorBounds DEF Spawn, Tasks
  <2>2. /\ spawned' = spawned + 1 /\ current' = spawned + 1
        /\ pc' = [pc EXCEPT ![spawned + 1] = "top"] /\ UNCHANGED <<cancelled, holder, lastLine>>
        /\ current = None
    BY <1>4 DEF Spawn
  <2>3. pc[spawned + 1] = "free"
    BY <2>1 DEF TaskInv
  <2>4. \A t \in Tasks : t <= spawned => t \in cancelled
    BY <1>a, <2>2 DEF TaskInv
  <2>5. \A t \in Tasks : t # spawned + 1 => (t <= spawned' <=> t <= spawned)
    BY <1>a, <2>1, <2>2
  <2>6. \A t \in Tasks : t > spawned <=> ~(t <= spawned)
    BY <1>a
  <2>7. \A t \in Tasks : t > spawned' <=> ~(t <= spawned')
    BY <1>a, <2>2
  <2>8. spawned + 1 <= spawned'
    BY <1>a, <2>2
  <2> QED
    BY <1>a, <2>1, <2>2, <2>3, <2>4, <2>5, <2>6, <2>7, <2>8 DEF TaskInv
<1>5. CASE CancelToken
  BY <1>5 DEF CancelToken, TaskInv
<1>6. CASE Forget
  BY <1>6, <1>a DEF Forget, TaskInv
<1>7. ASSUME NEW t \in Tasks, LoopTop(t) PROVE TaskInv'
  BY <1>1, <1>7 DEF LoopTop, GoTo
<1>8. ASSUME NEW t \in Tasks, FlushPoll(t) PROVE TaskInv'
  BY <1>1, <1>2, <1>8 DEF FlushPoll
<1>9. ASSUME NEW t \in Tasks, BuildRequest(t) \/ OpenErr(t) \/ OpenOk(t) PROVE TaskInv'
  BY <1>1, <1>9 DEF BuildRequest, OpenErr, OpenOk, GoTo
<1>10. ASSUME NEW t \in Tasks, MuxTake(t) PROVE TaskInv'
  <2> DEFINE then == [pc EXCEPT ![t] = "streaming"]
             S == {holder} \ {None}
  <2>1. pc[t] = "add" /\ holder' = t /\ Ended(S, then) /\ UNCHANGED watch
    BY <1>10 DEF MuxTake
  <2>2. \A u \in Tasks : then[u] = IF u = t THEN "streaming" ELSE pc[u]
    BY <1>a
  <2>3. t \notin S /\ \A u \in S : u \in Tasks /\ pc[u] = "streaming"
    BY <1>a, <2>1 DEF TaskInv
  <2>6. \A u \in Tasks : u \in S <=> pc[u] = "streaming"
    BY <1>a DEF TaskInv
  <2> HIDE DEF then, S
  <2>4. \A u \in Tasks : u \notin S => pc'[u] = then[u] /\ lastLine'[u] = lastLine[u]
    BY <2>1, EndedFacts
  <2>5. \A u \in S : pc'[u] \in {"top", "returned"} /\ lastLine'[u] = None
    BY <2>1, <2>3, EndedFacts
  <2>7. \A u \in Tasks : pc'[u] = "free" <=> pc[u] = "free"
    BY <2>1, <2>2, <2>3, <2>4, <2>5
  <2>8. \A u \in Tasks : pc'[u] = "streaming" <=> u = t
    BY <2>1, <2>2, <2>3, <2>4, <2>5, <2>6
  <2>9. \A u \in Tasks : lastLine'[u] = None
    BY <2>4, <2>5, <2>6 DEF TaskInv
  <2> QED
    BY <2>1, <2>7, <2>8, <2>9 DEF TaskInv
<1>11. CASE StreamEnds
  <2>1. Ended({holder}, pc) /\ holder' = None /\ UNCHANGED watch /\ holder \in Tasks
    BY <1>11, <1>a DEF StreamEnds
  <2>2. /\ \A u \in Tasks \ {holder} : pc'[u] = pc[u] /\ lastLine'[u] = lastLine[u]
        /\ pc'[holder] \in {"top", "returned"} /\ lastLine'[holder] = None
    BY <2>1, EndedFacts
  <2>3. pc[holder] = "streaming" /\ \A u \in Tasks \ {holder} : pc[u] # "streaming"
    BY <2>1 DEF TaskInv
  <2> QED
    BY <1>a, <2>1, <2>2, <2>3 DEF TaskInv
<1>12. CASE Yield
  <2>1. holder \in Tasks /\ UNCHANGED <<watch, holder, pc>>
        /\ \A u \in Tasks \ {holder} : lastLine'[u] = lastLine[u]
    BY <1>12, <1>a DEF Yield, TypeOK
  <2> QED
    BY <2>1 DEF TaskInv
<1>13. CASE UNCHANGED vars
  BY <1>2, <1>13
<1> QED
  BY <1>3, <1>4, <1>5, <1>6, <1>7, <1>8, <1>9, <1>10, <1>11, <1>12, <1>13 DEF Next, TaskStep

\* What Yield does, with the line it yields.
LEMMA YieldFacts ==
  ASSUME TypeOK, Yield
  PROVE  LET n == pos[holder] IN
         /\ holder \in Tasks /\ n \in Log /\ n \in 1..written
         /\ updates' = Append(updates, lastLine'[holder])
         /\ lastLine'[holder] = Resolve(holder, n) /\ lastLine'[holder] \in Int
         /\ delivered'[holder] = delivered[holder] \cup {n}
         /\ first'[holder] = (IF first[holder] = None THEN n ELSE first[holder])
         /\ pos'[holder] = n + 1
         /\ UNCHANGED <<written, store, watch, task, holder>>
         /\ \A t \in Tasks \ {holder} : /\ lastLine'[t] = lastLine[t] /\ delivered'[t] = delivered[t]
                                        /\ first'[t] = first[t] /\ pos'[t] = pos[t]
<1> DEFINE n == pos[holder]
<1>1. holder \in Tasks /\ n \in Log /\ n \in 1..written
  BY CursorBounds, Basics DEF TypeOK, Yield, Log
<1>2. /\ updates' = Append(updates, Resolve(holder, n))
      /\ lastLine' = [lastLine EXCEPT ![holder] = Resolve(holder, n)]
      /\ delivered' = [delivered EXCEPT ![holder] = @ \cup {n}]
      /\ first' = [first EXCEPT ![holder] = IF @ = None THEN n ELSE @]
      /\ pos' = [pos EXCEPT ![holder] = n + 1]
      /\ UNCHANGED <<written, store, watch, task, holder>>
  BY DEF Yield
<1>3. Resolve(holder, n) \in Int
  BY <1>1, ResolveType
<1> HIDE DEF n
<1>4. /\ lastLine'[holder] = Resolve(holder, n)
      /\ delivered'[holder] = delivered[holder] \cup {n}
      /\ first'[holder] = (IF first[holder] = None THEN n ELSE first[holder])
      /\ pos'[holder] = n + 1
  BY <1>1, <1>2 DEF TypeOK
<1>5. \A t \in Tasks \ {holder} : /\ lastLine'[t] = lastLine[t] /\ delivered'[t] = delivered[t]
                                  /\ first'[t] = first[t] /\ pos'[t] = pos[t]
  BY <1>1, <1>2 DEF TypeOK
<1> QED
  BY <1>1, <1>2, <1>3, <1>4, <1>5 DEF n

\* Only Yield adds to the history, and nothing is taken from the log.
LEMMA OnlyYields ==
  ASSUME TypeOK, [Next]_vars
  PROVE  /\ Yield \/ UNCHANGED <<delivered, first>>
         /\ written <= written' /\ written \in Nat /\ written' \in Nat
         /\ spawned <= spawned' /\ spawned \in Nat /\ spawned' \in Nat
         /\ cancelled \subseteq cancelled' /\ unconfirmed \subseteq unconfirmed'
<1> DEFINE Goal == /\ written <= written' /\ written' \in Nat
                   /\ spawned <= spawned' /\ spawned' \in Nat
                   /\ cancelled \subseteq cancelled' /\ unconfirmed \subseteq unconfirmed'
<1>0. written \in Nat /\ spawned \in Nat
  BY DEF TypeOK
<1>1. CASE UNCHANGED <<written, spawned, cancelled, unconfirmed, delivered, first>>
  BY <1>0, <1>1
<1>2. CASE LogLine \/ Spawn \/ CancelToken \/ Forget \/ Record
  BY <1>0, <1>2 DEF LogLine, Spawn, CancelToken, Forget, Record
<1>3. ASSUME NEW t \in Tasks, FlushPoll(t) PROVE Goal /\ UNCHANGED <<delivered, first>>
  BY <1>0, <1>3 DEF FlushPoll
<1>4. ASSUME NEW t \in Tasks, LoopTop(t) \/ BuildRequest(t) \/ OpenErr(t) \/ OpenOk(t) \/ MuxTake(t)
      PROVE  UNCHANGED <<written, spawned, cancelled, unconfirmed, delivered, first>>
  BY <1>4 DEF LoopTop, BuildRequest, OpenErr, OpenOk, MuxTake
<1>5. CASE StreamEnds
  BY <1>1, <1>5 DEF StreamEnds
<1>6. CASE Yield
  BY <1>0, <1>6 DEF Yield
<1> HIDE DEF Goal
<1>7. CASE \E t \in Tasks : TaskStep(t)
  BY <1>1, <1>3, <1>4, <1>0, <1>7 DEF TaskStep, Goal
<1> QED
  BY <1>1, <1>2, <1>5, <1>6, <1>7 DEF Next

LEMMA YieldStep == TypeOK /\ TaskInv /\ YieldInv /\ [Next]_vars => YieldInv'
<1> SUFFICES ASSUME TypeOK, TaskInv, YieldInv, [Next]_vars PROVE YieldInv'
  OBVIOUS
<1>1. TaskInv' /\ TypeOK'
  BY TypeStep, TaskInvStep
<1>2. \A t \in Tasks : pc'[t] = "free" => pc[t] = "free"
  <2>1. \A t \in Tasks : pc'[t] = "free" => t > spawned'
    BY <1>1 DEF TaskInv
  <2>2. \A t \in Tasks : t > spawned' => t > spawned
    BY OnlyYields, Basics
  <2> QED
    BY <2>1, <2>2 DEF TaskInv
<1>3. 1..written \subseteq 1..written'
  BY OnlyYields
<1>4. CASE UNCHANGED <<delivered, first>>
  BY <1>2, <1>3, <1>4 DEF YieldInv
<1>5. CASE Yield
  <2>1. /\ holder \in Tasks /\ pos[holder] \in 1..written /\ pos[holder] \in Log
        /\ delivered'[holder] = delivered[holder] \cup {pos[holder]}
        /\ first'[holder] = (IF first[holder] = None THEN pos[holder] ELSE first[holder])
        /\ \A t \in Tasks \ {holder} : delivered'[t] = delivered[t] /\ first'[t] = first[t]
        /\ UNCHANGED <<pc, written>>
    BY <1>5, YieldFacts
  <2>2. first'[holder] # None /\ pc[holder] # "free"
    BY <2>1, Basics DEF TaskInv
  <2> QED
    BY <2>1, <2>2 DEF YieldInv
<1> QED
  BY <1>4, <1>5, OnlyYields

(***************************************************************************)
(* The cursor.                                                             *)
(***************************************************************************)
LEMMA UpdatesFacts ==
  ASSUME NEW q \in Seq(Int)
  PROVE  /\ Len(q) \in Nat /\ DOMAIN q = 1..Len(q)
         /\ q # <<>> => /\ Len(q) > 0 /\ Head(q) = q[1] /\ 1 \in DOMAIN q
                       /\ Tail(q) \in Seq(Int) /\ Len(Tail(q)) = Len(q) - 1
                       /\ DOMAIN Tail(q) = 1..(Len(q) - 1)
                       /\ \A i \in 1..(Len(q) - 1) : Tail(q)[i] = q[i + 1]
  OBVIOUS

LEMMA UpdatesAppend ==
  ASSUME NEW q \in Seq(Int), NEW x \in Int
  PROVE  \A i \in DOMAIN Append(q, x) : (i \in DOMAIN q /\ Append(q, x)[i] = q[i]) \/ Append(q, x)[i] = x
<1>1. /\ Append(q, x) \in Seq(Int) /\ Len(Append(q, x)) = Len(q) + 1
      /\ \A i \in 1..Len(q) : Append(q, x)[i] = q[i]
      /\ Append(q, x)[Len(q) + 1] = x
  BY AppendProperties
<1>2. DOMAIN Append(q, x) = 1..(Len(q) + 1) /\ DOMAIN q = 1..Len(q) /\ Len(q) \in Nat
  BY <1>1
<1> QED
  BY <1>1, <1>2

LEMMA SettleStep == TypeOK /\ TaskInv /\ SettleInv /\ [Next]_vars => SettleInv'
<1> SUFFICES ASSUME TypeOK, TaskInv, SettleInv, [Next]_vars PROVE SettleInv'
  OBVIOUS
<1>a. updates \in Seq(Int) /\ holder \in Tasks \cup {None} /\ None \notin Tasks
  BY Basics DEF TypeOK
<1>1. CASE UNCHANGED <<holder, updates, store, lastLine>> /\ cancelled \subseteq cancelled'
  BY <1>1 DEF SettleInv
<1>2. CASE LogLine \/ Spawn \/ CancelToken
  BY <1>1, <1>2 DEF LogLine, Spawn, CancelToken
<1>3. CASE Forget
  <2>1. current \in cancelled /\ UNCHANGED <<holder, updates, lastLine, cancelled>>
    BY <1>3 DEF Forget
  <2>2. holder # None => holder \in Tasks /\ pc[holder] = "streaming"
    BY <1>a DEF TaskInv
  <2>3. holder # None => holder \in Tasks /\ holder <= spawned
    BY <2>2, Basics DEF TaskInv, TypeOK
  <2>4. holder # None => holder \in cancelled
    BY <2>1, <2>3 DEF TaskInv
  <2> QED
    BY <2>1, <2>4 DEF SettleInv
<1>4. CASE Record
  <2>1. /\ updates # <<>> /\ store' = Head(updates) /\ updates' = Tail(updates)
        /\ UNCHANGED <<holder, lastLine, cancelled>>
    BY <1>4 DEF Record
  <2>2. CASE Len(updates) = 1
    <3>1. updates' = <<>> /\ store' = updates[Len(updates)]
      BY <1>a, <2>1, <2>2
    <3> QED
      BY <2>1, <3>1 DEF SettleInv
  <2>3. CASE Len(updates) # 1
    <3>0. /\ Len(updates) \in Nat /\ Len(updates) > 1 /\ Len(updates') = Len(updates) - 1
          /\ \A i \in 1..(Len(updates) - 1) : updates'[i] = updates[i + 1]
      <4>1. /\ Len(updates) \in Nat /\ Len(updates) > 0 /\ Len(Tail(updates)) = Len(updates) - 1
            /\ \A i \in 1..(Len(updates) - 1) : Tail(updates)[i] = updates[i + 1]
        BY <1>a, <2>1, UpdatesFacts
      <4>2. Len(updates) > 1
        <5> DEFINE m == Len(updates)
        <5>1. m \in Nat /\ m > 0 /\ m # 1
          BY <2>3, <4>1
        <5> HIDE DEF m
        <5>2. m > 1
          BY <5>1
        <5> QED
          BY <5>2 DEF m
      <4> QED
        BY <2>1, <4>1, <4>2
    <3>1. updates' # <<>> /\ updates'[Len(updates')] = updates[Len(updates)]
      BY <3>0
    <3> QED
      BY <2>1, <3>1 DEF SettleInv
  <2> QED
    BY <2>2, <2>3
<1>5. ASSUME NEW t \in Tasks, LoopTop(t) \/ FlushPoll(t) \/ BuildRequest(t) \/ OpenErr(t) \/ OpenOk(t)
      PROVE  SettleInv'
  BY <1>1, <1>5 DEF LoopTop, FlushPoll, BuildRequest, OpenErr, OpenOk
<1>6. ASSUME NEW t \in Tasks, MuxTake(t) PROVE SettleInv'
  <2>1. pc[t] = "add" /\ holder' = t /\ Ended({holder} \ {None}, [pc EXCEPT ![t] = "streaming"])
    BY <1>6 DEF MuxTake
  <2>2. lastLine[t] = None /\ t # holder
    BY <2>1 DEF TaskInv
  <2>3. lastLine'[t] = None
    BY <2>1, <2>2, EndedFacts
  <2> QED
    BY <2>1, <2>3 DEF SettleInv
<1>7. CASE StreamEnds
  BY <1>7 DEF StreamEnds, SettleInv
<1>8. CASE Yield
  <2>1. holder' = holder /\ updates' = Append(updates, lastLine'[holder]) /\ lastLine'[holder] \in Int
    BY <1>8, YieldFacts
  <2>2. updates' # <<>> /\ updates'[Len(updates')] = lastLine'[holder]
    BY <1>a, <2>1
  <2> QED
    BY <2>1, <2>2 DEF SettleInv
<1>9. CASE UNCHANGED vars
  BY <1>1, <1>9
<1> QED
  BY <1>2, <1>3, <1>4, <1>5, <1>6, <1>7, <1>8, <1>9 DEF Next, TaskStep

\* Undated lines put a stream's clock ahead of the log's, but never by more than Overlap.
LEMMA NoneAhead ==
  ASSUME NEW n \in Log, NEW v, v \in Int, v <= Time[n]
  PROVE  Ahead(v, n)
<1>1. Time[n] \in Nat /\ Tick \in Nat /\ n \in Nat
  BY LogIsOrdered, CursorBounds, Basics
<1>2. 0 \in 0..n /\ (n + 1 - 0)..n = {} /\ 0 * Tick = 0
  BY <1>1
<1>3. Undated(n, 0) /\ v <= Time[n] + 0 * Tick
  BY <1>1, <1>2 DEF Undated
<1> QED
  BY <1>2, <1>3 DEF Ahead

LEMMA OneMore ==
  ASSUME NEW n \in Log, n - 1 \in Log, n \notin Dated, NEW v \in Int, Ahead(v, n - 1)
  PROVE  Ahead(v + Tick, n)
<1>1. PICK m \in 0..(n - 1) : Undated(n - 1, m) /\ v <= Time[n - 1] + m * Tick
  BY DEF Ahead
<1>2. /\ Time[n - 1] <= Time[n] /\ Time[n - 1] \in Nat /\ Time[n] \in Nat /\ Tick \in Nat
      /\ n \in Nat /\ m \in Nat
  BY LogIsOrdered, CursorBounds, Basics
<1>3. (n + 1 - (m + 1))..n = (((n - 1) + 1 - m)..(n - 1)) \cup {n} /\ m + 1 \in 0..n
  BY <1>1, <1>2
<1>4. Undated(n, m + 1)
  BY <1>1, <1>3 DEF Undated
<1>5. (m + 1) * Tick = m * Tick + Tick /\ m * Tick \in Nat
  BY <1>2
<1> DEFINE p == Time[n - 1]
           q == Time[n]
<1> HIDE DEF p, q
<1>6. p \in Nat /\ q \in Nat /\ p <= q /\ v <= p + m * Tick
  BY <1>1, <1>2 DEF p, q
<1>7. v + Tick <= q + (m + 1) * Tick
  BY <1>2, <1>5, <1>6
<1> QED
  BY <1>3, <1>4, <1>7 DEF Ahead, q

LEMMA ResolveBound ==
  ASSUME TypeOK, ClockInv, NEW t \in Tasks, pos[t] \in Log
  PROVE  Ahead(Resolve(t, pos[t]), pos[t])
<1> DEFINE n == pos[t]
<1>1. Time[n] \in Nat
  BY LogIsOrdered
<1>2. CASE n \in Dated
  <2>1. Resolve(t, n) = Time[n]
    BY <1>2 DEF Resolve
  <2> QED
    BY <1>1, <2>1, NoneAhead
<1>3. CASE n \notin Dated /\ lastLine[t] = None
  <2>1. Resolve(t, n) = 0
    BY <1>3 DEF Resolve
  <2> QED
    BY <1>1, <2>1, NoneAhead
<1>4. CASE n \notin Dated /\ lastLine[t] # None
  <2>1. Resolve(t, n) = lastLine[t] + Tick /\ lastLine[t] \in Int
    BY <1>4 DEF Resolve, TypeOK, Stamps
  <2>2. n - 1 \in Log /\ Ahead(lastLine[t], n - 1)
    BY <1>4 DEF ClockInv
  <2> QED
    BY <1>4, <2>1, <2>2, OneMore
<1> QED
  BY <1>2, <1>3, <1>4

LEMMA OverlapEnough ==
  ASSUME NEW n \in Log, NEW v \in Int, Ahead(v, n)
  PROVE  v - Overlap <= Time[n]
<1>1. PICK m \in 0..n : Undated(n, m) /\ v <= Time[n] + m * Tick
  BY DEF Ahead
<1>2. m * Tick <= Overlap
  BY <1>1, UndatedRuns DEF Undated
<1>3. Time[n] \in Nat /\ Tick \in Nat /\ Overlap \in Nat /\ m \in Nat
  BY <1>1, LogIsOrdered, CursorBounds, Basics
<1>4. m * Tick \in Nat
  BY <1>3
<1> QED
  BY <1>1, <1>2, <1>3, <1>4

LEMMA ClockStep == TypeOK /\ TaskInv /\ ClockInv /\ [Next]_vars => ClockInv'
<1> SUFFICES ASSUME TypeOK, TaskInv, ClockInv, [Next]_vars PROVE ClockInv'
  OBVIOUS
<1>a. \A v, n : Ahead(v, n)' <=> Ahead(v, n)
  BY DEF Ahead, Undated
<1>1. ASSUME \A t \in Tasks : lastLine'[t] # None => lastLine'[t] = lastLine[t] /\ pos'[t] = pos[t]
      PROVE  ClockInv'
  BY <1>1 DEF ClockInv, Ahead, Undated
<1>2. CASE UNCHANGED <<pos, lastLine>>
  BY <1>1, <1>2
<1>3. CASE LogLine \/ Spawn \/ CancelToken \/ Forget \/ Record
  BY <1>2, <1>3 DEF LogLine, Spawn, CancelToken, Forget, Record
<1>4. ASSUME NEW t \in Tasks, LoopTop(t) \/ FlushPoll(t) \/ BuildRequest(t) \/ OpenErr(t) PROVE ClockInv'
  BY <1>2, <1>4 DEF LoopTop, FlushPoll, BuildRequest, OpenErr
<1>5. ASSUME NEW t \in Tasks, OpenOk(t) PROVE ClockInv'
  <2>1. pc[t] = "open" /\ lastLine' = lastLine /\ pos' = [pos EXCEPT ![t] = FirstLine(request[t])]
    BY <1>5 DEF OpenOk, GoTo
  <2>2. lastLine[t] = None
    BY <2>1 DEF TaskInv
  <2> QED
    BY <1>1, <2>1, <2>2 DEF TypeOK
<1>6. ASSUME NEW t \in Tasks, MuxTake(t) PROVE ClockInv'
  <2>1. Ended({holder} \ {None}, [pc EXCEPT ![t] = "streaming"])
    BY <1>6 DEF MuxTake
  <2> QED
    BY <1>1, <2>1, EndedFacts
<1>7. CASE StreamEnds
  <2>1. Ended({holder}, pc)
    BY <1>7 DEF StreamEnds
  <2> QED
    BY <1>1, <2>1, EndedFacts
<1>8. CASE Yield
  <2> DEFINE n == pos[holder]
  <2>1. /\ holder \in Tasks /\ n \in Log /\ lastLine'[holder] = Resolve(holder, n) /\ pos'[holder] = n + 1
        /\ \A t \in Tasks \ {holder} : lastLine'[t] = lastLine[t] /\ pos'[t] = pos[t]
    BY <1>8, YieldFacts
  <2>2. Ahead(Resolve(holder, n), n)
    BY <2>1, ResolveBound
  <2> HIDE DEF n
  <2>3. pos'[holder] - 1 = n
    BY <2>1, Basics
  <2> QED
    BY <2>1, <2>2, <2>3 DEF ClockInv, Ahead, Undated
<1>9. CASE UNCHANGED vars
  BY <1>2, <1>9
<1> QED
  BY <1>3, <1>4, <1>5, <1>6, <1>7, <1>8, <1>9 DEF Next, TaskStep

\* What an activation delivered stays delivered.
LEMMA DeliveredGrows ==
  ASSUME TypeOK, [Next]_vars
  PROVE  \A t \in Tasks : delivered[t] \subseteq delivered'[t]
<1>1. CASE Yield
  <2>1. /\ delivered'[holder] = delivered[holder] \cup {pos[holder]}
        /\ \A t \in Tasks \ {holder} : delivered'[t] = delivered[t]
    BY <1>1, YieldFacts
  <2> QED
    BY <2>1
<1> QED
  BY <1>1, OnlyYields

LEMMA StoreStep == TypeOK /\ ClockInv /\ StoreInv /\ [Next]_vars => StoreInv'
<1> SUFFICES ASSUME TypeOK, ClockInv, StoreInv, [Next]_vars PROVE StoreInv'
  OBVIOUS
<1>a. \A v : FromLine(v, delivered) => FromLine(v, delivered')
  BY DeliveredGrows DEF FromLine
<1>b. updates \in Seq(Int) /\ DOMAIN updates = 1..Len(updates) /\ Len(updates) \in Nat
  BY DEF TypeOK
<1>1. CASE UNCHANGED <<store, updates>>
  BY <1>1, <1>a DEF StoreInv
<1>2. CASE LogLine \/ Spawn \/ CancelToken \/ StreamEnds
  BY <1>1, <1>2 DEF LogLine, Spawn, CancelToken, StreamEnds
<1>3. CASE Forget
  BY <1>3, <1>a DEF Forget, StoreInv
<1>4. CASE Record
  <2>1. updates # <<>> /\ store' = Head(updates) /\ updates' = Tail(updates)
    BY <1>4 DEF Record
  <2>2. /\ store' = updates[1] /\ 1 \in DOMAIN updates /\ DOMAIN updates' = 1..(Len(updates) - 1)
        /\ \A i \in 1..(Len(updates) - 1) : updates'[i] = updates[i + 1]
    BY <1>b, <2>1, UpdatesFacts
  <2>3. \A i \in DOMAIN updates' : i + 1 \in DOMAIN updates /\ updates'[i] = updates[i + 1]
    BY <1>b, <2>2
  <2> QED
    BY <1>a, <2>2, <2>3 DEF StoreInv
<1>5. ASSUME NEW t \in Tasks, TaskStep(t) PROVE UNCHANGED <<store, updates>>
  BY <1>5 DEF TaskStep, LoopTop, FlushPoll, BuildRequest, OpenErr, OpenOk, MuxTake
<1>6. CASE Yield
  <2> DEFINE n == pos[holder]
             ts == lastLine'[holder]
  <2>1. /\ holder \in Tasks /\ n \in Log /\ ts = Resolve(holder, n) /\ ts \in Int
        /\ updates' = Append(updates, ts) /\ store' = store
        /\ n \in delivered'[holder]
    BY <1>6, YieldFacts
  <2>2. Ahead(ts, n)
    BY <2>1, ResolveBound
  <2>3. ts - Overlap <= Time[n]
    BY <2>1, <2>2, OverlapEnough
  <2> HIDE DEF n, ts
  <2>4. FromLine(ts, delivered')
    BY <2>1, <2>3 DEF FromLine
  <2>5. \A i \in DOMAIN updates' : (i \in DOMAIN updates /\ updates'[i] = updates[i]) \/ updates'[i] = ts
    BY <1>b, <2>1, UpdatesAppend
  <2> QED
    BY <1>a, <2>1, <2>4, <2>5 DEF StoreInv
<1>7. CASE UNCHANGED vars
  BY <1>1, <1>7
<1> QED
  BY <1>1, <1>2, <1>3, <1>4, <1>5, <1>6, <1>7 DEF Next

(***************************************************************************)
(* The request of a task that opens again.                                 *)
(***************************************************************************)
\* Who is neither cancelled nor given up was so before, and is the current activation.
LEMMA WaitedBefore ==
  ASSUME TypeOK, TaskInv, YieldInv, [Next]_vars, NEW t \in Tasks
  PROVE  /\ Waited(t)' => t \notin cancelled \cup unconfirmed
         /\ Waited(t)' /\ first' = first => Waited(t)
         /\ Waited(t) => t = current /\ pc[t] # "free"
<1>1. Waited(t) => t = current /\ pc[t] # "free"
  <2>1. Waited(t) => pc[t] # "free" /\ t \notin cancelled
    BY DEF Waited, YieldInv
  <2>2. pc[t] # "free" => t <= spawned
    <3>1. t \in Nat /\ spawned \in Nat
      BY Basics, OnlyYields
    <3>2. t > spawned => pc[t] = "free"
      BY DEF TaskInv
    <3> QED
      BY <3>1, <3>2
  <2> QED
    BY <2>1, <2>2 DEF TaskInv
<1> QED
  BY <1>1, OnlyYields DEF Waited

LEMMA AskStep == TypeOK /\ TaskInv /\ YieldInv /\ StoreInv /\ AskInv /\ [Next]_vars => AskInv'
<1> SUFFICES ASSUME TypeOK, TaskInv, YieldInv, StoreInv, AskInv, [Next]_vars, NEW t \in Tasks, Waited(t)'
             PROVE  Asks(t)'
  BY DEF AskInv
<1>a. t \notin cancelled \cup unconfirmed /\ (first' = first => Waited(t) /\ Asks(t) /\ t = current /\ pc[t] # "free")
  BY WaitedBefore DEF AskInv
<1>b. \A u \in Tasks : delivered[u] \subseteq delivered'[u]
  BY DeliveredGrows
<1>c. lastLine[t] # None => pc[t] = "streaming"
  BY DEF TaskInv
<1>d. /\ pc \in [Tasks -> {"free", "top", "flush", "get", "open", "add", "streaming", "returned"}]
      /\ reopen \in [Tasks -> BOOLEAN] /\ reopen[t] \in BOOLEAN /\ None \notin Int
      /\ flush \in [Tasks -> Stamps] /\ request \in [Tasks -> [tail : Nat \cup {None}, since : Stamps]]
  BY Basics DEF TypeOK
<1>1. ASSUME Asks(t), pc'[t] = pc[t], reopen'[t] = reopen[t], flush'[t] = flush[t],
             request'[t] = request[t], lastLine'[t] = lastLine[t], store # None => store' # None
      PROVE  Asks(t)'
  BY <1>1, <1>b DEF Asks
<1>2. CASE LogLine \/ CancelToken
  BY <1>1, <1>2, <1>a DEF LogLine, CancelToken
<1>3. CASE Spawn
  <2>1. Asks(t) /\ pc[t] # "free" /\ current = None /\ t = current
    BY <1>3, <1>a DEF Spawn
  <2> QED
    BY <2>1, Basics
<1>4. CASE Forget
  BY <1>4, <1>a DEF Forget
<1>5. CASE Record
  <2>1. store' \in Int
    BY <1>5, UpdatesFacts DEF Record, TypeOK
  <2> QED
    BY <1>1, <1>5, <1>a, <1>d, <2>1 DEF Record
<1>6. ASSUME NEW u \in Tasks, u # t, LoopTop(u) \/ FlushPoll(u) \/ BuildRequest(u) \/ OpenErr(u) \/ OpenOk(u)
      PROVE  Asks(t)'
  BY <1>1, <1>6, <1>a, <1>d DEF LoopTop, FlushPoll, BuildRequest, OpenErr, OpenOk, GoTo
<1>7. CASE LoopTop(t)
  <2>1. Asks(t) /\ pc[t] = "top" /\ UNCHANGED <<store, reopen, flush, request, lastLine>>
    BY <1>7, <1>a DEF LoopTop, GoTo
  <2>2. reopen[t]
    BY <2>1 DEF Asks
  <2>3. pc'[t] = "flush"
    BY <1>7, <1>a, <1>d, <2>2 DEF LoopTop, GoTo
  <2> QED
    BY <2>1, <2>2, <2>3 DEF Asks
<1>8. CASE FlushPoll(t)
  <2>1. Asks(t) /\ pc[t] = "flush" /\ UNCHANGED <<store, reopen, flush, request, lastLine>>
    BY <1>8, <1>a DEF FlushPoll
  <2>2. reopen[t] /\ lastLine[t] = None
    BY <1>c, <2>1 DEF Asks
  <2>3. CASE pc' = pc
    BY <2>1, <2>2, <2>3 DEF Asks
  <2>4. CASE pc' = [pc EXCEPT ![t] = "get"] /\ pc' # pc
    <3>1. pc'[t] = "get" /\ (left[t] = 0 \/ CursorFlushed(t))
          /\ unconfirmed' = IF left[t] = 0 /\ flush[t] # None THEN unconfirmed \cup {t} ELSE unconfirmed
      BY <1>8, <1>d, <2>4 DEF FlushPoll
    <3>2. t \notin unconfirmed'
      BY DEF Waited
    <3>3. flush[t] # None => CursorFlushed(t)
      BY <3>1, <3>2
    <3>4. store # None
      BY <2>1, <2>2, <3>3 DEF Asks, CursorFlushed
    <3> QED
      BY <2>1, <2>2, <3>1, <3>4 DEF Asks
  <2> QED
    BY <1>8, <2>3, <2>4 DEF FlushPoll
<1>9. CASE BuildRequest(t)
  <2>1. Asks(t) /\ pc[t] = "get" /\ pc'[t] = "open" /\ UNCHANGED <<store, reopen, lastLine, delivered>>
        /\ request'[t] = RequestFor(reopen[t])
    BY <1>9, <1>a, <1>d DEF BuildRequest, GoTo
  <2>2. reopen[t] /\ store # None
    BY <1>c, <2>1 DEF Asks
  <2>3. request'[t].tail = None /\ request'[t].since = store - Overlap
    BY <2>1, <2>2 DEF RequestFor
  <2>4. store - Overlap \in Int
    BY <2>2, CursorBounds DEF TypeOK, Stamps
  <2>5. \E u \in Tasks : \E n \in delivered[u] : store - Overlap <= Time[n]
    BY <2>2 DEF StoreInv, FromLine
  <2> QED
    BY <2>1, <2>2, <2>3, <2>4, <2>5 DEF Asks
<1>10. CASE OpenErr(t)
  <2>1. Asks(t) /\ pc[t] = "open" /\ pc'[t] \in {"returned", "top"} /\ UNCHANGED <<store, reopen, lastLine>>
    BY <1>10, <1>a, <1>d DEF OpenErr, GoTo
  <2> QED
    BY <2>1 DEF Asks
<1>11. CASE OpenOk(t)
  <2>1. Asks(t) /\ pc[t] = "open" /\ pc'[t] = "add" /\ UNCHANGED <<store, reopen, lastLine>>
    BY <1>11, <1>a, <1>d DEF OpenOk, GoTo
  <2> QED
    BY <2>1 DEF Asks
<1>12. ASSUME NEW S, NEW then, Ended(S, then), S = {u \in Tasks : pc[u] = "streaming"},
              then[t] = pc[t] \/ (pc[t] = "add" /\ then[t] = "streaming"),
              UNCHANGED <<store, request, first>>
       PROVE  Asks(t)'
  <2>1. Asks(t)
    BY <1>12, <1>a
  <2>2. CASE t \in S
    <3>1. pc'[t] = "top" /\ reopen'[t] /\ flush'[t] = lastLine[t] /\ pc[t] = "streaming"
      BY <1>12, <1>a, <2>2, EndedFacts
    <3> QED
      BY <1>12, <2>1, <3>1 DEF Asks
  <2>3. CASE t \notin S
    <3>1. pc'[t] = then[t] /\ reopen'[t] = reopen[t] /\ flush'[t] = flush[t] /\ lastLine'[t] = lastLine[t]
          /\ pc[t] # "streaming"
      BY <1>12, <2>3, EndedFacts
    <3>2. CASE then[t] = pc[t]
      BY <1>1, <1>12, <2>1, <3>1, <3>2
    <3>3. CASE pc[t] = "add" /\ then[t] = "streaming"
      BY <1>12, <2>1, <3>1, <3>3 DEF Asks
    <3> QED
      BY <1>12, <3>2, <3>3
  <2> QED
    BY <2>2, <2>3
<1>13. {holder} \ {None} = {u \in Tasks : pc[u] = "streaming"}
  <2>1. holder \in Tasks \cup {None} /\ None \notin Tasks
    BY Basics DEF TypeOK
  <2>2. \A u \in Tasks : holder = u <=> pc[u] = "streaming"
    BY DEF TaskInv
  <2> QED
    BY <2>1, <2>2
<1>14. ASSUME NEW u \in Tasks, MuxTake(u) PROVE Asks(t)'
  <2> DEFINE then == [pc EXCEPT ![u] = "streaming"]
  <2>1. then[t] = pc[t] \/ (pc[t] = "add" /\ then[t] = "streaming")
    BY <1>14, <1>d DEF MuxTake
  <2>2. Ended({holder} \ {None}, then) /\ UNCHANGED <<store, request, first>>
    BY <1>14 DEF MuxTake
  <2> HIDE DEF then
  <2> QED
    BY <1>12, <1>13, <2>1, <2>2
<1>15. CASE StreamEnds
  <2>1. Ended({holder}, pc) /\ UNCHANGED <<store, request, first>> /\ {holder} = {holder} \ {None}
    BY <1>15 DEF StreamEnds
  <2> QED
    BY <1>12, <1>13, <2>1
<1>16. CASE Yield
  <2>1. /\ lastLine'[holder] \in Int /\ UNCHANGED <<store, pc, reopen, flush, request>>
        /\ \A u \in Tasks \ {holder} : lastLine'[u] = lastLine[u] /\ first'[u] = first[u]
    BY <1>16, YieldFacts
  <2>2. CASE t = holder
    <3>1. pc[t] = "streaming"
      BY <2>2 DEF TaskInv
    <3> QED
      BY <1>d, <2>1, <2>2, <3>1 DEF Asks
  <2>3. CASE t # holder
    <3>1. Waited(t)
      BY <1>a, <2>1, <2>3 DEF Waited
    <3> QED
      BY <1>1, <2>1, <2>3, <3>1 DEF AskInv
  <2> QED
    BY <2>2, <2>3
<1>17. CASE UNCHANGED vars
  BY <1>1, <1>17, <1>a
<1> QED
  BY <1>2, <1>3, <1>4, <1>5, <1>6, <1>7, <1>8, <1>9, <1>10, <1>11, <1>14, <1>15, <1>16, <1>17 DEF Next, TaskStep

(***************************************************************************)
(* The seam.                                                               *)
(***************************************************************************)
LEMMA PrintedGrows ==
  ASSUME TypeOK, [Next]_vars PROVE Printed \subseteq Printed'
  BY DeliveredGrows DEF Printed

\* An activation that was overtaken stays so.
LEMMA OvertakenBefore ==
  ASSUME TypeOK, [Next]_vars, NEW t \in Tasks, first'[t] = first[t], ~Overtaken(t)'
  PROVE  ~Overtaken(t)
<1>1. \A u \in 1..(t - 1) : u \in Tasks
  BY CursorBounds DEF Tasks
<1> QED
  BY <1>1, DeliveredGrows DEF Overtaken

\* The stream opened from the cursor begins at a line that was yielded, or before it.
LEMMA ReopenedInTime ==
  ASSUME TypeOK, TaskInv, YieldInv, NEW t \in Tasks, t = current, pc[t] = "open", Asks(t),
         first[t] # None, ~Overtaken(t), Unbroken(t)
  PROVE  \A j \in first[t]..(FirstLine(request[t]) - 1) : j \in Printed
<1> DEFINE r == request[t]
           k == FirstLine(r)
<1>1. PICK u \in Tasks : \E n \in delivered[u] : r.since <= Time[n]
  BY DEF Asks
<1>2. PICK n \in delivered[u] : r.since <= Time[n]
  BY <1>1
<1>3. n \in 1..written /\ n \in Nat /\ delivered[u] # {}
  BY <1>2, Basics DEF YieldInv, TypeOK
<1>4. k <= n
  BY <1>2, <1>3, FirstLineBefore DEF Asks
<1>5. k \in Nat
  BY FirstLineType, CursorBounds DEF TypeOK
<1>6. u \in Nat /\ t \in Nat /\ spawned \in Nat /\ t = spawned /\ first[t] \in Nat
  BY Basics DEF TaskInv, TypeOK
<1>7. u <= t
  <2>1. pc[u] # "free"
    BY <1>3 DEF YieldInv
  <2>2. ~(u > spawned)
    BY <2>1 DEF TaskInv
  <2> QED
    BY <1>6, <2>2
<1> HIDE DEF k
<1>8. CASE u = t
  <2>1. \A j \in first[t]..n : j \in Printed
    BY <1>2, <1>8 DEF Unbroken
  <2>2. \A j \in first[t]..(k - 1) : j \in first[t]..n
    BY <1>3, <1>4, <1>5, <1>6
  <2> QED
    BY <2>1, <2>2 DEF k
<1>9. CASE u # t
  <2>1. u \in 1..(t - 1)
    BY <1>6, <1>7, <1>9, Basics
  <2>2. ~(first[t] < n)
    BY <1>2, <2>1 DEF Overtaken
  <2>3. first[t]..(k - 1) = {}
    BY <1>3, <1>4, <1>5, <1>6, <2>2
  <2> QED
    BY <2>3 DEF k
<1> QED
  BY <1>8, <1>9

LEMMA SeamStep ==
  TypeOK /\ TaskInv /\ YieldInv /\ AskInv /\ SeamInv /\ [Next]_vars => SeamInv'
<1> SUFFICES ASSUME TypeOK, TaskInv, YieldInv, AskInv, SeamInv, [Next]_vars,
                    NEW t \in Tasks, Waited(t)', ~Overtaken(t)'
             PROVE  SeamClosed(t)' /\ Unbroken(t)'
  BY DEF SeamInv
<1>a. t \notin cancelled \cup unconfirmed /\ (first' = first => Waited(t) /\ Asks(t) /\ t = current)
  BY WaitedBefore DEF AskInv
<1>b. Printed \subseteq Printed'
  BY PrintedGrows
<1>c. pc \in [Tasks -> {"free", "top", "flush", "get", "open", "add", "streaming", "returned"}]
      /\ pos \in [Tasks -> 1..(MaxLog + 1)]
  BY DEF TypeOK
<1>d. ASSUME Waited(t), first'[t] = first[t]
      PROVE  SeamClosed(t) /\ Unbroken(t) /\ ~Overtaken(t)
  BY <1>d, OvertakenBefore DEF SeamInv
<1>1. ASSUME Waited(t), first'[t] = first[t], delivered'[t] = delivered[t],
             pc'[t] \in {"add", "streaming"} => pc[t] \in {"add", "streaming"} /\ pos'[t] = pos[t]
      PROVE  SeamClosed(t)' /\ Unbroken(t)'
  <2>1. SeamClosed(t) /\ Unbroken(t)
    BY <1>1, <1>d
  <2>2. SeamClosed(t)'
    BY <1>1, <1>b, <2>1 DEF SeamClosed
  <2>3. Unbroken(t)'
    BY <1>1, <1>b, <2>1 DEF Unbroken
  <2> QED
    BY <2>2, <2>3
<1>2. CASE UNCHANGED <<first, delivered, pc, pos>>
  BY <1>1, <1>2, <1>a
<1>3. CASE LogLine \/ CancelToken \/ Forget \/ Record
  BY <1>2, <1>3 DEF LogLine, CancelToken, Forget, Record
<1>4. CASE Spawn
  BY <1>1, <1>4, <1>a, <1>c DEF Spawn
<1>5. ASSUME NEW u \in Tasks, LoopTop(u) \/ FlushPoll(u) \/ BuildRequest(u) \/ OpenErr(u)
      PROVE  SeamClosed(t)' /\ Unbroken(t)'
  <2>1. /\ UNCHANGED <<first, delivered, pos>>
        /\ pc' = pc \/ \E to \in {"returned", "get", "flush", "open", "top"} : pc' = [pc EXCEPT ![u] = to]
    BY <1>5 DEF LoopTop, FlushPoll, BuildRequest, OpenErr, GoTo
  <2> QED
    BY <1>1, <1>a, <1>c, <2>1
<1>6. ASSUME NEW u \in Tasks, OpenOk(u) PROVE SeamClosed(t)' /\ Unbroken(t)'
  <2>1. /\ UNCHANGED <<first, delivered>> /\ pc[u] = "open" /\ pc' = [pc EXCEPT ![u] = "add"]
        /\ pos' = [pos EXCEPT ![u] = FirstLine(request[u])]
    BY <1>6 DEF OpenOk, GoTo
  <2>2. CASE u # t
    BY <1>1, <1>a, <1>c, <2>1, <2>2
  <2>3. CASE u = t
    <3>1. Waited(t) /\ Asks(t) /\ t = current /\ Unbroken(t) /\ ~Overtaken(t) /\ first[t] # None
      BY <1>a, <1>d, <2>1 DEF Waited
    <3>2. \A j \in first[t]..(FirstLine(request[t]) - 1) : j \in Printed
      BY <2>1, <2>3, <3>1, ReopenedInTime
    <3>3. pos'[t] = FirstLine(request[t])
      BY <1>c, <2>1, <2>3
    <3>4. SeamClosed(t)'
      BY <1>b, <2>1, <3>2, <3>3 DEF SeamClosed
    <3>5. Unbroken(t)'
      BY <1>b, <2>1, <3>1 DEF Unbroken
    <3> QED
      BY <3>4, <3>5
  <2> QED
    BY <2>2, <2>3
<1>7. ASSUME NEW u \in Tasks, MuxTake(u) PROVE SeamClosed(t)' /\ Unbroken(t)'
  <2> DEFINE then == [pc EXCEPT ![u] = "streaming"]
             S == {holder} \ {None}
  <2>1. Ended(S, then) /\ UNCHANGED <<first, delivered>> /\ pc[u] = "add"
    BY <1>7 DEF MuxTake
  <2>2. then[t] = pc[t] \/ (pc[t] = "add" /\ then[t] = "streaming")
    BY <1>c, <2>1
  <2> HIDE DEF S, then
  <2>3. t \in S => pc'[t] \in {"top", "returned"}
    BY <2>1, EndedFacts
  <2>4. t \notin S => pc'[t] = then[t] /\ pos'[t] = pos[t]
    BY <2>1, EndedFacts
  <2> QED
    BY <1>1, <1>a, <2>1, <2>2, <2>3, <2>4
<1>8. CASE StreamEnds
  <2>1. Ended({holder}, pc) /\ UNCHANGED <<first, delivered>>
    BY <1>8 DEF StreamEnds
  <2>2. t \in {holder} => pc'[t] \in {"top", "returned"}
    BY <2>1, EndedFacts
  <2>3. t \notin {holder} => pc'[t] = pc[t] /\ pos'[t] = pos[t]
    BY <2>1, EndedFacts
  <2> QED
    BY <1>1, <1>a, <2>1, <2>2, <2>3
<1>9. CASE Yield
  <2> DEFINE n == pos[holder]
  <2>1. /\ holder \in Tasks /\ n \in Log /\ delivered'[holder] = delivered[holder] \cup {n}
        /\ first'[holder] = (IF first[holder] = None THEN n ELSE first[holder])
        /\ pos'[holder] = n + 1 /\ UNCHANGED pc
        /\ \A u \in Tasks \ {holder} : /\ delivered'[u] = delivered[u]
                                       /\ first'[u] = first[u] /\ pos'[u] = pos[u]
    BY <1>9, YieldFacts
  <2>2. n \in Nat /\ n \in Printed' /\ pos'[holder] - 1 = n
    <3> HIDE DEF n
    <3>1. n \in Nat /\ pos'[holder] - 1 = n
      BY <2>1, Basics
    <3>2. n \in Printed'
      BY <2>1 DEF Printed
    <3> QED
      BY <3>1, <3>2
  <2>3. CASE t # holder
    <3>1. Waited(t)
      BY <1>a, <2>1, <2>3 DEF Waited
    <3> QED
      BY <1>1, <2>1, <2>3, <3>1
  <2>4. CASE t = holder /\ first[t] = None
    <3>1. first'[t] = n /\ delivered'[t] = {n}
      BY <2>1, <2>4 DEF YieldInv
    <3>2. \A j \in n..n : j = n
      BY <2>2
    <3>3. SeamClosed(t)'
      BY <2>2, <2>4, <3>1, <3>2 DEF SeamClosed
    <3>4. Unbroken(t)'
      BY <2>2, <3>1, <3>2 DEF Unbroken
    <3> QED
      BY <3>3, <3>4
  <2>5. CASE t = holder /\ first[t] # None
    <3>1. first'[t] = first[t] /\ Waited(t) /\ pc[t] = "streaming"
      BY <1>a, <2>1, <2>5 DEF Waited, TaskInv
    <3>2. SeamClosed(t) /\ Unbroken(t)
      BY <1>d, <3>1
    <3>3. \A j \in first[t]..(n - 1) : j \in Printed
      BY <2>5, <3>1, <3>2 DEF SeamClosed
    <3>4. first[t] \in Nat
      BY <2>5, Basics DEF TypeOK
    <3>5. \A j \in first[t]..n : j \in Printed'
      <4> HIDE DEF n
      <4>1. \A j \in first[t]..n : j = n \/ j \in first[t]..(n - 1)
        BY <2>2, <3>4
      <4> QED
        BY <1>b, <2>2, <3>3, <4>1
    <3>6. SeamClosed(t)'
      BY <2>2, <2>5, <3>1, <3>5 DEF SeamClosed
    <3>7. Unbroken(t)'
      BY <1>b, <2>1, <2>5, <3>1, <3>2, <3>5 DEF Unbroken
    <3> QED
      BY <3>6, <3>7
  <2> QED
    BY <2>3, <2>4, <2>5
<1>10. CASE UNCHANGED vars
  BY <1>2, <1>10
<1> QED
  BY <1>3, <1>4, <1>5, <1>6, <1>7, <1>8, <1>9, <1>10 DEF Next, TaskStep

(***************************************************************************)
(* The invariant, and what follows from it.                                *)
(***************************************************************************)
LEMMA CursorInit == Init => CIInv
<1> SUFFICES ASSUME Init PROVE CIInv
  OBVIOUS
<1>1. TypeOK
  <2>1. 1 \in 1..(MaxLog + 1) /\ 0 \in 0..MaxLog /\ 0 \in 0..MaxTasks /\ 0 \in 0..FlushRetries
    BY CursorBounds
  <2>2. request \in [Tasks -> [tail : Nat \cup {None}, since : Stamps]]
    BY Basics DEF Init
  <2> QED
    BY <2>1, <2>2 DEF Init, TypeOK, Stamps
<1>2. TaskInv
  <2>1. \A t \in Tasks : t > 0 /\ t # None
    BY Basics
  <2> QED
    BY <2>1 DEF Init, TaskInv
<1>3. YieldInv /\ SettleInv /\ ClockInv /\ StoreInv
  BY DEF Init, YieldInv, SettleInv, ClockInv, StoreInv
<1>4. AskInv /\ SeamInv
  BY DEF Init, AskInv, SeamInv, Waited
<1> QED
  BY <1>1, <1>2, <1>3, <1>4 DEF CIInv

LEMMA CursorStep == CIInv /\ [Next]_vars => CIInv'
  BY TypeStep, TaskInvStep, YieldStep, SettleStep, ClockStep, StoreStep, AskStep, SeamStep DEF CIInv

LEMMA CursorInvariance == Spec => []CIInv
  BY CursorInit, CursorStep, PTL DEF Spec

\* Every variable stays within its type: in particular a stream never opens beyond the
\* log's end, whatever the request asks for.
THEOREM CursorTypeCorrect == Spec => []TypeOK
<1>1. CIInv => TypeOK
  BY DEF CIInv
<1> QED
  BY <1>1, CursorInvariance, PTL

\* When the processor task has taken every update, the store holds the last line of the
\* stream of the live activation: an update of a stream the mux dropped is always taken
\* before one of its successor's, and forgetting a key never hits its successor.
THEOREM CursorIsLastLine == Spec => []CursorSettles
<1>1. CIInv => CursorSettles
  BY DEF CIInv, SettleInv, CursorSettles
<1> QED
  BY <1>1, CursorInvariance, PTL

\* A stream reopened from its cursor leaves no gap behind it, for any log in which undated
\* lines do not add up to more than the overlap, unless the task gave up waiting for its
\* cursor or a stale stream of the key got ahead of it.
THEOREM ReopenLeavesNoGap == Spec => []NoGapUnlessOvertaken
<1>1. CIInv => NoGapUnlessOvertaken
  <2> SUFFICES ASSUME CIInv, NEW t \in Tasks \ (cancelled \cup unconfirmed), ~Overtaken(t),
                      pc[t] \in {"add", "streaming"}, first[t] # None
               PROVE  \A j \in first[t]..(pos[t] - 1) : j \in Printed
    BY DEF NoGapUnlessOvertaken, SeamClosed
  <2> QED
    BY DEF CIInv, SeamInv, Waited, SeamClosed
<1> QED
  BY <1>1, CursorInvariance, PTL
=============================================================================
