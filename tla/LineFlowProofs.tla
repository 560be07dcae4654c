--------------------------- MODULE LineFlowProofs ---------------------------
(***************************************************************************)
(* The safety properties of LineFlow, for any number of sources and lines, *)
(* any size of the channels and of the batch, blocking or lossy, and any   *)
(* choice of hidden, triggering and failing rows; and that LineFlow        *)
(* implements OrderedDelivery.                                             *)
(***************************************************************************)
EXTENDS LineFlow, SequenceTheorems, TLAPS

USE DEF state, streams, mux, fwd, render, vars

(***************************************************************************)
(* The inductive invariant.                                                *)
(***************************************************************************)
\* A task holds a row exactly while it waits to send it; the batch is empty when the
\* render task asks for another.
HandsInv ==
  /\ mpc = "forward" <=> mrow # None
  /\ fpc = "send" <=> frow # None
  /\ rpc = "recv" => batch = <<>>

\* Nobody ends before the root is cancelled except for the end of the streams, a panic
\* or a failed write; and the end goes from the mux to the forward task.
EndInv ==
  /\ ~ticking => cancelled
  /\ \A i \in DOMAIN batch : batch[i] = Shutdown => cancelled
  /\ \A i \in DOMAIN renderq : renderq[i] = Shutdown => cancelled
  /\ rpc \in {"final", "stopped"} => cancelled
  /\ PathAlive /\ fpc = "stopped" => mpc = "stopped"

LEMMA CapacityPositive == Capacity \in Nat /\ Capacity > 0
  BY LineBounds DEF Capacity

LEMMA CommandFacts ==
  /\ Lines \subseteq Commands /\ Flush \in Commands /\ Shutdown \in Commands
  /\ Flush \notin Lines /\ Shutdown \notin Lines /\ Flush # Shutdown /\ None \notin Lines
  BY LineKinds DEF Commands

LEMMA RowType ==
  ASSUME TypeOK, NEW s \in Sources, produced[s] < MaxLines
  PROVE  /\ <<s, produced[s] + 1>> \in Lines
         /\ [produced EXCEPT ![s] = @ + 1] \in [Sources -> 0..MaxLines]
  BY LineBounds DEF TypeOK, Lines

(***************************************************************************)
(* Types.                                                                  *)
(***************************************************************************)
LEMMA TypeStep == TypeOK /\ HandsInv /\ [Next]_vars => TypeOK'
<1> SUFFICES ASSUME TypeOK, HandsInv, [Next]_vars PROVE TypeOK'
  OBVIOUS
<1> USE DEF TypeOK
<1>0. /\ <<>> \in Seq(Lines) /\ <<>> \in Seq(Commands) /\ Len(<<>>) = 0
      /\ 0 <= Capacity /\ 0 <= Batch
  BY CapacityPositive, LineBounds
<1>1. CASE MuxCancelled
  BY <1>1 DEF MuxCancelled, MuxExit
<1>2. CASE MuxClosed
  BY <1>2 DEF MuxClosed, MuxExit
<1>3. CASE AbortMux
  BY <1>3 DEF AbortMux, MuxExit
<1>4. ASSUME NEW s \in Sources, MuxRow(s) PROVE TypeOK'
  <2> DEFINE row == <<s, produced[s] + 1>>
  <2>1. row \in Lines /\ produced' \in [Sources -> 0..MaxLines]
    BY <1>4, RowType DEF MuxRow
  <2> HIDE DEF row
  <2>2. CASE raw' = raw
    <3>1. mpc' \in {"select", "forward", "stopped"} /\ mrow' \in Lines \cup {None} /\ muxDropped' \in Nat
      <4>1. muxDropped' = muxDropped \/ muxDropped' = muxDropped + 1
        BY <1>4 DEF MuxRow, MuxExit
      <4>2. mpc' = mpc \/ mpc' = "forward" \/ mpc' = "stopped"
        BY <1>4 DEF MuxRow, MuxExit
      <4>3. mrow' = mrow \/ mrow' = row \/ mrow' = None
        BY <1>4 DEF MuxRow, MuxExit, row
      <4> QED
        BY <2>1, <4>1, <4>2, <4>3
    <3> QED
      BY <1>4, <2>1, <2>2, <3>1 DEF MuxRow
  <2>3. CASE Len(raw) < Capacity /\ raw' = Append(raw, row) /\ UNCHANGED <<mpc, mrow, muxDropped>>
    <3>1. raw' \in Seq(Lines) /\ Len(raw') <= Capacity
      BY <2>1, <2>3, CapacityPositive, AppendProperties
    <3> QED
      BY <1>4, <2>1, <2>3, <3>1 DEF MuxRow
  <2> QED
    BY <1>4, <2>2, <2>3 DEF MuxRow, MuxExit, row
<1>5. CASE MuxSend
  <2>1. CASE raw' = raw /\ MuxExit
    BY <1>5, <2>1 DEF MuxSend, MuxExit
  <2>2. CASE Len(raw) < Capacity /\ raw' = Append(raw, mrow) /\ mpc' = "select" /\ mrow' = None
             /\ muxDropped' = muxDropped
    <3>1. raw' \in Seq(Lines) /\ Len(raw') <= Capacity
      BY <1>5, <2>2, CapacityPositive, AppendProperties DEF HandsInv, MuxSend
    <3> QED
      BY <1>5, <2>2, <3>1 DEF MuxSend
  <2> QED
    BY <1>5, <2>1, <2>2 DEF MuxSend, MuxExit
<1>6. ASSUME NEW s \in Sources, StreamEnds(s) PROVE TypeOK'
  BY <1>6 DEF StreamEnds
<1>7. CASE Pull
  <2>1. Head(raw) \in Lines /\ Tail(raw) \in Seq(Lines) /\ Len(Tail(raw)) <= Capacity
    BY <1>7, CapacityPositive DEF Pull
  <2>2. raw' \in Seq(Lines) /\ Len(raw') <= Capacity
    BY <1>0, <1>7, <2>1 DEF Pull, Deliver, ForwardStop
  <2>3. renderq' \in Seq(Commands) /\ Len(renderq') <= Capacity
    <3>1. CASE renderq' = renderq
      BY <3>1
    <3>2. CASE Len(renderq) < Capacity /\ renderq' = Append(renderq, Head(raw))
      BY <2>1, <3>2, CapacityPositive, CommandFacts, AppendProperties
    <3> QED
      BY <1>7, <3>1, <3>2 DEF Pull, Deliver, Forwarded
  <2>4. /\ fpc' \in {"recv", "poll", "send", "stopped", "panicked"} /\ frow' \in Lines \cup {None}
        /\ dropped' \in Nat /\ forwarded' \in Nat
    BY <1>7, <2>1 DEF Pull, Deliver, ForwardStop, Forwarded
  <2>5. cancelled' \in BOOLEAN /\ triggered' \in BOOLEAN /\ errors' \in BOOLEAN
    BY <1>7 DEF Pull
  <2> QED
    BY <1>7, <2>2, <2>3, <2>4, <2>5 DEF Pull
<1>8. CASE PollPending
  BY <1>8 DEF PollPending
<1>9. CASE ForwardSend
  <2>1. CASE ForwardStop("stopped") /\ renderq' = renderq
    BY <1>0, <1>9, <2>1 DEF ForwardSend, ForwardStop
  <2>2. CASE Len(renderq) < Capacity /\ Forwarded(frow) /\ raw' = raw
    <3>1. renderq' \in Seq(Commands) /\ Len(renderq') <= Capacity
      BY <1>9, <2>2, CapacityPositive, CommandFacts, AppendProperties
         DEF ForwardSend, Forwarded, HandsInv
    <3> QED
      BY <1>9, <2>2, <3>1 DEF ForwardSend, Forwarded
  <2> QED
    BY <1>9, <2>1, <2>2 DEF ForwardSend
<1>10. CASE ForwardCancelled
  BY <1>0, <1>10 DEF ForwardCancelled, ForwardStop
<1>11. CASE ForwardEnd
  BY <1>0, <1>11 DEF ForwardEnd, ForwardStop
<1>12. CASE ForwardPanic
  BY <1>0, <1>12 DEF ForwardPanic, ForwardStop
<1>13. CASE AbortForward
  BY <1>0, <1>13 DEF AbortForward, ForwardStop
<1>14. CASE FlushTick
  <2>1. renderq' \in Seq(Commands) /\ Len(renderq') <= Capacity
    BY <1>14, CapacityPositive, CommandFacts, AppendProperties DEF FlushTick
  <2> QED
    BY <1>14, <2>1 DEF FlushTick
<1>15. CASE SendShutdown
  <2>1. renderq' \in Seq(Commands) /\ Len(renderq') <= Capacity
    BY <1>15, CapacityPositive, CommandFacts, AppendProperties DEF SendShutdown
  <2> QED
    BY <1>15, <2>1 DEF SendShutdown
<1>16. CASE TickerStop
  BY <1>16 DEF TickerStop
<1>17. CASE CancelRoot
  BY <1>17 DEF CancelRoot
<1>18. CASE DropRenderTx
  BY <1>18 DEF DropRenderTx
<1>19. CASE RenderRecv
  <2> DEFINE n == IF Len(renderq) < Batch THEN Len(renderq) ELSE Batch
  <2>1. n \in Nat /\ n <= Len(renderq) /\ n <= Batch
    BY LineBounds
  <2>2. \A i \in 1..Len(renderq) : renderq[i] \in Commands
    OBVIOUS
  <2>3. batch' = SubSeq(renderq, 1, n) /\ renderq' = SubSeq(renderq, n + 1, Len(renderq))
    BY <1>19 DEF RenderRecv
  <2> HIDE DEF n
  <2>4. batch' \in Seq(Commands) /\ Len(batch') <= Batch
    BY <2>1, <2>2, <2>3, SubSeqProperties, LineBounds
  <2>5. renderq' \in Seq(Commands) /\ Len(renderq') <= Capacity
    BY <2>1, <2>2, <2>3, SubSeqProperties, CapacityPositive
  <2> QED
    BY <1>19, <2>4, <2>5 DEF RenderRecv
<1>20. CASE RenderClosed
  BY <1>20 DEF RenderClosed
<1>21. CASE RenderCmd
  <2>1. batch # <<>> => Tail(batch) \in Seq(Commands) /\ Len(Tail(batch)) <= Batch
    BY LineBounds
  <2>2. batch' \in Seq(Commands) /\ Len(batch') <= Batch
    BY <1>21, <2>1 DEF RenderCmd
  <2>3. buf' \in Seq(Lines)
    <3>1. CASE buf' = buf
      BY <3>1
    <3>2. CASE Head(batch) \in Lines /\ buf' = Append(buf, Head(batch))
      BY <3>2, AppendProperties
    <3> QED
      BY <1>21, <3>1, <3>2 DEF RenderCmd
  <2> QED
    BY <1>21, <2>2, <2>3 DEF RenderCmd
<1>22. CASE Write
  <2>1. out' \in Seq(Lines) /\ buf' \in Seq(Lines)
    BY <1>22, AppendProperties DEF Write
  <2> QED
    BY <1>22, <2>1 DEF Write
<1>23. CASE Flushed
  <2>1. CASE rpc' = "write" /\ UNCHANGED <<batch, renderq>>
    BY <1>23, <2>1 DEF Flushed
  <2>2. CASE rpc' = "stopped" /\ batch' = <<>> /\ renderq' = <<>>
    BY <1>0, <1>23, <2>2 DEF Flushed
  <2> QED
    BY <1>23, <2>1, <2>2 DEF Flushed
<1>24. CASE RenderFail
  BY <1>0, <1>24 DEF RenderFail, RenderGone
<1>25. CASE AbortRender
  BY <1>0, <1>25 DEF AbortRender, RenderGone
<1>26. CASE UNCHANGED vars
  BY <1>26
<1> QED
  BY <1>1, <1>2, <1>3, <1>4, <1>5, <1>6, <1>7, <1>8, <1>9, <1>10, <1>11, <1>12, <1>13, <1>14,
     <1>15, <1>16, <1>17, <1>18, <1>19, <1>20, <1>21, <1>22, <1>23, <1>24, <1>25, <1>26
     DEF Next, MuxStep, ForwardStep, RenderStep, Fault, Abort

LEMMA HandsStep == TypeOK /\ HandsInv /\ [Next]_vars => HandsInv'
<1> SUFFICES ASSUME TypeOK, HandsInv, [Next]_vars PROVE HandsInv'
  OBVIOUS
<1> USE CommandFacts DEF HandsInv
<1>1. CASE MuxCancelled \/ MuxClosed \/ AbortMux \/ MuxSend
  BY <1>1 DEF MuxCancelled, MuxClosed, AbortMux, MuxSend, MuxExit
<1>2. ASSUME NEW s \in Sources, MuxRow(s) PROVE HandsInv'
  BY <1>2, RowType DEF MuxRow, MuxExit
<1>3. ASSUME NEW s \in Sources, StreamEnds(s) PROVE HandsInv'
  BY <1>3 DEF StreamEnds
<1>4. CASE Pull
  <2>1. Head(raw) \in Lines
    BY <1>4 DEF Pull, TypeOK
  <2>2. frow = None
    BY <1>4 DEF Pull, NextPolled
  <2> QED
    BY <1>4, <2>1, <2>2 DEF Pull, Deliver, ForwardStop, Forwarded
<1>5. CASE PollPending \/ ForwardSend
  BY <1>5 DEF PollPending, ForwardSend, Forwarded, ForwardStop
<1>6. CASE ForwardCancelled \/ ForwardEnd \/ ForwardPanic \/ AbortForward
  BY <1>6 DEF ForwardCancelled, ForwardEnd, ForwardPanic, AbortForward, ForwardStop
<1>7. CASE FlushTick \/ SendShutdown \/ TickerStop \/ CancelRoot \/ DropRenderTx
  BY <1>7 DEF FlushTick, SendShutdown, TickerStop, CancelRoot, DropRenderTx
<1>8. CASE RenderRecv \/ RenderClosed \/ RenderCmd \/ Write \/ Flushed
  BY <1>8 DEF RenderRecv, RenderClosed, RenderCmd, Write, Flushed
<1>9. CASE RenderFail \/ AbortRender
  BY <1>9 DEF RenderFail, AbortRender, RenderGone
<1>10. CASE UNCHANGED vars
  BY <1>10
<1> QED
  BY <1>1, <1>2, <1>3, <1>4, <1>5, <1>6, <1>7, <1>8, <1>9, <1>10
     DEF Next, MuxStep, ForwardStep, RenderStep, Fault, Abort

LEMMA EndStep == TypeOK /\ HandsInv /\ EndInv /\ [Next]_vars => EndInv'
<1> SUFFICES ASSUME TypeOK, HandsInv, EndInv, [Next]_vars PROVE EndInv'
  OBVIOUS
<1> USE DEF EndInv, PathAlive
<1>1. CASE MuxCancelled
  BY <1>1 DEF MuxCancelled, MuxExit
<1>2. CASE MuxClosed
  BY <1>2 DEF MuxClosed, MuxExit
<1>3. CASE AbortMux
  BY <1>3 DEF AbortMux, MuxExit
<1>4. ASSUME NEW s \in Sources, MuxRow(s) PROVE EndInv'
  BY <1>4 DEF MuxRow, MuxExit
<1>5. CASE MuxSend
  BY <1>5 DEF MuxSend, MuxExit
<1>6. ASSUME NEW s \in Sources, StreamEnds(s) PROVE EndInv'
  BY <1>6 DEF StreamEnds
<1>7. CASE Pull
  <2>1. cancelled => cancelled'
    BY <1>7 DEF Pull, TypeOK
  <2>2. UNCHANGED <<mpc, ticking, rpc, batch>>
    BY <1>7 DEF Pull
  <2>3. fpc' = "stopped" => RenderStopped
    BY <1>7 DEF Pull, Deliver, Forwarded, ForwardStop
  <2>4. \A i \in DOMAIN renderq' : renderq'[i] = Shutdown => cancelled
    <3>1. CASE renderq' = renderq
      BY <3>1
    <3>2. CASE renderq' = Append(renderq, Head(raw))
      <4>1. Head(raw) \in Lines
        BY <1>7 DEF Pull, TypeOK
      <4> QED
        BY <3>2, <4>1, CommandFacts, AppendProperties DEF TypeOK
    <3> QED
      BY <1>7, <3>1, <3>2 DEF Pull, Deliver, Forwarded
  <2> QED
    BY <2>1, <2>2, <2>3, <2>4 DEF RenderStopped
<1>8. CASE PollPending
  BY <1>8 DEF PollPending
<1>9. CASE ForwardSend
  <2>1. CASE ForwardStop("stopped") /\ RenderStopped /\ renderq' = renderq
    BY <1>9, <2>1 DEF ForwardSend, ForwardStop, RenderStopped
  <2>2. CASE Forwarded(frow)
    <3>1. frow \in Lines
      BY <1>9 DEF ForwardSend, HandsInv, TypeOK
    <3>2. \A i \in DOMAIN renderq' : renderq'[i] = Shutdown => cancelled
      BY <2>2, <3>1, CommandFacts, AppendProperties DEF TypeOK, Forwarded
    <3> QED
      BY <1>9, <2>2, <3>2 DEF ForwardSend, Forwarded
  <2> QED
    BY <1>9, <2>1, <2>2 DEF ForwardSend
<1>10. CASE ForwardCancelled
  BY <1>10 DEF ForwardCancelled, ForwardStop
<1>11. CASE ForwardEnd
  BY <1>11 DEF ForwardEnd, ForwardStop
<1>12. CASE ForwardPanic
  BY <1>12 DEF ForwardPanic, ForwardStop
<1>13. CASE AbortForward
  BY <1>13 DEF AbortForward, ForwardStop
<1>14. CASE FlushTick
  <2>1. \A i \in DOMAIN renderq' : renderq'[i] = Shutdown => cancelled
    BY <1>14, CommandFacts, AppendProperties DEF TypeOK, FlushTick
  <2> QED
    BY <1>14, <2>1 DEF FlushTick
<1>15. CASE SendShutdown
  BY <1>15 DEF SendShutdown
<1>16. CASE TickerStop
  BY <1>16 DEF TickerStop
<1>17. CASE CancelRoot
  BY <1>17 DEF CancelRoot
<1>18. CASE DropRenderTx
  BY <1>18 DEF DropRenderTx
<1>19. CASE RenderRecv
  <2> DEFINE n == IF Len(renderq) < Batch THEN Len(renderq) ELSE Batch
  <2>1. n \in Nat /\ n <= Len(renderq)
    BY LineBounds DEF TypeOK
  <2>2. \A i \in 1..Len(renderq) : renderq[i] \in Commands
    BY DEF TypeOK
  <2>3. batch' = SubSeq(renderq, 1, n) /\ renderq' = SubSeq(renderq, n + 1, Len(renderq))
    BY <1>19 DEF RenderRecv
  <2> HIDE DEF n
  <2>4. \A i \in DOMAIN batch' : i \in DOMAIN renderq /\ batch'[i] = renderq[i]
    BY <2>1, <2>2, <2>3, SubSeqProperties DEF TypeOK
  <2>5. \A i \in DOMAIN renderq' : i + n \in DOMAIN renderq /\ renderq'[i] = renderq[i + n]
    BY <2>1, <2>2, <2>3, SubSeqProperties DEF TypeOK
  <2> QED
    BY <1>19, <2>4, <2>5 DEF RenderRecv
<1>20. CASE RenderClosed
  BY <1>20 DEF RenderClosed, RenderSendersGone
<1>21. CASE RenderCmd
  <2>1. \A i \in DOMAIN batch' : \E j \in DOMAIN batch : batch'[i] = batch[j]
    <3>1. CASE batch' = batch
      BY <3>1
    <3>2. CASE batch # <<>> /\ batch' = Tail(batch)
      <4>1. \A i \in DOMAIN batch' : i + 1 \in DOMAIN batch /\ batch'[i] = batch[i + 1]
        BY <3>2 DEF TypeOK
      <4> QED
        BY <4>1
    <3> QED
      BY <1>21, <3>1, <3>2 DEF RenderCmd
  <2>2. rpc' \in {"final", "stopped"} => \E j \in DOMAIN batch : batch[j] = Shutdown
    <3>1. rpc' \in {"final", "stopped"} => batch # <<>> /\ Head(batch) \notin Lines \cup {Flush}
      BY <1>21 DEF RenderCmd
    <3> QED
      BY <3>1 DEF Commands, TypeOK
  <2> QED
    BY <1>21, <2>1, <2>2 DEF RenderCmd
<1>22. CASE Write
  BY <1>22 DEF Write
<1>23. CASE Flushed
  BY <1>23 DEF Flushed
<1>24. CASE RenderFail
  BY <1>24 DEF RenderFail, RenderGone
<1>25. CASE AbortRender
  BY <1>25 DEF AbortRender, RenderGone
<1>26. CASE UNCHANGED vars
  BY <1>26
<1> QED
  BY <1>1, <1>2, <1>3, <1>4, <1>5, <1>6, <1>7, <1>8, <1>9, <1>10, <1>11, <1>12, <1>13, <1>14,
     <1>15, <1>16, <1>17, <1>18, <1>19, <1>20, <1>21, <1>22, <1>23, <1>24, <1>25, <1>26
     DEF Next, MuxStep, ForwardStep, RenderStep, Fault, Abort

(***************************************************************************)
(* Sequences of commands. Within(q, p): the lines of q are lines of p, in  *)
(* the order of p. It survives concatenation, so that it can be shown      *)
(* part by part.                                                           *)
(***************************************************************************)
Within(q, p) ==
  /\ \A i \in DOMAIN q : q[i] \in Lines => \E k \in DOMAIN p : p[k] = q[i]
  /\ \A i, j \in DOMAIN q : i < j /\ q[i] \in Lines /\ q[j] \in Lines =>
       \E k, m \in DOMAIN p : k < m /\ p[k] = q[i] /\ p[m] = q[j]

Sorted(p) ==
  \A i, j \in DOMAIN p :
    i < j /\ p[i] \in Lines /\ p[j] \in Lines /\ Source(p[i]) = Source(p[j]) => p[i][2] < p[j][2]

LEMMA WithinSame == \A p : Within(p, p)
  BY DEF Within

LEMMA WithinEmpty == \A p : Within(<<>>, p)
  BY DEF Within

LEMMA WithinTail ==
  ASSUME NEW p \in Seq(Commands), p # <<>>
  PROVE  Within(Tail(p), p)
<1>1. \A i \in DOMAIN Tail(p) : i \in Nat /\ i + 1 \in DOMAIN p /\ Tail(p)[i] = p[i + 1]
  OBVIOUS
<1>2. \A i, j \in DOMAIN Tail(p) : i < j => i + 1 < j + 1
  BY <1>1
<1> QED
  BY <1>1, <1>2 DEF Within

\* A command that is no line may be added at the end.
LEMMA WithinAppend ==
  ASSUME NEW p \in Seq(Commands), NEW x \in Commands \ Lines
  PROVE  Within(Append(p, x), p)
<1>1. \A i \in DOMAIN Append(p, x) :
        Append(p, x)[i] \in Lines => i \in DOMAIN p /\ p[i] = Append(p, x)[i]
  BY AppendProperties
<1> QED
  BY <1>1 DEF Within

LEMMA WithinConcat ==
  ASSUME NEW q1 \in Seq(Commands), NEW q2 \in Seq(Commands),
         NEW p1 \in Seq(Commands), NEW p2 \in Seq(Commands),
         Within(q1, p1), Within(q2, p2)
  PROVE  Within(q1 \o q2, p1 \o p2)
<1> DEFINE q == q1 \o q2
           p == p1 \o p2
<1>0. Len(q1) \in Nat /\ Len(q2) \in Nat /\ Len(p1) \in Nat /\ Len(p2) \in Nat
  OBVIOUS
<1>1. \A i \in DOMAIN q : i \in 1..(Len(q1) + Len(q2)) /\ q[i] = IF i <= Len(q1) THEN q1[i] ELSE q2[i - Len(q1)]
  BY ConcatProperties
<1>2. /\ \A k \in DOMAIN p1 : k \in 1..Len(p1) /\ k \in DOMAIN p /\ p[k] = p1[k]
      /\ \A k \in DOMAIN p2 : k \in 1..Len(p2) /\ k + Len(p1) \in DOMAIN p /\ p[k + Len(p1)] = p2[k]
  BY ConcatProperties
<1>3. \A i \in DOMAIN q : \/ i \in DOMAIN q1 /\ q[i] = q1[i]
                          \/ i - Len(q1) \in DOMAIN q2 /\ q[i] = q2[i - Len(q1)]
  BY <1>0, <1>1
<1> HIDE DEF q, p
<1>4. ASSUME NEW i \in DOMAIN q, q[i] \in Lines PROVE \E k \in DOMAIN p : p[k] = q[i]
  <2>1. CASE i \in DOMAIN q1 /\ q[i] = q1[i]
    BY <1>2, <1>4, <2>1 DEF Within
  <2>2. CASE i - Len(q1) \in DOMAIN q2 /\ q[i] = q2[i - Len(q1)]
    BY <1>2, <1>4, <2>2 DEF Within
  <2> QED
    BY <1>3, <2>1, <2>2
<1>5. ASSUME NEW i \in DOMAIN q, NEW j \in DOMAIN q, i < j, q[i] \in Lines, q[j] \in Lines
      PROVE  \E k, m \in DOMAIN p : k < m /\ p[k] = q[i] /\ p[m] = q[j]
  <2>1. CASE j <= Len(q1)
    <3>1. i \in DOMAIN q1 /\ j \in DOMAIN q1 /\ q[i] = q1[i] /\ q[j] = q1[j]
      BY <1>0, <1>1, <1>5, <2>1
    <3>2. PICK k \in DOMAIN p1, m \in DOMAIN p1 : k < m /\ p1[k] = q1[i] /\ p1[m] = q1[j]
      BY <1>5, <3>1 DEF Within
    <3> QED
      BY <1>2, <3>1, <3>2
  <2>2. CASE i > Len(q1)
    <3>1. /\ i - Len(q1) \in DOMAIN q2 /\ j - Len(q1) \in DOMAIN q2 /\ i - Len(q1) < j - Len(q1)
          /\ q[i] = q2[i - Len(q1)] /\ q[j] = q2[j - Len(q1)]
      BY <1>0, <1>1, <1>5, <2>2
    <3>2. PICK k \in DOMAIN p2, m \in DOMAIN p2 :
            k < m /\ p2[k] = q2[i - Len(q1)] /\ p2[m] = q2[j - Len(q1)]
      BY <1>5, <3>1 DEF Within
    <3>3. k + Len(p1) < m + Len(p1)
      BY <1>0, <1>2, <3>2
    <3> QED
      BY <1>2, <3>1, <3>2, <3>3
  <2>3. CASE i <= Len(q1) /\ j > Len(q1)
    <3>1. i \in DOMAIN q1 /\ q[i] = q1[i] /\ j - Len(q1) \in DOMAIN q2 /\ q[j] = q2[j - Len(q1)]
      BY <1>0, <1>1, <2>3
    <3>2. PICK k \in DOMAIN p1 : p1[k] = q1[i]
      BY <1>5, <3>1 DEF Within
    <3>3. PICK m \in DOMAIN p2 : p2[m] = q2[j - Len(q1)]
      BY <1>5, <3>1 DEF Within
    <3>4. k < m + Len(p1)
      BY <1>0, <1>2, <3>2, <3>3
    <3> QED
      BY <1>2, <3>1, <3>2, <3>3, <3>4
  <2> QED
    BY <1>0, <1>1, <2>1, <2>2, <2>3
<1> QED
  BY <1>4, <1>5 DEF Within, q, p

LEMMA WithinSorted ==
  ASSUME NEW q, NEW p, Within(q, p), Sorted(p)
  PROVE  Sorted(q)
<1> SUFFICES ASSUME NEW i \in DOMAIN q, NEW j \in DOMAIN q,
                    i < j, q[i] \in Lines, q[j] \in Lines, Source(q[i]) = Source(q[j])
             PROVE  q[i][2] < q[j][2]
  BY DEF Sorted
<1>1. PICK k \in DOMAIN p, m \in DOMAIN p : k < m /\ p[k] = q[i] /\ p[m] = q[j]
  BY DEF Within
<1> QED
  BY <1>1 DEF Sorted

\* A line with a higher number than those of its source may be added at the end.
LEMMA SortedAppend ==
  ASSUME NEW p \in Seq(Commands), Sorted(p), NEW l \in Lines,
         \A i \in DOMAIN p : p[i] \in Lines /\ Source(p[i]) = Source(l) => p[i][2] < l[2]
  PROVE  Sorted(Append(p, l))
<1> DEFINE q == Append(p, l)
<1>1. \A i \in DOMAIN q : \/ i \in DOMAIN p /\ i \in 1..Len(p) /\ q[i] = p[i]
                          \/ i = Len(p) + 1 /\ q[i] = l
  BY CommandFacts, AppendProperties
<1>2. \A i, j \in DOMAIN q : i < j => i \in DOMAIN p /\ q[i] = p[i]
  BY CommandFacts, AppendProperties
<1> HIDE DEF q
<1>3. Sorted(q)
  BY <1>1, <1>2 DEF Sorted
<1> QED
  BY <1>3 DEF q

\* Moving the first element of a part to the end of the part before it changes nothing.
LEMMA MoveHead ==
  ASSUME NEW p \in Seq(Commands), NEW q \in Seq(Commands), q # <<>>
  PROVE  Append(p, Head(q)) \o Tail(q) = p \o q
<1>1. Head(q) \in Commands /\ Head(q) = q[1] /\ Tail(q) \in Seq(Commands) /\ Len(Tail(q)) = Len(q) - 1
      /\ \A i \in 1..(Len(q) - 1) : Tail(q)[i] = q[i + 1]
  OBVIOUS
<1> DEFINE a == Append(p, Head(q))
           t == Tail(q)
<1>2. a \in Seq(Commands) /\ Len(a) = Len(p) + 1 /\ a[Len(p) + 1] = Head(q)
      /\ \A i \in 1..Len(p) : a[i] = p[i]
  BY <1>1, AppendProperties
<1>3. Len(p) \in Nat /\ Len(q) \in Nat
  OBVIOUS
<1> HIDE DEF a, t
<1>4. /\ a \o t \in Seq(Commands) /\ Len(a \o t) = Len(a) + Len(t)
      /\ \A i \in 1..(Len(a) + Len(t)) : (a \o t)[i] = IF i <= Len(a) THEN a[i] ELSE t[i - Len(a)]
  BY <1>1, <1>2, ConcatProperties DEF t
<1>5. /\ p \o q \in Seq(Commands) /\ Len(p \o q) = Len(p) + Len(q)
      /\ \A i \in 1..(Len(p) + Len(q)) : (p \o q)[i] = IF i <= Len(p) THEN p[i] ELSE q[i - Len(p)]
  BY ConcatProperties
<1>6. \A i \in 1..Len(a \o t) : (a \o t)[i] = (p \o q)[i]
  BY <1>1, <1>2, <1>3, <1>4, <1>5 DEF t
<1>7. Len(a \o t) = Len(p \o q)
  BY <1>1, <1>2, <1>3, <1>4, <1>5 DEF t
<1> QED
  BY <1>4, <1>5, <1>6, <1>7, SeqEqual DEF a, t

(***************************************************************************)
(* The path. Every step but that of a new row leaves the lines in their    *)
(* order: it moves one to the next part, drops some, or adds a command.    *)
(***************************************************************************)
LEMMA PathType ==
  ASSUME TypeOK
  PROVE  /\ out \in Seq(Commands) /\ buf \in Seq(Commands) /\ batch \in Seq(Commands)
         /\ renderq \in Seq(Commands) /\ Maybe(frow) \in Seq(Commands)
         /\ raw \in Seq(Commands) /\ Maybe(mrow) \in Seq(Commands)
         /\ out \o buf \in Seq(Commands)
         /\ out \o buf \o batch \in Seq(Commands)
         /\ out \o buf \o batch \o renderq \in Seq(Commands)
         /\ out \o buf \o batch \o renderq \o Maybe(frow) \in Seq(Commands)
         /\ out \o buf \o batch \o renderq \o Maybe(frow) \o raw \in Seq(Commands)
         /\ Path \in Seq(Commands)
<1>1. \A q \in Seq(Lines) : q \in Seq(Commands)
  BY CommandFacts, SeqMonotonic
<1>2. \A r \in Lines \cup {None} : Maybe(r) \in Seq(Commands)
  BY CommandFacts DEF Maybe
<1>3. \A p, q \in Seq(Commands) : p \o q \in Seq(Commands)
  BY ConcatProperties
<1>4. /\ out \in Seq(Commands) /\ buf \in Seq(Commands) /\ batch \in Seq(Commands)
      /\ renderq \in Seq(Commands) /\ Maybe(frow) \in Seq(Commands)
      /\ raw \in Seq(Commands) /\ Maybe(mrow) \in Seq(Commands)
  BY <1>1, <1>2 DEF TypeOK
<1> QED
  BY <1>3, <1>4 DEF Path

\* A step whose parts are each within the part before it.
LEMMA PartsShrink ==
  ASSUME TypeOK, TypeOK',
         Within(out', out), Within(buf', buf), Within(batch', batch), Within(renderq', renderq),
         Within(Maybe(frow'), Maybe(frow)), Within(raw', raw), Within(Maybe(mrow'), Maybe(mrow))
  PROVE  Within(Path', Path)
<1>1. /\ out' \in Seq(Commands) /\ buf' \in Seq(Commands) /\ batch' \in Seq(Commands)
      /\ renderq' \in Seq(Commands) /\ Maybe(frow') \in Seq(Commands)
      /\ raw' \in Seq(Commands) /\ Maybe(mrow') \in Seq(Commands)
  <2>1. \A q \in Seq(Lines) : q \in Seq(Commands)
    BY CommandFacts, SeqMonotonic
  <2>2. \A r \in Lines \cup {None} : Maybe(r) \in Seq(Commands)
    BY CommandFacts DEF Maybe
  <2> QED
    BY <2>1, <2>2 DEF TypeOK
<1>0. \A p, q \in Seq(Commands) : p \o q \in Seq(Commands)
  BY ConcatProperties
<1>2. Within(out' \o buf' \o batch' \o renderq' \o Maybe(frow') \o raw' \o Maybe(mrow'), Path)
  <2>1. Within(out' \o buf', out \o buf)
    BY <1>1, PathType, WithinConcat
  <2>2. Within(out' \o buf' \o batch', out \o buf \o batch)
    BY <1>0, <1>1, <2>1, PathType, WithinConcat
  <2>3. Within(out' \o buf' \o batch' \o renderq', out \o buf \o batch \o renderq)
    BY <1>0, <1>1, <2>2, PathType, WithinConcat
  <2>4. Within(out' \o buf' \o batch' \o renderq' \o Maybe(frow'),
               out \o buf \o batch \o renderq \o Maybe(frow))
    BY <1>0, <1>1, <2>3, PathType, WithinConcat
  <2>5. Within(out' \o buf' \o batch' \o renderq' \o Maybe(frow') \o raw',
               out \o buf \o batch \o renderq \o Maybe(frow) \o raw)
    BY <1>0, <1>1, <2>4, PathType, WithinConcat
  <2> QED
    BY <1>0, <1>1, <2>5, PathType, WithinConcat DEF Path
<1>3. Path' = out' \o buf' \o batch' \o renderq' \o Maybe(frow') \o raw' \o Maybe(mrow')
  BY DEF Path, Maybe
<1> QED
  BY <1>2, <1>3

LEMMA Reassociate ==
  ASSUME NEW a \in Seq(Commands), NEW b \in Seq(Commands), NEW c \in Seq(Commands)
  PROVE  (a \o b) \o c = a \o (b \o c)
  BY ConcatAssociative

LEMMA AppendConcat ==
  ASSUME NEW w \in Seq(Commands), NEW p \in Seq(Commands), NEW x \in Commands
  PROVE  w \o Append(p, x) = Append(w \o p, x)
<1>1. <<x>> \in Seq(Commands) /\ w \o p \in Seq(Commands)
  BY ConcatProperties
<1>2. Append(p, x) = p \o <<x>> /\ Append(w \o p, x) = (w \o p) \o <<x>>
  BY <1>1, AppendIsConcat
<1>3. w \o (p \o <<x>>) = (w \o p) \o <<x>>
  BY <1>1, ConcatAssociative
<1> QED
  BY <1>2, <1>3, Zenon

LEMMA MoveAcross ==
  ASSUME NEW w \in Seq(Commands), NEW p \in Seq(Commands), NEW q \in Seq(Commands), q # <<>>
  PROVE  (w \o Append(p, Head(q))) \o Tail(q) = (w \o p) \o q
<1>1. Head(q) \in Commands /\ w \o p \in Seq(Commands)
  BY ConcatProperties
<1>2. w \o Append(p, Head(q)) = Append(w \o p, Head(q))
  BY <1>1, AppendConcat, Zenon
<1>3. Append(w \o p, Head(q)) \o Tail(q) = (w \o p) \o q
  BY <1>1, MoveHead, Zenon
<1> QED
  BY <1>2, <1>3, Zenon

\* The moves. Each leaves the path as it is.
LEMMA WriteMoves ==
  ASSUME TypeOK, Write PROVE Path' = Path
<1>1. out' \o buf' = out \o buf
  BY PathType, MoveHead DEF Write
<1> QED
  BY <1>1 DEF Write, Path, Maybe

LEMMA RenderCmdMoves ==
  ASSUME TypeOK, RenderCmd, batch # <<>>, Head(batch) \in Lines PROVE Path' = Path
<1>1. buf' = Append(buf, Head(batch)) /\ batch' = Tail(batch)
  BY DEF RenderCmd
<1>2. out \o Append(buf, Head(batch)) \o Tail(batch) = out \o buf \o batch
  <2>1. out \in Seq(Commands) /\ buf \in Seq(Commands) /\ batch \in Seq(Commands)
    BY PathType
  <2> QED
    BY <2>1, MoveAcross, Zenon
<1>3. out \o buf' \o batch' = out \o buf \o batch
  BY <1>1, <1>2, Zenon
<1> QED
  BY <1>3 DEF RenderCmd, Path, Maybe

LEMMA RecvSplits ==
  ASSUME TypeOK, RenderRecv PROVE batch' \o renderq' = renderq
<1> DEFINE n == IF Len(renderq) < Batch THEN Len(renderq) ELSE Batch
<1>1. n \in Nat /\ n <= Len(renderq)
  BY LineBounds DEF TypeOK
<1>2. batch' = SubSeq(renderq, 1, n) /\ renderq' = SubSeq(renderq, n + 1, Len(renderq))
  BY DEF RenderRecv
<1> HIDE DEF n
<1>3. batch' \o renderq' = SubSeq(renderq, 1, Len(renderq))
  <2>1. Len(renderq) \in Nat /\ 1 \in 1..(Len(renderq) + 1) /\ n \in (1 - 1)..Len(renderq)
        /\ Len(renderq) \in n..Len(renderq)
    BY <1>1, PathType
  <2> QED
    BY <1>2, <2>1, PathType, ConcatAdjacentSubSeq
<1> QED
  BY <1>3, PathType, SubSeqFull

LEMMA RenderRecvMoves ==
  ASSUME TypeOK, TypeOK', HandsInv, RenderRecv PROVE Path' = Path
<1>1. batch' \o renderq' = renderq
  BY RecvSplits
<1>2. batch = <<>>
  BY DEF HandsInv, RenderRecv
<1>3. out \o buf \o batch' \o renderq' = out \o buf \o renderq
  <2>1. out \o buf \in Seq(Commands) /\ batch' \in Seq(Commands) /\ renderq' \in Seq(Commands)
    BY PathType DEF TypeOK
  <2>2. (out \o buf) \o batch' \o renderq' = (out \o buf) \o (batch' \o renderq')
    BY <2>1, Reassociate, Zenon
  <2> QED
    BY <1>1, <2>2, Zenon
<1>4. out \o buf \o batch \o renderq = out \o buf \o renderq
  BY <1>2, PathType, ConcatEmptySeq
<1> QED
  BY <1>3, <1>4 DEF RenderRecv, Path, Maybe

LEMMA ForwardSendMoves ==
  ASSUME TypeOK, HandsInv, fpc = "send", Forwarded(frow),
         UNCHANGED <<out, buf, batch, raw, mrow>>
  PROVE  Path' = Path
<1>1. frow \in Lines /\ frow # None
  BY DEF HandsInv, TypeOK
<1>2. Maybe(frow) = <<frow>> /\ Maybe(frow') = <<>>
  BY <1>1 DEF Maybe, Forwarded
<1>3. renderq' = renderq \o <<frow>> /\ <<frow>> \in Seq(Commands)
  BY <1>1, PathType, AppendIsConcat, CommandFacts DEF Forwarded
<1>4. out \o buf \o batch \o renderq' = out \o buf \o batch \o renderq \o Maybe(frow)
  <2>1. (out \o buf \o batch) \o (renderq \o <<frow>>) = (out \o buf \o batch) \o renderq \o <<frow>>
    <3>1. out \o buf \o batch \in Seq(Commands) /\ renderq \in Seq(Commands)
      BY PathType
    <3> QED
      BY <1>3, <3>1, Reassociate, Zenon
  <2> QED
    BY <1>2, <1>3, <2>1, Zenon
<1>5. out \o buf \o batch \o renderq' \o Maybe(frow') = out \o buf \o batch \o renderq \o Maybe(frow)
  BY <1>2, <1>4, PathType, ConcatEmptySeq
<1> QED
  BY <1>5 DEF Path, Maybe

\* The next row of the raw channel is taken in hand ...
LEMMA PullMoves ==
  ASSUME TypeOK, frow = None, raw # <<>>, frow' = Head(raw), raw' = Tail(raw),
         UNCHANGED <<out, buf, batch, renderq, mrow>>
  PROVE  Path' = Path
<1>1. Head(raw) \in Lines /\ Head(raw) # None
  BY CommandFacts DEF TypeOK
<1>2. Maybe(frow) = <<>> /\ Maybe(frow') = <<Head(raw)>>
  BY <1>1 DEF Maybe
<1> DEFINE w == out \o buf \o batch \o renderq
<1>3. w \in Seq(Commands)
  BY PathType
<1> HIDE DEF w
<1>4. w \o Maybe(frow') = Append(w, Head(raw)) /\ w \o Maybe(frow) = w
  BY <1>1, <1>2, <1>3, AppendIsConcat, ConcatEmptySeq, CommandFacts
<1>5. w \o Maybe(frow') \o raw' = w \o Maybe(frow) \o raw
  <2>1. Append(w, Head(raw)) \o Tail(raw) = w \o raw
    BY <1>3, PathType, MoveHead, Zenon
  <2> QED
    BY <1>4, <2>1, Zenon
<1> QED
  BY <1>5 DEF w, Path, Maybe

\* ... or, with --lossy, sent on at once.
LEMMA PullForwards ==
  ASSUME TypeOK, frow = None, raw # <<>>, renderq' = Append(renderq, Head(raw)),
         raw' = Tail(raw), UNCHANGED <<out, buf, batch, frow, mrow>>
  PROVE  Path' = Path
<1>1. Head(raw) \in Lines
  BY DEF TypeOK
<1>2. Maybe(frow) = <<>>
  BY DEF Maybe
<1> DEFINE w == out \o buf \o batch
<1>3. w \in Seq(Commands) /\ w \o renderq \in Seq(Commands)
  BY PathType
<1> HIDE DEF w
<1>4. renderq' \in Seq(Commands) /\ w \o renderq' \in Seq(Commands)
  BY <1>1, <1>3, PathType, AppendProperties, ConcatProperties, CommandFacts
<1>5. w \o renderq' \o raw' = w \o renderq \o raw
  <2>1. renderq \in Seq(Commands) /\ raw \in Seq(Commands)
    BY PathType
  <2>2. w \o Append(renderq, Head(raw)) \o Tail(raw) = w \o renderq \o raw
    BY <1>3, <2>1, MoveAcross, Zenon
  <2> QED
    BY <2>2, Zenon
<1>6. w \o renderq' \o Maybe(frow) = w \o renderq' /\ w \o renderq \o Maybe(frow) = w \o renderq
  BY <1>2, <1>3, <1>4, ConcatEmptySeq, Zenon
<1> QED
  BY <1>5, <1>6 DEF w, Path, Maybe

LEMMA MuxSendMoves ==
  ASSUME TypeOK, mrow \in Lines, raw' = Append(raw, mrow), mrow' = None,
         UNCHANGED <<out, buf, batch, renderq, frow>>
  PROVE  Path' = Path
<1>1. Maybe(mrow) = <<mrow>> /\ Maybe(mrow') = <<>>
  BY CommandFacts DEF Maybe
<1> DEFINE w == out \o buf \o batch \o renderq \o Maybe(frow)
<1>2. w \in Seq(Commands)
  BY PathType
<1> HIDE DEF w
<1>3. raw' = raw \o <<mrow>> /\ <<mrow>> \in Seq(Commands) /\ raw' \in Seq(Commands)
  BY PathType, AppendIsConcat, AppendProperties, CommandFacts
<1>4. w \o raw' \o Maybe(mrow') = w \o raw'
  BY <1>1, <1>2, <1>3, ConcatEmptySeq, ConcatProperties
<1>5. w \o raw' = w \o raw \o Maybe(mrow)
  BY <1>1, <1>2, <1>3, PathType, ConcatAssociative
<1> QED
  BY <1>4, <1>5 DEF w, Path, Maybe
\* The steps that drop lines, or add a command that is none.
LEMMA ForwardStopShrinks ==
  ASSUME TypeOK, TypeOK', NEW as, ForwardStop(as), UNCHANGED <<mrow, renderq, render>>
  PROVE  Within(Path', Path)
<1>1. Maybe(frow') = <<>> /\ raw' = <<>>
  BY DEF Maybe, ForwardStop
<1> QED
  BY <1>1, WithinSame, WithinEmpty, PartsShrink

LEMMA MuxExitShrinks ==
  ASSUME TypeOK, TypeOK', MuxExit, UNCHANGED <<frow, renderq, render>>
  PROVE  Within(Path', Path)
<1>1. Maybe(mrow') = <<>> /\ raw' = raw
  BY DEF Maybe, MuxExit
<1> QED
  BY <1>1, WithinSame, WithinEmpty, PartsShrink

LEMMA RenderGoneShrinks ==
  ASSUME TypeOK, TypeOK', RenderGone, UNCHANGED <<mrow, raw, frow>>
  PROVE  Within(Path', Path)
  BY WithinSame, WithinEmpty, PartsShrink DEF RenderGone

LEMMA CommandShrinks ==
  ASSUME TypeOK, TypeOK', NEW c \in {Flush, Shutdown}, renderq' = Append(renderq, c),
         UNCHANGED <<mrow, raw, frow, render>>
  PROVE  Within(Path', Path)
<1>1. Within(renderq', renderq)
  BY WithinAppend, CommandFacts DEF TypeOK
<1> QED
  BY <1>1, WithinSame, PartsShrink

LEMMA PullShrinks ==
  ASSUME TypeOK, TypeOK', raw # <<>>, raw' = Tail(raw), UNCHANGED <<frow, mrow, renderq, render>>
  PROVE  Within(Path', Path)
<1>1. Within(raw', raw)
  BY PathType, WithinTail
<1> QED
  BY <1>1, WithinSame, PartsShrink

LEMMA PathShrinks ==
  ASSUME TypeOK, TypeOK', HandsInv, [Next]_vars, \A s \in Sources : ~MuxRow(s)
  PROVE  Within(Path', Path)
<1>1. CASE MuxCancelled
  BY <1>1, MuxExitShrinks DEF MuxCancelled
<1>2. CASE MuxClosed
  BY <1>2, MuxExitShrinks DEF MuxClosed
<1>3. CASE AbortMux
  BY <1>3, MuxExitShrinks DEF AbortMux
<1>4. CASE MuxSend
  <2>1. CASE MuxExit
    BY <1>4, <2>1, MuxExitShrinks DEF MuxSend
  <2>2. CASE raw' = Append(raw, mrow) /\ mrow' = None
    <3>1. mrow \in Lines
      BY <1>4 DEF MuxSend, HandsInv, TypeOK
    <3> QED
      BY <1>4, <2>2, <3>1, MuxSendMoves, WithinSame DEF MuxSend
  <2> QED
    BY <1>4, <2>1, <2>2 DEF MuxSend
<1>5. ASSUME NEW s \in Sources, StreamEnds(s) PROVE Within(Path', Path)
  BY <1>5, WithinSame DEF StreamEnds, Path, Maybe
<1>6. CASE Pull
  <2>1. frow = None /\ raw # <<>> /\ UNCHANGED <<mrow, render>>
    BY <1>6 DEF Pull, NextPolled, HandsInv
  <2>2. CASE raw' = Tail(raw) /\ UNCHANGED <<frow, renderq>>
    BY <2>1, <2>2, PullShrinks
  <2>3. CASE frow' = Head(raw) /\ raw' = Tail(raw) /\ UNCHANGED renderq
    BY <2>1, <2>3, PullMoves, WithinSame
  <2>4. CASE ForwardStop("stopped") /\ UNCHANGED renderq
    BY <2>1, <2>4, ForwardStopShrinks
  <2>5. CASE Forwarded(Head(raw)) /\ raw' = Tail(raw)
    BY <2>1, <2>5, PullForwards, WithinSame DEF Forwarded
  <2> QED
    BY <1>6, <2>2, <2>3, <2>4, <2>5 DEF Pull, Deliver
<1>7. CASE PollPending
  BY <1>7, WithinSame DEF PollPending, Path, Maybe
<1>8. CASE ForwardSend
  <2>1. CASE ForwardStop("stopped") /\ UNCHANGED renderq
    BY <1>8, <2>1, ForwardStopShrinks DEF ForwardSend
  <2>2. CASE Forwarded(frow) /\ UNCHANGED raw
    BY <1>8, <2>2, ForwardSendMoves, WithinSame DEF ForwardSend
  <2> QED
    BY <1>8, <2>1, <2>2 DEF ForwardSend
<1>9. CASE ForwardCancelled
  BY <1>9, ForwardStopShrinks DEF ForwardCancelled
<1>10. CASE ForwardEnd
  BY <1>10, ForwardStopShrinks DEF ForwardEnd
<1>11. CASE ForwardPanic
  BY <1>11, ForwardStopShrinks DEF ForwardPanic
<1>12. CASE AbortForward
  BY <1>12, ForwardStopShrinks DEF AbortForward
<1>13. CASE FlushTick
  BY <1>13, CommandShrinks DEF FlushTick
<1>14. CASE SendShutdown
  BY <1>14, CommandShrinks DEF SendShutdown
<1>15. CASE TickerStop
  BY <1>15, WithinSame DEF TickerStop, Path, Maybe
<1>16. CASE CancelRoot
  BY <1>16, WithinSame DEF CancelRoot, Path, Maybe
<1>17. CASE DropRenderTx
  BY <1>17, WithinSame DEF DropRenderTx, Path, Maybe
<1>18. CASE RenderRecv
  BY <1>18, RenderRecvMoves, WithinSame
<1>19. CASE RenderClosed
  BY <1>19, WithinSame DEF RenderClosed, Path, Maybe
<1>20. CASE RenderCmd
  <2>1. CASE batch = <<>>
    BY <1>20, <2>1, WithinSame DEF RenderCmd, Path, Maybe
  <2>2. CASE batch # <<>> /\ Head(batch) \in Lines
    BY <1>20, <2>2, RenderCmdMoves, WithinSame
  <2>3. CASE batch # <<>> /\ Head(batch) \notin Lines
    <3>1. batch' = Tail(batch) /\ UNCHANGED <<out, buf, renderq, frow, raw, mrow>>
      BY <1>20, <2>3 DEF RenderCmd
    <3>2. Within(batch', batch)
      BY <2>3, <3>1, PathType, WithinTail
    <3> QED
      BY <3>1, <3>2, WithinSame, PartsShrink
  <2> QED
    BY <2>1, <2>2, <2>3
<1>21. CASE Write
  BY <1>21, WriteMoves, WithinSame
<1>22. CASE Flushed
  <2>1. Within(batch', batch) /\ Within(renderq', renderq)
    BY <1>22, WithinSame, WithinEmpty DEF Flushed
  <2> QED
    BY <1>22, <2>1, WithinSame, PartsShrink DEF Flushed
<1>23. CASE RenderFail
  BY <1>23, RenderGoneShrinks DEF RenderFail
<1>24. CASE AbortRender
  BY <1>24, RenderGoneShrinks DEF AbortRender
<1>25. CASE UNCHANGED vars
  BY <1>25, WithinSame DEF Path, Maybe
<1> QED
  BY <1>1, <1>2, <1>3, <1>4, <1>5, <1>6, <1>7, <1>8, <1>9, <1>10, <1>11, <1>12, <1>13, <1>14,
     <1>15, <1>16, <1>17, <1>18, <1>19, <1>20, <1>21, <1>22, <1>23, <1>24, <1>25
     DEF Next, MuxStep, ForwardStep, RenderStep, Fault, Abort

\* A new row goes to the end of the path, or nowhere.
LEMMA NewRowLast ==
  ASSUME TypeOK, TypeOK', HandsInv, NEW s \in Sources, MuxRow(s)
  PROVE  LET row == <<s, produced[s] + 1>> IN
           \/ mrow' = row /\ raw' = raw /\ Path' = Append(Path, row)
           \/ mrow' = None /\ raw' = raw /\ Path' = Path
           \/ mrow' = None /\ raw' = Append(raw, row) /\ Path' = Append(Path, row)
<1> DEFINE row == <<s, produced[s] + 1>>
<1>1. mrow = None /\ Maybe(mrow) = <<>> /\ UNCHANGED <<out, buf, batch, renderq, frow>>
  BY DEF MuxRow, HandsInv, Maybe
<1>2. row \in Lines /\ row # None /\ row \in Commands
  BY RowType, CommandFacts DEF MuxRow
<1>3. \/ mrow' = row /\ raw' = raw
      \/ mrow' = None /\ raw' = raw
      \/ mrow' = None /\ raw' = Append(raw, row)
  BY <1>1 DEF MuxRow, MuxExit
<1> HIDE DEF row
<1> DEFINE w == out \o buf \o batch \o renderq \o Maybe(frow)
<1>4. w \in Seq(Commands) /\ raw \in Seq(Commands) /\ w \o raw \in Seq(Commands)
  BY PathType
<1>5. Path = w \o raw
  BY <1>1, <1>4, ConcatEmptySeq DEF Path
<1>6. Path' = w \o raw' \o Maybe(mrow')
  BY <1>1 DEF Path, Maybe
<1> HIDE DEF w
<1>7. CASE mrow' = row /\ raw' = raw
  <2>1. Maybe(mrow') = <<row>>
    BY <1>2, <1>7 DEF Maybe
  <2>2. (w \o raw) \o <<row>> = Append(w \o raw, row)
    BY <1>2, <1>4, AppendIsConcat
  <2> QED
    BY <1>5, <1>6, <1>7, <2>1, <2>2, Zenon DEF row
<1>8. CASE mrow' = None /\ raw' = raw
  <2>1. Maybe(mrow') = <<>>
    BY <1>8 DEF Maybe
  <2>2. (w \o raw) \o <<>> = w \o raw
    BY <1>4, ConcatEmptySeq
  <2> QED
    BY <1>5, <1>6, <1>8, <2>1, <2>2, Zenon
<1>9. CASE mrow' = None /\ raw' = Append(raw, row)
  <2>1. Maybe(mrow') = <<>>
    BY <1>9 DEF Maybe
  <2>2. w \o Append(raw, row) = Append(w \o raw, row) /\ Append(w \o raw, row) \in Seq(Commands)
    BY <1>2, <1>4, AppendConcat, AppendProperties
  <2>3. Append(w \o raw, row) \o <<>> = Append(w \o raw, row)
    BY <2>2, ConcatEmptySeq
  <2> QED
    BY <1>5, <1>6, <1>9, <2>1, <2>2, <2>3, Zenon DEF row
<1> QED
  BY <1>3, <1>7, <1>8, <1>9

LEMMA OnlyMuxReads ==
  ASSUME [Next]_vars, \A s \in Sources : ~MuxRow(s)
  PROVE  produced' = produced
  BY DEF Next, MuxStep, MuxCancelled, MuxClosed, MuxSend, StreamEnds, ForwardStep, Pull,
     PollPending, ForwardSend, ForwardCancelled, ForwardEnd, FlushTick, TickerStop, RenderStep,
     RenderRecv, RenderClosed, RenderCmd, Write, Flushed, Fault, ForwardPanic, RenderFail,
     CancelRoot, SendShutdown, DropRenderTx, Abort, AbortMux, AbortForward, AbortRender

\* The next row of a source is new.
LEMMA RowIsNew ==
  ASSUME TypeOK, NEW s \in Sources, MuxRow(s)
  PROVE  LET row == <<s, produced[s] + 1>> IN
           row \in Lines /\ row \notin Produced /\ Produced' = Produced \cup {row}
<1> DEFINE row == <<s, produced[s] + 1>>
<1>1. row \in Lines /\ Source(row) = s /\ row[2] = produced[s] + 1 /\ produced[s] \in Nat
  BY RowType DEF MuxRow, Source, TypeOK
<1>2. produced' = [produced EXCEPT ![s] = @ + 1] /\ DOMAIN produced = Sources
  BY DEF MuxRow, TypeOK
<1>3. \A l \in Lines : l[1] \in Sources /\ l[2] \in Nat /\ l = <<l[1], l[2]>>
  BY LineBounds DEF Lines
<1>4. \A t \in Sources : produced[t] \in Nat
  BY LineBounds DEF TypeOK
<1>5. \A l \in Lines : l \in Produced' <=> l \in Produced \/ l = row
  <2> TAKE l \in Lines
  <2>1. CASE l[1] = s
    BY <1>1, <1>2, <1>3, <1>4, <2>1 DEF Produced, Source
  <2>2. CASE l[1] # s
    BY <1>1, <1>2, <1>3, <1>4, <2>2 DEF Produced, Source
  <2> QED
    BY <2>1, <2>2
<1>6. row \notin Produced
  BY <1>1 DEF Produced
<1> QED
  BY <1>1, <1>5, <1>6 DEF Produced

\* The lines of the path are in order, and were read.
OrderInv ==
  /\ Sorted(Path)
  /\ \A i \in DOMAIN Path : Path[i] \in Lines => Path[i] \in Produced

LEMMA OrderStep ==
  ASSUME TypeOK, TypeOK', HandsInv, OrderInv, [Next]_vars
  PROVE  OrderInv'
<1>1. CASE \A s \in Sources : ~MuxRow(s)
  <2>1. Within(Path', Path)
    BY <1>1, PathShrinks
  <2>2. Sorted(Path)'
    BY <2>1, WithinSorted DEF OrderInv, Sorted
  <2>3. produced' = produced
    BY <1>1, OnlyMuxReads
  <2>4. Produced' = Produced
    BY <2>3 DEF Produced
  <2> QED
    BY <2>1, <2>2, <2>4 DEF OrderInv, Within
<1>2. ASSUME NEW s \in Sources, MuxRow(s) PROVE OrderInv'
  <2> DEFINE row == <<s, produced[s] + 1>>
  <2>1. row \in Lines /\ Source(row) = s /\ row[2] = produced[s] + 1 /\ produced[s] \in Nat
    BY <1>2, RowType DEF MuxRow, Source, TypeOK
  <2>2. Produced \subseteq Produced' /\ row \in Produced'
    BY <1>2, <2>1, LineBounds DEF MuxRow, Produced, TypeOK, Lines, Source
  <2>3. \A i \in DOMAIN Path : Path[i] \in Lines /\ Source(Path[i]) = s => Path[i][2] < row[2]
    BY <2>1, LineBounds DEF OrderInv, Produced, Lines
  <2> HIDE DEF row
  <2>4. CASE Path' = Path
    BY <2>2, <2>4 DEF OrderInv, Sorted
  <2>5. CASE Path' = Append(Path, row)
    <3>1. Path \in Seq(Commands)
      BY PathType
    <3>2. Sorted(Append(Path, row))
      BY <2>1, <2>3, <3>1, SortedAppend DEF OrderInv
    <3>3. \A i \in DOMAIN Append(Path, row) :
            \/ i \in DOMAIN Path /\ Append(Path, row)[i] = Path[i]
            \/ Append(Path, row)[i] = row
      BY <2>1, <3>1, CommandFacts, AppendProperties
    <3> QED
      BY <2>2, <2>5, <3>2, <3>3 DEF OrderInv, Sorted
  <2> QED
    BY <1>2, <2>4, <2>5, NewRowLast DEF row
<1> QED
  BY <1>1, <1>2

(***************************************************************************)
(* What a step takes from the path while nobody has cancelled and nothing  *)
(* has failed: the row that the pipeline pulls when the filters hide it,   *)
(* when it is an error, or when --lossy finds no room for it; no other.    *)
(***************************************************************************)
OnPath == Range(Path) \cap Lines

LEMMA RangeConcat ==
  ASSUME NEW p \in Seq(Commands), NEW q \in Seq(Commands)
  PROVE  Range(p \o q) = Range(p) \cup Range(q)
<1>1. p \o q \in Seq(Commands) /\ Len(p \o q) = Len(p) + Len(q)
      /\ \A i \in 1..(Len(p) + Len(q)) : (p \o q)[i] = IF i <= Len(p) THEN p[i] ELSE q[i - Len(p)]
  BY ConcatProperties
<1>2. DOMAIN (p \o q) = 1..(Len(p) + Len(q)) /\ DOMAIN p = 1..Len(p) /\ DOMAIN q = 1..Len(q)
      /\ Len(p) \in Nat /\ Len(q) \in Nat
  BY <1>1
<1>3. \A i \in DOMAIN (p \o q) : (p \o q)[i] \in Range(p) \cup Range(q)
  <2> TAKE i \in DOMAIN (p \o q)
  <2>1. CASE i <= Len(p)
    BY <1>1, <1>2, <2>1 DEF Range
  <2>2. CASE ~(i <= Len(p))
    <3>1. i - Len(p) \in DOMAIN q /\ (p \o q)[i] = q[i - Len(p)]
      BY <1>1, <1>2, <2>2
    <3> QED
      BY <3>1 DEF Range
  <2> QED
    BY <2>1, <2>2
<1>4. \A i \in DOMAIN p : p[i] \in Range(p \o q)
  <2> TAKE i \in DOMAIN p
  <2>1. i \in DOMAIN (p \o q) /\ (p \o q)[i] = p[i]
    BY <1>1, <1>2
  <2> QED
    BY <2>1 DEF Range
<1>5. \A i \in DOMAIN q : q[i] \in Range(p \o q)
  <2> TAKE i \in DOMAIN q
  <2>1. Len(p) + i \in DOMAIN (p \o q) /\ (p \o q)[Len(p) + i] = q[i]
    BY <1>1, <1>2
  <2> QED
    BY <2>1 DEF Range
<1> QED
  BY <1>3, <1>4, <1>5 DEF Range

LEMMA RangeAppend ==
  ASSUME NEW p \in Seq(Commands), NEW x \in Commands
  PROVE  Range(Append(p, x)) = Range(p) \cup {x}
<1>1. <<x>> \in Seq(Commands) /\ Append(p, x) = p \o <<x>>
  BY AppendIsConcat
<1>2. Range(<<x>>) = {x}
  BY DEF Range
<1> QED
  BY <1>1, <1>2, RangeConcat

LEMMA RangeTail ==
  ASSUME NEW q \in Seq(Commands), q # <<>>
  PROVE  Range(q) = {Head(q)} \cup Range(Tail(q))
<1>1. Head(q) \in Commands /\ Tail(q) \in Seq(Commands) /\ <<>> \in Seq(Commands)
  OBVIOUS
<1>2. Append(<<>>, Head(q)) \o Tail(q) = <<>> \o q
  BY <1>1, MoveHead
<1>3. <<>> \o q = q /\ Append(<<>>, Head(q)) \in Seq(Commands)
  BY <1>1, ConcatEmptySeq, AppendProperties
<1>4. Range(q) = Range(Append(<<>>, Head(q))) \cup Range(Tail(q))
  <2>1. Range(Append(<<>>, Head(q)) \o Tail(q)) = Range(Append(<<>>, Head(q))) \cup Range(Tail(q))
    BY <1>1, <1>3, RangeConcat, Zenon
  <2> QED
    BY <1>2, <1>3, <2>1, Zenon
<1>5. Range(Append(<<>>, Head(q))) = Range(<<>>) \cup {Head(q)}
  BY <1>1, RangeAppend
<1>6. Range(<<>>) = {}
  BY DEF Range
<1> QED
  BY <1>4, <1>5, <1>6

Parts ==
  Range(out) \cup Range(buf) \cup Range(batch) \cup Range(renderq)
  \cup Range(Maybe(frow)) \cup Range(raw) \cup Range(Maybe(mrow))

LEMMA RangePath == TypeOK => Range(Path) = Parts
<1> SUFFICES ASSUME TypeOK PROVE Range(Path) = Parts
  OBVIOUS
<1>1. Range(out \o buf) = Range(out) \cup Range(buf)
  BY PathType, RangeConcat
<1>2. Range(out \o buf \o batch) = Range(out \o buf) \cup Range(batch)
  BY PathType, RangeConcat
<1>3. Range(out \o buf \o batch \o renderq) = Range(out \o buf \o batch) \cup Range(renderq)
  BY PathType, RangeConcat
<1>4. Range(out \o buf \o batch \o renderq \o Maybe(frow))
        = Range(out \o buf \o batch \o renderq) \cup Range(Maybe(frow))
  BY PathType, RangeConcat
<1>5. Range(out \o buf \o batch \o renderq \o Maybe(frow) \o raw)
        = Range(out \o buf \o batch \o renderq \o Maybe(frow)) \cup Range(raw)
  BY PathType, RangeConcat
<1>6. Range(Path) = Range(out \o buf \o batch \o renderq \o Maybe(frow) \o raw) \cup Range(Maybe(mrow))
  BY PathType, RangeConcat DEF Path
<1> QED
  BY <1>1, <1>2, <1>3, <1>4, <1>5, <1>6, Zenon DEF Parts

LEMMA RangePathNext == (TypeOK => Range(Path) = Parts)'
  BY RangePath, PTL

LEMMA AliveBefore == TypeOK /\ [Next]_vars /\ PathAlive' => PathAlive
<1> SUFFICES ASSUME TypeOK, [Next]_vars, PathAlive' PROVE PathAlive
  OBVIOUS
<1>1. cancelled => cancelled'
  BY DEF TypeOK, Next, MuxStep, MuxCancelled, MuxClosed, MuxRow, MuxSend, StreamEnds, ForwardStep,
     Pull, PollPending, ForwardSend, ForwardCancelled, ForwardEnd, FlushTick, TickerStop, RenderStep,
     RenderRecv, RenderClosed, RenderCmd, Write, Flushed, Fault, ForwardPanic, RenderFail,
     CancelRoot, SendShutdown, DropRenderTx, Abort, AbortMux, AbortForward, AbortRender
<1>2. fpc = "panicked" => fpc' = "panicked"
  BY DEF Next, MuxStep, MuxCancelled, MuxClosed, MuxRow, MuxSend, StreamEnds, ForwardStep,
     Pull, NextPolled, PollPending, ForwardSend, ForwardCancelled, ForwardEnd, FlushTick, TickerStop,
     RenderStep, RenderRecv, RenderClosed, RenderCmd, Write, Flushed, Fault, ForwardPanic, RenderFail,
     CancelRoot, SendShutdown, DropRenderTx, Abort, AbortMux, AbortForward, AbortRender, ForwardStopped
<1>3. rpc = "failed" => rpc' = "failed"
  BY DEF Next, MuxStep, MuxCancelled, MuxClosed, MuxRow, MuxSend, StreamEnds, ForwardStep,
     Pull, PollPending, ForwardSend, ForwardCancelled, ForwardEnd, FlushTick, TickerStop,
     RenderStep, RenderRecv, RenderClosed, RenderCmd, Write, Flushed, Fault, ForwardPanic, RenderFail,
     CancelRoot, SendShutdown, DropRenderTx, Abort, AbortMux, AbortForward, AbortRender, RenderStopped
<1> QED
  BY <1>1, <1>2, <1>3 DEF PathAlive

\* The pipeline takes the oldest row of the raw channel off the path.
Drops(l) ==
  /\ raw # <<>> /\ l = Head(raw) /\ l \in OnPath /\ OnPath' = OnPath \ {l}

LEMMA HeadTaken ==
  ASSUME TypeOK, TypeOK', OrderInv, raw # <<>>, raw' = Tail(raw),
         UNCHANGED <<frow, mrow, renderq, render>>
  PROVE  Drops(Head(raw))
<1> DEFINE l == Head(raw)
           w == out \o buf \o batch \o renderq \o Maybe(frow)
           m == Maybe(mrow)
<1>1. l \in Lines /\ l \in Commands /\ w \in Seq(Commands) /\ raw \in Seq(Commands)
      /\ m \in Seq(Commands) /\ Tail(raw) \in Seq(Commands)
  BY PathType, CommandFacts DEF TypeOK
<1>2. Path = w \o raw \o m /\ Path' = w \o Tail(raw) \o m
  BY DEF Path, Maybe
<1> HIDE DEF l, w, m
<1>3. w \o raw \in Seq(Commands) /\ w \o Tail(raw) \in Seq(Commands)
  BY <1>1, ConcatProperties
<1>4. Range(Path) = Range(w) \cup Range(raw) \cup Range(m)
  <2>1. Range(w \o raw \o m) = Range(w \o raw) \cup Range(m)
    BY <1>1, <1>3, RangeConcat, Zenon
  <2>2. Range(w \o raw) = Range(w) \cup Range(raw)
    BY <1>1, RangeConcat, Zenon
  <2> QED
    BY <1>2, <2>1, <2>2, Zenon
<1>5. Range(Path') = Range(w) \cup Range(Tail(raw)) \cup Range(m)
  <2>1. Range(w \o Tail(raw) \o m) = Range(w \o Tail(raw)) \cup Range(m)
    BY <1>1, <1>3, RangeConcat, Zenon
  <2>2. Range(w \o Tail(raw)) = Range(w) \cup Range(Tail(raw))
    BY <1>1, RangeConcat, Zenon
  <2> QED
    BY <1>2, <2>1, <2>2, Zenon
<1>6. Range(raw) = {l} \cup Range(Tail(raw))
  BY <1>1, RangeTail DEF l
\* The lines of a sorted path are distinct, so that no other part holds this one.
<1>7. l \notin Range(Path')
  <2>1. Len(w) \in Nat /\ Len(raw) \in Nat /\ Len(m) \in Nat /\ Len(raw) > 0
    BY <1>1
  <2>2. /\ DOMAIN Path = 1..(Len(w) + Len(raw) + Len(m))
        /\ \A i \in 1..Len(w) : Path[i] = w[i]
        /\ \A i \in 1..Len(raw) : Path[Len(w) + i] = raw[i]
        /\ \A i \in 1..Len(m) : Path[Len(w) + Len(raw) + i] = m[i]
    <3>1. /\ Len(w \o raw) = Len(w) + Len(raw)
          /\ \A i \in 1..(Len(w) + Len(raw)) :
               (w \o raw)[i] = IF i <= Len(w) THEN w[i] ELSE raw[i - Len(w)]
      BY <1>1, ConcatProperties
    <3>2. /\ Path \in Seq(Commands) /\ Len(Path) = Len(w \o raw) + Len(m)
          /\ \A i \in 1..(Len(w \o raw) + Len(m)) :
               Path[i] = IF i <= Len(w \o raw) THEN (w \o raw)[i] ELSE m[i - Len(w \o raw)]
      BY <1>1, <1>2, <1>3, ConcatProperties
    <3>3. DOMAIN Path = 1..(Len(w) + Len(raw) + Len(m))
      BY <2>1, <3>1, <3>2
    <3>4. \A i \in 1..Len(w) : Path[i] = w[i]
      BY <2>1, <3>1, <3>2
    <3>5. \A i \in 1..Len(raw) : Path[Len(w) + i] = raw[i]
      BY <2>1, <3>1, <3>2
    <3>6. \A i \in 1..Len(m) : Path[Len(w) + Len(raw) + i] = m[i]
      BY <2>1, <3>1, <3>2
    <3> QED
      BY <3>3, <3>4, <3>5, <3>6
  <2>3. Path[Len(w) + 1] = l /\ Len(w) + 1 \in DOMAIN Path
    BY <1>1, <2>1, <2>2 DEF l
  <2>4. \A i \in DOMAIN Path : i # Len(w) + 1 => Path[i] # l
    <3> SUFFICES ASSUME NEW i \in DOMAIN Path, i # Len(w) + 1, Path[i] = l PROVE FALSE
      OBVIOUS
    <3>1. l[2] \in Nat /\ ~(l[2] < l[2])
      BY <1>1, LineBounds DEF Lines
    <3>2. i < Len(w) + 1 \/ Len(w) + 1 < i
      BY <2>1, <2>2
    <3>3. Sorted(Path)
      BY DEF OrderInv
    <3> QED
      BY <1>1, <2>3, <3>1, <3>2, <3>3 DEF Sorted
  <2>5. l \notin Range(w)
    <3> SUFFICES ASSUME NEW i \in 1..Len(w), w[i] = l PROVE FALSE
      BY <1>1 DEF Range
    <3> QED
      BY <2>1, <2>2, <2>4
  <2>6. l \notin Range(Tail(raw))
    <3> SUFFICES ASSUME NEW i \in 1..(Len(raw) - 1), Tail(raw)[i] = l PROVE FALSE
      BY <1>1 DEF Range
    <3>1. i + 1 \in 1..Len(raw) /\ raw[i + 1] = l
      BY <1>1, <2>1
    <3>2. Len(w) + (i + 1) \in DOMAIN Path /\ Len(w) + (i + 1) # Len(w) + 1
      BY <2>1, <2>2
    <3> QED
      BY <2>2, <2>4, <3>1, <3>2
  <2>7. l \notin Range(m)
    <3> SUFFICES ASSUME NEW i \in 1..Len(m), m[i] = l PROVE FALSE
      BY <1>1 DEF Range
    <3>1. Len(w) + Len(raw) + i \in DOMAIN Path /\ Len(w) + Len(raw) + i # Len(w) + 1
      BY <2>1, <2>2
    <3> QED
      BY <2>2, <2>4, <3>1
  <2> QED
    BY <1>5, <2>5, <2>6, <2>7
<1> QED
  BY <1>1, <1>4, <1>5, <1>6, <1>7 DEF Drops, OnPath, l
\* Every step but the reading of a row, while the path is alive.
LEMMA PathKeeps ==
  ASSUME TypeOK, TypeOK', HandsInv, EndInv, OrderInv, [Next]_vars, PathAlive',
         \A s \in Sources : ~MuxRow(s)
  PROVE  /\ produced' = produced /\ muxDropped' = muxDropped
         /\ \/ OnPath' = OnPath /\ dropped' = dropped
            \/ \E l \in Hidden \cup Failing : Drops(l) /\ dropped' = dropped
            \/ \E l \in Lines : Drops(l) /\ Lossy /\ dropped' = dropped + 1
<1> DEFINE Keeps == /\ produced' = produced /\ muxDropped' = muxDropped
                    /\ OnPath' = OnPath /\ dropped' = dropped
<1>a. PathAlive
  BY AliveBefore
<1>b. ~cancelled /\ ~cancelled' /\ fpc' # "panicked" /\ rpc' # "failed" /\ ~RenderStopped /\ rpc # "final"
  BY <1>a DEF PathAlive, RenderStopped, EndInv
<1>c. fpc # "panicked" /\ fpc = "stopped" => mpc = "stopped"
  BY <1>a DEF EndInv, PathAlive
<1>1. CASE MuxClosed
  <2>1. Path' = Path
    BY <1>1 DEF MuxClosed, MuxExit, HandsInv, Path, Maybe
  <2> QED
    BY <1>1, <2>1 DEF MuxClosed, MuxExit, OnPath
<1>2. CASE MuxSend
  <2>1. ~ForwardStopped
    BY <1>2, <1>a, <1>c DEF MuxSend, ForwardStopped, PathAlive
  <2>2. raw' = Append(raw, mrow) /\ mrow' = None /\ mrow \in Lines
    BY <1>2, <2>1 DEF MuxSend, HandsInv, TypeOK
  <2>3. Path' = Path
    BY <1>2, <2>2, MuxSendMoves DEF MuxSend
  <2> QED
    BY <1>2, <2>1, <2>3 DEF MuxSend, OnPath
<1>3. ASSUME NEW s \in Sources, StreamEnds(s) PROVE Keeps
  BY <1>3 DEF StreamEnds, OnPath, Path, Maybe
<1>4. CASE Pull
  <2>1. frow = None /\ raw # <<>> /\ UNCHANGED <<mrow, render, produced, muxDropped>>
    BY <1>4 DEF Pull, NextPolled, HandsInv
  <2>2. Head(raw) \in Lines
    BY <2>1 DEF TypeOK
  <2>3. CASE Head(raw) \in Failing \cup Hidden
    <3>1. raw' = Tail(raw) /\ UNCHANGED <<frow, renderq, dropped>>
      BY <1>4, <2>3 DEF Pull
    <3>2. Drops(Head(raw))
      BY <2>1, <3>1, HeadTaken
    <3> QED
      BY <2>1, <2>3, <3>1, <3>2
  <2>4. CASE Head(raw) \notin Failing \cup Hidden
    <3>1. Deliver(Head(raw))
      BY <1>4, <2>4 DEF Pull
    <3>2. CASE ~Lossy
      <4>1. frow' = Head(raw) /\ raw' = Tail(raw) /\ UNCHANGED <<dropped, renderq>>
        BY <3>1, <3>2 DEF Deliver
      <4>2. Path' = Path
        BY <2>1, <4>1, PullMoves
      <4> QED
        BY <2>1, <4>1, <4>2 DEF OnPath
    <3>3. CASE Lossy /\ Len(renderq) < Capacity
      <4>1. raw' = Tail(raw) /\ Forwarded(Head(raw))
        BY <1>b, <3>1, <3>3 DEF Deliver
      <4>2. Path' = Path
        BY <2>1, <4>1, PullForwards DEF Forwarded
      <4> QED
        BY <2>1, <4>1, <4>2 DEF OnPath, Forwarded
    <3>4. CASE Lossy /\ ~(Len(renderq) < Capacity)
      <4>1. raw' = Tail(raw) /\ dropped' = dropped + 1 /\ UNCHANGED <<frow, renderq>>
        BY <1>b, <3>1, <3>4 DEF Deliver
      <4>2. Drops(Head(raw))
        BY <2>1, <4>1, HeadTaken
      <4> QED
        BY <2>1, <2>2, <3>4, <4>1, <4>2
    <3> QED
      BY <3>2, <3>3, <3>4
  <2> QED
    BY <2>3, <2>4
<1>5. CASE PollPending
  BY <1>5 DEF PollPending, OnPath, Path, Maybe
<1>6. CASE ForwardSend
  <2>1. Forwarded(frow) /\ UNCHANGED raw
    BY <1>6, <1>b DEF ForwardSend
  <2>2. Path' = Path
    BY <1>6, <2>1, ForwardSendMoves DEF ForwardSend
  <2> QED
    BY <1>6, <2>1, <2>2 DEF ForwardSend, Forwarded, OnPath
<1>7. CASE ForwardEnd
  <2>1. frow = None
    BY <1>7 DEF ForwardEnd, NextPolled, HandsInv
  <2>2. Path' = Path
    BY <1>7, <2>1 DEF ForwardEnd, ForwardStop, Path, Maybe
  <2> QED
    BY <1>7, <2>2 DEF ForwardEnd, ForwardStop, OnPath
<1>8. CASE FlushTick
  <2>1. renderq' = Append(renderq, Flush) /\ UNCHANGED <<out, buf, batch, frow, raw, mrow>>
    BY <1>8 DEF FlushTick
  <2>2. Range(renderq') = Range(renderq) \cup {Flush}
    BY <2>1, PathType, CommandFacts, RangeAppend
  <2>3. Range(Path') = Range(out') \cup Range(buf') \cup Range(batch') \cup Range(renderq')
                       \cup Range(Maybe(frow')) \cup Range(raw') \cup Range(Maybe(mrow'))
    BY RangePathNext DEF Parts, Maybe, Range
  <2>4. Range(Path') = Range(Path) \cup {Flush}
    BY <2>1, <2>2, <2>3, RangePath DEF Parts
  <2> QED
    BY <1>8, <2>4, CommandFacts DEF FlushTick, OnPath
<1>9. CASE RenderRecv
  <2>1. Path' = Path
    BY <1>9, RenderRecvMoves
  <2> QED
    BY <1>9, <2>1 DEF RenderRecv, OnPath
<1>10. CASE RenderClosed
  BY <1>10 DEF RenderClosed, OnPath, Path, Maybe
<1>11. CASE RenderCmd
  <2>1. CASE batch = <<>>
    BY <1>11, <2>1 DEF RenderCmd, OnPath, Path, Maybe
  <2>2. CASE batch # <<>> /\ Head(batch) \in Lines
    <3>1. Path' = Path
      BY <1>11, <2>2, RenderCmdMoves
    <3> QED
      BY <1>11, <3>1 DEF RenderCmd, OnPath
  <2>3. CASE batch # <<>> /\ Head(batch) \notin Lines
    <3>1. batch' = Tail(batch) /\ UNCHANGED <<out, buf, renderq, frow, raw, mrow>>
      BY <1>11, <2>3 DEF RenderCmd
    <3>2. Range(batch) = {Head(batch)} \cup Range(batch')
      BY <2>3, <3>1, PathType, RangeTail
    <3>3. Range(Path') = Range(out') \cup Range(buf') \cup Range(batch') \cup Range(renderq')
                         \cup Range(Maybe(frow')) \cup Range(raw') \cup Range(Maybe(mrow'))
      BY RangePathNext DEF Parts, Maybe, Range
    <3>4. Range(Path) = Range(Path') \cup {Head(batch)}
      BY <3>1, <3>2, <3>3, RangePath DEF Parts
    <3> QED
      BY <1>11, <2>3, <3>4 DEF RenderCmd, OnPath
  <2> QED
    BY <2>1, <2>2, <2>3
<1>12. CASE Write
  <2>1. Path' = Path
    BY <1>12, WriteMoves
  <2> QED
    BY <1>12, <2>1 DEF Write, OnPath
<1>13. CASE Flushed
  BY <1>b, <1>13 DEF Flushed, OnPath, Path, Maybe
<1>14. CASE UNCHANGED vars
  BY <1>14 DEF OnPath, Path, Maybe
\* The other steps need a cancelled root, or break the path.
<1>15. ~(MuxCancelled \/ ForwardCancelled \/ TickerStop \/ SendShutdown \/ DropRenderTx \/ Abort)
  BY <1>b DEF MuxCancelled, ForwardCancelled, TickerStop, SendShutdown, DropRenderTx, Abort,
     AbortMux, AbortForward, AbortRender
<1>16. ~(CancelRoot \/ ForwardPanic \/ RenderFail)
  BY <1>b DEF CancelRoot, ForwardPanic, ForwardStop, RenderFail, RenderGone
<1> QED
  BY <1>1, <1>2, <1>3, <1>4, <1>5, <1>6, <1>7, <1>8, <1>9, <1>10, <1>11, <1>12, <1>13, <1>14,
     <1>15, <1>16
     DEF Next, MuxStep, ForwardStep, RenderStep, Fault

\* Reading a row, while the path is alive: it joins the path, or --lossy counts it.
LEMMA NewRowKept ==
  ASSUME TypeOK, TypeOK', HandsInv, EndInv, NEW s \in Sources, MuxRow(s), PathAlive'
  PROVE  LET row == <<s, produced[s] + 1>> IN
           /\ row \in Lines /\ row \notin Produced /\ Produced' = Produced \cup {row}
           /\ dropped' = dropped
           /\ \/ OnPath' = OnPath \cup {row} /\ muxDropped' = muxDropped
              \/ OnPath' = OnPath /\ Lossy /\ muxDropped' = muxDropped + 1
<1> DEFINE row == <<s, produced[s] + 1>>
<1>1. row \in Lines /\ row \notin Produced /\ Produced' = Produced \cup {row}
  BY RowIsNew
<1>2. ~ForwardStopped /\ mpc = "select" /\ mrow = None /\ dropped' = dropped
  <2>1. PathAlive
    BY AliveBefore DEF Next, MuxStep
  <2> QED
    BY <2>1 DEF MuxRow, EndInv, PathAlive, HandsInv, ForwardStopped
<1>3. \/ mrow' = row /\ muxDropped' = muxDropped
      \/ raw' = Append(raw, row) /\ muxDropped' = muxDropped
      \/ mrow' = None /\ raw' = raw /\ Lossy /\ muxDropped' = muxDropped + 1
  BY <1>2 DEF MuxRow
<1>4. \/ mrow' = row /\ raw' = raw /\ Path' = Append(Path, row)
      \/ mrow' = None /\ raw' = raw /\ Path' = Path
      \/ mrow' = None /\ raw' = Append(raw, row) /\ Path' = Append(Path, row)
  BY NewRowLast
<1>5. row # None /\ Append(raw, row) # raw
  <2>1. raw \in Seq(Commands) /\ row \in Commands
    BY <1>1, PathType, CommandFacts
  <2>2. Len(Append(raw, row)) = Len(raw) + 1 /\ Len(raw) \in Nat
    BY <2>1, AppendProperties
  <2>3. Append(raw, row) # raw
    BY <2>2
  <2> QED
    BY <1>1, <2>3, CommandFacts
<1>6. OnPath' = IF Path' = Append(Path, row) THEN OnPath \cup {row} ELSE Range(Path') \cap Lines
  <2>1. Path \in Seq(Commands) /\ row \in Commands
    BY <1>1, PathType, CommandFacts
  <2>2. Range(Append(Path, row)) = Range(Path) \cup {row}
    BY <2>1, RangeAppend
  <2> QED
    BY <1>1, <2>2 DEF OnPath
<1> HIDE DEF row
<1>7. \/ OnPath' = OnPath \cup {row} /\ muxDropped' = muxDropped
      \/ OnPath' = OnPath /\ Lossy /\ muxDropped' = muxDropped + 1
  BY <1>3, <1>4, <1>5, <1>6 DEF OnPath
<1> QED
  BY <1>1, <1>2, <1>7 DEF row

LEMMA BlockingStep ==
  ASSUME TypeOK, TypeOK', HandsInv, EndInv, OrderInv, BlockingLosesNothing, [Next]_vars
  PROVE  BlockingLosesNothing'
<1> SUFFICES ASSUME ~Lossy, PathAlive' PROVE Visible' \subseteq Range(Path)'
  BY DEF BlockingLosesNothing
<1>1. Visible \subseteq OnPath
  BY AliveBefore DEF BlockingLosesNothing, Visible, Produced, OnPath
<1>2. CASE \A s \in Sources : ~MuxRow(s)
  <2>1. /\ produced' = produced
        /\ OnPath' = OnPath \/ \E l \in Hidden \cup Failing : OnPath' = OnPath \ {l}
    BY <1>2, PathKeeps DEF Drops
  <2>2. Visible' = Visible
    BY <2>1 DEF Visible, Produced
  <2>3. Visible \subseteq OnPath'
    BY <1>1, <2>1 DEF Visible
  <2> QED
    BY <2>2, <2>3 DEF OnPath
<1>3. ASSUME NEW s \in Sources, MuxRow(s) PROVE Visible' \subseteq Range(Path)'
  <2>1. OnPath' = OnPath \cup {<<s, produced[s] + 1>>} /\ Produced' = Produced \cup {<<s, produced[s] + 1>>}
    BY <1>3, NewRowKept
  <2>2. Visible' \subseteq OnPath'
    BY <1>1, <2>1 DEF Visible
  <2> QED
    BY <2>2 DEF OnPath
<1> QED
  BY <1>2, <1>3

\* What waits for the pipeline and its exit watch.
Unseen == Range(raw) \cup {mrow}

LEMMA ExitOnStep ==
  ASSUME TypeOK, TypeOK', HandsInv, EndInv, ExitOnSeesEveryLine, [Next]_vars
  PROVE  ExitOnSeesEveryLine'
<1> SUFFICES ASSUME ~Lossy, PathAlive', NEW l \in Produced' \cap Trigger, ~triggered'
             PROVE  l \in Unseen'
  BY DEF ExitOnSeesEveryLine, Unseen
<1>a. PathAlive
  BY AliveBefore
<1>b. ~cancelled /\ ~cancelled' /\ fpc' # "panicked" /\ rpc' # "failed" /\ ~RenderStopped
  BY <1>a DEF PathAlive, RenderStopped, EndInv
<1>c. l \in Lines /\ l # None
  BY CommandFacts DEF Produced
<1>d. l \in Produced /\ ~triggered => l \in Unseen
  BY <1>a DEF ExitOnSeesEveryLine, Unseen
<1>1. ASSUME NEW s \in Sources, MuxRow(s) PROVE l \in Unseen'
  <2>1. l \in Produced \/ l = <<s, produced[s] + 1>>
    <3>1. Produced' = Produced \cup {<<s, produced[s] + 1>>}
      BY <1>1, NewRowKept
    <3> QED
      BY <3>1
  <2>2. mrow = None /\ mrow' = <<s, produced[s] + 1>> /\ raw' = raw /\ triggered' = triggered
    BY <1>1 DEF MuxRow, HandsInv
  <2> QED
    BY <1>c, <1>d, <2>1, <2>2 DEF Unseen
<1>2. CASE MuxSend
  <2>1. ~ForwardStopped
    BY <1>2, <1>a DEF MuxSend, ForwardStopped, PathAlive, EndInv
  <2>2. raw' = Append(raw, mrow) /\ mrow \in Lines /\ UNCHANGED <<produced, triggered>>
    BY <1>2, <2>1 DEF MuxSend, HandsInv, TypeOK
  <2>3. Range(raw') = Range(raw) \cup {mrow}
    BY <2>2, RangeAppend, PathType, CommandFacts
  <2> QED
    BY <1>d, <2>2, <2>3 DEF Unseen, Produced
<1>3. CASE Pull
  <2>1. raw # <<>> /\ Range(raw) = {Head(raw)} \cup Range(Tail(raw)) /\ UNCHANGED <<produced, mrow>>
    BY <1>3, RangeTail, PathType DEF Pull
  <2>2. triggered' = (triggered \/ Head(raw) \in Trigger)
    BY <1>3 DEF Pull
  <2>3. raw' = Tail(raw)
    BY <1>3 DEF Pull, Deliver
  <2>4. l # Head(raw) /\ ~triggered
    BY <2>2
  <2> QED
    BY <1>d, <2>1, <2>3, <2>4 DEF Unseen, Produced
<1>4. CASE ForwardEnd
  BY <1>4, <1>d DEF ForwardEnd, ForwardStop, Unseen, Produced
<1>5. CASE ForwardSend
  BY <1>5, <1>b, <1>d DEF ForwardSend, Unseen, Produced
<1>6. CASE MuxClosed
  BY <1>6, <1>d DEF MuxClosed, MuxExit, HandsInv, Unseen, Produced
<1>7. ASSUME NEW s \in Sources, StreamEnds(s) PROVE l \in Unseen'
  BY <1>7, <1>d DEF StreamEnds, Unseen, Produced
<1>8. CASE PollPending
  BY <1>8, <1>d DEF PollPending, Unseen, Produced
<1>9. CASE FlushTick
  BY <1>9, <1>d DEF FlushTick, Unseen, Produced
<1>10. CASE RenderStep
  BY <1>10, <1>d DEF RenderStep, RenderRecv, RenderClosed, RenderCmd, Write, Flushed, Unseen, Produced
<1>11. CASE UNCHANGED vars
  BY <1>11, <1>d DEF Unseen, Produced
<1>12. ~(MuxCancelled \/ ForwardCancelled \/ TickerStop \/ SendShutdown \/ DropRenderTx \/ Abort)
  BY <1>b DEF MuxCancelled, ForwardCancelled, TickerStop, SendShutdown, DropRenderTx, Abort,
     AbortMux, AbortForward, AbortRender
<1>13. ~(CancelRoot \/ ForwardPanic \/ RenderFail)
  BY <1>b DEF CancelRoot, ForwardPanic, ForwardStop, RenderFail, RenderGone
<1> QED
  BY <1>1, <1>2, <1>3, <1>4, <1>5, <1>6, <1>7, <1>8, <1>9, <1>10, <1>11, <1>12, <1>13
     DEF Next, MuxStep, ForwardStep, Fault

(***************************************************************************)
(* The theorems.                                                           *)
(***************************************************************************)
IInv ==
  /\ TypeOK /\ HandsInv /\ EndInv /\ OrderInv
  /\ BlockingLosesNothing /\ ExitOnSeesEveryLine

LEMMA InitInv == Init => IInv
<1> SUFFICES ASSUME Init PROVE IInv
  OBVIOUS
<1>1. <<>> \in Seq(Lines) /\ <<>> \in Seq(Commands) /\ Len(<<>>) = 0 /\ Capacity \in Nat
      /\ Batch \in Nat /\ MaxLines \in Nat
  BY CapacityPositive, LineBounds
<1>2. TypeOK
  <2>1. produced \in [Sources -> 0..MaxLines]
    BY <1>1 DEF Init
  <2>2. Len(raw) <= Capacity /\ Len(renderq) <= Capacity /\ Len(batch) <= Batch
    BY <1>1, CapacityPositive DEF Init
  <2> QED
    BY <1>1, <2>1, <2>2 DEF TypeOK, Init
<1>3. HandsInv /\ EndInv
  BY DEF Init, HandsInv, EndInv, PathAlive
<1>4. Path = <<>>
  <2>1. Maybe(frow) = <<>> /\ Maybe(mrow) = <<>>
    BY DEF Init, Maybe
  <2>2. <<>> \o <<>> = <<>>
    BY <1>1, ConcatEmptySeq
  <2> QED
    BY <2>1, <2>2 DEF Path, Init
<1>5. OrderInv
  BY <1>4 DEF OrderInv, Sorted
<1>6. Produced = {}
  BY LineBounds DEF Produced, Init, Lines, Source
<1> QED
  BY <1>2, <1>3, <1>5, <1>6 DEF IInv, BlockingLosesNothing, ExitOnSeesEveryLine, Visible

LEMMA StepInv == IInv /\ [Next]_vars => IInv'
<1> SUFFICES ASSUME IInv, [Next]_vars PROVE IInv'
  OBVIOUS
<1>1. TypeOK' /\ HandsInv' /\ EndInv'
  BY TypeStep, HandsStep, EndStep DEF IInv
<1>2. OrderInv'
  BY <1>1, OrderStep DEF IInv
<1>3. BlockingLosesNothing'
  BY <1>1, BlockingStep DEF IInv
<1>4. ExitOnSeesEveryLine'
  BY <1>1, ExitOnStep DEF IInv
<1> QED
  BY <1>1, <1>2, <1>3, <1>4 DEF IInv

LEMMA Invariance == Spec => []IInv
  BY InitInv, StepInv, PTL DEF Spec

\* The types of LineFlow's variables, and the bounds of both channels and of the batch.
THEOREM TypeCorrect == Spec => []TypeOK
<1>1. IInv => TypeOK
  BY DEF IInv
<1> QED
  BY <1>1, Invariance, PTL

\* Between the mux and stdout no line overtakes or repeats another one of its source.
THEOREM NeverReordered == Spec => []InOrder
<1>1. IInv => InOrder
  BY DEF IInv, OrderInv, Sorted, InOrder
<1> QED
  BY <1>1, Invariance, PTL

\* Without --lossy the bounded channels make tasks wait and lose no line.
THEOREM BackpressureKeeps == Spec => []BlockingLosesNothing
<1>1. IInv => BlockingLosesNothing
  BY DEF IInv
<1> QED
  BY <1>1, Invariance, PTL

\* Without --lossy no line escapes the exit watch, hidden or not.
THEOREM ExitOnSees == Spec => []ExitOnSeesEveryLine
<1>1. IInv => ExitOnSeesEveryLine
  BY DEF IInv
<1> QED
  BY <1>1, Invariance, PTL

(***************************************************************************)
(* LineFlow implements OrderedDelivery: reading a row is Produce, a line   *)
(* that stdout accepts is WriteLine, and every other step stutters.        *)
(***************************************************************************)
LEMMA ConcatPrefix ==
  ASSUME NEW p \in Seq(Commands), NEW q \in Seq(Commands)
  PROVE  \A i \in DOMAIN p : i \in DOMAIN (p \o q) /\ (p \o q)[i] = p[i]
  BY ConcatProperties

LEMMA PathPrefix ==
  ASSUME TypeOK
  PROVE  \A i \in DOMAIN (out \o buf) : i \in DOMAIN Path /\ Path[i] = (out \o buf)[i]
<1>1. \A i \in DOMAIN (out \o buf) :
        i \in DOMAIN (out \o buf \o batch) /\ (out \o buf \o batch)[i] = (out \o buf)[i]
  BY PathType, ConcatPrefix, Zenon
<1>2. \A i \in DOMAIN (out \o buf \o batch) :
        /\ i \in DOMAIN (out \o buf \o batch \o renderq)
        /\ (out \o buf \o batch \o renderq)[i] = (out \o buf \o batch)[i]
  BY PathType, ConcatPrefix, Zenon
<1>3. \A i \in DOMAIN (out \o buf \o batch \o renderq) :
        /\ i \in DOMAIN (out \o buf \o batch \o renderq \o Maybe(frow))
        /\ (out \o buf \o batch \o renderq \o Maybe(frow))[i] = (out \o buf \o batch \o renderq)[i]
  BY PathType, ConcatPrefix, Zenon
<1>4. \A i \in DOMAIN (out \o buf \o batch \o renderq \o Maybe(frow)) :
        /\ i \in DOMAIN (out \o buf \o batch \o renderq \o Maybe(frow) \o raw)
        /\ (out \o buf \o batch \o renderq \o Maybe(frow) \o raw)[i]
             = (out \o buf \o batch \o renderq \o Maybe(frow))[i]
  BY PathType, ConcatPrefix, Zenon
<1>5. \A i \in DOMAIN (out \o buf \o batch \o renderq \o Maybe(frow) \o raw) :
        /\ i \in DOMAIN Path
        /\ Path[i] = (out \o buf \o batch \o renderq \o Maybe(frow) \o raw)[i]
  BY PathType, ConcatPrefix, Zenon DEF Path
<1> QED
  BY <1>1, <1>2, <1>3, <1>4, <1>5, Zenon

LEMMA WriteDelivers ==
  ASSUME IInv, Write
  PROVE  \E s \in Sources : \E n \in 1..MaxLines : Delivery!WriteLine(s, n)
<1>1. TypeOK /\ OrderInv /\ buf # <<>> /\ Head(buf) \in Lines
      /\ out' = Append(out, Head(buf)) /\ produced' = produced
  BY DEF IInv, Write, TypeOK
<1>2. PICK s \in Sources, n \in 1..MaxLines : Head(buf) = <<s, n>>
  BY <1>1 DEF Lines
<1>3. /\ out \in Seq(Lines) /\ out \in Seq(Commands) /\ buf \in Seq(Commands)
      /\ DOMAIN out = 1..Len(out) /\ Len(out) \in Nat /\ Len(buf) \in Nat /\ Len(buf) > 0
  BY <1>1, PathType DEF TypeOK
<1>4. /\ \A i \in DOMAIN out : i \in DOMAIN Path /\ Path[i] = out[i] /\ i < Len(out) + 1
      /\ Len(out) + 1 \in DOMAIN Path /\ Path[Len(out) + 1] = Head(buf)
  <2>1. /\ \A i \in DOMAIN out : i \in DOMAIN (out \o buf) /\ (out \o buf)[i] = out[i] /\ i < Len(out) + 1
        /\ Len(out) + 1 \in DOMAIN (out \o buf) /\ (out \o buf)[Len(out) + 1] = Head(buf)
    BY <1>3, ConcatProperties
  <2> QED
    BY <1>1, <2>1, PathPrefix
<1>5. n <= produced[s]
  BY <1>1, <1>2, <1>4 DEF OrderInv, Produced, Source
<1>6. ASSUME NEW i \in DOMAIN out, out[i][1] = s PROVE out[i][2] < n
  <2>1. Sorted(Path) /\ out[i] \in Lines
    BY <1>1, <1>3 DEF OrderInv
  <2>2. Source(Path[i]) = Source(Path[Len(out) + 1])
    BY <1>2, <1>4, <1>6 DEF Source
  <2>3. Path[i][2] < Path[Len(out) + 1][2]
    BY <1>1, <1>4, <2>1, <2>2 DEF Sorted
  <2> QED
    BY <1>2, <1>4, <2>3
<1> QED
  BY <1>1, <1>2, <1>5, <1>6 DEF Delivery!WriteLine

\* Whatever the path does, a reader of stdout sees ordered delivery.
THEOREM Implements == Spec => Delivered
<1>1. Init => Delivery!Init
  BY DEF Init, Delivery!Init
<1>2. IInv /\ [Next]_vars => [Delivery!Next]_<<produced, out>>
  <2> SUFFICES ASSUME IInv, [Next]_vars PROVE [Delivery!Next]_<<produced, out>>
    OBVIOUS
  <2>1. ASSUME NEW s \in Sources, MuxRow(s) PROVE Delivery!Produce(s)
    BY <2>1 DEF MuxRow, Delivery!Produce
  <2>2. CASE Write
    BY <2>2, WriteDelivers DEF Delivery!Next
  <2>3. CASE ~Write /\ \A s \in Sources : ~MuxRow(s)
    BY <2>3 DEF Next, MuxStep, MuxCancelled, MuxClosed, MuxSend, StreamEnds, ForwardStep, Pull,
       PollPending, ForwardSend, ForwardCancelled, ForwardEnd, FlushTick, TickerStop, RenderStep,
       RenderRecv, RenderClosed, RenderCmd, Flushed, Fault, ForwardPanic, RenderFail, RenderGone,
       CancelRoot, SendShutdown, DropRenderTx, Abort, AbortMux, AbortForward, AbortRender
  <2> QED
    BY <2>1, <2>2, <2>3 DEF Delivery!Next
<1> QED
  BY <1>1, <1>2, Invariance, PTL DEF Spec, Delivered, Delivery!Spec
=============================================================================
