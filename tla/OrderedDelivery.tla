-------------------------- MODULE OrderedDelivery --------------------------
(***************************************************************************)
(* What a user may rely on when reading stdout, whatever happens inside:   *)
(* a line is written only after it was read from its stream, and the lines *)
(* of one source are written in order and at most once. Lines may be       *)
(* missing: filtered, dropped by --lossy, or cut off by the end of the run.*)
(***************************************************************************)
EXTENDS Naturals, Sequences

CONSTANTS Sources, MaxLines
VARIABLES produced, written

Init == produced = [s \in Sources |-> 0] /\ written = <<>>

Produce(s) ==
  /\ produced[s] < MaxLines
  /\ produced' = [produced EXCEPT ![s] = @ + 1]
  /\ UNCHANGED written

WriteLine(s, n) ==
  /\ n <= produced[s]
  /\ \A i \in DOMAIN written : written[i][1] = s => written[i][2] < n
  /\ written' = Append(written, <<s, n>>)
  /\ UNCHANGED produced

Next == \E s \in Sources : Produce(s) \/ \E n \in 1..MaxLines : WriteLine(s, n)

Spec == Init /\ [][Next]_<<produced, written>>
=============================================================================
