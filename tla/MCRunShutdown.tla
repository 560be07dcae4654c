--------------------------- MODULE MCRunShutdown ---------------------------
(* The lines' kinds, for one or two sources a and b.                       *)
EXTENDS RunShutdown

CONSTANTS a, b

NoLines == {}
SecondOfA == {<<a, 2>>}
ThirdOfA == {<<a, 3>>}
FirstOfA == {<<a, 1>>}
=============================================================================
