----------------------------- MODULE MCLineFlow -----------------------------
(* Two sources of two lines each; the lines' kinds are chosen per run.     *)
EXTENDS LineFlow

CONSTANTS a, b

NoLines == {}
HiddenLines == {<<a, 1>>}
TriggerLines == {<<a, 1>>, <<b, 2>>}
FailingLines == {<<b, 1>>}
LastOfB == {<<b, 2>>}
=============================================================================
