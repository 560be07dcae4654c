------------------------- MODULE MCCursorReconnect -------------------------
(* A log of three lines, the second one undated.                           *)
EXTENDS CursorReconnect

ThreeLines == <<5, 6, 8>>
AllButSecond == {1, 3}
=============================================================================
