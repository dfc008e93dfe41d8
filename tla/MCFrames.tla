------------------------------ MODULE MCFrames ------------------------------
(* Three messages, one of them without a body.                             *)
EXTENDS Frames
CONSTANTS m1, m2, m3
MCBodyLen == [m \in Msgs |-> CASE m = m1 -> 1 [] m = m2 -> 0 [] m = m3 -> 2]
=============================================================================
