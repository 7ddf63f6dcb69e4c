----------------------------- MODULE MCDebugPipe -----------------------------
(* Values for DebugPipe: buffers of two or three items, requests answered   *)
(* by no packet or by one.                                                  *)
EXTENDS DebugPipe

One == 1
Two == 2
UpToOne == 0 .. 1
Three == 3
Four == 4
Six == 6
JustOne == {1}
=============================================================================
