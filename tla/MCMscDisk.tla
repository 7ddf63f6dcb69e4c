----------------------------- MODULE MCMscDisk -----------------------------
(* Model values for MscDisk: eight clusters of two sectors of eight bytes;  *)
(* PINOUT.MD is empty, ends with a sector, within one or beyond its cluster. *)
EXTENDS MscDisk

Two == 2
Three == 3
Five == 5
Eight == 8
Pinouts == {0, 8, 11, 20}
=============================================================================
