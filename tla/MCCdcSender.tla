----------------------------- MODULE MCCdcSender -----------------------------
(* Model values for CdcSender: a packet is two bytes and the ring buffer    *)
(* three, so that a chunk, a packet and a full buffer cross one another.    *)
EXTENDS CdcSender

TwoBytes == 2
ThreeBytes == 3
FiveBytes == 5
=============================================================================
