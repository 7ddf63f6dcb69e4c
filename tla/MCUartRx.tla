------------------------------ MODULE MCUartRx ------------------------------
(* Model values for UartRx: a buffer of four bytes, read by two at a time,  *)
(* and three events in the queue.                                             *)
EXTENDS UartRx

One == 1
Two == 2
Three == 3
Four == 4
Eight == 8
=============================================================================
