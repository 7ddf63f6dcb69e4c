---------------------------- MODULE MCTargetLines ----------------------------
(***************************************************************************)
(* TargetLines with every combination of DTR and RTS.  The model is finite *)
(* as it stands: no bound is needed.                                       *)
(***************************************************************************)
EXTENDS TargetLines

AllLineStates == BOOLEAN \X BOOLEAN
=============================================================================
