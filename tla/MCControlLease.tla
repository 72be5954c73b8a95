--------------------------- MODULE MCControlLease ---------------------------
(* Model-checking instance of ControlLease: model values for the owners.   *)
EXTENDS ControlLease, TLC
=============================================================================
