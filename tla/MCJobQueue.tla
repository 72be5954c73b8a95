----------------------------- MODULE MCJobQueue -----------------------------
(* Model-checking instance of JobQueue: model values for processes and rows. *)
EXTENDS JobQueue, TLC
=============================================================================
